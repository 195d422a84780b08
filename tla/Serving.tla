------------------------------ MODULE Serving ------------------------------
(***************************************************************************)
(* One WebSocket connection (serving/app.py): a task that receives frames, *)
(* another that runs the queued turns one at a time, the handler that      *)
(* waits for both and then finalizes the conversation; an SSE request; and *)
(* around them the lifespan of the application with the background writes  *)
(* the turns leave behind (agent/loop.py).  What goes on inside a turn or  *)
(* a finalization is in TurnLoop and SessionLifecycle: here they start,    *)
(* end, and are abandoned.                                                 *)
(***************************************************************************)
EXTENDS Naturals, Sequences

CONSTANTS
  Owner, Stranger, \* users that frames name: the conversation's, another
  MaxFrames        \* bound: frames a client sends

ASSUME ServingAssumption == Owner # Stranger /\ MaxFrames \in Nat

VARIABLES
  client,  \* whether the client is "here" or "gone"
  inbox,   \* frames it sent that _receive has not read yet
  frames,  \* how many it sent
  recv,    \* _receive: "reads", "sets" a model, "returned", "raised", "cancelled"
  queue,   \* turn_queue: turns by number, and the sentinel
  taken,   \* turns _receive has put there
  run,     \* _run_turns: "waits", "runs" a turn, "closes" it, "returned"
  ran,     \* the turns that were started
  lastUser,\* last_user_id
  handler, \* "gathers", "ends" the conversation, "over"
  broken,  \* whether the handler was cancelled, or _receive raised
  ending,  \* the turns started when the finalization began
  orphans, \* abandoned turns, whose generators nobody has closed yet
  stream,  \* an SSE request: "none", "streams" its turn, "over"
  server,  \* the lifespan: "up", "sweeper", "drains", "closes", "down"
  writes,  \* background writes under way, by the turn that left them
  awaited  \* those drain waits for

connVars == <<client, inbox, frames, recv, queue, taken, run, ran, lastUser, handler, broken,
              ending>>
appVars == <<orphans, stream, server, writes, awaited>>
servingVars == <<connVars, appVars>>

Sentinel == 0
StreamTurn == 0
Nobody == "nobody"
FrameKinds == {"turn", "approval", "set_model", "malformed"}

-----------------------------------------------------------------------------
(* The client.                                                             *)

Sends(kind, user) ==
  /\ client = "here" /\ frames < MaxFrames
  /\ frames' = frames + 1
  /\ inbox' = Append(inbox, [kind |-> kind, user |-> user])
  /\ UNCHANGED <<client, recv, queue, taken, run, ran, lastUser, handler, broken, ending,
                 appVars>>

Leaves ==
  /\ client = "here"
  /\ client' = "gone"
  /\ UNCHANGED <<inbox, frames, recv, queue, taken, run, ran, lastUser, handler, broken,
                 ending, appVars>>

-----------------------------------------------------------------------------
(* _receive.                                                               *)

\* A turn is queued, an approval answered in place; a model override is awaited,
\* and anything malformed raises.
Receives ==
  /\ recv = "reads" /\ inbox # <<>>
  /\ inbox' = Tail(inbox)
  /\ LET frame == Head(inbox)
     IN  /\ recv' = CASE frame.kind \in {"turn", "approval"} -> "reads"
                      [] frame.kind = "set_model"            -> "sets"
                      [] frame.kind = "malformed"            -> "raised"
         /\ IF frame.kind = "turn"
              THEN /\ lastUser' = frame.user
                   /\ taken' = taken + 1
                   /\ queue' = Append(queue, taken + 1)
              ELSE UNCHANGED <<lastUser, taken, queue>>
  /\ UNCHANGED <<client, frames, run, ran, handler, broken, ending, appVars>>

\* set_conversation_model returns, or raises for a stranger, a store that fails or
\* a service that was given its model.
ModelSet ==
  /\ recv = "sets"
  /\ recv' \in {"reads", "raised"}
  /\ UNCHANGED <<client, inbox, frames, queue, taken, run, ran, lastUser, handler, broken,
                 ending, appVars>>

\* A bug to catch: nobody tells _run_turns that the client has gone.
LeftSilently == UNCHANGED queue

Hangup == queue' = Append(queue, Sentinel)

\* WebSocketDisconnect, after the frames that were sent before.
Disconnected ==
  /\ recv = "reads" /\ inbox = <<>> /\ client = "gone"
  /\ recv' = "returned"
  /\ Hangup
  /\ UNCHANGED <<client, inbox, frames, taken, run, ran, lastUser, handler, broken, ending,
                 appVars>>

-----------------------------------------------------------------------------
(* _run_turns, whether or not the handler still waits for it.              *)

\* A bug to catch: the turns are taken from the wrong end of the queue.
NewestTurn == [turn |-> queue[Len(queue)], rest |-> SubSeq(queue, 1, Len(queue) - 1)]

NextTurn == [turn |-> Head(queue), rest |-> Tail(queue)]

Dequeues ==
  /\ run = "waits" /\ queue # <<>>
  /\ queue' = NextTurn.rest
  /\ IF NextTurn.turn = Sentinel
       THEN run' = "returned" /\ UNCHANGED ran
       ELSE run' = "runs" /\ ran' = Append(ran, NextTurn.turn)
  /\ UNCHANGED <<client, inbox, frames, recv, taken, lastUser, handler, broken, ending,
                 appVars>>

CurrentTurn == ran[Len(ran)]

\* What a turn enqueues starts to run; one that stops before its _persist has
\* enqueued nothing.
Enqueues(n) == writes' \in {writes, writes \cup {n}}

\* A turn is left where it has got to: its generator, with workers and approval
\* requests, stays until the event loop closes it.
Abandons(n) == orphans' = orphans \cup {n} /\ Enqueues(n)

\* The turn completes, fails or is refused; a client that has gone may go unnoticed.
TurnEnds ==
  /\ run = "runs"
  /\ run' = "waits"
  /\ Enqueues(CurrentTurn)
  /\ UNCHANGED <<client, inbox, frames, recv, queue, taken, ran, lastUser, handler, broken,
                 ending, orphans, stream, server, awaited>>

\* A send raises: after WebSocketDisconnect _run_turns returns, after anything else
\* the next turn follows.
SendFails ==
  /\ run = "runs" /\ client = "gone"
  /\ run' \in {"returned", "waits"}
  /\ Abandons(CurrentTurn)
  /\ UNCHANGED <<client, inbox, frames, recv, queue, taken, ran, lastUser, handler, broken,
                 ending, stream, server, awaited>>

\* The task the event loop makes for an abandoned generator tears the turn down;
\* nobody waits for it.
OrphanCloses(n) ==
  /\ n \in orphans
  /\ orphans' = orphans \ {n}
  /\ UNCHANGED <<connVars, stream, server, writes, awaited>>

\* The turn's own teardown, after a cancel.
Closes ==
  /\ run = "closes"
  /\ run' = "returned"
  /\ UNCHANGED <<client, inbox, frames, recv, queue, taken, ran, lastUser, handler, broken,
                 ending, appVars>>

-----------------------------------------------------------------------------
(* The handler.                                                            *)

\* A bug to catch: the first of the two tasks to return ends the conversation.
EitherReturned == recv = "returned" \/ run = "returned"

\* gather has both results.
BothReturned == recv = "returned" /\ run = "returned"

\* Without a turn there is nobody to finalize the conversation for.
Finally == handler' = IF lastUser = Nobody THEN "over" ELSE "ends"

GatherReturns ==
  /\ handler = "gathers" /\ BothReturned
  /\ Finally
  /\ ending' = ran
  /\ UNCHANGED <<client, inbox, frames, recv, queue, taken, run, ran, lastUser, broken,
                 appVars>>

\* gather passes the exception on and leaves the other task alone.
GatherRaises ==
  /\ handler = "gathers" /\ recv = "raised"
  /\ Finally
  /\ broken' = TRUE
  /\ ending' = ran
  /\ UNCHANGED <<client, inbox, frames, recv, queue, taken, run, ran, lastUser, appVars>>

\* The ASGI server cancels the handler, hence both tasks.  A turn that is cancelled in
\* a send is abandoned.
Cancelled ==
  /\ handler = "gathers" /\ client = "gone"
  /\ Finally
  /\ broken' = TRUE
  /\ ending' = ran
  /\ recv' = IF recv \in {"reads", "sets"} THEN "cancelled" ELSE recv
  /\ \/ /\ run' = CASE run = "waits" -> "returned" [] run = "runs" -> "closes" [] OTHER -> run
        /\ UNCHANGED <<writes, orphans>>
     \/ run = "runs" /\ run' = "returned" /\ Abandons(CurrentTurn)
  /\ UNCHANGED <<client, inbox, frames, queue, taken, ran, lastUser, stream, server, awaited>>

\* end_conversation, shielded; for a stranger it does nothing.
ConversationEnds ==
  /\ handler = "ends"
  /\ handler' = "over"
  /\ UNCHANGED <<client, inbox, frames, recv, queue, taken, run, ran, lastUser, broken, ending,
                 appVars>>

-----------------------------------------------------------------------------
(* An SSE request: one turn, whose approvals are denied at once.           *)

StreamStarts ==
  /\ stream = "none" /\ server = "up"
  /\ stream' = "streams"
  /\ UNCHANGED <<connVars, orphans, server, writes, awaited>>

\* The turn ends, or the client has gone and it is abandoned.  No conversation is
\* finalized: that is left to the sweeper.
StreamEnds ==
  /\ stream = "streams"
  /\ stream' = "over"
  /\ Abandons(StreamTurn) \/ (Enqueues(StreamTurn) /\ UNCHANGED orphans)
  /\ UNCHANGED <<connVars, server, awaited>>

-----------------------------------------------------------------------------
(* The lifespan, and AgentService.aclose.                                  *)

WriteEnds(n) ==
  /\ n \in writes
  /\ writes' = writes \ {n}
  /\ awaited' = awaited \ {n}
  /\ UNCHANGED <<connVars, orphans, stream, server>>

\* The ASGI server shuts down once the handlers are over, and the sweeper is
\* cancelled wherever it is.
ShutsDown ==
  /\ server = "up" /\ handler = "over" /\ stream # "streams"
  /\ server' = "sweeper"
  /\ UNCHANGED <<connVars, orphans, stream, writes, awaited>>

\* A bug to catch: the clients are closed without waiting.
DrainsNothing == awaited' = {}

\* drain gathers the writes there are now.
Drain == awaited' = writes

SweeperStopped ==
  /\ server = "sweeper"
  /\ server' = "drains"
  /\ Drain
  /\ UNCHANGED <<connVars, orphans, stream, writes>>

Drained ==
  /\ server = "drains" /\ awaited = {}
  /\ server' = "closes"
  /\ UNCHANGED <<connVars, orphans, stream, writes, awaited>>

\* MCP servers, the clients of the model and the embedder, the HTTP client they
\* share, and telemetry.  No store is closed.
Closed ==
  /\ server = "closes"
  /\ server' = "down"
  /\ UNCHANGED <<connVars, orphans, stream, writes, awaited>>

ServingInit ==
  /\ client = "here" /\ inbox = <<>> /\ frames = 0
  /\ recv = "reads" /\ queue = <<>> /\ taken = 0
  /\ run = "waits" /\ ran = <<>>
  /\ lastUser = Nobody
  /\ handler = "gathers" /\ broken = FALSE /\ ending = <<>>
  /\ orphans = {} /\ stream = "none" /\ server = "up" /\ writes = {} /\ awaited = {}

ServingNext ==
  \/ \E kind \in FrameKinds, user \in {Owner, Stranger} : Sends(kind, user)
  \/ Leaves
  \/ Receives \/ ModelSet \/ Disconnected
  \/ Dequeues \/ TurnEnds \/ SendFails \/ Closes
  \/ GatherReturns \/ GatherRaises \/ Cancelled \/ ConversationEnds
  \/ StreamStarts \/ StreamEnds
  \/ \E n \in 0..MaxFrames : WriteEnds(n) \/ OrphanCloses(n)
  \/ ShutsDown \/ SweeperStopped \/ Drained \/ Closed

\* The event loop runs whatever is ready.  Finalizations, model overrides and
\* background writes end: models and embedders have timeouts, and stores answer.  A
\* turn need not end, as a handler may raise CancelledError (TurnLoop), no client has
\* to send or leave, and no server has to shut down.
ServingFairness ==
  /\ WF_servingVars(Receives) /\ WF_servingVars(ModelSet) /\ WF_servingVars(Disconnected)
  /\ WF_servingVars(Dequeues) /\ WF_servingVars(Closes)
  /\ WF_servingVars(GatherReturns) /\ WF_servingVars(GatherRaises)
  /\ WF_servingVars(ConversationEnds)
  /\ \A n \in 0..MaxFrames : WF_servingVars(WriteEnds(n))
  /\ WF_servingVars(SweeperStopped) /\ WF_servingVars(Drained) /\ WF_servingVars(Closed)

ServingSpec == ServingInit /\ [][ServingNext]_servingVars /\ ServingFairness

-----------------------------------------------------------------------------
(* Properties.                                                             *)

\* The tasks of the connection and of the application are where the code can be.
ServingTypeOK ==
  /\ client \in {"here", "gone"} /\ frames \in 0..MaxFrames
  /\ inbox \in Seq([kind : FrameKinds, user : {Owner, Stranger}])
  /\ recv \in {"reads", "sets", "returned", "raised", "cancelled"}
  /\ queue \in Seq(0..MaxFrames) /\ ran \in Seq(1..MaxFrames) /\ ending \in Seq(1..MaxFrames)
  /\ taken \in 0..MaxFrames
  /\ run \in {"waits", "runs", "closes", "returned"}
  /\ lastUser \in {Owner, Stranger, Nobody}
  /\ handler \in {"gathers", "ends", "over"} /\ broken \in BOOLEAN
  /\ server \in {"up", "sweeper", "drains", "closes", "down"}
  /\ stream \in {"none", "streams", "over"}
  /\ awaited \subseteq writes /\ writes \subseteq 0..MaxFrames
  /\ orphans \subseteq 0..MaxFrames

\* The turns of a connection start in the order of its frames, none of them twice,
\* also those that were queued before a disconnect and run after it (app.py:137-160).
TurnsInOrder == \A i \in 1..Len(ran) : ran[i] = i /\ i <= taken

\* When the client leaves, the conversation is finalized after its last turn
\* (app.py:162-176): once the finalization has begun no turn starts, goes on or
\* persists, unless the handler was cancelled or a frame made _receive raise.  Of an
\* abandoned turn the workers may still be there, until they are cancelled
\* (loop.py:298-308); it persists nothing more.
FinalizedAfterTurns ==
  handler \in {"ends", "over"} /\ ~broken => run = "returned" /\ ran = ending

\* No background write is left when the clients it calls are closed
\* (service.py:217-221): drain has waited for all of them, those of abandoned turns
\* too, unless a broken connection's turns went on.
NothingAfterClose == server \in {"closes", "down"} /\ ~broken => writes = {}

\* A client that leaves does not leave its handler behind (app.py:135,162), waiting
\* for a queue or the other task, but with a turn that never ends.
GoneEnds == client = "gone" ~> (handler = "over" \/ [](run = "runs"))
=============================================================================
