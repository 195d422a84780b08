------------------------------ MODULE TurnLoop ------------------------------
(***************************************************************************)
(* The agent's turn loop (agent/loop.py): run_turn, its concurrent tool    *)
(* workers, the human approval gate in front of a tool, the registry's     *)
(* gates behind it, and the hot-path writes of a turn.                     *)
(*                                                                         *)
(* The code runs on one asyncio event loop, so what runs between two       *)
(* suspension points is one step here.  A worker suspends when it waits    *)
(* for its approval, for the permission store and for the handler; the     *)
(* turn suspends on the model, on the workers' queue, on the client it     *)
(* yields events to and on every append to the session store.  The queue   *)
(* is unbounded, so `await queue.put' never suspends.                      *)
(***************************************************************************)
EXTENDS Naturals, Sequences, SequencesExt

CONSTANTS
  Turns,            \* one run_turn call each
  Convs,            \* conversation ids
  ConvOf,           \* [Turns -> Convs]
  Tools,            \* names a model may call
  Gated,            \* tools whose ToolPolicy.requires_approval is set
  Registered,       \* tools the registry knows (others are hallucinated)
  Limited,          \* tools with a rate_limit_per_minute
  Allowances,       \* tool sets the permission store may hold for the user
  CallIds,          \* call ids a model response may carry
  IdAt,             \* [Turns \X (1..MaxIterations) \X Slots -> CallIds], see IdsByPlace
  MaxCalls,         \* bound: tool calls in one response
  MaxIterations,    \* AgentConfig.max_iterations
  IdsByPlace,       \* environment: the id of a call is the one IdAt gives its place
  Answering,        \* environment: conversations whose clients send approvals
  HandlerMayCancel, \* environment: a handler may raise CancelledError
  StoreMayFail,     \* environment: an append to the session store may raise
  MayClose          \* environment: a consumer may close or cancel a turn

ASSUME TurnLoopAssumption ==
  /\ ConvOf \in [Turns -> Convs]
  /\ Gated \subseteq Tools
  /\ Allowances \subseteq SUBSET Tools
  /\ MaxCalls \in Nat
  /\ MaxIterations \in Nat
  /\ IdAt \in [Turns \X (1..MaxIterations) \X (1..MaxCalls) -> CallIds]

VARIABLES
  phase,    \* where each run_turn is
  iter,     \* iterations begun
  calls,    \* the tool calls of the iteration in progress
  worker,   \* state of the worker task of each slot (index) of the batch
  fut,      \* the approval future each worker created
  queue,    \* each batch's fan-in queue
  results,  \* the `results' list of _execute_tool_calls
  messages, \* the model's message history, from the first tool call on
  hasText,  \* assistant_texts is nonempty (settled when the turn persists,
            \* which is the only time the code looks at it)
  toolTurns,\* the tool_turns list
  todo,     \* appends _persist has still to make
  stored,   \* what the session store holds, per conversation
  bg,       \* background writes each turn enqueued
  events,   \* history: events yielded since the batch in progress began
  pending,  \* Agent._pending_approvals, keyed by call id
  allowed,  \* the user's allowed tools in the permission store
  consent,  \* history: waiting workers whose own client approved their id
  barred    \* history: workers past the gate whose tool has not been allowed
            \* at any moment since they got there

batchVars   == <<calls, worker, fut, queue, results>>
persistVars == <<todo, stored, bg>>
vars == <<phase, iter, calls, worker, fut, queue, results, messages, hasText,
          toolTurns, todo, stored, bg, events, pending, allowed,
          consent, barred>>

Slots == 1..MaxCalls
Active(t) == {i \in Slots : i <= Len(calls[t])}

Phases == {"idle", "loop", "fanin", "persist", "recover", "closing",
           "completed", "failed", "closed", "rejected"}
\* "expiring": the timer of wait_for has cancelled the wait, but the task has
\* not run since.  "admitted": the permission store has said yes, but execute
\* has not gone on yet.
WorkerStates == {"none", "created", "waiting", "expiring", "checking",
                 "admitted", "running", "finished", "cancelled"}
Live == {"created", "waiting", "expiring", "checking", "admitted", "running"}
AtGate == {"waiting", "expiring"}
Over == {"completed", "failed", "closed", "rejected"}

\* How a call can end: refused at the approval gate, answered by the registry
\* with an Execution (whether its outcome is ok, an error, a timeout or one of
\* the registry's own refusals), or an exception the worker itself had to catch.
Outcomes == {"refused", "answered", "crashed"}
\* Only an Execution leaves tool turns to persist.
Recorded(o) == o = "answered"

\* A slot of the results list still at None.
Unfilled == [kind |-> "none", slot |-> 0, outcome |-> "none"]

-----------------------------------------------------------------------------
(* What the loop hands to its client and to the session store.             *)

Event(k, i)    == [kind |-> k, slot |-> i]
Done(i, o)     == [kind |-> "done", slot |-> i, outcome |-> o]
Message(t, k, i, o) == [kind |-> k, iter |-> iter[t], slot |-> i, outcome |-> o]
Item(t, k, n, i) == [turn |-> t, kind |-> k, iter |-> n, slot |-> i]

\* The Turns _persist appends, in its order: user, assistant text, tool turns.
PersistItems(t, txt) ==
  <<Item(t, "user", 0, 0)>>
    \o (IF txt THEN <<Item(t, "assistant", 0, 0)>> ELSE <<>>)
    \o toolTurns[t]

\* The background writes _persist enqueues once every append is done.
Enqueued(t) ==
  {"working.rollover"} \cup (IF hasText[t] THEN {"factual.extract"} ELSE {})

\* dict.pop(id, None) and d[id] = entry, on the set that represents the dict.
Pop(id) == {e \in pending : e.id # id}
Put(entry) == Pop(entry.id) \cup {entry}

-----------------------------------------------------------------------------
Init ==
  /\ phase = [t \in Turns |-> "idle"]
  /\ iter = [t \in Turns |-> 0]
  /\ calls = [t \in Turns |-> <<>>]
  /\ worker = [t \in Turns |-> [i \in Slots |-> "none"]]
  /\ fut = [t \in Turns |-> [i \in Slots |-> "none"]]
  /\ queue = [t \in Turns |-> <<>>]
  /\ results = [t \in Turns |-> [i \in Slots |-> Unfilled]]
  /\ messages = [t \in Turns |-> <<>>]
  /\ hasText = [t \in Turns |-> FALSE]
  /\ toolTurns = [t \in Turns |-> <<>>]
  /\ todo = [t \in Turns |-> <<>>]
  /\ stored = [c \in Convs |-> <<>>]
  /\ bg = [t \in Turns |-> {}]
  /\ events = [t \in Turns |-> <<>>]
  /\ pending = {}
  /\ allowed \in Allowances
  /\ consent = {}
  /\ barred = {}

-----------------------------------------------------------------------------
(* run_turn: the model loop.                                               *)

\* The context is built; the loop starts.
StartTurn(t) ==
  /\ phase[t] = "idle"
  /\ phase' = [phase EXCEPT ![t] = "loop"]
  /\ UNCHANGED <<iter, batchVars, messages, hasText, toolTurns, persistVars,
                 events, pending, allowed, consent, barred>>

\* Building the context raises (a foreign conversation, a store failure): this
\* is before the try, so the turn ends without an event and without a write.
RejectTurn(t) ==
  /\ phase[t] = "idle"
  /\ phase' = [phase EXCEPT ![t] = "rejected"]
  /\ UNCHANGED <<iter, batchVars, messages, hasText, toolTurns, persistVars,
                 events, pending, allowed, consent, barred>>

\* The loop is left for _persist; txts says whether responses may have had text.
BeginPersist(t, ph, txts) ==
  /\ phase' = [phase EXCEPT ![t] = ph]
  /\ \E txt \in txts :
       /\ hasText' = [hasText EXCEPT ![t] = txt]
       /\ todo' = [todo EXCEPT ![t] = PersistItems(t, txt)]
  /\ UNCHANGED <<batchVars, messages, toolTurns, stored, bg, events, pending,
                 allowed, consent, barred>>

\* Text of the responses before the one in progress.
EarlierText(t) == {txt \in BOOLEAN : txt => iter[t] > 0}

\* The for loop is exhausted: stop_reason "max_iterations".
HitIterationCap(t) ==
  /\ phase[t] = "loop" /\ iter[t] = MaxIterations
  /\ UNCHANGED iter
  /\ BeginPersist(t, "persist", EarlierText(t))

\* A bug to catch: one iteration too many.
BeginIterationPastCap(t) ==
  /\ phase[t] = "loop" /\ iter[t] <= MaxIterations
  /\ iter' = [iter EXCEPT ![t] = @ + 1]

BeginIteration(t) ==
  /\ phase[t] = "loop" /\ iter[t] < MaxIterations
  /\ iter' = [iter EXCEPT ![t] = @ + 1]

\* An iteration that ends the loop: the deadline, looked at only here, has
\* passed; the stream had no terminal; or the model answered without tool calls.
EndLoop(t) == BeginIteration(t) /\ BeginPersist(t, "persist", BOOLEAN)

\* The model (or the stream) raises: the except clause persists what there is.
ModelFails(t) == BeginIteration(t) /\ BeginPersist(t, "recover", EarlierText(t))

\* The calls of one response.  With IdsByPlace each id is tied to its place in
\* the run: all different, for a model that never uses one twice.
Batches == UNION {[1..n -> [id : CallIds, name : Tools]] : n \in Slots}
LegalIds(t, cs) ==
  IdsByPlace => \A i \in 1..Len(cs) : cs[i].id = IdAt[<<t, iter[t] + 1, i>>]

\* The batch-local variables of _execute_tool_calls: calls cs and their tasks
\* in state s.  No task has run yet when the batch begins, and the variables are
\* gone when it ends.
SetBatch(t, cs, s) ==
  /\ calls' = [calls EXCEPT ![t] = cs]
  /\ worker' = [worker EXCEPT ![t] =
                  [i \in Slots |-> IF i <= Len(cs) THEN s ELSE "none"]]
  /\ fut' = [fut EXCEPT ![t] = [i \in Slots |-> "none"]]
  /\ queue' = [queue EXCEPT ![t] = <<>>]
  /\ results' = [results EXCEPT ![t] = [i \in Slots |-> Unfilled]]
  /\ events' = [events EXCEPT ![t] = <<>>]
  /\ consent' = {w \in consent : w[1] # t}
  /\ barred' = {w \in barred : w[1] # t}

\* The model asks for tools: its message is replayed (slot holds the number of
\* its calls) and one task per call is created.
CallTools(t, cs) ==
  /\ BeginIteration(t)
  /\ LegalIds(t, cs)
  /\ phase' = [phase EXCEPT ![t] = "fanin"]
  /\ SetBatch(t, cs, "created")
  /\ messages' = [messages EXCEPT ![t] =
                    Append(@, [kind |-> "calls", iter |-> iter'[t],
                               slot |-> Len(cs), outcome |-> "none"])]
  /\ UNCHANGED <<hasText, toolTurns, persistVars, pending, allowed>>

ModelCallsTools(t) ==
  \E cs \in Batches : CallTools(t, cs)

-----------------------------------------------------------------------------
(* _execute_tool_calls: the fan-in of the workers' queue.                  *)

\* One item off the queue: a worker's sentinel fills its slot, anything else
\* is yielded to the client.
FanIn(t) ==
  /\ phase[t] = "fanin" /\ queue[t] # <<>>
  /\ queue' = [queue EXCEPT ![t] = Tail(@)]
  /\ LET item == Head(queue[t]) IN
       IF item.kind = "done"
         THEN /\ results' = [results EXCEPT ![t][item.slot] = item]
              /\ UNCHANGED events
         ELSE /\ events' = [events EXCEPT ![t] = Append(@, item)]
              /\ UNCHANGED results
  /\ UNCHANGED <<phase, iter, calls, worker, fut, messages, hasText, toolTurns,
                 persistVars, pending, allowed, consent, barred>>

\* A bug to catch: the loop over the queue stops one sentinel early.
RemainingButOne(t) ==
  LET open == {i \in Active(t) : results[t][i] = Unfilled}
  IN  IF \E i \in Slots : open = {i} THEN {} ELSE open

\* Slots whose sentinel the fan-in has still to see (`remaining').
Remaining(t) == {i \in Active(t) : results[t][i] = Unfilled}

ResultMessages(t) ==
  [i \in 1..Len(calls[t]) |->
     Message(t, "result", results[t][i].slot, results[t][i].outcome)]

\* A bug to catch: the result turn ahead of its call turn.
ResultTurnsSwapped(t) ==
  FlattenSeq([i \in 1..Len(calls[t]) |->
    IF Recorded(results[t][i].outcome)
      THEN <<Item(t, "tool", iter[t], results[t][i].slot),
             Item(t, "call", iter[t], results[t][i].slot)>>
      ELSE <<>>])

\* The call turn and the result turn of every recorded call, by slot.
ResultTurns(t) ==
  FlattenSeq([i \in 1..Len(calls[t]) |->
    IF Recorded(results[t][i].outcome)
      THEN <<Item(t, "call", iter[t], results[t][i].slot),
             Item(t, "tool", iter[t], results[t][i].slot)>>
      ELSE <<>>])

\* Every sentinel is in and the gather over the tasks returns: append messages
\* and turns in the order of the calls and go round the loop.
CollectBatch(t) ==
  /\ phase[t] = "fanin" /\ Remaining(t) = {}
  /\ \A i \in Active(t) : worker[t][i] \notin Live
  /\ phase' = [phase EXCEPT ![t] = "loop"]
  /\ messages' = [messages EXCEPT ![t] = @ \o ResultMessages(t)]
  /\ toolTurns' = [toolTurns EXCEPT ![t] = @ \o ResultTurns(t)]
  /\ SetBatch(t, <<>>, "none")
  /\ UNCHANGED <<iter, hasText, persistVars, pending, allowed>>

-----------------------------------------------------------------------------
(* _call_worker and the registry behind it.                                *)

WorkerIs(t, i, s) == phase[t] # "closing" /\ i \in Active(t) /\ worker[t][i] = s
SetWorker(t, i, s) == worker' = [worker EXCEPT ![t][i] = s]
Emit(t, items) == queue' = [queue EXCEPT ![t] = @ \o items]
Name(t, i) == calls[t][i].name

\* What a worker step never touches.
WorkerFrame == UNCHANGED <<phase, iter, calls, results, messages, hasText,
                           toolTurns, persistVars, events, consent>>

\* The call is announced and execute asks the permission store.
EnterRegistry(t, i) ==
  /\ SetWorker(t, i, "checking")
  /\ Emit(t, <<Event("started", i)>>)
  /\ barred' = IF Name(t, i) \in allowed THEN barred ELSE barred \cup {<<t, i>>}

\* First run of the task: a gated call registers its future and asks; another
\* call goes on to the registry.
WorkerBegins(t, i) ==
  /\ WorkerIs(t, i, "created")
  /\ IF Name(t, i) \in Gated
       THEN /\ SetWorker(t, i, "waiting")
            /\ fut' = [fut EXCEPT ![t][i] = "unset"]
            /\ pending' = Put([id |-> calls[t][i].id, conv |-> ConvOf[t],
                               turn |-> t, slot |-> i])
            /\ Emit(t, <<Event("approval", i)>>)
            /\ UNCHANGED barred
       ELSE /\ EnterRegistry(t, i)
            /\ UNCHANGED <<fut, pending>>
  /\ UNCHANGED allowed
  /\ WorkerFrame

\* A bug to catch: the entry is left behind when the wait ends.
LeaveGateKeepingEntry(t, i) == UNCHANGED pending

\* The finally clause around wait_for: pop(call.id, None), whosever it is.
LeaveGate(t, i) == pending' = Pop(calls[t][i].id)

\* The future was set to True: the finally clause drops the entry and the call
\* goes on to the registry.
WorkerApproved(t, i) ==
  /\ WorkerIs(t, i, "waiting") /\ fut[t][i] = "yes"
  /\ LeaveGate(t, i)
  /\ EnterRegistry(t, i)
  /\ UNCHANGED <<fut, allowed>>
  /\ WorkerFrame

\* A bug to catch: the sentinel ahead of the result the client should see.
FinishSwapped(t, i, o) ==
  /\ SetWorker(t, i, "finished")
  /\ Emit(t, <<Done(i, o), Event("result", i)>>)

\* The worker's last puts: the result the client sees and the sentinel.
Finish(t, i, o) ==
  /\ SetWorker(t, i, "finished")
  /\ Emit(t, <<Event("result", i), Done(i, o)>>)

WorkerDenied(t, i) ==
  /\ WorkerIs(t, i, "waiting") /\ fut[t][i] = "no"
  /\ LeaveGate(t, i)
  /\ Finish(t, i, "refused")
  /\ UNCHANGED <<fut, allowed, barred>>
  /\ WorkerFrame

\* A bug to catch: the gate waits for an answer for ever.
ApprovalNeverTimesOut(t, i) == FALSE

\* A future is cancelled, unless it is done already.
Cancelled(f) == IF f = "unset" THEN "cancelled" ELSE f

\* wait_for's timer cancels the task, and with it the future it waits for; the
\* task itself runs in a later round of the event loop, and until then its
\* entry stays.  The timer may also fire after the answer was set and before
\* the task ran: that answer is lost.
ApprovalTimerFires(t, i) ==
  /\ WorkerIs(t, i, "waiting")
  /\ SetWorker(t, i, "expiring")
  /\ fut' = [fut EXCEPT ![t][i] = Cancelled(@)]
  /\ UNCHANGED <<queue, pending, allowed, barred>>
  /\ WorkerFrame

\* The task runs again: the finally clause drops the entry and the call counts
\* as timed out, whatever its future says.
ApprovalTimesOut(t, i) ==
  /\ WorkerIs(t, i, "expiring")
  /\ LeaveGate(t, i)
  /\ Finish(t, i, "refused")
  /\ UNCHANGED <<fut, allowed, barred>>
  /\ WorkerFrame

\* A bug to catch: the permission taken from the offered definitions, not asked
\* for again.
PermittedIfOffered(n) == n \in Registered

\* The permission store allows the tool now.
Permitted(n) == n \in allowed

\* The permission store has read its row; what it answers is used only when the
\* task runs again.
PermissionRead(t, i) ==
  /\ WorkerIs(t, i, "checking")
  /\ Permitted(Name(t, i))
  /\ SetWorker(t, i, "admitted")
  /\ UNCHANGED <<fut, queue, pending, allowed, barred>>
  /\ WorkerFrame

\* The registry refuses for want of a permission or, once it has that, of the
\* tool or of a token; the permission store may itself raise, which only the
\* worker catches.
RegistryRefuses(t, i) ==
  /\ \/ /\ WorkerIs(t, i, "checking")
        /\ \/ ~Permitted(Name(t, i)) /\ Finish(t, i, "answered")
           \/ Finish(t, i, "crashed")
     \/ /\ WorkerIs(t, i, "admitted")
        /\ Name(t, i) \notin Registered \/ Name(t, i) \in Limited
        /\ Finish(t, i, "answered")
  /\ UNCHANGED <<fut, pending, allowed, barred>>
  /\ WorkerFrame

\* The tool table, the rate limiter and the handler's start follow each other
\* without a suspension point, but not the permission: it may be gone by now.
HandlerStarts(t, i) ==
  /\ WorkerIs(t, i, "admitted")
  /\ Name(t, i) \in Registered
  /\ SetWorker(t, i, "running")
  /\ UNCHANGED <<fut, queue, pending, allowed, barred>>
  /\ WorkerFrame

HandlerEnds(t, i) ==
  /\ WorkerIs(t, i, "running")
  /\ Finish(t, i, "answered")
  /\ UNCHANGED <<fut, pending, allowed, barred>>
  /\ WorkerFrame

\* A CancelledError out of the handler is no Exception: neither the registry
\* nor the worker catches it, and the task ends without a sentinel.
HandlerCancelled(t, i) ==
  /\ HandlerMayCancel
  /\ WorkerIs(t, i, "running")
  /\ SetWorker(t, i, "cancelled")
  /\ UNCHANGED <<fut, queue, pending, allowed, barred>>
  /\ WorkerFrame

-----------------------------------------------------------------------------
(* Clients and operators.                                                  *)

\* A bug to catch: any conversation's answer counts.
AnswersAnyone(e, c) == fut[e.turn][e.slot] = "unset"

\* An answer from conversation c counts for entry e.
Answers(e, c) == e.conv = c /\ fut[e.turn][e.slot] = "unset"

\* resolve_approval(id, ans, conversation_id=c): pop first, compare after.
Resolve(id, ans, c) ==
  /\ \E e \in pending :
       /\ e.id = id
       /\ fut' = IF Answers(e, c)
                   THEN [fut EXCEPT ![e.turn][e.slot] =
                           IF ans THEN "yes" ELSE "no"]
                   ELSE fut
  /\ pending' = Pop(id)
  /\ consent' = IF ans
       THEN consent \cup
              {w \in Turns \X Slots :
                 /\ ConvOf[w[1]] = c /\ w[2] \in Active(w[1])
                 /\ worker[w[1]][w[2]] = "waiting"
                 /\ calls[w[1]][w[2]].id = id}
       ELSE consent
  /\ UNCHANGED <<phase, iter, calls, worker, queue, results, messages, hasText,
                 toolTurns, persistVars, events, allowed, barred>>

ClientAnswers ==
  \E id \in CallIds, ans \in BOOLEAN, c \in Answering : Resolve(id, ans, c)

\* An administrator changes the user's tools while turns run.
ChangePermissions ==
  /\ \E S \in Allowances \ {allowed} : allowed' = S
  /\ barred' = {w \in barred : Name(w[1], w[2]) \notin allowed'}
  /\ UNCHANGED <<phase, iter, batchVars, messages, hasText, toolTurns,
                 persistVars, events, pending, consent>>

-----------------------------------------------------------------------------
(* _persist, on the way out of a turn and again in its except clause.      *)

AppendTurn(t) ==
  /\ phase[t] \in {"persist", "recover"} /\ todo[t] # <<>>
  /\ stored' = [stored EXCEPT ![ConvOf[t]] = Append(@, Head(todo[t]))]
  /\ todo' = [todo EXCEPT ![t] = Tail(@)]
  /\ UNCHANGED <<phase, iter, batchVars, messages, hasText, toolTurns, bg,
                 events, pending, allowed, consent, barred>>

Terminate(t, ph, kind) ==
  /\ phase' = [phase EXCEPT ![t] = ph]
  /\ events' = [events EXCEPT ![t] = Append(@, Event(kind, 0))]

PersistFrame == UNCHANGED <<iter, batchVars, messages, hasText, toolTurns,
                            stored, pending, allowed, consent,
                            barred>>

CompleteTurn(t) ==
  /\ phase[t] = "persist" /\ todo[t] = <<>>
  /\ bg' = [bg EXCEPT ![t] = @ \cup Enqueued(t)]
  /\ Terminate(t, "completed", "complete")
  /\ UNCHANGED todo
  /\ PersistFrame

FailTurn(t) ==
  /\ phase[t] = "recover" /\ todo[t] = <<>>
  /\ bg' = [bg EXCEPT ![t] = @ \cup Enqueued(t)]
  /\ Terminate(t, "failed", "failed")
  /\ UNCHANGED todo
  /\ PersistFrame

\* An append raises.  The first time the except clause starts _persist over,
\* from its first append; the second time it only logs.
AppendFails(t) ==
  /\ StoreMayFail
  /\ todo[t] # <<>>
  /\ \/ /\ phase[t] = "persist"
        /\ phase' = [phase EXCEPT ![t] = "recover"]
        /\ todo' = [todo EXCEPT ![t] = PersistItems(t, hasText[t])]
        /\ UNCHANGED events
     \/ /\ phase[t] = "recover"
        /\ Terminate(t, "failed", "failed")
        /\ UNCHANGED todo
  /\ UNCHANGED bg
  /\ PersistFrame

-----------------------------------------------------------------------------
(* Tearing a turn down: the consumer closes the generator or its task is   *)
(* cancelled.  Neither is an Exception, so nothing is persisted; the       *)
(* finally of _execute_tool_calls cancels the tasks, and with a task the   *)
(* future it waits for, and waits for them.                                *)

CloseTurn(t) ==
  /\ MayClose
  /\ phase[t] \in {"loop", "fanin", "persist", "recover"}
  /\ phase' = [phase EXCEPT ![t] = "closing"]
  /\ fut' = [fut EXCEPT ![t] = [i \in Slots |-> Cancelled(@[i])]]
  /\ UNCHANGED <<iter, calls, worker, queue, results, messages, hasText,
                 toolTurns, persistVars, events, pending, allowed, consent,
                 barred>>

\* A cancelled task runs once more, for its finally clause.  The one around
\* wait_for drops the pending entry; a task that never ran has nothing to undo.
CancelWorker(t, i) ==
  /\ phase[t] = "closing" /\ i \in Active(t) /\ worker[t][i] \in Live
  /\ SetWorker(t, i, "cancelled")
  /\ IF worker[t][i] \in AtGate THEN LeaveGate(t, i) ELSE UNCHANGED pending
  /\ UNCHANGED <<fut, queue, allowed, barred>>
  /\ WorkerFrame

\* A bug to catch: the generator ends without waiting for its tasks.
TurnClosedAtOnce(t) ==
  /\ phase[t] = "closing"
  /\ phase' = [phase EXCEPT ![t] = "closed"]
  /\ UNCHANGED <<iter, batchVars, messages, hasText, toolTurns, persistVars,
                 events, pending, allowed, consent, barred>>

\* The gather over the tasks returns.
TurnClosed(t) ==
  /\ phase[t] = "closing"
  /\ \A i \in Active(t) : worker[t][i] \notin Live
  /\ phase' = [phase EXCEPT ![t] = "closed"]
  /\ UNCHANGED <<iter, batchVars, messages, hasText, toolTurns, persistVars,
                 events, pending, allowed, consent, barred>>

-----------------------------------------------------------------------------
WorkerStep(t, i) ==
  \/ WorkerBegins(t, i)
  \/ WorkerApproved(t, i)
  \/ WorkerDenied(t, i)
  \/ ApprovalTimerFires(t, i)
  \/ ApprovalTimesOut(t, i)
  \/ PermissionRead(t, i)
  \/ RegistryRefuses(t, i)
  \/ HandlerStarts(t, i)
  \/ HandlerEnds(t, i)
  \/ HandlerCancelled(t, i)
  \/ CancelWorker(t, i)

ModelStep(t) ==
  \/ HitIterationCap(t)
  \/ EndLoop(t)
  \/ ModelFails(t)
  \/ ModelCallsTools(t)

PersistStep(t) ==
  \/ AppendTurn(t)
  \/ CompleteTurn(t)
  \/ FailTurn(t)
  \/ AppendFails(t)

TurnStep(t) ==
  \/ StartTurn(t)
  \/ RejectTurn(t)
  \/ ModelStep(t)
  \/ FanIn(t)
  \/ CollectBatch(t)
  \/ PersistStep(t)
  \/ TurnClosed(t)

\* Every turn is over: nothing is left to run.
Finished == (\A t \in Turns : phase[t] \in Over) /\ UNCHANGED vars

Next ==
  \/ \E t \in Turns : TurnStep(t)
  \/ \E t \in Turns, i \in Slots : WorkerStep(t, i)
  \/ \E t \in Turns : CloseTurn(t)
  \/ ClientAnswers
  \/ ChangePermissions
  \/ Finished

Spec == Init /\ [][Next]_vars

\* Every await returns: the model stream and the session store answer or raise,
\* a handler is cut off by per_tool_timeout_s, an approval by
\* approval_timeout_s, and the event loop runs every ready task.  Clients need
\* not answer, close or do anything at all.
FairSpec ==
  /\ Spec
  /\ \A t \in Turns : WF_vars(TurnStep(t))
  /\ \A t \in Turns, i \in Slots : WF_vars(WorkerStep(t, i))

-----------------------------------------------------------------------------
(* Properties.                                                             *)

QueueItems == [kind : {"approval", "started", "result"}, slot : Slots]
                \cup [kind : {"done"}, slot : Slots, outcome : Outcomes]

ResultEntries == {Unfilled} \cup [kind : {"done"}, slot : Slots, outcome : Outcomes]

ControlType ==
  /\ phase \in [Turns -> Phases]
  /\ iter \in [Turns -> 0..MaxIterations]
  /\ hasText \in [Turns -> BOOLEAN]
  /\ bg \in [Turns -> SUBSET {"working.rollover", "factual.extract"}]

BatchType ==
  /\ calls \in [Turns -> Seq([id : CallIds, name : Tools])]
  /\ worker \in [Turns -> [Slots -> WorkerStates]]
  /\ queue \in [Turns -> Seq(QueueItems)]
  /\ results \in [Turns -> [Slots -> ResultEntries]]

GateType ==
  /\ fut \in [Turns -> [Slots -> {"none", "unset", "yes", "no", "cancelled"}]]
  /\ pending \subseteq [id : CallIds, conv : Convs, turn : Turns, slot : Slots]
  /\ allowed \subseteq Tools
  /\ consent \subseteq Turns \X Slots
  /\ barred \subseteq Turns \X Slots

\* Every variable of the loop, its batches and its approval gate keeps its
\* shape; no turn begins more than max_iterations iterations.
TypeOK == ControlType /\ BatchType /\ GateType

\* A gated call gets past the gate (loop.py:204-231) only if, while that very
\* call was waiting, a client of its own conversation approved its id; answers
\* of other conversations, answers that came too late and clobbered ids in
\* _pending_approvals never let a call through.
ConsentBeforeRun ==
  \A t \in Turns : \A i \in Active(t) :
    worker[t][i] \in {"checking", "admitted", "running"} /\ Name(t, i) \in Gated
      => <<t, i>> \in consent

\* _pending_approvals never leaks: an entry is that of a worker of a running turn
\* which has not left its gate, under the id and the conversation of its call.
\* While that worker waits its future can still be answered; between the timer or
\* the teardown that ended the wait and the task's finally clause the future is
\* cancelled, and never answered (loop.py:217-222, 298-308, 359-363).
PendingIsWaiting ==
  \A e \in pending :
    /\ phase[e.turn] \in {"fanin", "closing"}
    /\ e.slot \in Active(e.turn)
    /\ calls[e.turn][e.slot].id = e.id
    /\ e.conv = ConvOf[e.turn]
    /\ worker[e.turn][e.slot] \in AtGate
    /\ fut[e.turn][e.slot] =
         IF phase[e.turn] = "fanin" /\ worker[e.turn][e.slot] = "waiting"
           THEN "unset" ELSE "cancelled"

\* Each message with tool calls is followed by its results, call by call, and no
\* result stands anywhere else.
WellFormed(m) ==
  /\ \A p \in 1..Len(m) : m[p].kind = "calls" =>
       /\ p + m[p].slot <= Len(m)
       /\ \A i \in 1..m[p].slot :
            /\ m[p + i].kind = "result"
            /\ m[p + i].iter = m[p].iter
            /\ m[p + i].slot = i
  /\ \A p \in 1..Len(m) : m[p].kind = "result" =>
       \E q \in 1..(p - 1) : m[q].kind = "calls" /\ p <= q + m[q].slot

\* At every model call the history is one the model API accepts: each message
\* with tool calls is followed by exactly its results, one per call and in the
\* order of the calls whatever order the workers ended in, duplicated ids
\* included (loop.py:274-279, 310-312, 464-473).
HistoryWellFormed ==
  \A t \in Turns : phase[t] \in {"loop", "persist", "recover", "completed"} =>
    WellFormed(messages[t])

\* The order in which the events of one call reach the client.
Rank(k) == CASE k = "approval" -> 1
             [] k = "started"  -> 2
             [] k = "result"   -> 3
             [] OTHER          -> 4

\* The kinds of event a client may see of call i once it is answered.
Courses(t, i) ==
  IF Name(t, i) \in Gated
    THEN {{"approval", "result"}, {"approval", "started", "result"}}
    ELSE {{"started", "result"}}

\* The kinds of event of call i among the items s.
Kinds(s, i) == {s[p].kind : p \in {q \in 1..Len(s) : s[q].slot = i}}

\* What a client sees of one call, in arrival order (events.py): a request for
\* approval comes first, a start is never seen for a refused call, the result
\* is last and comes once, no event comes twice and none is skipped; when the
\* batch ends no call lacks its result, and nothing follows the terminal event.
EventProtocol ==
  \A t \in Turns :
    /\ \A p, q \in 1..Len(events[t]) :
         p < q /\ events[t][p].slot = events[t][q].slot
           => Rank(events[t][p].kind) < Rank(events[t][q].kind)
    /\ \A i \in Active(t) : \E course \in Courses(t, i) :
         LET seen == Kinds(events[t], i)
         IN  /\ seen \subseteq course
             /\ \A k \in seen, j \in course : Rank(j) < Rank(k) => j \in seen
             /\ results[t][i] # Unfilled =>
                  /\ seen = course
                  /\ results[t][i].outcome = "refused" => "started" \notin course
    /\ \A p \in 1..Len(events[t]) :
         events[t][p].kind \in {"complete", "failed"} =>
           p = Len(events[t]) /\ phase[t] \in {"completed", "failed"}

\* When a turn is over, in whatever way, none of its workers is alive and none
\* of its approvals is pending: closing the generator leaves nothing behind
\* (loop.py:298-308).
NoOrphans ==
  \A t \in Turns :
    phase[t] \in Over \/ (phase[t] = "fanin" /\ Remaining(t) = {}) =>
      /\ \A i \in Slots : worker[t][i] \notin Live
      /\ \A e \in pending : e.turn # t

\* The elements of s that are in S, in their order.
Only(s, S) ==
  LET only[n \in 0..Len(s)] ==
        IF n = 0 THEN <<>>
        ELSE IF s[n] \in S THEN Append(only[n - 1], s[n]) ELSE only[n - 1]
  IN  only[Len(s)]

Items(t, kinds) == [turn : {t}, kind : kinds, iter : Nat, slot : Nat]

\* What the session store holds of one turn.
StoredOf(t) == Only(stored[ConvOf[t]], Items(t, {"user", "assistant", "call", "tool"}))

\* The result messages of calls that were executed, in history order.
RecordedResults(t) ==
  Only(messages[t], [kind : {"result"}, iter : Nat, slot : Nat,
                     outcome : {o \in Outcomes : Recorded(o)}])

\* For every recorded result of done its call turn and its result turn in items.
Paired(t, items, done) ==
  /\ Len(items) = 2 * Len(done)
  /\ \A k \in 1..Len(done) :
       /\ items[2 * k - 1] = Item(t, "call", done[k].iter, done[k].slot)
       /\ items[2 * k] = Item(t, "tool", done[k].iter, done[k].slot)

\* A completed turn is in the session store exactly once: the user's turn first,
\* then for every recorded call of the message history, in its order, the call
\* and right behind it its result, however the appends of concurrent turns
\* interleave.  So is a failed turn, unless the store itself failed: then what is
\* there is where a first attempt stopped and, from the user's turn on again, what
\* a second one wrote.  A turn that never got to _persist left nothing
\* (loop.py:171-182, 314-349).
StoredMatchesHistory ==
  \A t \in Turns :
    /\ phase[t] = "completed" \/ (phase[t] = "failed" /\ ~StoreMayFail) =>
         LET tools == Only(StoredOf(t), Items(t, {"call", "tool"}))
         IN  /\ StoredOf(t)[1].kind = "user"
             /\ Len(StoredOf(t)) = 1 + (IF hasText[t] THEN 1 ELSE 0) + Len(tools)
             /\ Paired(t, tools, RecordedResults(t))
             /\ bg[t] = Enqueued(t)
    /\ phase[t] = "failed" =>
         \E k \in 0..Len(StoredOf(t)) :
           /\ IsPrefix(SubSeq(StoredOf(t), 1, k), PersistItems(t, hasText[t]))
           /\ IsPrefix(SubSeq(StoredOf(t), k + 1, Len(StoredOf(t))),
                       PersistItems(t, hasText[t]))
    /\ phase[t] \in {"idle", "loop", "fanin", "rejected"} =>
         StoredOf(t) = <<>> /\ bg[t] = {}

\* A permission revoked before a call came through its gate, and not given back
\* since, is honoured, however long the call waited for its approval: the tool of
\* a call whose handler may start or has started was allowed at some moment after
\* the gate (loop.py:217-236, registry.py:94-99).  A permission revoked later,
\* while the store's answer is on its way, may come too late.
RevocationHonoured ==
  \A t \in Turns : \A i \in Active(t) :
    worker[t][i] \in {"admitted", "running"} => <<t, i>> \notin barred

\* A turn that was started ends, with clients that never answer and with
\* consumers that close it (the hard limits of loop.py:119, 216-223 and
\* registry.py:114).
TurnEnds == \A t \in Turns : phase[t] = "loop" ~> phase[t] \in Over

\* resolve_approval's docstring (loop.py:354-357) has an answer from a different
\* conversation silently ignored: a worker that waits with its future unset can
\* then always still be answered by its own client.
WaitingIsAnswerable ==
  \A t \in Turns : \A i \in Active(t) :
    worker[t][i] = "waiting" /\ fut[t][i] = "unset" =>
      \E e \in pending : e.id = calls[t][i].id /\ e.turn = t /\ e.slot = i
=============================================================================
