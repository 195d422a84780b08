--------------------------- MODULE WorkingMemory ---------------------------
(***************************************************************************)
(* The working memory of one conversation (memory/working.py) over the     *)
(* in-memory session store, which hands out its live SessionState objects: *)
(* a buffer of verbatim turns, and a summary the oldest turns are folded   *)
(* into by background rollovers.  A rollover reads the session, awaits the *)
(* summarizer, and then assigns to the object it read, so turns, evictions *)
(* and other rollovers interleave with it.                                 *)
(***************************************************************************)
EXTENDS Integers, Sequences, FiniteSetsExt

CONSTANTS
  MaxTurns,    \* bound: turns are 1..MaxTurns, in the order they are persisted
  Cost,        \* the estimated tokens of each turn
  Textless,    \* turns without text, e.g. a tool call without comment
  Budget,      \* WorkingMemoryConfig.buffer_token_budget
  MaxBatch,    \* bound: the turns one run_turn persists
  MaxRunning,  \* bound: turns of the conversation running at once
  Rollovers,   \* bound: background rollover tasks at once
  MaxSessions  \* bound: SessionState objects made

TurnIds == 1..MaxTurns

ASSUME WorkingMemoryAssumption ==
  /\ MaxTurns \in Nat /\ MaxBatch \in Nat /\ MaxRunning \in Nat /\ MaxSessions \in Nat
  /\ Cost \in [TurnIds -> Nat] /\ Budget \in Nat
  /\ Textless \subseteq TurnIds

VARIABLES
  state,    \* the SessionState objects: buffer and summary, a set of turns
  made,     \* how many of them have been made
  stored,   \* the one in the session store, 0 for none
  expired,  \* whether its updated_at is more than ttl_s ago
  running,  \* running turns that have loaded the session
  count,    \* turns persisted so far
  task,     \* each rollover: its stage, the session and split it works on, and
            \* whether another rollover has saved that session meanwhile
  said,     \* turns with text persisted since the session was last evicted
  exposed   \* the turns persisted while a summarizer was at work, and those a
            \* rollover was to summarize when another saved the same session

vars == <<state, made, stored, expired, running, count, task, said, exposed>>

Sessions == 1..MaxSessions
State(buffer, summary) == [buffer |-> buffer, summary |-> summary]
Empty == State(<<>>, {})
Task(stage, session, kept, evicted, prior) ==
  [stage |-> stage, session |-> session, kept |-> kept, evicted |-> evicted,
   prior |-> prior, overtaken |-> FALSE]
NoTask == Task("none", 0, <<>>, <<>>, {})
Queued == Task("queued", 0, <<>>, <<>>, {})

Elems(s) == {s[i] : i \in DOMAIN s}
Content(o) == state[o].summary \cup Elems(state[o].buffer)

-----------------------------------------------------------------------------
(* The session store.                                                      *)

\* What load finds: an expired session is evicted.
Found == IF expired THEN 0 ELSE stored

\* load, by a caller that does not make a session when there is none.
Look ==
  /\ stored' = Found
  /\ expired' = FALSE
  /\ said' = IF expired THEN {} ELSE said
  /\ UNCHANGED <<state, made>>

\* load, and an empty session saved when there is none.
LookOrMake ==
  /\ Found = 0 => made < MaxSessions
  /\ IF Found = 0
       THEN /\ made' = made + 1
            /\ state' = [state EXCEPT ![made + 1] = Empty]
            /\ stored' = made + 1
       ELSE /\ stored' = Found
            /\ UNCHANGED <<made, state>>
  /\ expired' = FALSE
  /\ said' = IF expired THEN {} ELSE said

-----------------------------------------------------------------------------
(* Rollover.                                                               *)

\* What the newest k turns of a buffer cost, added from the newest backwards.
Tokens(b, k) ==
  LET used[j \in 0..Len(b)] == IF j = 0 THEN 0 ELSE used[j - 1] + Cost[b[Len(b) - j + 1]]
  IN  used[k]

\* A bug to catch: the budget is tested before the turn's cost is added.
SplitLate(b) ==
  LET n == Len(b)
      from == Min({n + 1} \cup {i \in 1..n : \A j \in i..(n - 1) :
                                             Tokens(b, n - j) < Budget})
  IN  [kept |-> SubSeq(b, from, n), evicted |-> SubSeq(b, 1, from - 1)]

\* _split_for_rollover: from the newest turn backwards, while the budget lasts;
\* the newest turn is kept in any case.
Split(b) ==
  LET n == Len(b)
      from == Min({n + 1} \cup {i \in 1..n : \A j \in i..(n - 1) :
                                             Tokens(b, n - j + 1) <= Budget})
  IN  [kept |-> SubSeq(b, from, n), evicted |-> SubSeq(b, 1, from - 1)]

\* A bug to catch: the summarizer is asked about the kept turns.
FoldedKept(r) == task[r].prior \cup (Elems(task[r].kept) \ Textless)

\* The summary a faithful summarizer returns: what it was told, and the turns
\* of the transcript, which leaves out those without text.
Folded(r) == task[r].prior \cup (Elems(task[r].evicted) \ Textless)

Summarizing == {r \in Rollovers : task[r].stage = "summarizing"}

\* maybe_rollover up to the summarizer: nothing to do without a session, without
\* turns to evict, or without text in them.
RolloverStarts(r) ==
  /\ task[r].stage = "queued"
  /\ Look
  /\ task' = [task EXCEPT ![r] =
       IF Found = 0 THEN NoTask
       ELSE LET split == Split(state[Found].buffer)
            IN  IF Elems(split.evicted) \subseteq Textless THEN NoTask
                ELSE Task("summarizing", Found, split.kept, split.evicted,
                          state[Found].summary)]
  /\ UNCHANGED <<running, count, exposed>>

\* Rollover r assigns the turns it kept and a summary to the object it read,
\* whatever it holds by now, and saves it, whether or not it is still the
\* conversation's.
Saves(r, summary) ==
  LET s == task[r].session
      Overtaken == {q \in Summarizing \ {r} : task[q].session = s}
  IN  /\ state' = [state EXCEPT ![s] = State(task[r].kept, summary)]
      /\ stored' = s
      /\ expired' = FALSE
      /\ exposed' = exposed \cup UNION {Elems(task[q].evicted) \ Textless : q \in Overtaken}
      /\ task' = [q \in Rollovers |->
                   IF q = r THEN NoTask
                   ELSE [task[q] EXCEPT !.overtaken = @ \/ q \in Overtaken]]
      /\ UNCHANGED <<made, running, count, said>>

\* A bug to catch: only the summary is written back.
RolloverWritesSummary(r) ==
  /\ task[r].stage = "summarizing"
  /\ state' = [state EXCEPT ![task[r].session].summary = Folded(r)]
  /\ stored' = task[r].session
  /\ expired' = FALSE
  /\ task' = [task EXCEPT ![r] = NoTask]
  /\ UNCHANGED <<made, running, count, said, exposed>>

\* The summarizer has answered.
RolloverWrites(r) ==
  /\ task[r].stage = "summarizing"
  /\ Saves(r, Folded(r))

\* No usable answer: _summarize returns the summary that was read.  That is
\* compared with the object's present one, which another rollover may have
\* changed, and written if it differs.
RolloverReverts(r) ==
  /\ task[r].stage = "summarizing" /\ task[r].overtaken
  /\ task[r].prior # {}
  /\ Saves(r, task[r].prior)

\* The summarizer raises, which _guard logs, or the summary that comes back is
\* empty or the object's own.
RolloverGivesUp(r) ==
  /\ task[r].stage = "summarizing"
  /\ task' = [task EXCEPT ![r] = NoTask]
  /\ UNCHANGED <<state, made, stored, expired, running, count, said, exposed>>

-----------------------------------------------------------------------------
(* Turns, and everybody else who reads or writes the session.              *)

Init ==
  /\ state = [o \in Sessions |-> Empty]
  /\ made = 0 /\ stored = 0
  /\ expired = FALSE
  /\ running = 0 /\ count = 0
  /\ task = [r \in Rollovers |-> NoTask]
  /\ said = {} /\ exposed = {}

\* ContextBuilder.build loads the session.
TurnLoads ==
  /\ running < MaxRunning
  /\ LookOrMake
  /\ running' = running + 1
  /\ UNCHANGED <<count, task, exposed>>

\* _persist appends the turns, which none of its awaits suspends over this
\* store, and enqueues a rollover.  append_turn looks at no TTL; without a
\* session it raises and the turns are lost.
TurnPersists(r, k) ==
  /\ running > 0 /\ task[r].stage = "none"
  /\ count + k <= MaxTurns
  /\ running' = running - 1
  /\ IF stored = 0
       THEN UNCHANGED <<state, expired, count, task, said, exposed>>
       ELSE LET batch == [i \in 1..k |-> count + i]
                text == Elems(batch) \ Textless
            IN  /\ count' = count + k
                /\ state' = [state EXCEPT ![stored] = State(@.buffer \o batch, @.summary)]
                /\ expired' = FALSE
                /\ said' = said \cup text
                /\ exposed' = IF Summarizing = {} THEN exposed ELSE exposed \cup text
                /\ task' = [task EXCEPT ![r] = Queued]
  /\ UNCHANGED <<made, stored>>

\* A bug to catch: a turn that has ended is torn down once more.
TurnDroppedTwice ==
  /\ running' = running - 1
  /\ UNCHANGED <<state, made, stored, expired, count, task, said, exposed>>

\* The turn ends without _persist: the client has gone.
TurnDropped ==
  /\ running > 0
  /\ running' = running - 1
  /\ UNCHANGED <<state, made, stored, expired, count, task, said, exposed>>

\* set_conversation_model loads, or makes, a session and saves it.
SetModel ==
  /\ LookOrMake
  /\ UNCHANGED <<running, count, task, exposed>>

\* peek and get_model_name evict an expired session as well.
Peek ==
  /\ Look
  /\ UNCHANGED <<running, count, task, exposed>>

\* ttl_s passes without activity.
TtlPasses ==
  /\ stored # 0
  /\ expired' = TRUE
  /\ UNCHANGED <<state, made, stored, running, count, task, said, exposed>>

Next ==
  \/ TurnLoads \/ TurnDropped \/ SetModel \/ Peek \/ TtlPasses
  \/ \E r \in Rollovers : \/ \E k \in 1..MaxBatch : TurnPersists(r, k)
                          \/ RolloverStarts(r)
                          \/ RolloverWrites(r)
                          \/ RolloverReverts(r)
                          \/ RolloverGivesUp(r)

Spec == Init /\ [][Next]_vars

-----------------------------------------------------------------------------
(* Properties.                                                             *)

\* The session objects, the store and the rollover tasks keep their shape.
TypeOK ==
  /\ state \in [Sessions -> [buffer : Seq(TurnIds), summary : SUBSET TurnIds]]
  /\ made \in 0..MaxSessions /\ stored \in 0..made
  /\ expired \in BOOLEAN
  /\ running \in 0..MaxRunning /\ count \in 0..MaxTurns
  /\ task \in [Rollovers -> [stage : {"none", "queued", "summarizing"},
                             session : 0..made,
                             kept : Seq(TurnIds), evicted : Seq(TurnIds),
                             prior : SUBSET TurnIds, overtaken : BOOLEAN]]
  /\ \A r \in Summarizing : task[r].session # 0
  /\ said \subseteq TurnIds /\ exposed \subseteq TurnIds

\* Rollovers, evictions and sessions brought back in any order lose no turn but
\* those persisted while a summarizer was at work, and those one rollover was to
\* summarize when another saved the same session (working.py:105-131, 165-167):
\* every other turn since the last eviction is in the buffer or in the summary.
QuietTurnsKept == stored # 0 => said \ exposed \subseteq Content(stored)

\* "The oldest turns are summarized into the rolling summary and dropped from
\* the buffer" (conversation_flow.md:138): the summary covers only turns older
\* than the buffer's, none twice, and the buffer keeps its order, also where
\* rollovers finish in another order than they started.
SummaryIsOlder ==
  \A o \in Sessions :
    LET b == state[o].buffer
    IN  /\ \A i, j \in DOMAIN b : i < j => b[i] < b[j]
        /\ \A t \in state[o].summary : \A i \in DOMAIN b : t < b[i]

\* Every rollover under way leaves the longest suffix of the buffer it read
\* that fits the budget, or the newest turn alone (working.py:133-144).
KeepsWhatFits ==
  \A r \in Summarizing :
    LET b == task[r].evicted \o task[r].kept
        Fits(k) == Tokens(b, k) <= Budget
    IN  Len(task[r].kept) = Max({1} \cup {k \in 1..Len(b) : Fits(k)})

\* The buffer is "left intact so no turns are silently lost" (working.py:108-110)
\* unless they have been summarized: every turn since the last eviction is in
\* the buffer or in the summary.
NoTurnLost == stored # 0 => said \subseteq Content(stored)
=============================================================================
