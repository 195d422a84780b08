----------------------- MODULE SessionLifecycleProofs -----------------------
(***************************************************************************)
(* What holds of the idle lifecycle for every number of conversations and  *)
(* every timing: the deadline argument behind ExpiredIsFinalized, and the  *)
(* snapshot argument behind QuietTurnsEmbedded.                            *)
(***************************************************************************)
EXTENDS SessionLifecycle, TLAPS

\* What n failures of the sweeper cost.
Slack == [n \in Nat |-> Period * n]

\* The sweeper is going to finalize c, or is doing so.
Scheduled(c) ==
  sweeping /\ (c \in due \/ (fin[Sweeper].stage # "idle" /\ fin[Sweeper].conv = c))

\* How the clock, the sweeper and the sessions' timestamps are related.
ClockInv ==
  /\ \A c \in Convs : updated[c] <= now
  /\ sweepStart <= now
  /\ sweeping => now <= sweepStart + SweepTime
  /\ ~sweeping => /\ now <= wakeAt /\ wakeAt <= sweepStart + Period
                  /\ due = {} /\ fin[Sweeper].stage = "idle"

\* The last sweep that passed over an unmarked session started before it was
\* due; the one that has it on its list, at most a period later.
InTime(c) ==
  IF Scheduled(c) THEN sweepStart < updated[c] + IdleFinalize + Slack[failed[c]] + Period
                  ELSE sweepStart < updated[c] + IdleFinalize + Slack[failed[c]]

DeadlineInv == TypeOK /\ ClockInv /\ \A c \in open \ finalized : InTime(c)

\* The turns that came into the session while no finalization was at work on it,
\* or that one has embedded alone since.
Quiet(c) == turns[c] \ exposed[c]

\* A finalizer's snapshot still holds every quiet turn of its conversation, and
\* so does the point once it is written, whichever finalizer wrote it last.
SnapshotInv ==
  \A f \in Finalizers :
    /\ fin[f].stage # "idle" => Quiet(fin[f].conv) \subseteq fin[f].snapshot
    /\ fin[f].stage = "mark" => Quiet(fin[f].conv) \subseteq embedded[fin[f].conv]

MarkedInv == \A c \in finalized : Quiet(c) \subseteq embedded[c]

MarkInv == TypeOK /\ SnapshotInv /\ MarkedInv

-----------------------------------------------------------------------------
\* A loaded or unloaded session that is saved keeps the store's types.
LEMMA SavedType ==
  ASSUME TypeOK, NEW c \in Convs, Saved(c)
  PROVE  /\ open' \subseteq Convs /\ finalized' \subseteq open'
         /\ turns' \in [Convs -> SUBSET TurnIds]
         /\ \A d \in Convs \ open' : turns'[d] = {}
         /\ stale' \subseteq open'
         /\ updated' \in [Convs -> 0..MaxTime]
         /\ failed' \in [Convs -> 0..MaxFailures]
BY LifecycleAssumption DEF TypeOK, Saved, Loaded, Activity

\* peek, and the eviction it may make, keep the store's and finalizers' types.
LEMMA PeekType ==
  ASSUME TypeOK, NEW f \in Finalizers, NEW c \in Convs, Peek(f, c)
  PROVE  /\ open' \subseteq Convs /\ finalized' \subseteq open'
         /\ turns' \in [Convs -> SUBSET TurnIds]
         /\ \A d \in Convs \ open' : turns'[d] = {}
         /\ stale' \subseteq open'
         /\ updated' = updated
         /\ fin' \in [Finalizers -> [stage : {"idle", "embed", "mark"},
                                     conv : Convs \cup {"none"},
                                     snapshot : SUBSET TurnIds]]
         /\ \A g \in Finalizers : fin'[g].stage # "idle" => fin'[g].conv \in Convs
<1>1. CASE UNCHANGED storeVars /\ c \in Loaded(c)
           /\ fin' = [fin EXCEPT ![f] = [stage |-> "embed", conv |-> c, snapshot |-> turns[c]]]
  <2>1. [stage |-> "embed", conv |-> c, snapshot |-> turns[c]]
          \in [stage : {"idle", "embed", "mark"}, conv : Convs \cup {"none"},
               snapshot : SUBSET TurnIds]
    BY DEF TypeOK
  <2> QED
    BY <1>1, <2>1 DEF storeVars, TypeOK
<1>2. CASE c \in open /\ finalized' = finalized \cup {c}
           /\ UNCHANGED <<open, turns, updated, stale, fin>>
  BY <1>2 DEF TypeOK
<1>3. CASE Missed(c) /\ UNCHANGED fin
  BY <1>3 DEF Missed, storeVars, TypeOK, Evict
<1> QED
  BY <1>1, <1>2, <1>3 DEF Peek, Loaded

\* load evicts an expired session with everything in it.
LEMMA MissedType ==
  ASSUME TypeOK, NEW c \in Convs, Missed(c)
  PROVE  /\ open' \subseteq Convs /\ finalized' \subseteq open'
         /\ turns' \in [Convs -> SUBSET TurnIds]
         /\ \A d \in Convs \ open' : turns'[d] = {}
         /\ stale' \subseteq open'
         /\ updated' = updated
BY DEF Missed, storeVars, TypeOK, Evict

\* The rollovers keep their shape when one of them moves on.
LEMMA RollType ==
  ASSUME TypeOK, NEW c \in Convs, NEW n \in TurnIds, NEW r \in Rollovers
  PROVE  [roll EXCEPT ![c][n] = r] \in [Convs -> [TurnIds -> Rollovers]]
BY DEF TypeOK

LEMMA NoRolloverType == NoRollover \in Rollovers
BY DEF NoRollover, Rollovers

\* What a rollover saves is a session like any other.
LEMMA WriteBackType ==
  ASSUME TypeOK, NEW c \in Convs, NEW n \in TurnIds, NEW ts \in SUBSET TurnIds,
         WriteBack(c, n, ts)
  PROVE  TypeOK'
<1> USE LifecycleAssumption
<1>1. /\ open' = open \cup {c} /\ turns' = [turns EXCEPT ![c] = ts]
      /\ stale' \subseteq stale \cup {c} /\ finalized' = finalized \ {c}
  BY DEF WriteBack, Activity
<1>2. /\ open' \subseteq Convs /\ finalized' \subseteq open' /\ stale' \subseteq open'
      /\ turns' \in [Convs -> SUBSET TurnIds]
      /\ \A d \in Convs \ open' : turns'[d] = {}
  BY <1>1 DEF TypeOK
<1>3. updated' \in [Convs -> 0..MaxTime] /\ failed' \in [Convs -> 0..MaxFailures]
  BY DEF WriteBack, Activity, TypeOK
<1>4. exposed' \in [Convs -> SUBSET TurnIds]
  <2>1. turns[c] \subseteq TurnIds /\ exposed[c] \subseteq TurnIds
    BY DEF TypeOK
  <2>2. [exposed EXCEPT ![c] = @ \cup (ts \ turns[c])] \in [Convs -> SUBSET TurnIds]
    BY <2>1 DEF TypeOK
  <2> QED
    BY <2>2 DEF WriteBack, TypeOK
<1>5. roll' \in [Convs -> [TurnIds -> Rollovers]]
  <2> DEFINE waiting(m) == [roll[c][m] EXCEPT !.overtaken = @ \/ roll[c][m].stage = "summarizing"]
             after == [m \in TurnIds |-> IF m = n THEN NoRollover ELSE waiting(m)]
  <2>1. ASSUME NEW m \in TurnIds PROVE waiting(m) \in Rollovers
    <3>1. roll[c][m] \in Rollovers
      BY DEF TypeOK
    <3>2. (roll[c][m].overtaken \/ roll[c][m].stage = "summarizing") \in BOOLEAN
      OBVIOUS
    <3> QED
      BY <3>1, <3>2 DEF Rollovers
  <2>2. after \in [TurnIds -> Rollovers]
    BY <2>1, NoRolloverType
  <2>3. roll' = [roll EXCEPT ![c] = after]
    BY DEF WriteBack
  <2> QED
    BY <2>2, <2>3 DEF TypeOK
<1> QED
  BY <1>2, <1>3, <1>4, <1>5 DEF WriteBack, TypeOK, sweepVars

\* A rollover starts, saves or ends.
RolloverStep(c, n) ==
  \/ RolloverStarts(c, n) \/ RolloverSaves(c, n)
  \/ RolloverReverts(c, n) \/ RolloverGivesUp(c, n)

\* It keeps everything well-typed.
LEMMA RolloverStepType ==
  ASSUME TypeOK, NEW c \in Convs, NEW n \in TurnIds, RolloverStep(c, n)
  PROVE  TypeOK'
<1>0. roll[c][n] \in Rollovers /\ roll[c][n].snapshot \in SUBSET TurnIds
  BY DEF TypeOK, Rollovers
<1>1. CASE RolloverStarts(c, n)
  <2>1. [stage |-> "summarizing", snapshot |-> turns[c], overtaken |-> FALSE] \in Rollovers
    BY DEF TypeOK, Rollovers
  <2>2. roll' \in [Convs -> [TurnIds -> Rollovers]]
    <3>1. \E r \in Rollovers : roll' = [roll EXCEPT ![c][n] = r]
      BY <1>1, <2>1, NoRolloverType DEF RolloverStarts, RolloverOver
    <3> QED
      BY <3>1, RollType
  <2>3. CASE UNCHANGED storeVars
    BY <1>1, <2>2, <2>3 DEF RolloverStarts, storeVars, pointVars, sweepVars, TypeOK
  <2>4. CASE Missed(c)
    BY <1>1, <2>2, <2>4, MissedType DEF RolloverStarts, pointVars, sweepVars, TypeOK
  <2> QED
    BY <1>1, <2>3, <2>4 DEF RolloverStarts
<1>2. CASE RolloverSaves(c, n)
  BY <1>0, <1>2, WriteBackType DEF RolloverSaves
<1>3. CASE RolloverReverts(c, n)
  <2>1. PICK kept \in SUBSET roll[c][n].snapshot : WriteBack(c, n, kept)
    BY <1>3 DEF RolloverReverts
  <2> QED
    BY <1>0, <2>1, WriteBackType
<1>4. CASE RolloverGivesUp(c, n)
  <2>1. roll' \in [Convs -> [TurnIds -> Rollovers]]
    BY <1>4, RollType, NoRolloverType DEF RolloverGivesUp, RolloverOver
  <2> QED
    BY <1>4, <2>1 DEF RolloverGivesUp, storeVars, pointVars, sweepVars, TypeOK
<1> QED
  BY <1>1, <1>2, <1>3, <1>4 DEF RolloverStep

\* A rollover writes the session, or leaves the timestamps alone and at most
\* evicts; neither the sweep nor a finalizer is touched.
LEMMA RolloverTouches ==
  ASSUME NEW c \in Convs, NEW n \in TurnIds, RolloverStep(c, n)
  PROVE  /\ UNCHANGED <<now, embedded, sent, inTurn, sweepVars, fin>>
         /\ \/ \E ts \in SUBSET roll[c][n].snapshot : WriteBack(c, n, ts)
            \/ Evict(c) /\ UNCHANGED <<failed, exposed>>
            \/ UNCHANGED <<storeVars, failed, exposed>>
         /\ \/ Activity(c) /\ open' = open \cup {c}
            \/ UNCHANGED <<updated, failed>> /\ Evict(c)
            \/ UNCHANGED <<storeVars, failed>>
<1>1. CASE RolloverStarts(c, n)
  BY <1>1 DEF RolloverStarts, Missed, Evict, storeVars, pointVars, sweepVars
<1>2. CASE RolloverSaves(c, n)
  BY <1>2 DEF RolloverSaves, WriteBack
<1>3. CASE RolloverReverts(c, n)
  BY <1>3 DEF RolloverReverts, WriteBack
<1>4. CASE RolloverGivesUp(c, n)
  BY <1>4 DEF RolloverGivesUp, pointVars
<1> QED
  BY <1>1, <1>2, <1>3, <1>4 DEF RolloverStep

\* Moving a finalizer on, or setting it to idle, keeps the finalizers' type.
LEMMA FinType ==
  ASSUME TypeOK, NEW f \in Finalizers, fin[f].stage # "idle",
         \/ fin' = [fin EXCEPT ![f].stage = "mark"]
         \/ fin' = [fin EXCEPT ![f] = Idle]
  PROVE  /\ fin' \in [Finalizers -> [stage : {"idle", "embed", "mark"},
                                     conv : Convs \cup {"none"},
                                     snapshot : SUBSET TurnIds]]
         /\ \A g \in Finalizers : fin'[g].stage # "idle" => fin'[g].conv \in Convs
<1>1. /\ fin \in [Finalizers -> [stage : {"idle", "embed", "mark"},
                                  conv : Convs \cup {"none"},
                                  snapshot : SUBSET TurnIds]]
      /\ \A g \in Finalizers : fin[g].stage # "idle" => fin[g].conv \in Convs
  BY DEF TypeOK
<1> QED
  BY <1>1 DEF Idle

\* Every action of the lifecycle keeps its state well-typed.
LEMMA StepType == TypeOK /\ [Next]_vars => TypeOK'
<1> SUFFICES ASSUME TypeOK, [Next]_vars PROVE TypeOK'
  OBVIOUS
<1> USE LifecycleAssumption
<1>1. CASE Tick
  BY <1>1 DEF Tick, TypeOK, storeVars, sweepVars, turnVars, pointVars
<1>2. CASE WakeUp
  BY <1>2 DEF WakeUp, TypeOK, storeVars, turnVars, pointVars
<1>3. CASE FallAsleep
  <2>1. now + SweepInterval \in Nat
    BY DEF TypeOK
  <2>2. wakeAt' \in Nat /\ sweepStart' \in Nat /\ sweeping' \in BOOLEAN
    BY <1>3, <2>1 DEF FallAsleep, TypeOK
  <2> QED
    BY <1>3, <2>2 DEF FallAsleep, TypeOK, storeVars, turnVars, pointVars
<1>4. ASSUME NEW c \in Convs, TurnLoads(c) PROVE TypeOK'
  <2>1. CASE c \in Loaded(c)
    BY <1>4, <2>1 DEF TurnLoads, TypeOK, storeVars, sweepVars, turnVars, pointVars
  <2>2. CASE c \notin Loaded(c)
    BY <1>4, <2>2, SavedType DEF TurnLoads, TypeOK, sweepVars, turnVars, pointVars
  <2> QED
    BY <2>1, <2>2
<1>5. ASSUME NEW c \in Convs, TurnPersists(c) PROVE TypeOK'
  <2>1. CASE c \in open
    <3> DEFINE n == sent[c] + 1
    <3>1. n \in TurnIds
      BY <1>5 DEF TurnPersists, TypeOK, TurnIds
    <3>2. turns' = [turns EXCEPT ![c] = @ \cup {n}] /\ sent' = [sent EXCEPT ![c] = n]
      BY <1>5, <2>1 DEF TurnPersists
    <3>3. turns' \in [Convs -> SUBSET TurnIds] /\ \A d \in Convs \ open : turns'[d] = {}
      BY <2>1, <3>1, <3>2 DEF TypeOK
    <3>4. sent' \in [Convs -> 0..MaxTurns]
      BY <3>1, <3>2 DEF TypeOK, TurnIds
    <3>5. exposed' \in [Convs -> SUBSET TurnIds]
      <4>1. [exposed EXCEPT ![c] = @ \cup {n}] \in [Convs -> SUBSET TurnIds]
        BY <3>1 DEF TypeOK
      <4> QED
        BY <1>5, <2>1, <4>1 DEF TurnPersists, TypeOK
    <3>6. roll' \in [Convs -> [TurnIds -> Rollovers]]
      <4>0. roll[c][n] \in Rollovers
        BY <3>1 DEF TypeOK
      <4>1. [roll[c][n] EXCEPT !.stage = "queued"] \in Rollovers
        BY <4>0 DEF Rollovers
      <4>2. [roll EXCEPT ![c][n] = [@ EXCEPT !.stage = "queued"]]
              \in [Convs -> [TurnIds -> Rollovers]]
        BY <3>1, <4>1 DEF TypeOK
      <4> QED
        BY <1>5, <2>1, <4>2 DEF TurnPersists, TypeOK
    <3>7. Activity(c) /\ UNCHANGED <<open, stale>> /\ inTurn' = inTurn \ {c}
      BY <1>5, <2>1 DEF TurnPersists
    <3>8. /\ finalized' \subseteq open' /\ stale' \subseteq open' /\ open' \subseteq Convs
          /\ updated' \in [Convs -> 0..MaxTime] /\ failed' \in [Convs -> 0..MaxFailures]
          /\ inTurn' \subseteq Convs
      BY <3>7 DEF TypeOK, Activity
    <3> QED
      BY <1>5, <3>3, <3>4, <3>5, <3>6, <3>7, <3>8 DEF TurnPersists, TypeOK, sweepVars
  <2>2. CASE c \notin open
    BY <1>5, <2>2 DEF TurnPersists, TypeOK, storeVars, sweepVars
  <2> QED
    BY <2>1, <2>2
<1>6. ASSUME NEW c \in Convs, SetModel(c) PROVE TypeOK'
  BY <1>6, SavedType DEF SetModel, TypeOK, sweepVars, turnVars, pointVars
<1>7. ASSUME NEW c \in Convs, SweepNext(c) PROVE TypeOK'
  BY <1>7, PeekType DEF SweepNext, TypeOK, Finalizers, turnVars, pointVars
<1>8. ASSUME NEW c \in Convs, Disconnect(c) PROVE TypeOK'
  BY <1>8, PeekType DEF Disconnect, TypeOK, Finalizers, sweepVars, turnVars, pointVars
<1>9. ASSUME NEW f \in Finalizers, Embed(f) PROVE TypeOK'
  <2>1. fin[f].stage # "idle" /\ fin[f].conv \in Convs /\ fin[f].snapshot \in SUBSET TurnIds
    BY <1>9 DEF Embed, TypeOK
  <2>2. [embedded EXCEPT ![fin[f].conv] = fin[f].snapshot] \in [Convs -> SUBSET TurnIds]
    BY <2>1 DEF TypeOK
  <2>3. embedded' \in [Convs -> SUBSET TurnIds]
    BY <1>9, <2>2 DEF Embed, TypeOK
  <2>4. fin' = [fin EXCEPT ![f].stage = "mark"]
    BY <1>9 DEF Embed
  <2>6. exposed' \in [Convs -> SUBSET TurnIds]
    <3>1. [exposed EXCEPT ![fin[f].conv] = @ \ fin[f].snapshot] \in [Convs -> SUBSET TurnIds]
      BY <2>1 DEF TypeOK
    <3> QED
      BY <1>9, <3>1 DEF Embed, TypeOK
  <2>5. /\ fin' \in [Finalizers -> [stage : {"idle", "embed", "mark"},
                                      conv : Convs \cup {"none"},
                                      snapshot : SUBSET TurnIds]]
        /\ \A g \in Finalizers : fin'[g].stage # "idle" => fin'[g].conv \in Convs
    BY <2>1, <2>4, FinType
  <2> QED
    BY <1>9, <2>3, <2>5, <2>6 DEF Embed, TypeOK, storeVars, sweepVars, turnVars, pointVars
<1>10. ASSUME NEW f \in Finalizers, MarkFinalized(f) PROVE TypeOK'
  BY <1>10, FinType DEF MarkFinalized, TypeOK, sweepVars, turnVars, pointVars
<1>11. ASSUME NEW f \in Finalizers, FinalizeFails(f) PROVE TypeOK'
  <2>1. fin[f].stage # "idle" /\ fin[f].conv \in Convs
    BY <1>11 DEF FinalizeFails, TypeOK
  <2>2. failed' \in [Convs -> 0..MaxFailures]
    <3>1. CASE f = Sweeper
      BY <1>11, <2>1, <3>1 DEF FinalizeFails, TypeOK
    <3>2. CASE f # Sweeper
      BY <1>11, <3>2 DEF FinalizeFails, TypeOK
    <3> QED
      BY <3>1, <3>2
  <2> QED
    BY <1>11, <2>1, <2>2, FinType DEF FinalizeFails, TypeOK, storeVars, sweepVars, turnVars, pointVars
<1>13. ASSUME NEW c \in Convs, NEW n \in TurnIds, RolloverStep(c, n) PROVE TypeOK'
  BY <1>13, RolloverStepType
<1>12. CASE UNCHANGED vars
  BY <1>12 DEF vars, storeVars, sweepVars, TypeOK, turnVars, pointVars
<1> QED
  BY <1>1, <1>2, <1>3, <1>4, <1>5, <1>6, <1>7, <1>8, <1>9, <1>10, <1>11, <1>12, <1>13
     DEF Next, RolloverStep

\* The empty store is well-typed.
LEMMA InitType == Init => TypeOK
<1> SUFFICES ASSUME Init PROVE TypeOK
  OBVIOUS
<1> USE LifecycleAssumption
<1>1. Idle \in [stage : {"idle", "embed", "mark"}, conv : Convs \cup {"none"},
                snapshot : SUBSET TurnIds]
  BY DEF Idle
<1>2. fin \in [Finalizers -> [stage : {"idle", "embed", "mark"},
                              conv : Convs \cup {"none"},
                              snapshot : SUBSET TurnIds]]
  BY <1>1 DEF Init
<1>3. \A f \in Finalizers : fin[f].stage # "idle" => fin[f].conv \in Convs
  BY DEF Init, Idle
<1>4. 0 \in 0..MaxTime /\ 0 \in 0..MaxTurns /\ 0 \in 0..MaxFailures /\ SweepInterval \in Nat
  OBVIOUS
<1>5. /\ updated \in [Convs -> 0..MaxTime] /\ sent \in [Convs -> 0..MaxTurns]
      /\ failed \in [Convs -> 0..MaxFailures]
  BY <1>4 DEF Init
<1>6. /\ turns \in [Convs -> SUBSET TurnIds] /\ embedded \in [Convs -> SUBSET TurnIds]
      /\ \A c \in Convs \ open : turns[c] = {}
  BY DEF Init
<1>7. /\ open \subseteq Convs /\ inTurn \subseteq Convs /\ due \subseteq Convs
      /\ finalized \subseteq open
  BY DEF Init
<1>8. now \in 0..MaxTime /\ wakeAt \in Nat /\ sweepStart \in Nat /\ sweeping \in BOOLEAN
  BY <1>4 DEF Init
<1>9. /\ stale \subseteq open /\ exposed \in [Convs -> SUBSET TurnIds]
      /\ roll \in [Convs -> [TurnIds -> Rollovers]]
  BY NoRolloverType DEF Init
<1> QED
  BY <1>2, <1>3, <1>5, <1>6, <1>7, <1>8, <1>9 DEF TypeOK

\* The session store, the finalizers and the sweeper keep their shape, and no
\* mark outlives its session (memory_session.py:30-67).
THEOREM LifecycleTypeCorrect == Spec => []TypeOK
BY InitType, StepType, PTL DEF Spec

-----------------------------------------------------------------------------
\* What the deadline argument needs of multiplication.
LEMMA SlackFacts ==
  /\ Period \in Nat
  /\ Slack[0] = 0
  /\ \A n \in Nat : Slack[n] \in Nat /\ Slack[n + 1] = Slack[n] + Period
  /\ \A n \in 0..MaxFailures : Slack[n] <= Slack[MaxFailures]
<1> USE LifecycleAssumption
<1>1. Period \in Nat
  BY DEF Period
<1>2. \A n \in Nat : Slack[n] = Period * n
  BY DEF Slack
<1>3. ASSUME NEW n \in Nat PROVE Slack[n] \in Nat /\ Slack[n + 1] = Slack[n] + Period
  <2>1. Period * n \in Nat /\ Period * (n + 1) = Period * n + Period
    BY <1>1
  <2> QED
    BY <1>2, <2>1
<1>4. ASSUME NEW n \in 0..MaxFailures PROVE Slack[n] <= Slack[MaxFailures]
  <2>1. PICK k \in Nat : MaxFailures = n + k
    <3>1. MaxFailures - n \in Nat /\ MaxFailures = n + (MaxFailures - n)
      OBVIOUS
    <3> QED
      BY <3>1
  <2>2. Period * (n + k) = Period * n + Period * k /\ Period * k \in Nat /\ Period * n \in Nat
    BY <1>1
  <2> QED
    BY <1>2, <2>1, <2>2
<1> QED
  BY <1>1, <1>2, <1>3, <1>4

\* No action but those of the sweeper touches the sweep, and time passes only
\* in Tick.
LEMMA StepClock == TypeOK /\ ClockInv /\ [Next]_vars => ClockInv'
<1> SUFFICES ASSUME TypeOK, ClockInv, [Next]_vars PROVE ClockInv'
  OBVIOUS
<1> USE LifecycleAssumption
<1>1. CASE Tick
  BY <1>1 DEF Tick, TypeOK, ClockInv, storeVars, sweepVars
<1>2. CASE WakeUp
  BY <1>2 DEF WakeUp, TypeOK, ClockInv, storeVars
<1>3. CASE FallAsleep
  BY <1>3 DEF FallAsleep, TypeOK, ClockInv, storeVars, Idle, Period
<1>4. ASSUME NEW c \in Convs, TurnLoads(c) PROVE ClockInv'
  BY <1>4 DEF TurnLoads, Saved, Activity, TypeOK, ClockInv, storeVars, sweepVars, turnVars, pointVars
<1>5. ASSUME NEW c \in Convs, TurnPersists(c) PROVE ClockInv'
  BY <1>5 DEF TurnPersists, Activity, TypeOK, ClockInv, storeVars, sweepVars
<1>6. ASSUME NEW c \in Convs, SetModel(c) PROVE ClockInv'
  BY <1>6 DEF SetModel, Saved, Activity, TypeOK, ClockInv, sweepVars
<1>7. ASSUME NEW c \in Convs, SweepNext(c) PROVE ClockInv'
  BY <1>7 DEF SweepNext, Peek, Missed, Evict, TypeOK, ClockInv, storeVars
<1>8. ASSUME NEW c \in Convs, Disconnect(c) PROVE ClockInv'
  <2>1. fin'[Sweeper] = fin[Sweeper] /\ updated' = updated
    BY <1>8 DEF Disconnect, Peek, Missed, Evict, TypeOK, storeVars, Finalizers
  <2> QED
    BY <1>8, <2>1 DEF Disconnect, ClockInv, sweepVars
<1>9. ASSUME NEW f \in Finalizers, Embed(f) \/ MarkFinalized(f) \/ FinalizeFails(f)
      PROVE  ClockInv'
  <2>1. ~sweeping => f # Sweeper
    BY <1>9 DEF Embed, MarkFinalized, FinalizeFails, ClockInv
  <2>2. ~sweeping => fin'[Sweeper] = fin[Sweeper]
    BY <1>9, <2>1 DEF Embed, MarkFinalized, FinalizeFails, TypeOK, Finalizers
  <2> QED
    BY <1>9, <2>2 DEF Embed, MarkFinalized, FinalizeFails, ClockInv, storeVars, sweepVars
<1>11. ASSUME NEW c \in Convs, NEW n \in TurnIds, RolloverStep(c, n) PROVE ClockInv'
  <2>1. now' = now /\ \A d \in Convs : updated'[d] \in {updated[d], now}
    BY <1>11, RolloverTouches DEF Activity, Evict, storeVars, TypeOK
  <2> QED
    <3>1. UNCHANGED <<sweepStart, sweeping, wakeAt, due, fin>>
      BY <1>11, RolloverTouches DEF sweepVars
    <3> QED
      BY <2>1, <3>1 DEF ClockInv, TypeOK
<1>10. CASE UNCHANGED vars
  BY <1>10 DEF vars, storeVars, sweepVars, ClockInv
<1> QED
  BY <1>1, <1>2, <1>3, <1>4, <1>5, <1>6, <1>7, <1>8, <1>9, <1>10, <1>11
     DEF Next, RolloverStep

\* A session that a step leaves alone stays in time, as long as the sweeper
\* neither starts a sweep nor drops the session from it.
LEMMA InTimeKept ==
  ASSUME NEW c \in Convs, InTime(c), sweepStart' = sweepStart,
         updated'[c] = updated[c], failed'[c] = failed[c],
         Scheduled(c)' = Scheduled(c)
  PROVE  InTime(c)'
BY DEF InTime

\* A session that has just been active is in time.
LEMMA ActiveInTime ==
  ASSUME TypeOK, ClockInv, TimingAssumption, NEW c \in Convs, Activity(c),
         sweepStart' = sweepStart
  PROVE  InTime(c)'
<1>1. updated'[c] = now /\ failed'[c] = 0
  BY DEF Activity, TypeOK
<1>2. sweepStart < now + IdleFinalize
  BY LifecycleAssumption DEF ClockInv, TypeOK, TimingAssumption
<1> QED
  BY <1>1, <1>2, LifecycleAssumption, SlackFacts DEF InTime, TypeOK

\* No step lets a session that is not marked run late: activity restarts its
\* time, a sweep that passes over it is too early for it, and a failed attempt
\* costs one more period.
LEMMA StepInTime ==
  ASSUME DeadlineInv, TimingAssumption, [Next]_vars
  PROVE  \A c \in (open \ finalized)' : InTime(c)'
<1> SUFFICES ASSUME NEW c \in Convs, c \in open', c \notin finalized' PROVE InTime(c)'
  BY StepType DEF DeadlineInv, TypeOK
<1>0. TypeOK /\ ClockInv /\ (c \in open \ finalized => InTime(c))
  BY DEF DeadlineInv
<1> USE LifecycleAssumption
<1>1. CASE Tick
  <2>1. Scheduled(c)' = Scheduled(c)
    BY <1>1 DEF Tick, Scheduled, sweepVars
  <2> QED
    BY <1>0, <1>1, <2>1, InTimeKept DEF Tick, storeVars, sweepVars
<1>2. CASE WakeUp
  <2>1. InTime(c) /\ ~Scheduled(c)
    BY <1>0, <1>2 DEF WakeUp, storeVars, Scheduled
  <2>2. now < updated[c] + IdleFinalize + Slack[failed[c]] + Period
    BY <1>0, <1>2, <2>1, SlackFacts DEF WakeUp, InTime, ClockInv, TypeOK
  <2>3. Scheduled(c)' \/ now < updated[c] + IdleFinalize
    BY <1>0, <1>2 DEF WakeUp, IsDue, Scheduled, storeVars, TypeOK
  <2>4. now < updated[c] + IdleFinalize => now < updated[c] + IdleFinalize + Slack[failed[c]]
    BY <1>0, SlackFacts DEF TypeOK
  <2> QED
    BY <1>2, <2>2, <2>3, <2>4 DEF WakeUp, InTime, storeVars
<1>3. CASE FallAsleep
  <2>1. Scheduled(c)' = Scheduled(c)
    BY <1>3 DEF FallAsleep, Scheduled, Idle
  <2> QED
    BY <1>0, <1>3, <2>1, InTimeKept DEF FallAsleep, storeVars
<1>4. ASSUME NEW d \in Convs, Activity(d), UNCHANGED <<sweepVars, fin>>, open' \subseteq open \cup {d}
      PROVE  InTime(c)'
  <2>1. CASE c = d
    BY <1>0, <1>4, <2>1, ActiveInTime DEF sweepVars
  <2>2. CASE c # d
    <3>1. c \in open \ finalized /\ Scheduled(c)' = Scheduled(c)
      BY <1>4, <2>2 DEF Activity, Scheduled, sweepVars
    <3>2. updated'[c] = updated[c] /\ failed'[c] = failed[c]
      BY <1>0, <1>4, <2>2 DEF Activity, TypeOK
    <3> QED
      BY <1>0, <1>4, <3>1, <3>2, InTimeKept DEF sweepVars
  <2> QED
    BY <2>1, <2>2
<1>5. ASSUME UNCHANGED <<open, finalized, updated, failed, sweepVars, fin>> PROVE InTime(c)'
  <2>1. Scheduled(c)' = Scheduled(c)
    BY <1>5 DEF Scheduled, sweepVars
  <2> QED
    BY <1>0, <1>5, <2>1, InTimeKept DEF sweepVars
<1>6. ASSUME NEW d \in Convs, TurnLoads(d) \/ TurnPersists(d) \/ SetModel(d) PROVE InTime(c)'
  BY <1>4, <1>5, <1>6
  DEF TurnLoads, TurnPersists, SetModel, Saved, Loaded, storeVars
<1>7. ASSUME NEW d \in Convs, SweepNext(d) PROVE InTime(c)'
  <2>1. updated' = updated /\ open' \subseteq open /\ c \in open \ finalized
    BY <1>7 DEF SweepNext, Peek, Missed, Evict, storeVars
  <2>2. Scheduled(c)' = Scheduled(c)
    <3>1. CASE d \in Loaded(d)
      <4>1. CASE turns[d] # {}
        <5>1. fin' = [fin EXCEPT ![Sweeper] =
                        [stage |-> "embed", conv |-> d, snapshot |-> turns[d]]]
          BY <1>7, <3>1, <4>1 DEF SweepNext, Peek, Missed
        <5>2. fin'[Sweeper].stage = "embed" /\ fin'[Sweeper].conv = d
          BY <1>0, <5>1 DEF TypeOK, Finalizers
        <5> QED
          BY <1>7, <5>2 DEF SweepNext, Scheduled, Idle
      <4>2. CASE turns[d] = {}
        <5>1. c # d /\ fin' = fin
          BY <1>7, <3>1, <4>2 DEF SweepNext, Peek, Missed
        <5> QED
          BY <1>7, <5>1 DEF SweepNext, Scheduled
      <4> QED
        BY <4>1, <4>2
    <3>2. CASE d \notin Loaded(d)
      <4>1. c # d
        BY <1>7, <3>2 DEF SweepNext, Peek, Missed, Evict, Loaded, storeVars
      <4> QED
        BY <1>7, <3>2, <4>1 DEF SweepNext, Peek, Scheduled
    <3> QED
      BY <3>1, <3>2
  <2> QED
    BY <1>0, <1>7, <2>1, <2>2, InTimeKept DEF SweepNext
<1>8. ASSUME NEW d \in Convs, Disconnect(d) PROVE InTime(c)'
  <2>1. updated' = updated /\ c \in open \ finalized
    BY <1>8 DEF Disconnect, Peek, Missed, Evict, storeVars
  <2>2. fin'[Sweeper] = fin[Sweeper]
    BY <1>0, <1>8 DEF Disconnect, Peek, TypeOK, Finalizers
  <2>3. Scheduled(c)' = Scheduled(c)
    BY <1>8, <2>2 DEF Disconnect, Scheduled, sweepVars
  <2> QED
    BY <1>0, <1>8, <2>1, <2>3, InTimeKept DEF Disconnect, sweepVars
<1>9. ASSUME NEW f \in Finalizers, Embed(f) PROVE InTime(c)'
  <2>1. Scheduled(c)' = Scheduled(c)
    <3>1. fin'[Sweeper].conv = fin[Sweeper].conv
      BY <1>0, <1>9 DEF Embed, TypeOK, Finalizers
    <3>2. f = Sweeper => fin[f].stage = "embed" /\ fin'[f].stage = "mark"
      BY <1>0, <1>9 DEF Embed, TypeOK
    <3>3. f # Sweeper => fin'[Sweeper] = fin[Sweeper]
      BY <1>0, <1>9 DEF Embed, TypeOK, Finalizers
    <3> QED
      BY <1>9, <3>1, <3>2, <3>3 DEF Embed, Scheduled, sweepVars
  <2> QED
    BY <1>0, <1>9, <2>1, InTimeKept DEF Embed, storeVars, sweepVars
<1>10. ASSUME NEW f \in Finalizers, MarkFinalized(f) PROVE InTime(c)'
  <2>1. c \in open \ finalized /\ fin[f].conv # c
    BY <1>10 DEF MarkFinalized
  <2>2. Scheduled(c)' = Scheduled(c)
    BY <1>0, <1>10, <2>1 DEF MarkFinalized, Scheduled, sweepVars, TypeOK, Finalizers, Idle
  <2> QED
    BY <1>0, <1>10, <2>1, <2>2, InTimeKept DEF MarkFinalized, sweepVars
<1>11. ASSUME NEW f \in Finalizers, FinalizeFails(f) PROVE InTime(c)'
  <2>1. c \in open \ finalized /\ InTime(c)
    BY <1>0, <1>11 DEF FinalizeFails, storeVars
  <2>2. CASE f = Sweeper /\ fin[f].conv = c
    <3>1. failed'[c] = failed[c] + 1 /\ failed[c] \in Nat
      BY <1>0, <1>11, <2>2 DEF FinalizeFails, TypeOK
    <3>2. Scheduled(c)
      BY <1>0, <1>11, <2>2 DEF FinalizeFails, Scheduled, ClockInv, TypeOK
    <3>3. sweepStart < updated[c] + IdleFinalize + Slack[failed'[c]]
      BY <1>0, <2>1, <3>1, <3>2, SlackFacts DEF InTime, TypeOK
    <3> QED
      BY <1>0, <1>11, <3>1, <3>3, SlackFacts DEF FinalizeFails, InTime, storeVars, sweepVars, TypeOK
  <2>3. CASE ~(f = Sweeper /\ fin[f].conv = c)
    <3>1. failed'[c] = failed[c]
      BY <1>0, <1>11, <2>3 DEF FinalizeFails, TypeOK
    <3>2. Scheduled(c)' = Scheduled(c)
      BY <1>0, <1>11, <2>3 DEF FinalizeFails, Scheduled, sweepVars, TypeOK, Finalizers, Idle
    <3> QED
      BY <1>11, <2>1, <3>1, <3>2, InTimeKept DEF FinalizeFails, storeVars, sweepVars
  <2> QED
    BY <2>2, <2>3
<1>12. CASE UNCHANGED vars
  BY <1>5, <1>12 DEF vars, storeVars
<1>13. ASSUME NEW d \in Convs, NEW n \in TurnIds, RolloverStep(d, n) PROVE InTime(c)'
  <2>1. UNCHANGED <<sweepVars, fin>>
    BY <1>13, RolloverTouches
  <2>2. CASE Activity(d) /\ open' = open \cup {d}
    BY <1>4, <2>1, <2>2
  <2>3. CASE UNCHANGED <<updated, failed>> /\ Evict(d)
    <3>1. c \in open \ finalized /\ Scheduled(c)' = Scheduled(c)
      BY <2>1, <2>3 DEF Evict, Scheduled, sweepVars
    <3> QED
      BY <1>0, <2>1, <2>3, <3>1, InTimeKept DEF sweepVars
  <2>4. CASE UNCHANGED <<storeVars, failed>>
    BY <1>5, <2>1, <2>4 DEF storeVars
  <2> QED
    BY <1>13, <2>2, <2>3, <2>4, RolloverTouches
<1> QED
  BY <1>1, <1>2, <1>3, <1>6, <1>7, <1>8, <1>9, <1>10, <1>11, <1>12, <1>13
     DEF Next, RolloverStep

\* In time means finalized before it expires, under the timing assumption.
LEMMA InTimeIsEnough == TimingAssumption /\ DeadlineInv => ExpiredIsFinalized
<1> SUFFICES ASSUME TimingAssumption, DeadlineInv,
                    NEW c \in Convs, Expired(c), c \notin finalized
             PROVE  FALSE
  BY DEF ExpiredIsFinalized
<1> USE LifecycleAssumption
<1>1. TypeOK /\ ClockInv /\ InTime(c)
  BY DEF DeadlineInv, Expired
<1>2. /\ failed[c] \in 0..MaxFailures /\ updated[c] \in Nat /\ now \in Nat
      /\ sweepStart \in Nat /\ wakeAt \in Nat
  BY <1>1 DEF TypeOK
<1>3. Slack[failed[c]] <= Slack[MaxFailures] /\ Slack[failed[c]] \in Nat /\ Slack[MaxFailures] \in Nat
  BY <1>2, SlackFacts
<1>4. now < updated[c] + IdleFinalize + Slack[failed[c]] + Period + SweepTime
  <2>1. CASE Scheduled(c)
    BY <1>1, <1>2, <1>3, <2>1, SlackFacts DEF InTime, ClockInv, Scheduled
  <2>2. CASE ~Scheduled(c)
    BY <1>1, <1>2, <1>3, <2>2, SlackFacts DEF InTime, ClockInv, Period
  <2> QED
    BY <2>1, <2>2
<1>5. IdleFinalize + Slack[MaxFailures] + Period + SweepTime <= Ttl
  <2>1. (MaxFailures + 1) * Period = Slack[MaxFailures] + Period
    BY SlackFacts DEF Slack
  <2> QED
    BY <1>3, <2>1, SlackFacts DEF TimingAssumption
<1> QED
  BY <1>2, <1>3, <1>4, <1>5, SlackFacts DEF Expired

\* Nothing is late in an empty store.
LEMMA InitDeadline == Init => DeadlineInv
<1> SUFFICES ASSUME Init PROVE DeadlineInv
  OBVIOUS
<1>1. ClockInv
  BY LifecycleAssumption DEF Init, ClockInv, Period, Idle, Finalizers
<1> QED
  BY <1>1, InitType DEF DeadlineInv, Init

\* A sweep every SweepInterval, over by SweepTime, and at most MaxFailures
\* failures in a row finalize every session before its TTL evicts it
\* (schema.py:59-65, loop.py:394-416): for every number of conversations.
THEOREM NoExpiryBeforeFinalize ==
  ASSUME TimingAssumption PROVE Spec => []ExpiredIsFinalized
<1>1. Init => DeadlineInv
  BY InitDeadline
<1>2. DeadlineInv /\ [Next]_vars => DeadlineInv'
  <2> SUFFICES ASSUME DeadlineInv, [Next]_vars PROVE DeadlineInv'
    OBVIOUS
  <2>1. TypeOK' /\ ClockInv'
    BY StepType, StepClock DEF DeadlineInv
  <2>2. \A c \in (open \ finalized)' : InTime(c)'
    BY StepInTime
  <2> QED
    BY <2>1, <2>2 DEF DeadlineInv
<1>3. DeadlineInv => ExpiredIsFinalized
  BY InTimeIsEnough
<1> QED
  BY <1>1, <1>2, <1>3, PTL DEF Spec

-----------------------------------------------------------------------------
\* An evicted session has no turn and no mark.
LEMMA EvictKeepsMark ==
  ASSUME MarkInv, NEW c \in Convs, Evict(c), UNCHANGED <<pointVars, fin>>
  PROVE  SnapshotInv' /\ MarkedInv'
<1>1. /\ finalized' \subseteq finalized
      /\ \A d \in Convs : turns'[d] \subseteq turns[d]
  BY DEF Evict, MarkInv, TypeOK
<1> QED
  BY <1>1 DEF MarkInv, SnapshotInv, MarkedInv, Quiet, pointVars, TypeOK

\* A snapshot holds every quiet turn, so the point it replaces is no loss; alone
\* at work, the finalizer makes the turns of its snapshot quiet.
LEMMA EmbedKeepsMark ==
  ASSUME MarkInv, NEW f \in Finalizers, Embed(f)
  PROVE  SnapshotInv' /\ MarkedInv'
<1>0. TypeOK /\ SnapshotInv /\ MarkedInv
  BY DEF MarkInv
<1>1. PICK c \in Convs, ts \in SUBSET TurnIds : c = fin[f].conv /\ ts = fin[f].snapshot
  BY <1>0 DEF Embed, TypeOK
<1>2. turns' = turns /\ finalized' = finalized /\ Quiet(c) \subseteq ts
  BY <1>0, <1>1 DEF Embed, storeVars, SnapshotInv
<1>3. embedded'[c] = ts /\ \A d \in Convs \ {c} : embedded'[d] = embedded[d]
  BY <1>0, <1>1 DEF Embed, TypeOK
<1>4. \A d \in Convs \ {c} : exposed'[d] = exposed[d]
  BY <1>0, <1>1 DEF Embed, TypeOK
<1>5. exposed'[c] = exposed[c] \/ (Alone(f) /\ exposed'[c] = exposed[c] \ ts)
  BY <1>0, <1>1 DEF Embed, TypeOK
<1>6. Quiet(c)' \subseteq ts /\ \A d \in Convs \ {c} : Quiet(d)' = Quiet(d)
  BY <1>2, <1>4, <1>5 DEF Quiet
<1>7. ~Alone(f) => Quiet(c)' = Quiet(c)
  BY <1>2, <1>5 DEF Quiet
<1>8. /\ fin'[f].conv = c /\ fin'[f].snapshot = ts
      /\ \A g \in Finalizers \ {f} : fin'[g] = fin[g]
  BY <1>0, <1>1 DEF Embed, TypeOK
<1>9. MarkedInv'
  <2> SUFFICES ASSUME NEW d \in finalized' PROVE Quiet(d)' \subseteq embedded'[d]
    BY DEF MarkedInv
  <2>1. d \in Convs /\ d \in finalized
    BY <1>0, <1>2 DEF TypeOK
  <2> QED
    BY <1>0, <1>3, <1>6, <2>1 DEF MarkedInv
<1>10. ASSUME NEW g \in Finalizers \ {f}, fin[g].stage # "idle",
              NEW d \in Convs, d = fin[g].conv
       PROVE  /\ Quiet(d)' \subseteq fin[g].snapshot
              /\ fin[g].stage = "mark" => Quiet(d)' \subseteq embedded'[d]
  <2>1. CASE d = c
    <3>1. ~Alone(f)
      BY <1>1, <1>10, <2>1 DEF Alone
    <3> QED
      BY <1>0, <1>3, <1>6, <1>7, <1>10, <2>1, <3>1 DEF SnapshotInv
  <2>2. CASE d # c
    BY <1>0, <1>3, <1>6, <1>10, <2>2 DEF SnapshotInv
  <2> QED
    BY <2>1, <2>2
<1>11. SnapshotInv'
  <2> SUFFICES ASSUME NEW g \in Finalizers, fin'[g].stage # "idle",
                      NEW d, d = fin'[g].conv
               PROVE  /\ Quiet(d)' \subseteq fin'[g].snapshot
                      /\ fin'[g].stage = "mark" => Quiet(d)' \subseteq embedded'[d]
    BY DEF SnapshotInv, Quiet
  <2>1. CASE g = f
    BY <1>3, <1>6, <1>8, <2>1
  <2>2. CASE g # f
    <3>1. fin'[g] = fin[g] /\ d \in Convs
      BY <1>0, <1>8, <2>2 DEF TypeOK
    <3> QED
      BY <1>10, <2>2, <3>1
  <2> QED
    BY <2>1, <2>2
<1> QED
  BY <1>9, <1>11

\* peek hands its finalizer every turn the session has, and marks a session that
\* has none.
LEMMA PeekSnapshot ==
  ASSUME MarkInv, NEW f \in Finalizers, NEW c \in Convs, fin[f].stage = "idle",
         Peek(f, c), UNCHANGED pointVars
  PROVE  SnapshotInv' /\ MarkedInv'
<1>0. TypeOK /\ SnapshotInv /\ MarkedInv
  BY DEF MarkInv
<1>1. CASE UNCHANGED storeVars
           /\ fin' = [fin EXCEPT ![f] = [stage |-> "embed", conv |-> c, snapshot |-> turns[c]]]
  <2>1. \A d \in Convs : Quiet(d)' = Quiet(d)
    BY <1>1 DEF Quiet, storeVars, pointVars
  <2>2. /\ fin'[f] = [stage |-> "embed", conv |-> c, snapshot |-> turns[c]]
        /\ \A g \in Finalizers \ {f} : fin'[g] = fin[g]
    BY <1>0, <1>1 DEF TypeOK
  <2>3. Quiet(c) \subseteq turns[c]
    BY DEF Quiet
  <2>4. MarkedInv'
    BY <1>0, <1>1, <2>1 DEF MarkedInv, storeVars, pointVars, TypeOK
  <2>5. SnapshotInv'
    BY <1>0, <2>1, <2>2, <2>3 DEF SnapshotInv, pointVars, TypeOK
  <2> QED
    BY <2>4, <2>5
<1>2. CASE turns[c] = {} /\ finalized' = finalized \cup {c} /\ UNCHANGED <<turns, fin>>
  BY <1>0, <1>2 DEF SnapshotInv, MarkedInv, Quiet, pointVars, TypeOK
<1>3. CASE Evict(c) /\ UNCHANGED fin
  BY <1>0, <1>3, EvictKeepsMark
<1>4. CASE UNCHANGED <<storeVars, fin>>
  BY <1>0, <1>4 DEF SnapshotInv, MarkedInv, Quiet, storeVars, pointVars
<1> QED
  BY <1>1, <1>2, <1>3, <1>4 DEF Peek, Missed

\* Activity shrinks what is marked, and a turn that comes into the session behind
\* a snapshot is exposed.
LEMMA StepMark ==
  ASSUME MarkInv, [Next]_vars
  PROVE  SnapshotInv' /\ MarkedInv'
<1>0. TypeOK /\ SnapshotInv /\ MarkedInv
  BY DEF MarkInv
<1>1. ASSUME UNCHANGED <<turns, finalized, pointVars, fin>>
      PROVE  SnapshotInv' /\ MarkedInv'
  BY <1>0, <1>1 DEF SnapshotInv, MarkedInv, Quiet, pointVars
<1>2. CASE Tick \/ WakeUp \/ FallAsleep \/ UNCHANGED vars
  BY <1>1, <1>2 DEF Tick, WakeUp, FallAsleep, vars, storeVars
<1>3. ASSUME NEW c \in Convs, Saved(c), UNCHANGED <<pointVars, fin>>
      PROVE  SnapshotInv' /\ MarkedInv'
  <2>1. /\ finalized' \subseteq finalized
        /\ \A d \in Convs : turns'[d] \subseteq turns[d]
    BY <1>0, <1>3 DEF Saved, Activity, TypeOK
  <2> QED
    BY <1>0, <1>3, <2>1 DEF SnapshotInv, MarkedInv, Quiet, pointVars, TypeOK
<1>4. ASSUME NEW c \in Convs, TurnLoads(c) \/ SetModel(c)
      PROVE  SnapshotInv' /\ MarkedInv'
  BY <1>1, <1>3, <1>4 DEF TurnLoads, SetModel, storeVars
<1>5. ASSUME NEW c \in Convs, NEW ts \in SUBSET TurnIds, Activity(c),
             turns' = [turns EXCEPT ![c] = ts], UNCHANGED <<embedded, fin>>,
             exposed' = IF Busy(c) THEN [exposed EXCEPT ![c] = @ \cup (ts \ turns[c])]
                                   ELSE exposed
      PROVE  SnapshotInv' /\ MarkedInv'
  <2>1. c \notin finalized' /\ finalized' \subseteq finalized
    BY <1>5 DEF Activity
  <2>2. turns'[c] = ts /\ \A d \in Convs \ {c} : turns'[d] = turns[d] /\ exposed'[d] = exposed[d]
    BY <1>0, <1>5 DEF TypeOK
  <2>3. Busy(c) => exposed'[c] = exposed[c] \cup (ts \ turns[c])
    BY <1>0, <1>5 DEF TypeOK
  <2>4. Busy(c) => Quiet(c)' \subseteq Quiet(c)
    BY <2>2, <2>3 DEF Quiet
  <2>5. \A d \in Convs \ {c} : Quiet(d)' = Quiet(d)
    BY <2>2 DEF Quiet
  <2>6. MarkedInv'
    BY <1>0, <1>5, <2>1, <2>5 DEF MarkedInv, TypeOK
  <2>7. ASSUME NEW f \in Finalizers, fin[f].stage # "idle"
        PROVE  Quiet(fin[f].conv)' \subseteq Quiet(fin[f].conv)
    <3>1. fin[f].conv \in Convs /\ (fin[f].conv = c => Busy(c))
      BY <1>0, <2>7 DEF TypeOK, Busy
    <3> QED
      BY <1>5, <2>4, <2>5, <3>1
  <2>8. SnapshotInv'
    BY <1>0, <1>5, <2>7 DEF SnapshotInv
  <2> QED
    BY <2>6, <2>8
<1>6. ASSUME NEW c \in Convs, TurnPersists(c) PROVE SnapshotInv' /\ MarkedInv'
  <2>1. CASE c \in open
    <3> DEFINE ts == turns[c] \cup {sent[c] + 1}
    <3>1. ts \in SUBSET TurnIds
      BY <1>0, <1>6, LifecycleAssumption DEF TurnPersists, TypeOK, TurnIds
    <3>2. /\ turns' = [turns EXCEPT ![c] = ts] /\ Activity(c) /\ UNCHANGED <<embedded, fin>>
          /\ exposed' = IF Busy(c) THEN [exposed EXCEPT ![c] = @ \cup {sent[c] + 1}]
                                   ELSE exposed
      BY <1>6, <2>1 DEF TurnPersists
    <3>3. CASE sent[c] + 1 \notin turns[c]
      <4>1. ts \ turns[c] = {sent[c] + 1}
        BY <3>3
      <4> QED
        BY <1>5, <3>1, <3>2, <4>1
    <3>4. CASE sent[c] + 1 \in turns[c]
      <4>1. \A d \in Convs : turns'[d] = turns[d] /\ exposed[d] \subseteq exposed'[d]
        BY <1>0, <3>2, <3>4 DEF TypeOK
      <4> QED
        BY <1>0, <3>2, <4>1 DEF Activity, SnapshotInv, MarkedInv, Quiet, TypeOK
    <3> QED
      BY <3>3, <3>4
  <2>2. CASE c \notin open
    BY <1>1, <1>6, <2>2 DEF TurnPersists, storeVars, pointVars
  <2> QED
    BY <2>1, <2>2
<1>7. ASSUME NEW c \in Convs, SweepNext(c) PROVE SnapshotInv' /\ MarkedInv'
  BY <1>7, PeekSnapshot DEF SweepNext, Idle, Finalizers
<1>8. ASSUME NEW c \in Convs, Disconnect(c) PROVE SnapshotInv' /\ MarkedInv'
  BY <1>8, PeekSnapshot DEF Disconnect, Idle, Finalizers
<1>9. ASSUME NEW c \in Convs, NEW n \in TurnIds, RolloverStep(c, n)
      PROVE  SnapshotInv' /\ MarkedInv'
  <2>1. UNCHANGED <<embedded, fin>>
    BY <1>9, RolloverTouches
  <2>2. ASSUME NEW ts \in SUBSET roll[c][n].snapshot, WriteBack(c, n, ts)
        PROVE  SnapshotInv' /\ MarkedInv'
    <3>1. ts \in SUBSET TurnIds
      BY <1>0 DEF TypeOK, Rollovers
    <3> QED
      BY <1>5, <2>1, <2>2, <3>1 DEF WriteBack
  <2>3. CASE Evict(c) /\ UNCHANGED exposed
    BY <1>0, <2>1, <2>3, EvictKeepsMark DEF pointVars
  <2>4. CASE UNCHANGED <<storeVars, exposed>>
    BY <1>1, <2>1, <2>4 DEF storeVars, pointVars
  <2> QED
    BY <1>9, <2>2, <2>3, <2>4, RolloverTouches
<1>10. ASSUME NEW f \in Finalizers, Embed(f) PROVE SnapshotInv' /\ MarkedInv'
  BY <1>0, <1>10, EmbedKeepsMark
<1>11. ASSUME NEW f \in Finalizers, MarkFinalized(f) PROVE SnapshotInv' /\ MarkedInv'
  <2>1. Quiet(fin[f].conv) \subseteq embedded[fin[f].conv]
    BY <1>0, <1>11 DEF MarkFinalized, SnapshotInv
  <2>2. turns' = turns /\ embedded' = embedded /\ exposed' = exposed
    BY <1>11 DEF MarkFinalized, pointVars
  <2>3. \A g \in Finalizers : fin'[g] = fin[g] \/ fin'[g].stage = "idle"
    BY <1>0, <1>11 DEF MarkFinalized, TypeOK, Idle
  <2>4. MarkedInv'
    BY <1>0, <1>11, <2>1, <2>2 DEF MarkFinalized, MarkedInv, Quiet
  <2>5. SnapshotInv'
    BY <1>0, <2>2, <2>3 DEF SnapshotInv, Quiet
  <2> QED
    BY <2>4, <2>5
<1>12. ASSUME NEW f \in Finalizers, FinalizeFails(f) PROVE SnapshotInv' /\ MarkedInv'
  <2>1. turns' = turns /\ embedded' = embedded /\ exposed' = exposed /\ finalized' = finalized
    BY <1>12 DEF FinalizeFails, storeVars, pointVars
  <2>2. \A g \in Finalizers : fin'[g] = fin[g] \/ fin'[g].stage = "idle"
    BY <1>0, <1>12 DEF FinalizeFails, TypeOK, Idle
  <2> QED
    BY <1>0, <2>1, <2>2 DEF SnapshotInv, MarkedInv, Quiet
<1> QED
  BY <1>2, <1>4, <1>6, <1>7, <1>8, <1>9, <1>10, <1>11, <1>12 DEF Next, RolloverStep

\* Nothing is marked in an empty store.
LEMMA InitMark == Init => MarkInv
<1> SUFFICES ASSUME Init PROVE MarkInv
  OBVIOUS
<1>1. \A f \in Finalizers : fin[f].stage = "idle"
  BY DEF Init, Idle
<1>2. finalized = {}
  BY DEF Init
<1> QED
  BY <1>1, <1>2, InitType DEF MarkInv, SnapshotInv, MarkedInv

\* Whatever turns, rollovers and finalizations overlap, a mark means what
\* types.py:41-44 says of every turn but those that came into the session while it
\* was being finalized: it is in the conversation's point, which the latest
\* finalization wrote.
THEOREM MarkMeansEmbedded == Spec => []QuietTurnsEmbedded
<1>1. Init => MarkInv
  BY InitMark
<1>2. MarkInv /\ [Next]_vars => MarkInv'
  <2> SUFFICES ASSUME MarkInv, [Next]_vars PROVE MarkInv'
    OBVIOUS
  <2>1. TypeOK'
    BY StepType DEF MarkInv
  <2>2. SnapshotInv' /\ MarkedInv'
    BY StepMark
  <2> QED
    BY <2>1, <2>2 DEF MarkInv
<1>3. MarkInv => QuietTurnsEmbedded
  BY DEF MarkInv, MarkedInv, Quiet, QuietTurnsEmbedded
<1> QED
  BY <1>1, <1>2, <1>3, PTL DEF Spec

-----------------------------------------------------------------------------
(* The in-memory store implements SessionStore.                            *)

\* Turns are numbered in the order they are persisted, so a new one is new, and
\* what a rollover holds is old.
SentInv ==
  /\ TypeOK
  /\ \A c \in Convs : turns[c] \subseteq 1..sent[c]
  /\ \A c \in Convs, n \in TurnIds : roll[c][n].snapshot \subseteq 1..sent[c]

\* A step that disturbs the store at c alone replaces the session of c.
LEMMA OneBecomes ==
  ASSUME NEW c \in Convs,
         \A d \in Convs \ {c} : /\ (d \in open') = (d \in open)
                                /\ turns'[d] = turns[d]
                                /\ (d \in finalized') = (d \in finalized)
                                /\ (d \in stale') = (d \in stale)
  PROVE  Sessions' = [Sessions EXCEPT ![c] = Sessions'[c]]
<1>1. \A d \in Convs \ {c} : Sessions'[d] = Sessions[d]
  BY DEF Sessions
<1> QED
  BY <1>1 DEF Sessions

\* Nothing that leaves the store alone is seen through the mapping.
LEMMA StoreStutters == UNCHANGED storeVars => UNCHANGED Sessions
BY DEF storeVars, Sessions

\* Nor is what happens to a session while nothing is said of it.
LEMMA StaleStutters ==
  ASSUME NEW c \in Convs, c \in stale, c \in stale',
         \A d \in Convs \ {c} : /\ (d \in open') = (d \in open)
                                /\ turns'[d] = turns[d]
                                /\ (d \in finalized') = (d \in finalized)
                                /\ (d \in stale') = (d \in stale)
  PROVE  UNCHANGED Sessions
<1>1. \A d \in Convs \ {c} : Sessions'[d] = Sessions[d]
  BY DEF Sessions
<1>2. Sessions'[c] = Sessions[c]
  BY DEF Sessions
<1> QED
  BY <1>1, <1>2 DEF Sessions

\* save is Touch of a loaded session, and Open otherwise.
LEMMA SavedIsStep ==
  ASSUME SentInv, NEW c \in Convs, Saved(c)
  PROVE  Store!Open(c) \/ Store!Touch(c) \/ UNCHANGED Sessions
<1>1. CASE c \in Loaded(c)
  <2>1. /\ c \in open /\ open' = open /\ turns' = turns /\ finalized' = finalized \ {c}
        /\ stale' = stale
    BY <1>1 DEF Saved, Loaded, Activity, SentInv, TypeOK
  <2>2. Sessions' = [Sessions EXCEPT ![c] = Sessions'[c]]
    BY <2>1, OneBecomes
  <2>3. CASE c \in stale
    BY <2>1, <2>3, StaleStutters
  <2>4. CASE c \notin stale
    <3>1. (c \in open') = TRUE /\ (c \in finalized') = FALSE /\ c \notin stale'
      BY <2>1, <2>4
    <3>2. Sessions[c].live /\ Sessions'[c] = Store!Live(Sessions[c].turns)
      BY <2>1, <2>4, <3>1 DEF Store!Live, Sessions
    <3> QED
      BY <2>2, <3>2 DEF Store!Touch
  <2> QED
    BY <2>3, <2>4
<1>2. CASE c \notin Loaded(c)
  <2>1. /\ open' = open \cup {c}
        /\ turns' = [turns EXCEPT ![c] = {}]
        /\ finalized' = finalized \ {c}
        /\ stale' = stale \ {c}
    BY <1>2 DEF Saved, Loaded, Activity
  <2>2. turns'[c] = {} /\ \A d \in Convs \ {c} : turns'[d] = turns[d]
    BY <2>1 DEF SentInv, TypeOK
  <2>3. Sessions' = [Sessions EXCEPT ![c] = Sessions'[c]]
    BY <2>1, <2>2, OneBecomes
  <2>4. (c \in open') = TRUE /\ (c \in finalized') = FALSE /\ c \notin stale'
    BY <2>1
  <2>5. Sessions'[c] = Store!Live({})
    BY <2>2, <2>4 DEF Store!Live, Sessions
  <2> QED
    BY <2>3, <2>5 DEF Store!Open
<1> QED
  BY <1>1, <1>2

\* What is evicted is gone.
LEMMA EvictIsStep ==
  ASSUME SentInv, NEW c \in Convs, Evict(c)
  PROVE  Store!Evict(c)
<1>1. turns'[c] = {} /\ \A d \in Convs \ {c} : turns'[d] = turns[d]
  BY DEF Evict, SentInv, TypeOK
<1>2. Sessions' = [Sessions EXCEPT ![c] = Sessions'[c]]
  BY <1>1, OneBecomes DEF Evict
<1>3. (c \in open') = FALSE /\ (c \in finalized') = FALSE
  BY DEF Evict
<1>4. Sessions'[c] = Store!Absent
  BY <1>1, <1>3 DEF Store!Absent, Sessions
<1> QED
  BY <1>2, <1>4 DEF Store!Evict

\* A session that is there is marked, or nothing is said of it.
LEMMA MarkingIsStep ==
  ASSUME NEW c \in Convs, c \in open, finalized' = finalized \cup {c},
         UNCHANGED <<open, turns, stale>>
  PROVE  Store!Mark(c) \/ UNCHANGED Sessions
<1>1. CASE c \in stale
  BY <1>1, StaleStutters
<1>2. CASE c \notin stale
  <2>1. Sessions' = [Sessions EXCEPT ![c] = Sessions'[c]]
    BY OneBecomes
  <2>2. Sessions[c].live /\ Sessions[c].turns = turns[c]
    BY <1>2 DEF Sessions
  <2>3. Sessions'[c] = Store!Finalized(turns[c])
    <3>1. (c \in open') = TRUE /\ (c \in finalized') = TRUE /\ c \notin stale'
      BY <1>2
    <3> QED
      BY <3>1 DEF Sessions, Store!Finalized
  <2> QED
    BY <2>1, <2>2, <2>3 DEF Store!Mark
<1> QED
  BY <1>1, <1>2

\* peek leaves the store alone, evicts, or marks a session without a turn.
LEMMA PeekIsStep ==
  ASSUME SentInv, NEW f \in Finalizers, NEW c \in Convs, Peek(f, c)
  PROVE  Store!Evict(c) \/ Store!Mark(c) \/ UNCHANGED Sessions
<1>1. CASE Evict(c)
  BY <1>1, EvictIsStep
<1>2. CASE UNCHANGED storeVars
  BY <1>2, StoreStutters
<1>3. CASE c \in open /\ finalized' = finalized \cup {c} /\ UNCHANGED <<open, turns, stale>>
  BY <1>3, MarkingIsStep
<1> QED
  BY <1>1, <1>2, <1>3 DEF Peek, Missed, Loaded

\* A turn that finds a session is appended to it.
LEMMA PersistIsStep ==
  ASSUME SentInv, NEW c \in Convs, TurnPersists(c), c \in open
  PROVE  Store!AppendTurn(c, sent[c] + 1) \/ UNCHANGED Sessions
<1>1. /\ open' = open /\ finalized' = finalized \ {c} /\ stale' = stale
      /\ turns' = [turns EXCEPT ![c] = @ \cup {sent[c] + 1}]
  BY DEF TurnPersists, Activity
<1>2. sent[c] \in Nat
  BY DEF SentInv, TypeOK
<1>3. turns'[c] = turns[c] \cup {sent[c] + 1} /\ \A d \in Convs \ {c} : turns'[d] = turns[d]
  BY <1>1 DEF SentInv, TypeOK
<1>4. sent[c] + 1 \notin turns[c]
  BY <1>2 DEF SentInv
<1>5. CASE c \in stale
  BY <1>1, <1>3, <1>5, StaleStutters
<1>6. CASE c \notin stale
  <2>1. Sessions' = [Sessions EXCEPT ![c] = Sessions'[c]]
    BY <1>1, <1>3, OneBecomes
  <2>2. Sessions[c].live /\ Sessions[c].turns = turns[c]
    BY <1>6 DEF Sessions
  <2>3. (c \in open') = TRUE /\ (c \in finalized') = FALSE /\ c \notin stale'
    BY <1>1, <1>6
  <2>4. Sessions'[c] = Store!Live(turns[c] \cup {sent[c] + 1})
    BY <1>3, <2>3 DEF Store!Live, Sessions
  <2> QED
    BY <1>4, <2>1, <2>2, <2>4 DEF Store!AppendTurn
<1> QED
  BY <1>5, <1>6

\* mark_finalized marks a session that is there, and is not seen otherwise.
LEMMA MarkIsStep ==
  ASSUME SentInv, NEW f \in Finalizers, MarkFinalized(f)
  PROVE  (\E c \in Convs : Store!Mark(c)) \/ UNCHANGED Sessions
<1>1. PICK c \in Convs : c = fin[f].conv
  BY DEF MarkFinalized, SentInv, TypeOK
<1>2. UNCHANGED <<open, turns, stale>> /\ finalized' = finalized \cup ({c} \cap open)
  BY <1>1 DEF MarkFinalized
<1>3. CASE c \in open
  BY <1>2, <1>3, MarkingIsStep
<1>4. CASE c \notin open
  BY <1>2, <1>4 DEF Sessions
<1> QED
  BY <1>3, <1>4

\* What a rollover saves is what the session has, or nothing is said of the
\* session from there on.
LEMMA WriteBackIsStep ==
  ASSUME SentInv, NEW c \in Convs, NEW n \in TurnIds, NEW ts, WriteBack(c, n, ts)
  PROVE  Store!Touch(c) \/ Store!Evict(c) \/ UNCHANGED Sessions
<1>1. /\ open' = open \cup {c} /\ turns' = [turns EXCEPT ![c] = ts]
      /\ finalized' = finalized \ {c}
      /\ stale' = IF c \in open /\ turns[c] = ts THEN stale ELSE stale \cup {c}
  BY DEF WriteBack, Activity
<1>2. turns'[c] = ts /\ \A d \in Convs \ {c} : turns'[d] = turns[d]
  BY <1>1 DEF SentInv, TypeOK
<1>3. Sessions' = [Sessions EXCEPT ![c] = Sessions'[c]]
  BY <1>1, <1>2, OneBecomes
<1>4. CASE c \in stale
  BY <1>1, <1>2, <1>4, StaleStutters
<1>5. CASE c \notin stale /\ c \in open /\ turns[c] = ts
  <2>1. (c \in open') = TRUE /\ (c \in finalized') = FALSE /\ c \notin stale'
    BY <1>1, <1>5
  <2>2. Sessions[c].live /\ Sessions'[c] = Store!Live(Sessions[c].turns)
    BY <1>2, <1>5, <2>1 DEF Store!Live, Sessions
  <2> QED
    BY <1>3, <2>2 DEF Store!Touch
<1>6. CASE ~(c \in open /\ turns[c] = ts)
  <2>1. Sessions'[c] = Store!Absent
    BY <1>1, <1>6 DEF Store!Absent, Sessions
  <2> QED
    BY <1>3, <2>1 DEF Store!Evict
<1> QED
  BY <1>4, <1>5, <1>6

\* Turns stay numbered by the turns persisted.
LEMMA StepSent == SentInv /\ [Next]_vars => SentInv'
<1> SUFFICES ASSUME SentInv, [Next]_vars PROVE SentInv'
  OBVIOUS
<1>1. TypeOK'
  BY StepType DEF SentInv
<1> DEFINE Numbered ==
             /\ \A c \in Convs : turns[c] \subseteq 1..sent[c]
             /\ \A c \in Convs, n \in TurnIds : roll[c][n].snapshot \subseteq 1..sent[c]
<1>2. ASSUME NEW c \in Convs, Saved(c), UNCHANGED <<sent, roll>> PROVE Numbered'
  BY <1>2 DEF Saved, SentInv, TypeOK
<1>3. ASSUME NEW c \in Convs, Evict(c), UNCHANGED sent,
             \A d \in Convs, n \in TurnIds : roll'[d][n].snapshot \subseteq roll[d][n].snapshot
      PROVE Numbered'
  BY <1>3 DEF Evict, SentInv, TypeOK
<1>4. ASSUME NEW c \in Convs, TurnPersists(c), c \in open PROVE Numbered'
  <2>1. /\ sent' = [sent EXCEPT ![c] = sent[c] + 1]
        /\ turns' = [turns EXCEPT ![c] = @ \cup {sent[c] + 1}]
    BY <1>4 DEF TurnPersists
  <2>2. sent'[c] = sent[c] + 1 /\ sent[c] \in Nat /\ turns'[c] = turns[c] \cup {sent[c] + 1}
    BY <2>1 DEF SentInv, TypeOK
  <2>3. \A d \in Convs \ {c} : turns'[d] = turns[d] /\ sent'[d] = sent[d]
    BY <2>1 DEF SentInv, TypeOK
  <2>4. \A d \in Convs : 1..sent[d] \subseteq 1..sent'[d]
    <3>1. \A d \in Convs : sent[d] \in Nat /\ sent'[d] \in {sent[d], sent[d] + 1}
      BY <2>2, <2>3 DEF SentInv, TypeOK
    <3> QED
      BY <3>1
  <2>5. \A d \in Convs, n \in TurnIds : roll'[d][n].snapshot = roll[d][n].snapshot
    <3>1. sent[c] + 1 \in TurnIds /\ roll[c][sent[c] + 1] \in Rollovers
      BY <1>4, LifecycleAssumption DEF TurnPersists, SentInv, TypeOK, TurnIds
    <3>2. \/ roll' = roll
          \/ roll' = [roll EXCEPT ![c][sent[c] + 1] = [@ EXCEPT !.stage = "queued"]]
      BY <1>4 DEF TurnPersists
    <3>3. roll \in [Convs -> [TurnIds -> Rollovers]]
      BY DEF SentInv, TypeOK
    <3>4. [roll[c][sent[c] + 1] EXCEPT !.stage = "queued"].snapshot = roll[c][sent[c] + 1].snapshot
      BY <3>1 DEF Rollovers
    <3> QED
      BY <3>1, <3>2, <3>3, <3>4
  <2>6. \A d \in Convs : turns'[d] \subseteq 1..sent'[d]
    BY <2>2, <2>3 DEF SentInv
  <2> QED
    BY <2>4, <2>5, <2>6 DEF SentInv
<1>5. ASSUME UNCHANGED <<turns, sent>>,
             \A d \in Convs, n \in TurnIds :
               \/ roll'[d][n].snapshot \subseteq roll[d][n].snapshot
               \/ roll'[d][n].snapshot = turns[d]
      PROVE Numbered'
  BY <1>5 DEF SentInv
<1>6. ASSUME NEW c \in Convs, NEW m \in TurnIds, RolloverStep(c, m) PROVE Numbered'
  <2>0. roll \in [Convs -> [TurnIds -> Rollovers]] /\ UNCHANGED sent
    BY <1>6, RolloverTouches DEF SentInv, TypeOK
  <2>1. CASE RolloverStarts(c, m)
    <3>1. \A d \in Convs, n \in TurnIds :
            \/ roll'[d][n].snapshot \subseteq roll[d][n].snapshot
            \/ roll'[d][n].snapshot = turns[d]
      BY <2>0, <2>1 DEF RolloverStarts, RolloverOver, NoRollover
    <3>2. CASE UNCHANGED storeVars
      BY <1>5, <2>0, <3>1, <3>2 DEF storeVars
    <3>3. CASE Missed(c) /\ RolloverOver(c, m)
      <4>1. \A d \in Convs, n \in TurnIds : roll'[d][n].snapshot \subseteq roll[d][n].snapshot
        BY <2>0, <3>3 DEF RolloverOver, NoRollover
      <4> QED
        BY <1>3, <1>5, <2>0, <3>3, <4>1 DEF Missed, storeVars
    <3> QED
      BY <2>1, <3>2, <3>3 DEF RolloverStarts
  <2>2. ASSUME NEW ts \in SUBSET roll[c][m].snapshot, WriteBack(c, m, ts) PROVE Numbered'
    <3>1. turns' = [turns EXCEPT ![c] = ts]
      BY <2>2 DEF WriteBack
    <3>2. \A d \in Convs : turns'[d] \subseteq 1..sent[d]
      BY <3>1 DEF SentInv, TypeOK
    <3>3. \A d \in Convs, n \in TurnIds : roll'[d][n].snapshot \subseteq roll[d][n].snapshot
      <4>1. \A d \in Convs \ {c} : roll'[d] = roll[d]
        BY <2>0, <2>2 DEF WriteBack
      <4>2. \A n \in TurnIds : roll'[c][n].snapshot \subseteq roll[c][n].snapshot
        BY <2>0, <2>2 DEF WriteBack, NoRollover, Rollovers
      <4> QED
        BY <4>1, <4>2
    <3> QED
      BY <2>0, <3>2, <3>3 DEF SentInv
  <2>3. CASE RolloverGivesUp(c, m)
    <3>1. \A d \in Convs, n \in TurnIds : roll'[d][n].snapshot \subseteq roll[d][n].snapshot
      BY <2>0, <2>3 DEF RolloverGivesUp, RolloverOver, NoRollover
    <3> QED
      BY <1>5, <2>3, <3>1 DEF RolloverGivesUp, storeVars
  <2> QED
    BY <1>6, <2>1, <2>2, <2>3 DEF RolloverStep, RolloverSaves, RolloverReverts
<1>7. ASSUME NEW f \in Finalizers, NEW c \in Convs, Peek(f, c), UNCHANGED turnVars PROVE Numbered'
  BY <1>3, <1>5, <1>7 DEF Peek, Missed, storeVars, turnVars
<1>8. Numbered'
  BY <1>2, <1>4, <1>5, <1>6, <1>7
     DEF Next, vars, storeVars, turnVars, Tick, WakeUp, FallAsleep, TurnLoads, TurnPersists,
         SetModel, SweepNext, Disconnect, Embed, MarkFinalized, FinalizeFails, Finalizers,
         RolloverStep
<1> QED
  BY <1>1, <1>8 DEF SentInv

\* Every step of the lifecycle is one of the abstract store, or a stutter.
LEMMA StepIsStore == SentInv /\ [Next]_vars => [Store!Next]_Sessions
<1> SUFFICES ASSUME SentInv, [Next]_vars PROVE Store!Next \/ UNCHANGED Sessions
  OBVIOUS
<1>1. ASSUME NEW c \in Convs, Store!Open(c) \/ Store!Touch(c) \/ Store!Mark(c) \/ Store!Evict(c)
      PROVE  Store!Next
  BY <1>1 DEF Store!Next
<1>2. ASSUME NEW c \in Convs, TurnLoads(c) PROVE Store!Next \/ UNCHANGED Sessions
  BY <1>1, <1>2, SavedIsStep, StoreStutters DEF TurnLoads
<1>3. ASSUME NEW c \in Convs, TurnPersists(c) PROVE Store!Next \/ UNCHANGED Sessions
  <2>1. CASE c \in open
    <3>1. sent[c] + 1 \in TurnIds
      BY <1>3, LifecycleAssumption DEF TurnPersists, SentInv, TypeOK, TurnIds
    <3> QED
      BY <1>3, <2>1, <3>1, PersistIsStep DEF Store!Next
  <2>2. CASE c \notin open
    BY <1>3, <2>2, StoreStutters DEF TurnPersists
  <2> QED
    BY <2>1, <2>2
<1>4. ASSUME NEW f \in Finalizers, NEW c \in Convs, Peek(f, c)
      PROVE  Store!Next \/ UNCHANGED Sessions
  BY <1>1, <1>4, PeekIsStep
<1>5. ASSUME NEW f \in Finalizers, MarkFinalized(f) PROVE Store!Next \/ UNCHANGED Sessions
  BY <1>1, <1>5, MarkIsStep
<1>6. ASSUME NEW c \in Convs, SetModel(c) PROVE Store!Next \/ UNCHANGED Sessions
  BY <1>1, <1>6, SavedIsStep DEF SetModel
<1>7. ASSUME NEW c \in Convs, NEW n \in TurnIds, RolloverStep(c, n)
      PROVE  Store!Next \/ UNCHANGED Sessions
  BY <1>1, <1>7, RolloverTouches, WriteBackIsStep, EvictIsStep, StoreStutters
<1> QED
  BY <1>2, <1>3, <1>4, <1>5, <1>6, <1>7, StoreStutters
     DEF Next, vars, Tick, WakeUp, FallAsleep, SweepNext, Disconnect, Embed, FinalizeFails,
         Finalizers, RolloverStep

\* Every operation of memory_session.py, as turns, rollovers, handlers, the sweeper
\* and the TTL use it, takes effect at once: the store is the SessionStore of
\* base.py, for any number of conversations and turns, in every interleaving; but
\* nothing is said of a session from a rollover's save that changed what it had
\* (working.py:114-131) to its eviction.
THEOREM InMemoryIsStore == Spec => IsStore
<1>1. Init => SentInv /\ Store!Init
  <2> SUFFICES ASSUME Init PROVE SentInv /\ Store!Init
    OBVIOUS
  <2>1. SentInv
    BY InitType DEF Init, SentInv, NoRollover
  <2>2. \A c \in Convs : c \notin open /\ c \notin finalized /\ turns[c] = {} /\ c \notin stale
    BY DEF Init
  <2>3. ASSUME NEW c \in Convs PROVE Sessions[c] = Store!Absent
    <3>1. (c \in open) = FALSE /\ (c \in finalized) = FALSE
      BY <2>2
    <3> QED
      BY <2>2, <3>1 DEF Sessions, Store!Absent
  <2>4. Sessions = [c \in Convs |-> Sessions[c]]
    BY DEF Sessions
  <2> QED
    BY <2>1, <2>3, <2>4 DEF Store!Init
<1>2. SentInv /\ [Next]_vars => SentInv'
  BY StepSent
<1>3. SentInv /\ [Next]_vars => [Store!Next]_Sessions
  BY StepIsStore
<1> QED
  BY <1>1, <1>2, <1>3, PTL DEF Spec, IsStore, Store!Spec

=============================================================================
