--------------------------- MODULE TurnLoopProofs ---------------------------
(***************************************************************************)
(* What holds of the turn loop for every number of turns, conversations,   *)
(* tools, calls and iterations.                                            *)
(***************************************************************************)
EXTENDS TurnLoop, SequenceTheorems, TLAPS

\* An approval future is True only for a call its own client consented to
\* (loop.py:359-363): the link between resolve_approval and the worker that
\* wakes up on the future.
YesIsConsent ==
  \A t \in Turns : \A i \in Active(t) :
    worker[t][i] = "waiting" /\ fut[t][i] = "yes" => <<t, i>> \in consent

\* Tasks live only while their batch does: run_turn leaves _execute_tool_calls
\* through the gather (loop.py:298-308).
LiveInBatch ==
  \A t \in Turns : \A i \in Active(t) :
    worker[t][i] \in Live => phase[t] \in {"fanin", "closing"}

GateInv == TypeOK /\ LiveInBatch /\ PendingIsWaiting /\ YesIsConsent /\ ConsentBeforeRun

\* Initially the loop's variables have their types.
LEMMA InitType == Init => TypeOK
<1> SUFFICES ASSUME Init PROVE TypeOK
  OBVIOUS
<1>1. ControlType
  BY TurnLoopAssumption DEF Init, ControlType, Phases
<1>2. BatchType
  BY TurnLoopAssumption DEF Init, BatchType, WorkerStates, ResultEntries
<1>3. GateType
  BY TurnLoopAssumption DEF Init, GateType
<1> QED
  BY <1>1, <1>2, <1>3 DEF TypeOK

\* Putting items on a batch's queue keeps the queues' type.
LEMMA EmitType ==
  ASSUME BatchType, NEW t \in Turns, NEW items \in Seq(QueueItems), Emit(t, items)
  PROVE  queue' \in [Turns -> Seq(QueueItems)]
<1>1. queue[t] \o items \in Seq(QueueItems)
  BY DEF BatchType
<1> QED
  BY <1>1 DEF BatchType, Emit

\* What a worker puts on the queue has the queue's item type.
LEMMA ItemTypes ==
  ASSUME NEW i \in Slots, NEW o \in Outcomes
  PROVE  /\ \A k \in {"approval", "started", "result"} : <<Event(k, i)>> \in Seq(QueueItems)
         /\ <<Event("result", i), Done(i, o)>> \in Seq(QueueItems)
BY DEF QueueItems, Event, Done

\* A batch set up or thrown away has the types of a batch.
LEMMA SetBatchType ==
  ASSUME BatchType, NEW t \in Turns, NEW cs \in Seq([id : CallIds, name : Tools]),
         NEW s \in {"created", "none"}, SetBatch(t, cs, s)
  PROVE  BatchType'
<1>1. calls' \in [Turns -> Seq([id : CallIds, name : Tools])]
  BY DEF BatchType, SetBatch
<1>2. worker' \in [Turns -> [Slots -> WorkerStates]]
  <2>1. [i \in Slots |-> IF i <= Len(cs) THEN s ELSE "none"] \in [Slots -> WorkerStates]
    BY DEF WorkerStates
  <2> QED
    BY <2>1 DEF BatchType, SetBatch
<1>3. queue' \in [Turns -> Seq(QueueItems)]
  BY DEF BatchType, SetBatch
<1>4. results' \in [Turns -> [Slots -> ResultEntries]]
  BY DEF BatchType, SetBatch, ResultEntries
<1> QED
  BY <1>1, <1>2, <1>3, <1>4 DEF BatchType

\* A worker that runs has a call, with an id and a name.
LEMMA CallType ==
  ASSUME BatchType, NEW t \in Turns, NEW i \in Active(t)
  PROVE  calls[t][i].id \in CallIds /\ Name(t, i) \in Tools
<1>1. calls[t] \in Seq([id : CallIds, name : Tools])
  BY DEF BatchType
<1>2. i \in 1..Len(calls[t])
  BY <1>1, TurnLoopAssumption DEF Active, Slots
<1>3. calls[t][i] \in [id : CallIds, name : Tools]
  BY <1>1, <1>2, ElementOfSeq
<1> QED
  BY <1>3 DEF Name

\* Every step keeps the types of the loop's control state.
LEMMA StepControl == ControlType /\ [Next]_vars => ControlType'
<1> SUFFICES ASSUME ControlType, [Next]_vars PROVE ControlType'
  OBVIOUS
<1> USE TurnLoopAssumption DEF ControlType, Phases
<1>1. ASSUME NEW t \in Turns, StartTurn(t) PROVE ControlType'
  BY <1>1 DEF StartTurn, batchVars, persistVars
<1>2. ASSUME NEW t \in Turns, RejectTurn(t) PROVE ControlType'
  BY <1>2 DEF RejectTurn, batchVars, persistVars
<1>3. ASSUME NEW t \in Turns, HitIterationCap(t) PROVE ControlType'
  BY <1>3 DEF HitIterationCap, BeginPersist, EarlierText, batchVars, persistVars
<1>4. ASSUME NEW t \in Turns, EndLoop(t) PROVE ControlType'
  BY <1>4 DEF EndLoop, BeginIteration, BeginPersist, batchVars, persistVars
<1>5. ASSUME NEW t \in Turns, ModelFails(t) PROVE ControlType'
  BY <1>5
  DEF ModelFails, BeginIteration, BeginPersist, EarlierText, batchVars,
      persistVars
<1>6. ASSUME NEW t \in Turns, ModelCallsTools(t) PROVE ControlType'
  BY <1>6
  DEF ModelCallsTools, CallTools, BeginIteration, SetBatch, batchVars,
      persistVars
<1>7. ASSUME NEW t \in Turns, FanIn(t) PROVE ControlType'
  BY <1>7 DEF FanIn, batchVars, persistVars
<1>8. ASSUME NEW t \in Turns, CollectBatch(t) PROVE ControlType'
  BY <1>8 DEF CollectBatch, SetBatch, batchVars, persistVars
<1>9. ASSUME NEW t \in Turns, AppendTurn(t) PROVE ControlType'
  BY <1>9 DEF AppendTurn, batchVars, persistVars
<1>10. ASSUME NEW t \in Turns, CompleteTurn(t) PROVE ControlType'
  BY <1>10
  DEF CompleteTurn, Terminate, PersistFrame, Enqueued, batchVars,
      persistVars
<1>11. ASSUME NEW t \in Turns, FailTurn(t) PROVE ControlType'
  BY <1>11
  DEF FailTurn, Terminate, PersistFrame, Enqueued, batchVars, persistVars
<1>12. ASSUME NEW t \in Turns, AppendFails(t) PROVE ControlType'
  BY <1>12 DEF AppendFails, Terminate, PersistFrame, batchVars, persistVars
<1>13. ASSUME NEW t \in Turns, CloseTurn(t) PROVE ControlType'
  BY <1>13 DEF CloseTurn, Cancelled, batchVars, persistVars
<1>14. ASSUME NEW t \in Turns, TurnClosed(t) PROVE ControlType'
  BY <1>14 DEF TurnClosed, batchVars, persistVars
<1>15. ASSUME NEW t \in Turns, NEW i \in Slots, WorkerBegins(t, i) PROVE ControlType'
  BY <1>15 DEF WorkerBegins, WorkerFrame, batchVars, persistVars
<1>16. ASSUME NEW t \in Turns, NEW i \in Slots, WorkerApproved(t, i) PROVE ControlType'
  BY <1>16 DEF WorkerApproved, EnterRegistry, WorkerFrame, LeaveGate, batchVars, persistVars
<1>17. ASSUME NEW t \in Turns, NEW i \in Slots, WorkerDenied(t, i) PROVE ControlType'
  BY <1>17 DEF WorkerDenied, WorkerFrame, LeaveGate, batchVars, persistVars
<1>18. ASSUME NEW t \in Turns, NEW i \in Slots, ApprovalTimesOut(t, i) PROVE ControlType'
  BY <1>18 DEF ApprovalTimesOut, WorkerFrame, LeaveGate, batchVars, persistVars
<1>19. ASSUME NEW t \in Turns, NEW i \in Slots, RegistryRefuses(t, i) PROVE ControlType'
  BY <1>19 DEF RegistryRefuses, WorkerFrame, batchVars, persistVars
<1>20. ASSUME NEW t \in Turns, NEW i \in Slots, HandlerStarts(t, i) PROVE ControlType'
  BY <1>20 DEF HandlerStarts, WorkerFrame, batchVars, persistVars
<1>21. ASSUME NEW t \in Turns, NEW i \in Slots, HandlerEnds(t, i) PROVE ControlType'
  BY <1>21 DEF HandlerEnds, WorkerFrame, batchVars, persistVars
<1>22. ASSUME NEW t \in Turns, NEW i \in Slots, HandlerCancelled(t, i) PROVE ControlType'
  BY <1>22 DEF HandlerCancelled, WorkerFrame, batchVars, persistVars
<1>23. ASSUME NEW t \in Turns, NEW i \in Slots, CancelWorker(t, i) PROVE ControlType'
  BY <1>23 DEF CancelWorker, WorkerFrame, LeaveGate, batchVars, persistVars
<1>24. ASSUME NEW id \in CallIds, NEW ans \in BOOLEAN, NEW c \in Answering,
         Resolve(id, ans, c) PROVE ControlType'
  BY <1>24 DEF Resolve, batchVars, persistVars
<1>25. ASSUME ChangePermissions PROVE ControlType'
  BY <1>25 DEF ChangePermissions, batchVars, persistVars
<1>27. ASSUME NEW t \in Turns, NEW i \in Slots, ApprovalTimerFires(t, i) PROVE ControlType'
  BY <1>27 DEF ApprovalTimerFires, WorkerFrame, batchVars, persistVars
<1>28. ASSUME NEW t \in Turns, NEW i \in Slots, PermissionRead(t, i) PROVE ControlType'
  BY <1>28 DEF PermissionRead, WorkerFrame, batchVars, persistVars
<1>26. CASE UNCHANGED vars
  BY <1>26 DEF vars
<1> QED
  BY <1>1, <1>2, <1>3, <1>4, <1>5, <1>6, <1>7, <1>8, <1>9, <1>10, <1>11,
     <1>12, <1>13, <1>14, <1>15, <1>16, <1>17, <1>18, <1>19, <1>20, <1>21,
     <1>22, <1>23, <1>24, <1>25, <1>26, <1>27, <1>28
  DEF Next, TurnStep, ModelStep, PersistStep, WorkerStep, ClientAnswers, Finished

\* Every step keeps the types of the batches and their workers.
LEMMA StepBatch == BatchType /\ [Next]_vars => BatchType'
<1> SUFFICES ASSUME BatchType, [Next]_vars PROVE BatchType'
  OBVIOUS
<1> USE DEF BatchType, WorkerStates
<1>1. ASSUME NEW t \in Turns, StartTurn(t) PROVE BatchType'
  BY <1>1 DEF StartTurn, batchVars, persistVars
<1>2. ASSUME NEW t \in Turns, RejectTurn(t) PROVE BatchType'
  BY <1>2 DEF RejectTurn, batchVars, persistVars
<1>3. ASSUME NEW t \in Turns, HitIterationCap(t) PROVE BatchType'
  BY <1>3 DEF HitIterationCap, BeginPersist, batchVars, persistVars
<1>4. ASSUME NEW t \in Turns, EndLoop(t) PROVE BatchType'
  BY <1>4 DEF EndLoop, BeginIteration, BeginPersist, batchVars, persistVars
<1>5. ASSUME NEW t \in Turns, ModelFails(t) PROVE BatchType'
  BY <1>5 DEF ModelFails, BeginIteration, BeginPersist, batchVars, persistVars
<1>6. ASSUME NEW t \in Turns, ModelCallsTools(t) PROVE BatchType'
  <2>1. PICK cs \in Batches : CallTools(t, cs)
    BY <1>6 DEF ModelCallsTools
  <2>2. PICK n \in Slots : cs \in [1..n -> [id : CallIds, name : Tools]]
    BY DEF Batches
  <2>3. cs \in Seq([id : CallIds, name : Tools])
    <3>1. n \in Nat
      BY TurnLoopAssumption DEF Slots
    <3> DEFINE Call == [id : CallIds, name : Tools]
    <3>2. cs \in UNION {[1..m -> Call] : m \in Nat}
      BY <2>2, <3>1
    <3>3. Seq(Call) = UNION {[1..m -> Call] : m \in Nat}
      BY SeqDef
    <3> QED
      BY <3>2, <3>3
  <2> QED
    BY <2>1, <2>3, SetBatchType DEF CallTools
<1>7. ASSUME NEW t \in Turns, FanIn(t) PROVE BatchType'
  <2>1. queue[t] \in Seq(QueueItems) /\ queue[t] # <<>>
    BY <1>7 DEF FanIn
  <2>2. Tail(queue[t]) \in Seq(QueueItems) /\ Head(queue[t]) \in QueueItems
    BY <2>1
  <2>3. queue' \in [Turns -> Seq(QueueItems)]
    BY <1>7, <2>2 DEF FanIn
  <2>4. CASE Head(queue[t]).kind = "done"
    <3>1. Head(queue[t]) \in [kind : {"done"}, slot : Slots, outcome : Outcomes]
      BY <2>2, <2>4 DEF QueueItems
    <3>2. results' = [results EXCEPT ![t][Head(queue[t]).slot] = Head(queue[t])]
      BY <1>7, <2>4 DEF FanIn
    <3>3. results' \in [Turns -> [Slots -> ResultEntries]]
      BY <3>1, <3>2 DEF ResultEntries
    <3> QED
      BY <1>7, <2>3, <3>3 DEF FanIn
  <2>5. CASE Head(queue[t]).kind # "done"
    BY <1>7, <2>3, <2>5 DEF FanIn
  <2> QED
    BY <2>4, <2>5
<1>8. ASSUME NEW t \in Turns, CollectBatch(t) PROVE BatchType'
  <2>1. <<>> \in Seq([id : CallIds, name : Tools])
    OBVIOUS
  <2> QED
    BY <1>8, <2>1, SetBatchType DEF CollectBatch
<1>9. ASSUME NEW t \in Turns, AppendTurn(t) PROVE BatchType'
  BY <1>9 DEF AppendTurn, batchVars, persistVars
<1>10. ASSUME NEW t \in Turns, CompleteTurn(t) PROVE BatchType'
  BY <1>10 DEF CompleteTurn, Terminate, PersistFrame, batchVars, persistVars
<1>11. ASSUME NEW t \in Turns, FailTurn(t) PROVE BatchType'
  BY <1>11 DEF FailTurn, Terminate, PersistFrame, batchVars, persistVars
<1>12. ASSUME NEW t \in Turns, AppendFails(t) PROVE BatchType'
  BY <1>12 DEF AppendFails, Terminate, PersistFrame, batchVars, persistVars
<1>13. ASSUME NEW t \in Turns, CloseTurn(t) PROVE BatchType'
  BY <1>13 DEF CloseTurn, Cancelled, batchVars, persistVars
<1>14. ASSUME NEW t \in Turns, TurnClosed(t) PROVE BatchType'
  BY <1>14 DEF TurnClosed, batchVars, persistVars
<1>15. ASSUME NEW t \in Turns, NEW i \in Slots, WorkerBegins(t, i) PROVE BatchType'
  <2>1. queue' \in [Turns -> Seq(QueueItems)]
    BY <1>15, EmitType, ItemTypes DEF WorkerBegins, EnterRegistry, Outcomes
  <2>2. worker' \in [Turns -> [Slots -> WorkerStates]]
    <3>1. PICK s \in WorkerStates : SetWorker(t, i, s)
      BY <1>15 DEF WorkerBegins, EnterRegistry, WorkerStates
    <3> QED
      BY <3>1 DEF SetWorker
  <2> QED
    BY <1>15, <2>1, <2>2 DEF WorkerBegins, WorkerFrame
<1>16. ASSUME NEW t \in Turns, NEW i \in Slots, WorkerApproved(t, i) PROVE BatchType'
  <2>1. queue' \in [Turns -> Seq(QueueItems)]
    BY <1>16, EmitType, ItemTypes DEF WorkerApproved, EnterRegistry, Outcomes
  <2> QED
    BY <1>16, <2>1 DEF WorkerApproved, EnterRegistry, WorkerFrame, SetWorker
<1>17. ASSUME NEW t \in Turns, NEW i \in Slots, WorkerDenied(t, i) PROVE BatchType'
  <2>1. queue' \in [Turns -> Seq(QueueItems)]
    BY <1>17, EmitType, ItemTypes DEF WorkerDenied, Finish, Outcomes
  <2> QED
    BY <1>17, <2>1 DEF WorkerDenied, Finish, WorkerFrame, SetWorker
<1>18. ASSUME NEW t \in Turns, NEW i \in Slots, ApprovalTimesOut(t, i) PROVE BatchType'
  <2>1. queue' \in [Turns -> Seq(QueueItems)]
    BY <1>18, EmitType, ItemTypes DEF ApprovalTimesOut, Finish, Outcomes
  <2> QED
    BY <1>18, <2>1 DEF ApprovalTimesOut, Finish, WorkerFrame, SetWorker
<1>19. ASSUME NEW t \in Turns, NEW i \in Slots, RegistryRefuses(t, i) PROVE BatchType'
  <2>1. PICK o \in Outcomes : Finish(t, i, o)
    BY <1>19 DEF RegistryRefuses, Outcomes
  <2>2. queue' \in [Turns -> Seq(QueueItems)]
    BY <2>1, EmitType, ItemTypes DEF Finish
  <2> QED
    BY <1>19, <2>1, <2>2 DEF RegistryRefuses, Finish, WorkerFrame, SetWorker
<1>20. ASSUME NEW t \in Turns, NEW i \in Slots, HandlerStarts(t, i) PROVE BatchType'
  BY <1>20 DEF HandlerStarts, WorkerFrame, SetWorker, batchVars, persistVars
<1>21. ASSUME NEW t \in Turns, NEW i \in Slots, HandlerEnds(t, i) PROVE BatchType'
  <2>1. queue' \in [Turns -> Seq(QueueItems)]
    BY <1>21, EmitType, ItemTypes DEF HandlerEnds, Finish, Outcomes
  <2> QED
    BY <1>21, <2>1 DEF HandlerEnds, Finish, WorkerFrame, SetWorker
<1>22. ASSUME NEW t \in Turns, NEW i \in Slots, HandlerCancelled(t, i) PROVE BatchType'
  BY <1>22 DEF HandlerCancelled, WorkerFrame, SetWorker, batchVars, persistVars
<1>23. ASSUME NEW t \in Turns, NEW i \in Slots, CancelWorker(t, i) PROVE BatchType'
  BY <1>23
  DEF CancelWorker, WorkerFrame, LeaveGate, SetWorker, batchVars,
      persistVars
<1>24. ASSUME NEW id \in CallIds, NEW ans \in BOOLEAN, NEW c \in Answering,
         Resolve(id, ans, c) PROVE BatchType'
  BY <1>24 DEF Resolve, batchVars, persistVars
<1>25. ASSUME ChangePermissions PROVE BatchType'
  BY <1>25 DEF ChangePermissions, batchVars, persistVars
<1>27. ASSUME NEW t \in Turns, NEW i \in Slots, ApprovalTimerFires(t, i) PROVE BatchType'
  BY <1>27 DEF ApprovalTimerFires, WorkerFrame, SetWorker, batchVars, persistVars
<1>28. ASSUME NEW t \in Turns, NEW i \in Slots, PermissionRead(t, i) PROVE BatchType'
  BY <1>28 DEF PermissionRead, WorkerFrame, SetWorker, batchVars, persistVars
<1>26. CASE UNCHANGED vars
  BY <1>26 DEF vars
<1> QED
  BY <1>1, <1>2, <1>3, <1>4, <1>5, <1>6, <1>7, <1>8, <1>9, <1>10, <1>11,
     <1>12, <1>13, <1>14, <1>15, <1>16, <1>17, <1>18, <1>19, <1>20, <1>21,
     <1>22, <1>23, <1>24, <1>25, <1>26, <1>27, <1>28
  DEF Next, TurnStep, ModelStep, PersistStep, WorkerStep, ClientAnswers, Finished

\* Every step keeps the types of the approval gate.
LEMMA StepGate == BatchType /\ GateType /\ [Next]_vars => GateType'
<1> SUFFICES ASSUME BatchType /\ GateType, [Next]_vars PROVE GateType'
  OBVIOUS
<1> USE DEF GateType
<1>1. ASSUME NEW t \in Turns, StartTurn(t) PROVE GateType'
  BY <1>1 DEF StartTurn, batchVars, persistVars
<1>2. ASSUME NEW t \in Turns, RejectTurn(t) PROVE GateType'
  BY <1>2 DEF RejectTurn, batchVars, persistVars
<1>3. ASSUME NEW t \in Turns, HitIterationCap(t) PROVE GateType'
  BY <1>3 DEF HitIterationCap, BeginPersist, batchVars, persistVars
<1>4. ASSUME NEW t \in Turns, EndLoop(t) PROVE GateType'
  BY <1>4 DEF EndLoop, BeginIteration, BeginPersist, batchVars, persistVars
<1>5. ASSUME NEW t \in Turns, ModelFails(t) PROVE GateType'
  BY <1>5 DEF ModelFails, BeginIteration, BeginPersist, batchVars, persistVars
<1>6. ASSUME NEW t \in Turns, ModelCallsTools(t) PROVE GateType'
  BY <1>6
  DEF ModelCallsTools, CallTools, BeginIteration, SetBatch, batchVars,
      persistVars
<1>7. ASSUME NEW t \in Turns, FanIn(t) PROVE GateType'
  BY <1>7 DEF FanIn, batchVars, persistVars
<1>8. ASSUME NEW t \in Turns, CollectBatch(t) PROVE GateType'
  BY <1>8 DEF CollectBatch, SetBatch, batchVars, persistVars
<1>9. ASSUME NEW t \in Turns, AppendTurn(t) PROVE GateType'
  BY <1>9 DEF AppendTurn, batchVars, persistVars
<1>10. ASSUME NEW t \in Turns, CompleteTurn(t) PROVE GateType'
  BY <1>10 DEF CompleteTurn, Terminate, PersistFrame, batchVars, persistVars
<1>11. ASSUME NEW t \in Turns, FailTurn(t) PROVE GateType'
  BY <1>11 DEF FailTurn, Terminate, PersistFrame, batchVars, persistVars
<1>12. ASSUME NEW t \in Turns, AppendFails(t) PROVE GateType'
  BY <1>12 DEF AppendFails, Terminate, PersistFrame, batchVars, persistVars
<1>13. ASSUME NEW t \in Turns, CloseTurn(t) PROVE GateType'
  BY <1>13 DEF CloseTurn, Cancelled, batchVars, persistVars
<1>14. ASSUME NEW t \in Turns, TurnClosed(t) PROVE GateType'
  BY <1>14 DEF TurnClosed, batchVars, persistVars
<1>15. ASSUME NEW t \in Turns, NEW i \in Slots, WorkerBegins(t, i) PROVE GateType'
  <2>1. i \in Active(t)
    BY <1>15 DEF WorkerBegins, WorkerIs
  <2>2. calls[t][i].id \in CallIds
    BY <2>1, CallType
  <2>3. fut' \in [Turns -> [Slots -> {"none", "unset", "yes", "no", "cancelled"}]]
    BY <1>15 DEF WorkerBegins
  <2>4. pending' \subseteq [id : CallIds, conv : Convs, turn : Turns, slot : Slots]
    BY <1>15, <2>2, TurnLoopAssumption DEF WorkerBegins, Put, Pop
  <2>5. barred' \subseteq Turns \X Slots
    BY <1>15 DEF WorkerBegins, EnterRegistry
  <2> QED
    BY <1>15, <2>3, <2>4, <2>5 DEF WorkerBegins, WorkerFrame
<1>16. ASSUME NEW t \in Turns, NEW i \in Slots, WorkerApproved(t, i) PROVE GateType'
  BY <1>16
  DEF WorkerApproved, EnterRegistry, WorkerFrame, LeaveGate, Pop, batchVars, persistVars
<1>17. ASSUME NEW t \in Turns, NEW i \in Slots, WorkerDenied(t, i) PROVE GateType'
  BY <1>17 DEF WorkerDenied, WorkerFrame, LeaveGate, Pop, batchVars, persistVars
<1>18. ASSUME NEW t \in Turns, NEW i \in Slots, ApprovalTimesOut(t, i) PROVE GateType'
  BY <1>18
  DEF ApprovalTimesOut, WorkerFrame, LeaveGate, Pop, batchVars, persistVars
<1>19. ASSUME NEW t \in Turns, NEW i \in Slots, RegistryRefuses(t, i) PROVE GateType'
  BY <1>19 DEF RegistryRefuses, WorkerFrame, batchVars, persistVars
<1>20. ASSUME NEW t \in Turns, NEW i \in Slots, HandlerStarts(t, i) PROVE GateType'
  BY <1>20 DEF HandlerStarts, WorkerFrame, batchVars, persistVars
<1>21. ASSUME NEW t \in Turns, NEW i \in Slots, HandlerEnds(t, i) PROVE GateType'
  BY <1>21 DEF HandlerEnds, WorkerFrame, batchVars, persistVars
<1>22. ASSUME NEW t \in Turns, NEW i \in Slots, HandlerCancelled(t, i) PROVE GateType'
  BY <1>22 DEF HandlerCancelled, WorkerFrame, batchVars, persistVars
<1>23. ASSUME NEW t \in Turns, NEW i \in Slots, CancelWorker(t, i) PROVE GateType'
  BY <1>23 DEF CancelWorker, WorkerFrame, LeaveGate, Pop, batchVars, persistVars
<1>24. ASSUME NEW id \in CallIds, NEW ans \in BOOLEAN, NEW c \in Answering,
         Resolve(id, ans, c) PROVE GateType'
  BY <1>24 DEF Resolve, Pop, Answers, batchVars, persistVars
<1>25. ASSUME ChangePermissions PROVE GateType'
  BY <1>25, TurnLoopAssumption DEF ChangePermissions, batchVars, persistVars
<1>27. ASSUME NEW t \in Turns, NEW i \in Slots, ApprovalTimerFires(t, i) PROVE GateType'
  BY <1>27 DEF ApprovalTimerFires, Cancelled, WorkerFrame, batchVars, persistVars
<1>28. ASSUME NEW t \in Turns, NEW i \in Slots, PermissionRead(t, i) PROVE GateType'
  BY <1>28 DEF PermissionRead, WorkerFrame, batchVars, persistVars
<1>26. CASE UNCHANGED vars
  BY <1>26 DEF vars
<1> QED
  BY <1>1, <1>2, <1>3, <1>4, <1>5, <1>6, <1>7, <1>8, <1>9, <1>10, <1>11,
     <1>12, <1>13, <1>14, <1>15, <1>16, <1>17, <1>18, <1>19, <1>20, <1>21,
     <1>22, <1>23, <1>24, <1>25, <1>26, <1>27, <1>28
  DEF Next, TurnStep, ModelStep, PersistStep, WorkerStep, ClientAnswers, Finished

\* The loop's variables keep their types, with every interleaving of turns,
\* workers and clients.
THEOREM TurnLoopTypeCorrect == Spec => []TypeOK
<1>1. Init => TypeOK
  BY InitType
<1>2. TypeOK /\ [Next]_vars => TypeOK'
  BY StepControl, StepBatch, StepGate DEF TypeOK
<1> QED
  BY <1>1, <1>2, PTL DEF Spec

\* Every step keeps live workers inside their batch.
LEMMA StepLive == TypeOK /\ LiveInBatch /\ [Next]_vars => LiveInBatch'
<1> SUFFICES ASSUME TypeOK /\ LiveInBatch, [Next]_vars PROVE LiveInBatch'
  OBVIOUS
<1> USE DEF TypeOK, BatchType, ControlType, LiveInBatch, Live, Active
<1>1. ASSUME NEW t \in Turns, StartTurn(t) PROVE LiveInBatch'
  BY <1>1 DEF StartTurn, batchVars, persistVars
<1>2. ASSUME NEW t \in Turns, RejectTurn(t) PROVE LiveInBatch'
  BY <1>2 DEF RejectTurn, batchVars, persistVars
<1>3. ASSUME NEW t \in Turns, HitIterationCap(t) PROVE LiveInBatch'
  BY <1>3 DEF HitIterationCap, BeginPersist, batchVars, persistVars
<1>4. ASSUME NEW t \in Turns, EndLoop(t) PROVE LiveInBatch'
  BY <1>4 DEF EndLoop, BeginIteration, BeginPersist, batchVars, persistVars
<1>5. ASSUME NEW t \in Turns, ModelFails(t) PROVE LiveInBatch'
  BY <1>5 DEF ModelFails, BeginIteration, BeginPersist, batchVars, persistVars
<1>6. ASSUME NEW t \in Turns, ModelCallsTools(t) PROVE LiveInBatch'
  BY <1>6
  DEF ModelCallsTools, CallTools, BeginIteration, SetBatch, batchVars,
      persistVars
<1>7. ASSUME NEW t \in Turns, FanIn(t) PROVE LiveInBatch'
  BY <1>7 DEF FanIn, batchVars, persistVars
<1>8. ASSUME NEW t \in Turns, CollectBatch(t) PROVE LiveInBatch'
  BY <1>8 DEF CollectBatch, SetBatch, batchVars, persistVars
<1>9. ASSUME NEW t \in Turns, AppendTurn(t) PROVE LiveInBatch'
  BY <1>9 DEF AppendTurn, batchVars, persistVars
<1>10. ASSUME NEW t \in Turns, CompleteTurn(t) PROVE LiveInBatch'
  BY <1>10 DEF CompleteTurn, Terminate, PersistFrame, batchVars, persistVars
<1>11. ASSUME NEW t \in Turns, FailTurn(t) PROVE LiveInBatch'
  BY <1>11 DEF FailTurn, Terminate, PersistFrame, batchVars, persistVars
<1>12. ASSUME NEW t \in Turns, AppendFails(t) PROVE LiveInBatch'
  BY <1>12 DEF AppendFails, Terminate, PersistFrame, batchVars, persistVars
<1>13. ASSUME NEW t \in Turns, CloseTurn(t) PROVE LiveInBatch'
  BY <1>13 DEF CloseTurn, Cancelled, batchVars, persistVars
<1>14. ASSUME NEW t \in Turns, TurnClosed(t) PROVE LiveInBatch'
  BY <1>14 DEF TurnClosed, batchVars, persistVars
<1>15. ASSUME NEW t \in Turns, NEW i \in Slots, WorkerBegins(t, i) PROVE LiveInBatch'
  BY <1>15
  DEF WorkerBegins, EnterRegistry, WorkerFrame, WorkerIs, SetWorker, Active,
      batchVars, persistVars
<1>16. ASSUME NEW t \in Turns, NEW i \in Slots, WorkerApproved(t, i) PROVE LiveInBatch'
  BY <1>16
  DEF WorkerApproved, EnterRegistry, WorkerFrame, LeaveGate, WorkerIs, SetWorker, Active,
      Finish, batchVars, persistVars
<1>17. ASSUME NEW t \in Turns, NEW i \in Slots, WorkerDenied(t, i) PROVE LiveInBatch'
  BY <1>17
  DEF WorkerDenied, WorkerFrame, LeaveGate, WorkerIs, SetWorker, Active,
      Finish, batchVars, persistVars
<1>18. ASSUME NEW t \in Turns, NEW i \in Slots, ApprovalTimesOut(t, i) PROVE LiveInBatch'
  BY <1>18
  DEF ApprovalTimesOut, WorkerFrame, LeaveGate, WorkerIs, SetWorker, Active,
      Finish, batchVars, persistVars
<1>19. ASSUME NEW t \in Turns, NEW i \in Slots, RegistryRefuses(t, i) PROVE LiveInBatch'
  <2>1. /\ SetWorker(t, i, "finished")
        /\ WorkerIs(t, i, "checking") \/ WorkerIs(t, i, "admitted")
    BY <1>19 DEF RegistryRefuses, Finish
  <2>2. UNCHANGED <<phase, calls, fut, pending, consent>>
    BY <1>19 DEF RegistryRefuses, WorkerFrame
  <2> QED
    BY <2>1, <2>2 DEF SetWorker, WorkerIs
<1>20. ASSUME NEW t \in Turns, NEW i \in Slots, HandlerStarts(t, i) PROVE LiveInBatch'
  BY <1>20
  DEF HandlerStarts, WorkerFrame, WorkerIs, SetWorker, Active, Finish,
      batchVars, persistVars
<1>21. ASSUME NEW t \in Turns, NEW i \in Slots, HandlerEnds(t, i) PROVE LiveInBatch'
  BY <1>21
  DEF HandlerEnds, WorkerFrame, WorkerIs, SetWorker, Active, Finish,
      batchVars, persistVars
<1>22. ASSUME NEW t \in Turns, NEW i \in Slots, HandlerCancelled(t, i) PROVE LiveInBatch'
  BY <1>22
  DEF HandlerCancelled, WorkerFrame, WorkerIs, SetWorker, Active, Finish,
      batchVars, persistVars
<1>23. ASSUME NEW t \in Turns, NEW i \in Slots, CancelWorker(t, i) PROVE LiveInBatch'
  BY <1>23
  DEF CancelWorker, WorkerFrame, LeaveGate, WorkerIs, SetWorker, Active,
      Finish, batchVars, persistVars
<1>24. ASSUME NEW id \in CallIds, NEW ans \in BOOLEAN, NEW c \in Answering,
         Resolve(id, ans, c) PROVE LiveInBatch'
  BY <1>24 DEF Resolve, batchVars, persistVars
<1>25. ASSUME ChangePermissions PROVE LiveInBatch'
  BY <1>25 DEF ChangePermissions, batchVars, persistVars
<1>27. ASSUME NEW t \in Turns, NEW i \in Slots, ApprovalTimerFires(t, i) PROVE LiveInBatch'
  BY <1>27 DEF ApprovalTimerFires, WorkerFrame, WorkerIs, SetWorker
<1>28. ASSUME NEW t \in Turns, NEW i \in Slots, PermissionRead(t, i) PROVE LiveInBatch'
  BY <1>28 DEF PermissionRead, WorkerFrame, WorkerIs, SetWorker
<1>26. CASE UNCHANGED vars
  BY <1>26 DEF vars
<1> QED
  BY <1>1, <1>2, <1>3, <1>4, <1>5, <1>6, <1>7, <1>8, <1>9, <1>10, <1>11,
     <1>12, <1>13, <1>14, <1>15, <1>16, <1>17, <1>18, <1>19, <1>20, <1>21,
     <1>22, <1>23, <1>24, <1>25, <1>26, <1>27, <1>28
  DEF Next, TurnStep, ModelStep, PersistStep, WorkerStep, ClientAnswers, Finished

\* Every step keeps pending entries and waiting workers in step.
LEMMA StepPending == TypeOK /\ LiveInBatch /\ PendingIsWaiting /\ [Next]_vars => PendingIsWaiting'
<1> SUFFICES ASSUME TypeOK /\ LiveInBatch /\ PendingIsWaiting, [Next]_vars PROVE PendingIsWaiting'
  OBVIOUS
<1> USE DEF TypeOK, BatchType, GateType, ControlType, PendingIsWaiting, Active,
            AtGate
<1>1. ASSUME NEW t \in Turns, StartTurn(t) PROVE PendingIsWaiting'
  BY <1>1 DEF StartTurn, batchVars, persistVars
<1>2. ASSUME NEW t \in Turns, RejectTurn(t) PROVE PendingIsWaiting'
  BY <1>2 DEF RejectTurn, batchVars, persistVars
<1>3. ASSUME NEW t \in Turns, HitIterationCap(t) PROVE PendingIsWaiting'
  BY <1>3 DEF HitIterationCap, BeginPersist, batchVars, persistVars
<1>4. ASSUME NEW t \in Turns, EndLoop(t) PROVE PendingIsWaiting'
  BY <1>4 DEF EndLoop, BeginIteration, BeginPersist, batchVars, persistVars
<1>5. ASSUME NEW t \in Turns, ModelFails(t) PROVE PendingIsWaiting'
  BY <1>5 DEF ModelFails, BeginIteration, BeginPersist, batchVars, persistVars
<1>6. ASSUME NEW t \in Turns, ModelCallsTools(t) PROVE PendingIsWaiting'
  BY <1>6
  DEF ModelCallsTools, CallTools, BeginIteration, SetBatch, batchVars,
      persistVars
<1>7. ASSUME NEW t \in Turns, FanIn(t) PROVE PendingIsWaiting'
  BY <1>7 DEF FanIn, batchVars, persistVars
<1>8. ASSUME NEW t \in Turns, CollectBatch(t) PROVE PendingIsWaiting'
  BY <1>8 DEF CollectBatch, SetBatch, Live, batchVars, persistVars
<1>9. ASSUME NEW t \in Turns, AppendTurn(t) PROVE PendingIsWaiting'
  BY <1>9 DEF AppendTurn, batchVars, persistVars
<1>10. ASSUME NEW t \in Turns, CompleteTurn(t) PROVE PendingIsWaiting'
  BY <1>10 DEF CompleteTurn, Terminate, PersistFrame, batchVars, persistVars
<1>11. ASSUME NEW t \in Turns, FailTurn(t) PROVE PendingIsWaiting'
  BY <1>11 DEF FailTurn, Terminate, PersistFrame, batchVars, persistVars
<1>12. ASSUME NEW t \in Turns, AppendFails(t) PROVE PendingIsWaiting'
  BY <1>12 DEF AppendFails, Terminate, PersistFrame, batchVars, persistVars
<1>13. ASSUME NEW t \in Turns, CloseTurn(t) PROVE PendingIsWaiting'
  BY <1>13 DEF CloseTurn, Cancelled, batchVars, persistVars
<1>14. ASSUME NEW t \in Turns, TurnClosed(t) PROVE PendingIsWaiting'
  BY <1>14 DEF TurnClosed, Live, batchVars, persistVars
<1>15. ASSUME NEW t \in Turns, NEW i \in Slots, WorkerBegins(t, i) PROVE PendingIsWaiting'
  <2>1. WorkerIs(t, i, "created") /\ UNCHANGED <<phase, calls, consent>>
    BY <1>15 DEF WorkerBegins, WorkerFrame
  <2>2. CASE Name(t, i) \in Gated
    <3>1. /\ SetWorker(t, i, "waiting")
          /\ fut' = [fut EXCEPT ![t][i] = "unset"]
          /\ pending' = Put([id |-> calls[t][i].id, conv |-> ConvOf[t],
                             turn |-> t, slot |-> i])
      BY <1>15, <2>2 DEF WorkerBegins
    <3> QED
      BY <2>1, <2>2, <3>1 DEF SetWorker, WorkerIs, Put, Pop, LiveInBatch, Live
  <2>3. CASE Name(t, i) \notin Gated
    <3>1. SetWorker(t, i, "checking") /\ UNCHANGED <<fut, pending>>
      BY <1>15, <2>3 DEF WorkerBegins, EnterRegistry
    <3> QED
      BY <2>1, <2>3, <3>1 DEF SetWorker, WorkerIs, Put, Pop, LiveInBatch, Live
  <2> QED
    BY <2>2, <2>3
<1>16. ASSUME NEW t \in Turns, NEW i \in Slots, WorkerApproved(t, i) PROVE PendingIsWaiting'
  BY <1>16
  DEF WorkerApproved, EnterRegistry, WorkerFrame, LeaveGate, WorkerIs, SetWorker, Active,
      Finish, Put, Pop, batchVars, persistVars
<1>17. ASSUME NEW t \in Turns, NEW i \in Slots, WorkerDenied(t, i) PROVE PendingIsWaiting'
  BY <1>17
  DEF WorkerDenied, WorkerFrame, LeaveGate, WorkerIs, SetWorker, Active,
      Finish, Put, Pop, batchVars, persistVars
<1>18. ASSUME NEW t \in Turns, NEW i \in Slots, ApprovalTimesOut(t, i) PROVE PendingIsWaiting'
  BY <1>18
  DEF ApprovalTimesOut, WorkerFrame, LeaveGate, WorkerIs, SetWorker, Active,
      Finish, Put, Pop, batchVars, persistVars
<1>19. ASSUME NEW t \in Turns, NEW i \in Slots, RegistryRefuses(t, i) PROVE PendingIsWaiting'
  <2>1. /\ SetWorker(t, i, "finished")
        /\ WorkerIs(t, i, "checking") \/ WorkerIs(t, i, "admitted")
    BY <1>19 DEF RegistryRefuses, Finish
  <2>2. UNCHANGED <<phase, calls, fut, pending, consent>>
    BY <1>19 DEF RegistryRefuses, WorkerFrame
  <2> QED
    BY <2>1, <2>2 DEF SetWorker, WorkerIs
<1>20. ASSUME NEW t \in Turns, NEW i \in Slots, HandlerStarts(t, i) PROVE PendingIsWaiting'
  BY <1>20
  DEF HandlerStarts, WorkerFrame, WorkerIs, SetWorker, Active, Finish, Put,
      Pop, batchVars, persistVars
<1>21. ASSUME NEW t \in Turns, NEW i \in Slots, HandlerEnds(t, i) PROVE PendingIsWaiting'
  BY <1>21
  DEF HandlerEnds, WorkerFrame, WorkerIs, SetWorker, Active, Finish, Put,
      Pop, batchVars, persistVars
<1>22. ASSUME NEW t \in Turns, NEW i \in Slots, HandlerCancelled(t, i) PROVE PendingIsWaiting'
  BY <1>22
  DEF HandlerCancelled, WorkerFrame, WorkerIs, SetWorker, Active, Finish,
      Put, Pop, batchVars, persistVars
<1>23. ASSUME NEW t \in Turns, NEW i \in Slots, CancelWorker(t, i) PROVE PendingIsWaiting'
  <2>1. /\ phase[t] = "closing" /\ i \in Active(t)
        /\ SetWorker(t, i, "cancelled")
        /\ UNCHANGED <<phase, calls>>
    BY <1>23 DEF CancelWorker, WorkerFrame
  <2>2. CASE worker[t][i] \in AtGate
    <3>1. pending' = Pop(calls[t][i].id) /\ UNCHANGED fut
      BY <1>23, <2>2 DEF CancelWorker, LeaveGate
    <3> QED
      BY <2>1, <2>2, <3>1 DEF SetWorker, Pop
  <2>3. CASE worker[t][i] \notin AtGate
    <3>1. UNCHANGED <<pending, fut>>
      BY <1>23, <2>3 DEF CancelWorker
    <3> QED
      BY <2>1, <2>3, <3>1 DEF SetWorker
  <2> QED
    BY <2>2, <2>3
<1>24. ASSUME NEW id \in CallIds, NEW ans \in BOOLEAN, NEW c \in Answering,
         Resolve(id, ans, c) PROVE PendingIsWaiting'
  BY <1>24 DEF Resolve, Pop, Answers, Active, batchVars, persistVars
<1>25. ASSUME ChangePermissions PROVE PendingIsWaiting'
  BY <1>25 DEF ChangePermissions, batchVars, persistVars
<1>27. ASSUME NEW t \in Turns, NEW i \in Slots, ApprovalTimerFires(t, i) PROVE PendingIsWaiting'
  BY <1>27 DEF ApprovalTimerFires, Cancelled, WorkerFrame, WorkerIs, SetWorker
<1>28. ASSUME NEW t \in Turns, NEW i \in Slots, PermissionRead(t, i) PROVE PendingIsWaiting'
  BY <1>28 DEF PermissionRead, WorkerFrame, WorkerIs, SetWorker
<1>26. CASE UNCHANGED vars
  BY <1>26 DEF vars
<1> QED
  BY <1>1, <1>2, <1>3, <1>4, <1>5, <1>6, <1>7, <1>8, <1>9, <1>10, <1>11,
     <1>12, <1>13, <1>14, <1>15, <1>16, <1>17, <1>18, <1>19, <1>20, <1>21,
     <1>22, <1>23, <1>24, <1>25, <1>26, <1>27, <1>28
  DEF Next, TurnStep, ModelStep, PersistStep, WorkerStep, ClientAnswers, Finished

\* Every step keeps consent behind each future that says yes.
LEMMA StepYes == TypeOK /\ PendingIsWaiting /\ YesIsConsent /\ [Next]_vars => YesIsConsent'
<1> SUFFICES ASSUME TypeOK /\ PendingIsWaiting /\ YesIsConsent, [Next]_vars PROVE YesIsConsent'
  OBVIOUS
<1> USE DEF TypeOK, BatchType, GateType, YesIsConsent, Active
<1>1. ASSUME NEW t \in Turns, StartTurn(t) PROVE YesIsConsent'
  BY <1>1 DEF StartTurn, batchVars, persistVars
<1>2. ASSUME NEW t \in Turns, RejectTurn(t) PROVE YesIsConsent'
  BY <1>2 DEF RejectTurn, batchVars, persistVars
<1>3. ASSUME NEW t \in Turns, HitIterationCap(t) PROVE YesIsConsent'
  BY <1>3 DEF HitIterationCap, BeginPersist, batchVars, persistVars
<1>4. ASSUME NEW t \in Turns, EndLoop(t) PROVE YesIsConsent'
  BY <1>4 DEF EndLoop, BeginIteration, BeginPersist, batchVars, persistVars
<1>5. ASSUME NEW t \in Turns, ModelFails(t) PROVE YesIsConsent'
  BY <1>5 DEF ModelFails, BeginIteration, BeginPersist, batchVars, persistVars
<1>6. ASSUME NEW t \in Turns, ModelCallsTools(t) PROVE YesIsConsent'
  BY <1>6
  DEF ModelCallsTools, CallTools, BeginIteration, SetBatch, batchVars,
      persistVars
<1>7. ASSUME NEW t \in Turns, FanIn(t) PROVE YesIsConsent'
  BY <1>7 DEF FanIn, batchVars, persistVars
<1>8. ASSUME NEW t \in Turns, CollectBatch(t) PROVE YesIsConsent'
  BY <1>8 DEF CollectBatch, SetBatch, batchVars, persistVars
<1>9. ASSUME NEW t \in Turns, AppendTurn(t) PROVE YesIsConsent'
  BY <1>9 DEF AppendTurn, batchVars, persistVars
<1>10. ASSUME NEW t \in Turns, CompleteTurn(t) PROVE YesIsConsent'
  BY <1>10 DEF CompleteTurn, Terminate, PersistFrame, batchVars, persistVars
<1>11. ASSUME NEW t \in Turns, FailTurn(t) PROVE YesIsConsent'
  BY <1>11 DEF FailTurn, Terminate, PersistFrame, batchVars, persistVars
<1>12. ASSUME NEW t \in Turns, AppendFails(t) PROVE YesIsConsent'
  BY <1>12 DEF AppendFails, Terminate, PersistFrame, batchVars, persistVars
<1>13. ASSUME NEW t \in Turns, CloseTurn(t) PROVE YesIsConsent'
  BY <1>13 DEF CloseTurn, Cancelled, batchVars, persistVars
<1>14. ASSUME NEW t \in Turns, TurnClosed(t) PROVE YesIsConsent'
  BY <1>14 DEF TurnClosed, batchVars, persistVars
<1>15. ASSUME NEW t \in Turns, NEW i \in Slots, WorkerBegins(t, i) PROVE YesIsConsent'
  <2>1. WorkerIs(t, i, "created") /\ UNCHANGED <<phase, calls, consent>>
    BY <1>15 DEF WorkerBegins, WorkerFrame
  <2>2. CASE Name(t, i) \in Gated
    <3>1. /\ SetWorker(t, i, "waiting")
          /\ fut' = [fut EXCEPT ![t][i] = "unset"]
          /\ pending' = Put([id |-> calls[t][i].id, conv |-> ConvOf[t],
                             turn |-> t, slot |-> i])
      BY <1>15, <2>2 DEF WorkerBegins
    <3> QED
      BY <2>1, <2>2, <3>1 DEF SetWorker, WorkerIs, Name
  <2>3. CASE Name(t, i) \notin Gated
    <3>1. SetWorker(t, i, "checking") /\ UNCHANGED <<fut, pending>>
      BY <1>15, <2>3 DEF WorkerBegins, EnterRegistry
    <3> QED
      BY <2>1, <2>3, <3>1 DEF SetWorker, WorkerIs, Name
  <2> QED
    BY <2>2, <2>3
<1>16. ASSUME NEW t \in Turns, NEW i \in Slots, WorkerApproved(t, i) PROVE YesIsConsent'
  BY <1>16
  DEF WorkerApproved, EnterRegistry, WorkerFrame, LeaveGate, WorkerIs, SetWorker, Active,
      Finish, batchVars, persistVars
<1>17. ASSUME NEW t \in Turns, NEW i \in Slots, WorkerDenied(t, i) PROVE YesIsConsent'
  BY <1>17
  DEF WorkerDenied, WorkerFrame, LeaveGate, WorkerIs, SetWorker, Active,
      Finish, batchVars, persistVars
<1>18. ASSUME NEW t \in Turns, NEW i \in Slots, ApprovalTimesOut(t, i) PROVE YesIsConsent'
  BY <1>18
  DEF ApprovalTimesOut, WorkerFrame, LeaveGate, WorkerIs, SetWorker, Active,
      Finish, batchVars, persistVars
<1>19. ASSUME NEW t \in Turns, NEW i \in Slots, RegistryRefuses(t, i) PROVE YesIsConsent'
  <2>1. /\ SetWorker(t, i, "finished")
        /\ WorkerIs(t, i, "checking") \/ WorkerIs(t, i, "admitted")
    BY <1>19 DEF RegistryRefuses, Finish
  <2>2. UNCHANGED <<phase, calls, fut, pending, consent>>
    BY <1>19 DEF RegistryRefuses, WorkerFrame
  <2> QED
    BY <2>1, <2>2 DEF SetWorker, WorkerIs
<1>20. ASSUME NEW t \in Turns, NEW i \in Slots, HandlerStarts(t, i) PROVE YesIsConsent'
  BY <1>20
  DEF HandlerStarts, WorkerFrame, WorkerIs, SetWorker, Active, Finish,
      batchVars, persistVars
<1>21. ASSUME NEW t \in Turns, NEW i \in Slots, HandlerEnds(t, i) PROVE YesIsConsent'
  BY <1>21
  DEF HandlerEnds, WorkerFrame, WorkerIs, SetWorker, Active, Finish,
      batchVars, persistVars
<1>22. ASSUME NEW t \in Turns, NEW i \in Slots, HandlerCancelled(t, i) PROVE YesIsConsent'
  BY <1>22
  DEF HandlerCancelled, WorkerFrame, WorkerIs, SetWorker, Active, Finish,
      batchVars, persistVars
<1>23. ASSUME NEW t \in Turns, NEW i \in Slots, CancelWorker(t, i) PROVE YesIsConsent'
  BY <1>23
  DEF CancelWorker, WorkerFrame, LeaveGate, WorkerIs, SetWorker, Active,
      Finish, batchVars, persistVars
<1>24. ASSUME NEW id \in CallIds, NEW ans \in BOOLEAN, NEW c \in Answering,
         Resolve(id, ans, c) PROVE YesIsConsent'
  <2> SUFFICES ASSUME NEW t \in Turns, NEW i \in Active(t)',
                      worker[t][i] = "waiting", fut'[t][i] = "yes"
               PROVE  <<t, i>> \in consent'
    BY <1>24 DEF Resolve
  <2>1. i \in Slots /\ i \in Active(t) /\ UNCHANGED <<calls, worker>>
    BY <1>24 DEF Resolve
  <2>2. consent \subseteq consent'
    BY <1>24 DEF Resolve
  <2>3. CASE fut[t][i] = "yes"
    BY <2>1, <2>2, <2>3
  <2>4. CASE fut[t][i] # "yes"
    <3>1. PICK e \in pending :
            /\ e.id = id
            /\ fut' = IF Answers(e, c)
                        THEN [fut EXCEPT ![e.turn][e.slot] = IF ans THEN "yes" ELSE "no"]
                        ELSE fut
      BY <1>24 DEF Resolve
    <3>2. e.turn = t /\ e.slot = i /\ ans /\ Answers(e, c)
      BY <2>1, <2>4, <3>1
    <3>3. ConvOf[t] = c /\ calls[t][i].id = id
      BY <3>1, <3>2 DEF PendingIsWaiting, Answers
    <3> QED
      BY <1>24, <2>1, <3>2, <3>3 DEF Resolve
  <2> QED
    BY <2>3, <2>4
<1>25. ASSUME ChangePermissions PROVE YesIsConsent'
  BY <1>25 DEF ChangePermissions, batchVars, persistVars
<1>27. ASSUME NEW t \in Turns, NEW i \in Slots, ApprovalTimerFires(t, i) PROVE YesIsConsent'
  BY <1>27 DEF ApprovalTimerFires, Cancelled, WorkerFrame, WorkerIs, SetWorker
<1>28. ASSUME NEW t \in Turns, NEW i \in Slots, PermissionRead(t, i) PROVE YesIsConsent'
  BY <1>28 DEF PermissionRead, WorkerFrame, WorkerIs, SetWorker
<1>26. CASE UNCHANGED vars
  BY <1>26 DEF vars
<1> QED
  BY <1>1, <1>2, <1>3, <1>4, <1>5, <1>6, <1>7, <1>8, <1>9, <1>10, <1>11,
     <1>12, <1>13, <1>14, <1>15, <1>16, <1>17, <1>18, <1>19, <1>20, <1>21,
     <1>22, <1>23, <1>24, <1>25, <1>26, <1>27, <1>28
  DEF Next, TurnStep, ModelStep, PersistStep, WorkerStep, ClientAnswers, Finished

\* Every step keeps consent behind each gated call past the gate.
LEMMA StepConsent == TypeOK /\ YesIsConsent /\ ConsentBeforeRun /\ [Next]_vars => ConsentBeforeRun'
<1> SUFFICES ASSUME TypeOK /\ YesIsConsent /\ ConsentBeforeRun, [Next]_vars PROVE ConsentBeforeRun'
  OBVIOUS
<1> USE DEF TypeOK, BatchType, GateType, YesIsConsent, ConsentBeforeRun, Active, Name
<1>1. ASSUME NEW t \in Turns, StartTurn(t) PROVE ConsentBeforeRun'
  BY <1>1 DEF StartTurn, batchVars, persistVars
<1>2. ASSUME NEW t \in Turns, RejectTurn(t) PROVE ConsentBeforeRun'
  BY <1>2 DEF RejectTurn, batchVars, persistVars
<1>3. ASSUME NEW t \in Turns, HitIterationCap(t) PROVE ConsentBeforeRun'
  BY <1>3 DEF HitIterationCap, BeginPersist, batchVars, persistVars
<1>4. ASSUME NEW t \in Turns, EndLoop(t) PROVE ConsentBeforeRun'
  BY <1>4 DEF EndLoop, BeginIteration, BeginPersist, batchVars, persistVars
<1>5. ASSUME NEW t \in Turns, ModelFails(t) PROVE ConsentBeforeRun'
  BY <1>5 DEF ModelFails, BeginIteration, BeginPersist, batchVars, persistVars
<1>6. ASSUME NEW t \in Turns, ModelCallsTools(t) PROVE ConsentBeforeRun'
  BY <1>6
  DEF ModelCallsTools, CallTools, BeginIteration, SetBatch, batchVars,
      persistVars
<1>7. ASSUME NEW t \in Turns, FanIn(t) PROVE ConsentBeforeRun'
  BY <1>7 DEF FanIn, batchVars, persistVars
<1>8. ASSUME NEW t \in Turns, CollectBatch(t) PROVE ConsentBeforeRun'
  BY <1>8 DEF CollectBatch, SetBatch, batchVars, persistVars
<1>9. ASSUME NEW t \in Turns, AppendTurn(t) PROVE ConsentBeforeRun'
  BY <1>9 DEF AppendTurn, batchVars, persistVars
<1>10. ASSUME NEW t \in Turns, CompleteTurn(t) PROVE ConsentBeforeRun'
  BY <1>10 DEF CompleteTurn, Terminate, PersistFrame, batchVars, persistVars
<1>11. ASSUME NEW t \in Turns, FailTurn(t) PROVE ConsentBeforeRun'
  BY <1>11 DEF FailTurn, Terminate, PersistFrame, batchVars, persistVars
<1>12. ASSUME NEW t \in Turns, AppendFails(t) PROVE ConsentBeforeRun'
  BY <1>12 DEF AppendFails, Terminate, PersistFrame, batchVars, persistVars
<1>13. ASSUME NEW t \in Turns, CloseTurn(t) PROVE ConsentBeforeRun'
  BY <1>13 DEF CloseTurn, Cancelled, batchVars, persistVars
<1>14. ASSUME NEW t \in Turns, TurnClosed(t) PROVE ConsentBeforeRun'
  BY <1>14 DEF TurnClosed, batchVars, persistVars
<1>15. ASSUME NEW t \in Turns, NEW i \in Slots, WorkerBegins(t, i) PROVE ConsentBeforeRun'
  <2>1. WorkerIs(t, i, "created") /\ UNCHANGED <<phase, calls, consent>>
    BY <1>15 DEF WorkerBegins, WorkerFrame
  <2>2. CASE Name(t, i) \in Gated
    <3>1. /\ SetWorker(t, i, "waiting")
          /\ fut' = [fut EXCEPT ![t][i] = "unset"]
          /\ pending' = Put([id |-> calls[t][i].id, conv |-> ConvOf[t],
                             turn |-> t, slot |-> i])
      BY <1>15, <2>2 DEF WorkerBegins
    <3> QED
      BY <2>1, <2>2, <3>1 DEF SetWorker, WorkerIs, Name
  <2>3. CASE Name(t, i) \notin Gated
    <3>1. SetWorker(t, i, "checking") /\ UNCHANGED <<fut, pending>>
      BY <1>15, <2>3 DEF WorkerBegins, EnterRegistry
    <3> QED
      BY <2>1, <2>3, <3>1 DEF SetWorker, WorkerIs, Name
  <2> QED
    BY <2>2, <2>3
<1>16. ASSUME NEW t \in Turns, NEW i \in Slots, WorkerApproved(t, i) PROVE ConsentBeforeRun'
  BY <1>16
  DEF WorkerApproved, EnterRegistry, WorkerFrame, LeaveGate, WorkerIs, SetWorker, Active,
      Finish, batchVars, persistVars
<1>17. ASSUME NEW t \in Turns, NEW i \in Slots, WorkerDenied(t, i) PROVE ConsentBeforeRun'
  BY <1>17
  DEF WorkerDenied, WorkerFrame, LeaveGate, WorkerIs, SetWorker, Active,
      Finish, batchVars, persistVars
<1>18. ASSUME NEW t \in Turns, NEW i \in Slots, ApprovalTimesOut(t, i) PROVE ConsentBeforeRun'
  BY <1>18
  DEF ApprovalTimesOut, WorkerFrame, LeaveGate, WorkerIs, SetWorker, Active,
      Finish, batchVars, persistVars
<1>19. ASSUME NEW t \in Turns, NEW i \in Slots, RegistryRefuses(t, i) PROVE ConsentBeforeRun'
  <2>1. worker' = [worker EXCEPT ![t][i] = "finished"]
    BY <1>19 DEF RegistryRefuses, Finish, SetWorker
  <2>2. UNCHANGED <<calls, consent>>
    BY <1>19 DEF RegistryRefuses, WorkerFrame
  <2> QED
    BY <2>1, <2>2
<1>20. ASSUME NEW t \in Turns, NEW i \in Slots, HandlerStarts(t, i) PROVE ConsentBeforeRun'
  BY <1>20
  DEF HandlerStarts, WorkerFrame, WorkerIs, SetWorker, Active, Finish,
      batchVars, persistVars
<1>21. ASSUME NEW t \in Turns, NEW i \in Slots, HandlerEnds(t, i) PROVE ConsentBeforeRun'
  BY <1>21
  DEF HandlerEnds, WorkerFrame, WorkerIs, SetWorker, Active, Finish,
      batchVars, persistVars
<1>22. ASSUME NEW t \in Turns, NEW i \in Slots, HandlerCancelled(t, i) PROVE ConsentBeforeRun'
  BY <1>22
  DEF HandlerCancelled, WorkerFrame, WorkerIs, SetWorker, Active, Finish,
      batchVars, persistVars
<1>23. ASSUME NEW t \in Turns, NEW i \in Slots, CancelWorker(t, i) PROVE ConsentBeforeRun'
  BY <1>23
  DEF CancelWorker, WorkerFrame, LeaveGate, WorkerIs, SetWorker, Active,
      Finish, batchVars, persistVars
<1>24. ASSUME NEW id \in CallIds, NEW ans \in BOOLEAN, NEW c \in Answering,
         Resolve(id, ans, c) PROVE ConsentBeforeRun'
  BY <1>24 DEF Resolve, batchVars, persistVars
<1>25. ASSUME ChangePermissions PROVE ConsentBeforeRun'
  BY <1>25 DEF ChangePermissions, batchVars, persistVars
<1>27. ASSUME NEW t \in Turns, NEW i \in Slots, ApprovalTimerFires(t, i) PROVE ConsentBeforeRun'
  BY <1>27 DEF ApprovalTimerFires, WorkerFrame, WorkerIs, SetWorker
<1>28. ASSUME NEW t \in Turns, NEW i \in Slots, PermissionRead(t, i) PROVE ConsentBeforeRun'
  BY <1>28 DEF PermissionRead, WorkerFrame, WorkerIs, SetWorker
<1>26. CASE UNCHANGED vars
  BY <1>26 DEF vars
<1> QED
  BY <1>1, <1>2, <1>3, <1>4, <1>5, <1>6, <1>7, <1>8, <1>9, <1>10, <1>11,
     <1>12, <1>13, <1>14, <1>15, <1>16, <1>17, <1>18, <1>19, <1>20, <1>21,
     <1>22, <1>23, <1>24, <1>25, <1>26, <1>27, <1>28
  DEF Next, TurnStep, ModelStep, PersistStep, WorkerStep, ClientAnswers, Finished

\* Initially the gate is empty and no worker exists.
LEMMA InitGateInv == Init => GateInv
<1> SUFFICES ASSUME Init PROVE GateInv
  OBVIOUS
<1>1. TypeOK
  BY InitType
<1>2. LiveInBatch /\ PendingIsWaiting /\ YesIsConsent /\ ConsentBeforeRun
  BY DEF Init, LiveInBatch, Live, PendingIsWaiting, YesIsConsent,
     ConsentBeforeRun, Active
<1> QED
  BY <1>1, <1>2 DEF GateInv

\* Every step keeps the gate's inductive invariant.
LEMMA StepGateInv == GateInv /\ [Next]_vars => GateInv'
BY StepControl, StepBatch, StepGate, StepLive, StepPending, StepYes, StepConsent
   DEF GateInv, TypeOK

\* The gate's inductive invariant holds of every behaviour.
LEMMA GateInvariant == Spec => []GateInv
BY InitGateInv, StepGateInv, PTL DEF Spec

\* No gated tool gets past the approval gate without the consent of a client of
\* its own conversation, given while that very call waited for it.
THEOREM NoRunWithoutConsent == Spec => []ConsentBeforeRun
<1>1. GateInv => ConsentBeforeRun
  BY DEF GateInv
<1> QED
  BY <1>1, GateInvariant, PTL

\* _pending_approvals holds nothing but the requests of workers that have not
\* left their gate, and an entry's future can be answered exactly as long as its
\* worker waits: between the end of a wait and the task's finally clause the
\* entry is there and its future is cancelled.
THEOREM NoApprovalLeaks == Spec => []PendingIsWaiting
<1>1. GateInv => PendingIsWaiting
  BY DEF GateInv
<1> QED
  BY <1>1, GateInvariant, PTL

\* A barred call's tool is not allowed: ChangePermissions takes a call off the
\* record as soon as the user may use its tool.
BarredAreNotAllowed == \A w \in barred : Name(w[1], w[2]) \notin allowed

RevocationInv == TypeOK /\ BarredAreNotAllowed /\ RevocationHonoured

\* A step that begins no batch, admits no call and changes no permission cannot
\* disturb the record.
LEMMA RevocationStays ==
  ASSUME RevocationInv, UNCHANGED <<calls, allowed, barred>>,
         \A t \in Turns : \A i \in Active(t) :
           worker'[t][i] \in {"admitted", "running"}
             => worker[t][i] \in {"admitted", "running"}
  PROVE  BarredAreNotAllowed' /\ RevocationHonoured'
BY DEF RevocationInv, BarredAreNotAllowed, RevocationHonoured, Active, Name

\* A worker that is set to another state than "admitted" or "running" does not
\* disturb the record either.
LEMMA RevocationStaysBehindGate ==
  ASSUME RevocationInv, NEW t \in Turns, NEW i \in Slots, NEW s,
         SetWorker(t, i, s),
         s \in {"admitted", "running"} => worker[t][i] \in {"admitted", "running"},
         UNCHANGED <<calls, allowed, barred>>
  PROVE  BarredAreNotAllowed' /\ RevocationHonoured'
<1>1. ASSUME NEW u \in Turns, NEW j \in Active(u),
             worker'[u][j] \in {"admitted", "running"}
      PROVE  worker[u][j] \in {"admitted", "running"}
  BY <1>1 DEF SetWorker, RevocationInv, TypeOK, BatchType, Active
<1> QED
  BY <1>1, RevocationStays

\* A batch that is set up or thrown away takes its calls off the record.
LEMMA RevocationAcrossBatches ==
  ASSUME RevocationInv, NEW t \in Turns, NEW cs, NEW s \in {"created", "none"},
         SetBatch(t, cs, s), UNCHANGED allowed
  PROVE  BarredAreNotAllowed' /\ RevocationHonoured'
<1> USE DEF RevocationInv, TypeOK, BatchType, GateType
<1>1. BarredAreNotAllowed'
  <2> SUFFICES ASSUME NEW w \in barred' PROVE Name(w[1], w[2])' \notin allowed'
    BY DEF BarredAreNotAllowed
  <2>1. w \in barred /\ w[1] \in Turns /\ w[1] # t
    BY DEF SetBatch
  <2> QED
    BY <2>1 DEF SetBatch, BarredAreNotAllowed, Name
<1>2. RevocationHonoured'
  <2> SUFFICES ASSUME NEW u \in Turns, NEW i \in Active(u)',
                      worker'[u][i] \in {"admitted", "running"}
               PROVE  <<u, i>> \notin barred'
    BY DEF RevocationHonoured
  <2>1. u # t
    BY DEF SetBatch, Active
  <2>2. i \in Active(u) /\ worker[u][i] \in {"admitted", "running"}
    BY <2>1 DEF SetBatch, Active
  <2> QED
    BY <2>1, <2>2 DEF SetBatch, RevocationHonoured
<1> QED
  BY <1>1, <1>2

\* Every step keeps the record of barred calls.
LEMMA StepRevocation ==
  RevocationInv /\ [Next]_vars => BarredAreNotAllowed' /\ RevocationHonoured'
<1> DEFINE Kept == BarredAreNotAllowed' /\ RevocationHonoured'
<1> SUFFICES ASSUME RevocationInv, [Next]_vars PROVE Kept
  OBVIOUS
<1> HIDE DEF Kept
<1>1. ASSUME NEW t \in Turns, StartTurn(t) \/ RejectTurn(t) PROVE Kept
  BY <1>1, RevocationStays DEF Kept, StartTurn, RejectTurn, batchVars
<1>2. ASSUME NEW t \in Turns, HitIterationCap(t) \/ EndLoop(t) \/ ModelFails(t) PROVE Kept
  BY <1>2, RevocationStays
  DEF Kept, HitIterationCap, EndLoop, ModelFails, BeginPersist, batchVars
<1>3. ASSUME NEW t \in Turns, ModelCallsTools(t) PROVE Kept
  BY <1>3, RevocationAcrossBatches DEF Kept, ModelCallsTools, CallTools
<1>4. ASSUME NEW t \in Turns, FanIn(t) PROVE Kept
  BY <1>4, RevocationStays DEF Kept, FanIn
<1>5. ASSUME NEW t \in Turns, CollectBatch(t) PROVE Kept
  BY <1>5, RevocationAcrossBatches DEF Kept, CollectBatch
<1>6. ASSUME NEW t \in Turns, PersistStep(t) PROVE Kept
  BY <1>6, RevocationStays
  DEF Kept, PersistStep, AppendTurn, CompleteTurn, FailTurn, AppendFails,
      PersistFrame, batchVars
<1>7. ASSUME NEW t \in Turns, CloseTurn(t) \/ TurnClosed(t) PROVE Kept
  BY <1>7, RevocationStays DEF Kept, CloseTurn, TurnClosed, batchVars
<1>8. ASSUME NEW t \in Turns, NEW i \in Slots, EnterRegistry(t, i),
             UNCHANGED <<calls, allowed>> PROVE Kept
  <2>1. BarredAreNotAllowed'
    BY <1>8 DEF EnterRegistry, RevocationInv, BarredAreNotAllowed, Name
  <2>2. RevocationHonoured'
    BY <1>8
    DEF EnterRegistry, SetWorker, RevocationInv, RevocationHonoured, TypeOK,
        BatchType, Active
  <2> QED
    BY <2>1, <2>2 DEF Kept
<1>9. ASSUME NEW t \in Turns, NEW i \in Slots, WorkerBegins(t, i) PROVE Kept
  <2>1. CASE Name(t, i) \in Gated
    BY <1>9, <2>1, RevocationStaysBehindGate DEF Kept, WorkerBegins, WorkerFrame
  <2>2. CASE Name(t, i) \notin Gated
    BY <1>8, <1>9, <2>2 DEF WorkerBegins, WorkerFrame
  <2> QED
    BY <2>1, <2>2
<1>10. ASSUME NEW t \in Turns, NEW i \in Slots, WorkerApproved(t, i) PROVE Kept
  BY <1>8, <1>10 DEF WorkerApproved, WorkerFrame
<1>11. ASSUME NEW t \in Turns, NEW i \in Slots,
              WorkerDenied(t, i) \/ ApprovalTimerFires(t, i) \/ ApprovalTimesOut(t, i)
       PROVE  Kept
  BY <1>11, RevocationStaysBehindGate
  DEF Kept, WorkerDenied, ApprovalTimerFires, ApprovalTimesOut, Finish, WorkerFrame
<1>12. ASSUME NEW t \in Turns, NEW i \in Slots, PermissionRead(t, i) PROVE Kept
  <2>1. BarredAreNotAllowed'
    BY <1>12
    DEF PermissionRead, WorkerFrame, RevocationInv, BarredAreNotAllowed, Name
  <2>2. <<t, i>> \notin barred
    BY <1>12 DEF PermissionRead, Permitted, RevocationInv, BarredAreNotAllowed
  <2>3. RevocationHonoured'
    BY <1>12, <2>2
    DEF PermissionRead, WorkerFrame, SetWorker, RevocationInv,
        RevocationHonoured, TypeOK, BatchType, Active
  <2> QED
    BY <2>1, <2>3 DEF Kept
<1>13. ASSUME NEW t \in Turns, NEW i \in Slots, RegistryRefuses(t, i) PROVE Kept
  <2>1. SetWorker(t, i, "finished") /\ UNCHANGED <<calls, allowed, barred>>
    BY <1>13 DEF RegistryRefuses, Finish, WorkerFrame
  <2> QED
    BY <2>1, RevocationStaysBehindGate DEF Kept
<1>14. ASSUME NEW t \in Turns, NEW i \in Slots,
              HandlerStarts(t, i) \/ HandlerEnds(t, i) \/ HandlerCancelled(t, i)
       PROVE  Kept
  BY <1>14, RevocationStaysBehindGate
  DEF Kept, HandlerStarts, HandlerEnds, HandlerCancelled, Finish, WorkerIs, WorkerFrame
<1>15. ASSUME NEW t \in Turns, NEW i \in Slots, CancelWorker(t, i) PROVE Kept
  BY <1>15, RevocationStaysBehindGate DEF Kept, CancelWorker, WorkerFrame
<1>16. ASSUME ClientAnswers PROVE Kept
  BY <1>16, RevocationStays DEF Kept, ClientAnswers, Resolve
<1>17. ASSUME ChangePermissions PROVE Kept
  BY <1>17
  DEF Kept, ChangePermissions, RevocationInv, BarredAreNotAllowed,
      RevocationHonoured, batchVars, Active, Name
<1>18. CASE UNCHANGED vars
  BY <1>18, RevocationStays DEF Kept, vars, batchVars
<1> QED
  BY <1>1, <1>2, <1>3, <1>4, <1>5, <1>6, <1>7, <1>9, <1>10, <1>11, <1>12,
     <1>13, <1>14, <1>15, <1>16, <1>17, <1>18
  DEF Next, TurnStep, ModelStep, WorkerStep, Finished

\* A handler never runs on a permission that was gone when its call came through
\* the gate and has not come back, for any approval wait and any interleaving of
\* revocations with the read of the permission.
THEOREM RevocationIsHonoured == Spec => []RevocationHonoured
<1>1. Init => RevocationInv
  <2> SUFFICES ASSUME Init PROVE RevocationInv
    OBVIOUS
  <2>1. BarredAreNotAllowed /\ RevocationHonoured
    BY DEF Init, BarredAreNotAllowed, RevocationHonoured, Active
  <2> QED
    BY <2>1, InitType DEF RevocationInv
<1>2. RevocationInv /\ [Next]_vars => RevocationInv'
  BY StepRevocation, StepControl, StepBatch, StepGate DEF RevocationInv, TypeOK
<1>3. RevocationInv => RevocationHonoured
  BY DEF RevocationInv
<1> QED
  BY <1>1, <1>2, <1>3, PTL DEF Spec

=============================================================================
