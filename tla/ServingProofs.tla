--------------------------- MODULE ServingProofs ---------------------------
(***************************************************************************)
(* What holds of a connection for any number of frames: its turns start in *)
(* order, the finalization follows the last of them, and the application   *)
(* closes its clients after the last background write.  The queue holds    *)
(* the turns that follow those that ran, and the sentinel at most at its   *)
(* end.                                                                    *)
(* Then what holds of the tools for any servers, rates, buckets and times. *)
(* A server is started once, so that a failure never closes a client that  *)
(* was connected before.  What the calls of a window of the rate limiter   *)
(* cost and what its bucket would hold now are together within one burst   *)
(* and what the window brought.                                            *)
(***************************************************************************)
EXTENDS MCServing, ContextProofs, FiniteSetTheorems

-----------------------------------------------------------------------------
(* The connection and the server.                                          *)

Frames == [kind : FrameKinds, user : {Owner, Stranger}]

ServingType ==
  /\ ServingTypeOK
  /\ taken + Len(inbox) <= frames
  /\ run = "runs" => Len(ran) > 0

\* The queue goes on where the turns that ran stop.
QueueInv ==
  /\ Len(ran) <= taken
  /\ recv # "returned" => Len(queue) = taken - Len(ran)
  /\ \A i \in 1..Len(queue) :
       \/ queue[i] = Len(ran) + i /\ queue[i] <= taken
       \/ queue[i] = Sentinel /\ i = Len(queue) /\ recv = "returned"
  /\ \A i \in 1..Len(ran) : ran[i] = i

\* The server goes down only after the handler and the stream.
DownInv ==
  /\ server # "up" => handler = "over" /\ stream # "streams"
  /\ server = "drains" /\ ~broken => writes \subseteq awaited
  /\ NothingAfterClose

ServingInv == ServingType /\ QueueInv /\ FinalizedAfterTurns /\ DownInv

-----------------------------------------------------------------------------
(* Type correctness.                                                       *)

LEMMA AppendFacts ==
  ASSUME NEW S, NEW s \in Seq(S), NEW e \in S
  PROVE  /\ Append(s, e) \in Seq(S) /\ Len(Append(s, e)) = Len(s) + 1
         /\ \A i \in 1..Len(s) : Append(s, e)[i] = s[i]
         /\ Append(s, e)[Len(s) + 1] = e
OBVIOUS

LEMMA TailFacts ==
  ASSUME NEW S, NEW s \in Seq(S), s # <<>>
  PROVE  /\ Head(s) \in S /\ Head(s) = s[1] /\ Len(s) \in Nat \ {0}
         /\ Tail(s) \in Seq(S) /\ Len(Tail(s)) = Len(s) - 1
         /\ \A i \in 1..Len(Tail(s)) : Tail(s)[i] = s[i + 1]
OBVIOUS

LEMMA EmptyFacts == ASSUME NEW S PROVE <<>> \in Seq(S) /\ Len(<<>>) = 0
OBVIOUS

LEMMA TypeInit == ServingInit => ServingType
<1> SUFFICES ASSUME ServingInit PROVE ServingType
  OBVIOUS
<1>1. /\ inbox \in Seq([kind : FrameKinds, user : {Owner, Stranger}])
      /\ queue \in Seq(0..MaxFrames) /\ ran \in Seq(1..MaxFrames)
      /\ ending \in Seq(1..MaxFrames) /\ Len(inbox) = 0
  BY EmptyFacts DEF ServingInit
<1>2. /\ client \in {"here", "gone"} /\ frames = 0 /\ taken = 0
      /\ recv = "reads" /\ run = "waits" /\ handler = "gathers" /\ broken = FALSE
      /\ lastUser = Nobody /\ stream = "none" /\ server = "up" /\ writes = {} /\ awaited = {}
      /\ orphans = {}
  BY DEF ServingInit
<1>3. 0 \in 0..MaxFrames
  BY ServingAssumption
<1>4. ServingTypeOK
  BY <1>1, <1>2, <1>3, Zenon DEF ServingTypeOK
<1> QED
  BY <1>1, <1>2, <1>4 DEF ServingType

\* What turns leave behind.
LEMMA LeavesBehind ==
  ASSUME ServingType
  PROVE  /\ run = "runs" => CurrentTurn \in 0..MaxFrames
         /\ \A n \in 0..MaxFrames : Enqueues(n) /\ awaited' = awaited =>
              awaited' \subseteq writes' /\ writes' \subseteq 0..MaxFrames
         /\ \A n \in 0..MaxFrames : Abandons(n) => orphans' \subseteq 0..MaxFrames
<1>1. /\ ran \in Seq(1..MaxFrames) /\ (run = "runs" => Len(ran) > 0)
      /\ awaited \subseteq writes /\ writes \subseteq 0..MaxFrames
      /\ orphans \subseteq 0..MaxFrames
  BY DEF ServingType, ServingTypeOK
<1>2. ASSUME run = "runs" PROVE CurrentTurn \in 0..MaxFrames
  <2>1. Len(ran) \in 1..Len(ran)
    BY <1>1, <1>2
  <2>2. ran[Len(ran)] \in 1..MaxFrames
    BY <1>1, <2>1, ServingAssumption
  <2> QED
    BY <2>2, ServingAssumption DEF CurrentTurn
<1>3. ASSUME NEW n \in 0..MaxFrames, Enqueues(n), awaited' = awaited
      PROVE  awaited' \subseteq writes' /\ writes' \subseteq 0..MaxFrames
  <2>1. writes' = writes \/ writes' = writes \cup {n}
    BY <1>3 DEF Enqueues
  <2> QED
    BY <1>1, <1>3, <2>1
<1>4. ASSUME NEW n \in 0..MaxFrames, Abandons(n) PROVE orphans' \subseteq 0..MaxFrames
  BY <1>1, <1>4 DEF Abandons
<1> QED
  BY <1>2, <1>3, <1>4

LEMMA TypeStep == ServingType /\ QueueInv /\ [ServingNext]_servingVars => ServingType'
<1> SUFFICES ASSUME ServingType, QueueInv, [ServingNext]_servingVars PROVE ServingType'
  OBVIOUS
<1> USE ServingAssumption DEF Sentinel, StreamTurn
<1>1. CASE UNCHANGED servingVars
  BY <1>1 DEF servingVars, connVars, appVars, ServingType, ServingTypeOK
<1>2. ASSUME NEW kind \in FrameKinds, NEW user \in {Owner, Stranger}, Sends(kind, user)
      PROVE  ServingType'
  BY <1>2 DEF Sends, appVars, ServingType, ServingTypeOK
<1>3. CASE Leaves
  BY <1>3 DEF Leaves, appVars, ServingType, ServingTypeOK
<1>4. CASE Receives
  <2>1. /\ Head(inbox) \in [kind : FrameKinds, user : {Owner, Stranger}]
        /\ inbox' \in Seq([kind : FrameKinds, user : {Owner, Stranger}])
        /\ Len(inbox') = Len(inbox) - 1 /\ Len(inbox) > 0
    <3>1. /\ inbox \in Seq(Frames) /\ inbox # <<>>
          /\ inbox' = Tail(inbox)
      BY <1>4 DEF Receives, ServingType, ServingTypeOK, Frames
    <3>2. /\ Head(inbox) \in Frames /\ inbox' \in Seq(Frames)
          /\ Len(inbox') = Len(inbox) - 1 /\ Len(inbox) > 0
      BY <3>1, TailFacts
    <3> QED
      BY <3>2 DEF Frames
  <2>2. Head(inbox).kind \in FrameKinds /\ Head(inbox).user \in {Owner, Stranger}
    BY <2>1
  <2>3. recv' \in {"reads", "sets", "raised"}
    BY <1>4, <2>2 DEF Receives, FrameKinds
  <2>4. taken + 1 \in 0..MaxFrames
    <3>1. /\ Len(inbox) \in Nat /\ taken \in 0..MaxFrames /\ frames \in 0..MaxFrames
          /\ taken + Len(inbox) <= frames
      BY DEF ServingType, ServingTypeOK
    <3> QED
      BY <2>1, <3>1
  <2>5. /\ lastUser' \in {Owner, Stranger, Nobody}
        /\ taken' \in 0..MaxFrames /\ taken' <= taken + 1
        /\ queue' \in Seq(0..MaxFrames)
    <3>1. /\ queue \in Seq(0..MaxFrames) /\ taken \in 0..MaxFrames
          /\ lastUser \in {Owner, Stranger, Nobody}
      BY DEF ServingType, ServingTypeOK
    <3>2. Append(queue, taken + 1) \in Seq(0..MaxFrames)
      BY <2>4, <3>1, AppendFacts
    <3>3. CASE Head(inbox).kind = "turn"
      <4>1. lastUser' = Head(inbox).user /\ taken' = taken + 1 /\ queue' = Append(queue, taken + 1)
        BY <1>4, <3>3 DEF Receives
      <4> QED
        BY <2>2, <2>4, <3>2, <4>1
    <3>4. CASE Head(inbox).kind # "turn"
      <4>1. UNCHANGED <<lastUser, taken, queue>>
        BY <1>4, <3>4 DEF Receives
      <4> QED
        BY <3>1, <4>1
    <3> QED
      BY <3>3, <3>4
  <2>6. taken' + Len(inbox') <= frames
    <3>1. /\ Len(inbox) \in Nat /\ taken \in 0..MaxFrames /\ frames \in 0..MaxFrames
          /\ taken + Len(inbox) <= frames
      BY DEF ServingType, ServingTypeOK
    <3> QED
      BY <2>1, <2>5, <3>1
  <2>7. UNCHANGED <<client, frames, run, ran, handler, broken, ending, appVars>>
    BY <1>4 DEF Receives
  <2>8. ServingTypeOK'
    BY <2>1, <2>3, <2>5, <2>7 DEF appVars, ServingType, ServingTypeOK
  <2> QED
    BY <2>6, <2>7, <2>8 DEF ServingType
<1>5. CASE ModelSet
  BY <1>5 DEF ModelSet, appVars, ServingType, ServingTypeOK
<1>6. CASE Disconnected
  BY <1>6 DEF Disconnected, Hangup, appVars, ServingType, ServingTypeOK
<1>7. CASE Dequeues
  <2>1. Head(queue) \in 0..MaxFrames /\ Tail(queue) \in Seq(0..MaxFrames)
    BY <1>7 DEF Dequeues, ServingType, ServingTypeOK
  <2>2. queue' \in Seq(0..MaxFrames)
    BY <1>7, <2>1 DEF Dequeues, NextTurn
  <2>3. CASE Head(queue) = Sentinel
    BY <1>7, <2>2, <2>3 DEF Dequeues, NextTurn, appVars, ServingType, ServingTypeOK
  <2>4. CASE Head(queue) # Sentinel
    <3>1. Head(queue) \in 1..MaxFrames
      BY <2>1, <2>4
    <3>2. run' = "runs" /\ ran' = Append(ran, Head(queue))
      BY <1>7, <2>4 DEF Dequeues, NextTurn
    <3>3. ran' \in Seq(1..MaxFrames) /\ Len(ran') > 0
      BY <3>1, <3>2 DEF ServingType, ServingTypeOK
    <3> QED
      BY <1>7, <2>2, <3>2, <3>3 DEF Dequeues, appVars, ServingType, ServingTypeOK
  <2> QED
    BY <2>3, <2>4
<1>8. CASE TurnEnds
  <2>1. /\ awaited' \subseteq writes' /\ writes' \subseteq 0..MaxFrames
        /\ orphans' \subseteq 0..MaxFrames
    BY <1>8, LeavesBehind DEF TurnEnds, ServingType, ServingTypeOK
  <2> QED
    BY <1>8, <2>1 DEF TurnEnds, ServingType, ServingTypeOK
<1>9. CASE SendFails
  <2>1. /\ awaited' \subseteq writes' /\ writes' \subseteq 0..MaxFrames
        /\ orphans' \subseteq 0..MaxFrames
    BY <1>9, LeavesBehind DEF SendFails, Abandons
  <2> QED
    BY <1>9, <2>1 DEF SendFails, ServingType, ServingTypeOK
<1>10. CASE Closes
  BY <1>10 DEF Closes, appVars, ServingType, ServingTypeOK
<1>11. CASE GatherReturns
  BY <1>11 DEF GatherReturns, Finally, appVars, ServingType, ServingTypeOK
<1>12. CASE GatherRaises
  BY <1>12 DEF GatherRaises, Finally, appVars, ServingType, ServingTypeOK
<1>13. CASE Cancelled
  <2>1. /\ awaited' \subseteq writes' /\ writes' \subseteq 0..MaxFrames
        /\ orphans' \subseteq 0..MaxFrames /\ run' \in {"closes", "returned"}
    <3>1. /\ awaited' = awaited /\ awaited \subseteq writes /\ writes \subseteq 0..MaxFrames
          /\ orphans \subseteq 0..MaxFrames /\ run \in {"waits", "runs", "closes", "returned"}
      BY <1>13 DEF Cancelled, ServingType, ServingTypeOK
    <3>2. CASE /\ run' = CASE run = "waits" -> "returned" [] run = "runs" -> "closes" [] OTHER -> run
               /\ UNCHANGED <<writes, orphans>>
      BY <3>1, <3>2
    <3>3. CASE run = "runs" /\ run' = "returned" /\ Abandons(CurrentTurn)
      BY <3>1, <3>3, LeavesBehind DEF Abandons
    <3> QED
      BY <1>13, <3>2, <3>3 DEF Cancelled
  <2> QED
    BY <1>13, <2>1 DEF Cancelled, Finally, ServingType, ServingTypeOK
<1>14. CASE ConversationEnds
  BY <1>14 DEF ConversationEnds, appVars, ServingType, ServingTypeOK
<1>15. CASE StreamStarts
  BY <1>15 DEF StreamStarts, connVars, ServingType, ServingTypeOK
<1>16. CASE StreamEnds
  <2>1. StreamTurn \in 0..MaxFrames
    OBVIOUS
  <2>2. /\ awaited' \subseteq writes' /\ writes' \subseteq 0..MaxFrames
        /\ orphans' \subseteq 0..MaxFrames
    <3>1. orphans \subseteq 0..MaxFrames
      BY DEF ServingType, ServingTypeOK
    <3> QED
      BY <1>16, <2>1, <3>1, LeavesBehind DEF StreamEnds, Abandons
  <2> QED
    BY <1>16, <2>2 DEF StreamEnds, connVars, ServingType, ServingTypeOK
<1>17. ASSUME NEW n \in 0..MaxFrames, WriteEnds(n) PROVE ServingType'
  BY <1>17 DEF WriteEnds, connVars, ServingType, ServingTypeOK
<1>18. CASE ShutsDown
  BY <1>18 DEF ShutsDown, connVars, ServingType, ServingTypeOK
<1>19. CASE SweeperStopped
  BY <1>19 DEF SweeperStopped, Drain, connVars, ServingType, ServingTypeOK
<1>20. CASE Drained
  BY <1>20 DEF Drained, connVars, ServingType, ServingTypeOK
<1>21. CASE Closed
  BY <1>21 DEF Closed, connVars, ServingType, ServingTypeOK
<1>22. ASSUME NEW n \in 0..MaxFrames, OrphanCloses(n) PROVE ServingType'
  BY <1>22 DEF OrphanCloses, connVars, ServingType, ServingTypeOK
<1> QED
  BY <1>1, <1>2, <1>3, <1>4, <1>5, <1>6, <1>7, <1>8, <1>9, <1>10, <1>11, <1>12, <1>13, <1>14,
     <1>15, <1>16, <1>17, <1>18, <1>19, <1>20, <1>21, <1>22 DEF ServingNext

-----------------------------------------------------------------------------
(* The queue.  Only Receives, Disconnected and Dequeues touch it.          *)

LEMMA QueueStep ==
  ServingType /\ ServingType' /\ QueueInv /\ [ServingNext]_servingVars => QueueInv'
<1> SUFFICES ASSUME ServingType, ServingType', QueueInv, [ServingNext]_servingVars
             PROVE  QueueInv'
  OBVIOUS
<1>1. /\ queue \in Seq(0..MaxFrames) /\ ran \in Seq(1..MaxFrames)
      /\ Len(queue) \in Nat /\ Len(ran) \in Nat
      /\ taken \in 0..MaxFrames /\ taken' \in 0..MaxFrames /\ MaxFrames \in Nat
  BY ServingAssumption DEF ServingType, ServingTypeOK
<1>2. CASE UNCHANGED <<queue, ran, taken>> /\ (recv' = "returned" <=> recv = "returned")
  BY <1>2 DEF QueueInv
<1>3. CASE Receives
  <2>1. recv # "returned" /\ recv' # "returned"
    <3>1. Head(inbox) \in [kind : FrameKinds, user : {Owner, Stranger}]
      <4>1. inbox \in Seq([kind : FrameKinds, user : {Owner, Stranger}]) /\ inbox # <<>>
        BY <1>3 DEF Receives, ServingType, ServingTypeOK
      <4> QED
        BY <4>1, TailFacts
    <3>2. Head(inbox).kind \in FrameKinds
      BY <3>1
    <3> QED
      BY <1>3, <3>2 DEF Receives, FrameKinds
  <2>2. CASE UNCHANGED <<queue, taken>>
    BY <1>2, <1>3, <2>1, <2>2 DEF Receives
  <2>3. CASE taken' = taken + 1 /\ queue' = Append(queue, taken + 1)
    <3>1. Len(queue') = Len(queue) + 1 /\ ran' = ran
      BY <1>1, <1>3, <2>3 DEF Receives
    <3>2. /\ queue'[Len(queue) + 1] = taken + 1
          /\ \A i \in 1..Len(queue) : queue'[i] = queue[i]
      BY <1>1, <2>3, AppendFacts
    <3>3. \A i \in 1..Len(queue) : queue[i] = Len(ran) + i /\ queue[i] <= taken
      BY <2>1 DEF QueueInv
    <3>4. Len(queue) = taken - Len(ran)
      BY <2>1 DEF QueueInv
    <3>5. ASSUME NEW i \in 1..Len(queue')
          PROVE  queue'[i] = Len(ran) + i /\ queue'[i] <= taken'
      <4>1. CASE i \in 1..Len(queue)
        BY <1>1, <2>3, <3>2, <3>3, <4>1
      <4>2. CASE i = Len(queue) + 1
        <5>1. queue'[i] = taken + 1 /\ taken' = taken + 1
          BY <2>3, <3>2, <4>2
        <5> QED
          BY <1>1, <3>4, <4>2, <5>1
      <4> QED
        BY <1>1, <3>1, <4>1, <4>2
    <3> QED
      BY <1>1, <2>1, <2>3, <3>1, <3>4, <3>5 DEF QueueInv
  <2> QED
    BY <1>3, <2>2, <2>3 DEF Receives
<1>4. CASE Disconnected
  <2>1. /\ recv = "reads" /\ recv' = "returned" /\ queue' = Append(queue, Sentinel)
        /\ UNCHANGED <<taken, ran>>
    BY <1>4 DEF Disconnected, Hangup
  <2>2. Len(queue') = Len(queue) + 1
    BY <1>1, <2>1
  <2>3. \A i \in 1..Len(queue') :
          \/ queue'[i] = Len(ran) + i /\ queue'[i] <= taken
          \/ queue'[i] = Sentinel /\ i = Len(queue')
    BY <1>1, <2>1, <2>2 DEF QueueInv
  <2> QED
    BY <2>1, <2>3 DEF QueueInv
<1>5. CASE Dequeues
  <2>1. queue # <<>> /\ queue' = Tail(queue) /\ UNCHANGED <<taken, recv>>
    BY <1>5 DEF Dequeues, NextTurn
  <2>2. /\ Len(queue) > 0 /\ Len(queue') = Len(queue) - 1 /\ Head(queue) = queue[1]
        /\ \A i \in 1..Len(queue') : queue'[i] = queue[i + 1]
    BY <1>1, <2>1, TailFacts
  <2>3. \/ Head(queue) = Len(ran) + 1 /\ Head(queue) <= taken
        \/ Head(queue) = Sentinel /\ Len(queue) = 1 /\ recv = "returned"
    BY <1>1, <2>2 DEF QueueInv
  <2>4. CASE Head(queue) = Sentinel
    <3>1. ran' = ran /\ Len(queue') = 0 /\ recv = "returned"
      BY <1>1, <1>5, <2>2, <2>3, <2>4 DEF Dequeues, NextTurn, Sentinel
    <3> QED
      <4>1. 1..Len(queue') = {}
        BY <3>1
      <4>2. Len(ran) <= taken /\ \A i \in 1..Len(ran) : ran[i] = i
        BY DEF QueueInv
      <4> QED
        BY <2>1, <3>1, <4>1, <4>2 DEF QueueInv
  <2>5. CASE Head(queue) # Sentinel
    <3>1. ran' = Append(ran, Len(ran) + 1) /\ Len(ran) + 1 <= taken
      BY <1>5, <2>3, <2>5 DEF Dequeues, NextTurn
    <3>2. Len(ran') = Len(ran) + 1 /\ \A i \in 1..Len(ran') : ran'[i] = i
      <4>1. Len(ran) + 1 \in 1..MaxFrames
        BY <1>1, <3>1
      <4>2. /\ Len(ran') = Len(ran) + 1 /\ ran'[Len(ran) + 1] = Len(ran) + 1
            /\ \A i \in 1..Len(ran) : ran'[i] = ran[i]
        BY <1>1, <3>1, <4>1, AppendFacts
      <4> QED
        <5>1. \A i \in 1..Len(ran) : ran'[i] = i
          BY <4>2 DEF QueueInv
        <5>2. Len(ran) \in Nat
          BY <1>1
        <5>3. 1..Len(ran') = 1..Len(ran) \cup {Len(ran) + 1}
          BY <4>2, <5>2
        <5> QED
          BY <4>2, <5>1, <5>3
    <3>3. \A i \in 1..Len(queue') :
            \/ queue'[i] = Len(ran') + i /\ queue'[i] <= taken
            \/ queue'[i] = Sentinel /\ i = Len(queue') /\ recv = "returned"
      <4> SUFFICES ASSUME NEW i \in 1..Len(queue')
                   PROVE  \/ queue'[i] = Len(ran') + i /\ queue'[i] <= taken
                          \/ queue'[i] = Sentinel /\ i = Len(queue') /\ recv = "returned"
        OBVIOUS
      <4>1. i + 1 \in 1..Len(queue) /\ queue'[i] = queue[i + 1]
        BY <1>1, <2>2
      <4>2. \/ queue[i + 1] = Len(ran) + (i + 1) /\ queue[i + 1] <= taken
            \/ queue[i + 1] = Sentinel /\ i + 1 = Len(queue) /\ recv = "returned"
        BY <4>1 DEF QueueInv
      <4> QED
        BY <1>1, <2>2, <3>2, <4>1, <4>2
    <3> QED
      <4>1. Len(ran') <= taken
        BY <3>1, <3>2
      <4>2. recv # "returned" => Len(queue') = taken - Len(ran')
        BY <1>1, <2>2, <3>2 DEF QueueInv
      <4> QED
        BY <2>1, <3>2, <3>3, <4>1, <4>2 DEF QueueInv
  <2> QED
    BY <2>4, <2>5
<1>6. ASSUME ~Receives, ~Disconnected, ~Dequeues
      PROVE  UNCHANGED <<queue, ran, taken>> /\ (recv' = "returned" <=> recv = "returned")
  BY <1>6 DEF ServingNext, servingVars, connVars, appVars, Sends, Leaves, ModelSet, TurnEnds,
     SendFails, Closes, GatherReturns, GatherRaises, Cancelled, ConversationEnds, StreamStarts,
     StreamEnds, WriteEnds, OrphanCloses, ShutsDown, SweeperStopped, Drained, Closed
<1> QED
  BY <1>2, <1>3, <1>4, <1>5, <1>6

-----------------------------------------------------------------------------
(* The end of the connection and of the application.                       *)

LEMMA EndStep ==
  ServingType /\ FinalizedAfterTurns /\ DownInv /\ [ServingNext]_servingVars
    => FinalizedAfterTurns' /\ DownInv'
<1> SUFFICES ASSUME ServingType, FinalizedAfterTurns, DownInv, [ServingNext]_servingVars
             PROVE  FinalizedAfterTurns' /\ DownInv'
  OBVIOUS
<1> USE DEF FinalizedAfterTurns, DownInv, NothingAfterClose
<1>1. handler \in {"gathers", "ends", "over"} /\ broken \in BOOLEAN
  BY DEF ServingType, ServingTypeOK
<1>2. CASE UNCHANGED <<run, ran, handler, broken, ending, server, stream, writes, awaited>>
  BY <1>2
<1>3. CASE Dequeues
  BY <1>1, <1>3 DEF Dequeues, appVars
<1>4. CASE TurnEnds
  BY <1>1, <1>4 DEF TurnEnds, Enqueues
<1>5. CASE SendFails \/ Closes
  BY <1>1, <1>5 DEF SendFails, Closes, Abandons, Enqueues, appVars
<1>6. CASE GatherReturns
  BY <1>1, <1>6 DEF GatherReturns, BothReturned, Finally, appVars
<1>7. CASE GatherRaises \/ Cancelled
  <2>1. broken' /\ handler = "gathers" /\ server' = server /\ stream' = stream
    BY <1>7 DEF GatherRaises, Cancelled, appVars
  <2> QED
    BY <1>1, <2>1
<1>8. CASE ConversationEnds
  BY <1>1, <1>8 DEF ConversationEnds, appVars
<1>9. CASE StreamStarts \/ StreamEnds
  BY <1>1, <1>9 DEF StreamStarts, StreamEnds, Abandons, Enqueues, connVars
<1>10. ASSUME NEW n \in 0..MaxFrames, WriteEnds(n) PROVE FinalizedAfterTurns' /\ DownInv'
  BY <1>1, <1>10 DEF WriteEnds, connVars
<1>11. CASE ShutsDown
  BY <1>1, <1>11 DEF ShutsDown, connVars
<1>12. CASE SweeperStopped
  BY <1>1, <1>12 DEF SweeperStopped, Drain, connVars
<1>13. CASE Drained \/ Closed
  BY <1>1, <1>13 DEF Drained, Closed, connVars, ServingType, ServingTypeOK
<1>14. ASSUME NEW kind \in FrameKinds, NEW user \in {Owner, Stranger}, Sends(kind, user)
       PROVE  FinalizedAfterTurns' /\ DownInv'
  BY <1>2, <1>14 DEF Sends, appVars
<1>15. CASE Leaves \/ Receives \/ ModelSet \/ Disconnected \/ UNCHANGED servingVars
  BY <1>2, <1>15 DEF Leaves, Receives, ModelSet, Disconnected, servingVars, connVars, appVars
<1>16. ASSUME NEW n \in 0..MaxFrames, OrphanCloses(n) PROVE FinalizedAfterTurns' /\ DownInv'
  BY <1>2, <1>16 DEF OrphanCloses, connVars
<1> QED
  BY <1>3, <1>4, <1>5, <1>6, <1>7, <1>8, <1>9, <1>10, <1>11, <1>12, <1>13, <1>14, <1>15, <1>16
  DEF ServingNext

-----------------------------------------------------------------------------
(* The theorems.                                                           *)

LEMMA ServingInvHolds == ServingSpec => []ServingInv
<1>1. ServingInit => ServingInv
  <2> SUFFICES ASSUME ServingInit PROVE ServingInv
    OBVIOUS
  <2>1. ServingType
    BY TypeInit
  <2>2. Len(queue) = 0 /\ Len(ran) = 0 /\ taken = 0 /\ recv = "reads"
    BY EmptyFacts DEF ServingInit
  <2>3. QueueInv
    BY <2>2 DEF QueueInv
  <2>4. FinalizedAfterTurns /\ DownInv
    BY DEF ServingInit, FinalizedAfterTurns, DownInv, NothingAfterClose
  <2> QED
    BY <2>1, <2>3, <2>4 DEF ServingInv
<1>2. ServingInv /\ [ServingNext]_servingVars => ServingInv'
  BY TypeStep, QueueStep, EndStep DEF ServingInv
<1> QED
  BY <1>1, <1>2, PTL DEF ServingSpec

\* The tasks are where the code can be, and nothing is counted past MaxFrames.
THEOREM ServingTypes == ServingSpec => []ServingTypeOK
<1>1. ServingInv => ServingTypeOK
  BY DEF ServingInv, ServingType
<1> QED
  BY <1>1, ServingInvHolds, PTL

\* _receive and _run_turns: the turns of a connection start in the order of its frames,
\* each once, however the two interleave.
THEOREM TurnsRunInOrder == ServingSpec => []TurnsInOrder
<1>1. ServingInv => TurnsInOrder
  BY DEF ServingInv, ServingType, ServingTypeOK, QueueInv, TurnsInOrder
<1> QED
  BY <1>1, ServingInvHolds, PTL

\* The handler's finally: no turn starts, goes on or persists once the finalization has
\* begun, unless the handler was cancelled or _receive raised.
THEOREM FinalizationIsLast == ServingSpec => []FinalizedAfterTurns
<1>1. ServingInv => FinalizedAfterTurns
  BY DEF ServingInv
<1> QED
  BY <1>1, ServingInvHolds, PTL

\* AgentService.aclose: the clients of the model, the embedder and the MCP servers close
\* after the last background write, those of abandoned turns too.
THEOREM ClientsCloseLast == ServingSpec => []NothingAfterClose
<1>1. ServingInv => NothingAfterClose
  BY DEF ServingInv, DownInv
<1> QED
  BY <1>1, ServingInvHolds, PTL
-----------------------------------------------------------------------------
(* The MCP servers.                                                        *)

Stages == {"connect", "initialize", "discover", "register", "allow", "serving", "failed", "closed"}
Behind == {Servers[i] : i \in 1..(at - 1)}

ClientsInv ==
  /\ stage \in Stages
  /\ at \in 1..(Len(Servers) + 1)
  /\ Starting => at <= Len(Servers)
  /\ stacked \subseteq open /\ connected \subseteq open /\ open \subseteq ToSet(Servers)
  /\ connected \subseteq Behind
  /\ stacked \subseteq connected \cup (IF Starting THEN {Current} ELSE {})
  /\ stage \in {"initialize", "discover"} => Current \in open
  /\ stage = "closed" => stacked = {} /\ connected = {}

LEMMA ServersAreMany ==
  /\ Len(Servers) \in Nat
  /\ \A i \in 1..Len(Servers) : Servers[i] \in ToSet(Servers)
  /\ \A i, j \in 1..Len(Servers) : Servers[i] = Servers[j] => i = j
<1>1. Servers \in Seq(ToSet(Servers)) /\ \A i, j \in DOMAIN Servers : Servers[i] = Servers[j] => i = j
  BY McpAssumption DEF IsInjective
<1>2. Len(Servers) \in Nat /\ DOMAIN Servers = 1..Len(Servers)
  BY <1>1
<1> QED
  BY <1>1, <1>2 DEF ToSet

\* What is known while a server is being started.
LEMMA CurrentFacts ==
  ASSUME ClientsInv, Starting
  PROVE  /\ Current \in ToSet(Servers) /\ Current \notin connected
         /\ Behind \cup {Current} = {Servers[i] : i \in 1..at}
<1>1. at \in 1..Len(Servers)
  BY ServersAreMany DEF ClientsInv
<1>2. Current \notin Behind
  BY <1>1, ServersAreMany DEF Behind, Current
<1>3. Behind \cup {Current} = {Servers[i] : i \in 1..at}
  BY <1>1, ServersAreMany DEF Behind, Current
<1> QED
  BY <1>1, <1>2, <1>3, ServersAreMany DEF ClientsInv, Current

\* The next server is not one of those before it.
LEMMA GoesOn ==
  ASSUME ClientsInv, Starting, GoOn
  PROVE  /\ stage' \in {"connect", "register"} /\ at' \in 1..(Len(Servers) + 1)
         /\ Starting' => at' <= Len(Servers)
         /\ Behind' = Behind \cup {Current}
<1>1. at \in 1..Len(Servers) /\ at' = at + 1
  BY ServersAreMany DEF ClientsInv, GoOn
<1>2. Behind' = {Servers[i] : i \in 1..at}
  <2>1. at' - 1 = at
    BY <1>1, ServersAreMany
  <2>2. Behind' = {Servers[i] : i \in 1..(at' - 1)}
    BY DEF Behind
  <2> QED BY <2>1, <2>2
<1>3. Behind' = Behind \cup {Current}
  BY <1>2, CurrentFacts
<1>4. stage' = IF at' <= Len(Servers) THEN "connect" ELSE "register"
  BY <1>1 DEF GoOn, ComesTo
<1> QED
  BY <1>1, <1>3, <1>4, ServersAreMany DEF Starting

LEMMA ClientsStep == ClientsInv /\ [McpNext]_mcpVars => ClientsInv'
<1> SUFFICES ASSUME ClientsInv, [McpNext]_mcpVars PROVE ClientsInv'
  OBVIOUS
<1>1. CASE UNCHANGED mcpVars
  BY <1>1 DEF mcpVars, ClientsInv, Starting, Current, Behind
<1>2. CASE Enters
  <2>1. Starting /\ Starting'
    BY <1>2 DEF Enters, Starting
  <2> QED
    BY <1>2, <2>1, CurrentFacts DEF Enters, ClientsInv, Stages, Current, Behind
<1>3. CASE Initializes
  <2>1. Starting /\ Starting'
    BY <1>3 DEF Initializes, Starting
  <2> QED
    BY <1>3, <2>1, CurrentFacts DEF Initializes, ClientsInv, Stages, Current, Behind
<1>4. ASSUME NEW tools \in SUBSET Offers[Current], Discovers(tools) PROVE ClientsInv'
  <2>1. Starting /\ GoOn
    BY <1>4 DEF Discovers, Starting
  <2>2. /\ connected' = connected \cup {Current} /\ Current \in open
        /\ UNCHANGED <<open, stacked>>
    BY <1>4 DEF Discovers, ClientsInv
  <2>3. /\ stage' \in {"connect", "register"} /\ at' \in 1..(Len(Servers) + 1)
        /\ Starting' => at' <= Len(Servers)
        /\ Behind' = Behind \cup {Current}
    BY <2>1, GoesOn
  <2> QED
    BY <2>1, <2>2, <2>3 DEF ClientsInv, Stages
<1>5. CASE Skips
  <2>1. Starting /\ GoOn /\ CloseFailed /\ connected' = connected
    BY <1>5 DEF Skips, Starting
  <2>2. stacked' = stacked \ {Current} /\ stacked' \subseteq open' /\ open' \subseteq open
    BY <2>1 DEF CloseFailed, ClientsInv
  <2>3. connected \subseteq open'
    BY <2>1, CurrentFacts DEF CloseFailed, ClientsInv
  <2> QED
    <3>1. /\ stage' \in {"connect", "register"} /\ at' \in 1..(Len(Servers) + 1)
          /\ Starting' => at' <= Len(Servers)
          /\ Behind' = Behind \cup {Current}
      BY <2>1, GoesOn
    <3> QED
      BY <2>1, <2>2, <2>3, <3>1 DEF ClientsInv, Stages
<1>6. CASE Registers \/ Allows \/ AllowFails
  BY <1>6 DEF Registers, Allows, AllowFails, ClientsInv, Stages, Starting, Behind
<1>7. CASE ClosesAll
  BY <1>7 DEF ClosesAll, ClientsInv, Stages, Starting, Behind
<1> QED
  BY <1>1, <1>2, <1>3, <1>4, <1>5, <1>6, <1>7 DEF McpNext

LEMMA ClientsInvariant == McpSpec => []ClientsInv
<1>1. McpInit => ClientsInv
  BY ServersAreMany DEF McpInit, ClientsInv, Stages, Starting, ComesTo
<1>2. ClientsInv /\ [McpNext]_mcpVars => ClientsInv'
  BY ClientsStep
<1> QED
  BY <1>1, <1>2, PTL DEF McpSpec

\* MCPManager.start and aclose: nothing that a client could close stays open, whichever
\* servers fail and whenever.
THEOREM TransportsAreOwned == McpSpec => []OpenIsOwned
<1>1. ClientsInv => OpenIsOwned
  BY DEF ClientsInv, OpenIsOwned
<1> QED
  BY <1>1, ClientsInvariant, PTL

-----------------------------------------------------------------------------
(* The registry.                                                           *)

FoundTools == UNION {{s} \X Offers[s] : s \in ToSet(Servers)}

\* A registered name calls a tool that was found under it, if there is one, and a
\* native tool otherwise.
RegistryOk ==
  /\ \A t \in ToSet(found) : NameOf(t) \in DOMAIN registry
  /\ \A n \in DOMAIN registry :
       \/ \E t \in ToSet(found) : NameOf(t) = n /\ registry[n] = t
       \/ registry[n] = NativeTool /\ \A t \in ToSet(found) : NameOf(t) # n

RegistryInv ==
  /\ found \in Seq(FoundTools)
  /\ stage # "closed" => \A t \in ToSet(found) : t[1] \in connected
  /\ stage \in {"connect", "initialize", "discover", "register"} =>
       registry = [n \in Native |-> NativeTool]
  /\ stage \in {"allow", "serving"} => RegistryOk
  /\ stage = "serving" => allowed = AutoAllowed

LEMMA LastIndex ==
  ASSUME NEW n \in Nat, NEW T \in SUBSET (1..n), T # {}
  PROVE  \E m \in T : \A x \in T : x <= m
<1> DEFINE S == {n - i : i \in T}
<1>1. S \in SUBSET Nat /\ S # {}
  <2>1. \A i \in 1..n : n - i \in Nat
    OBVIOUS
  <2> QED
    BY <2>1
<1>2. PICK d \in S : \A x \in S : d <= x
  <2> HIDE DEF S
  <2> QED
    BY <1>1, LeastNatural
<1>3. PICK m \in T : d = n - m
  BY <1>2
<1>4. ASSUME NEW x \in T PROVE x <= m
  <2>1. n - m <= n - x
    BY <1>2, <1>3
  <2> QED
    BY <2>1
<1> QED
  BY <1>4

\* A list of the members of a finite set has nothing else in it.
LEMMA ListType ==
  ASSUME NEW S, IsFiniteSet(S) PROVE SetToSeq(S) \in Seq(S)
<1> DEFINE n == Cardinality(S)
<1>1. n \in Nat /\ ExistsBijection(1..n, S)
  BY FS_CardinalityType
<1>2. PICK f : f \in Bijection(1..n, S)
  BY <1>1 DEF ExistsBijection
<1>3. f \in [1..n -> S] /\ \A i, j \in 1..n : f[i] = f[j] => i = j
  BY <1>2 DEF Bijection, Injection, IsInjective
<1>4. IsInjective(f)
  BY <1>3 DEF IsInjective
<1>5. SetToSeq(S) \in [1..n -> S]
  BY <1>3, <1>4 DEF SetToSeq
<1> HIDE DEF n
<1> QED
  BY <1>1, <1>5

\* What is in a list.
LEMMA MembersOf ==
  ASSUME NEW S, NEW s \in Seq(S), NEW x
  PROVE  /\ x \in ToSet(s) <=> \E i \in 1..Len(s) : s[i] = x
         /\ ToSet(s) \subseteq S
BY DEF ToSet

LEMMA DiscoversInv ==
  ASSUME RegistryInv, at \in 1..Len(Servers), Current \in ToSet(Servers),
         NEW tools \in SUBSET Offers[Current], Discovers(tools)
  PROVE  RegistryInv'
<1> DEFINE new == SetToSeq({Current} \X tools)
<1>1. new \in Seq({Current} \X tools)
  <2>1. IsFiniteSet(tools)
    BY McpAssumption, FS_Subset
  <2>2. IsFiniteSet({Current} \X tools)
    BY <2>1, FS_Singleton, FS_Product
  <2> QED
    BY <2>2, ListType
<1>2. /\ stage = "discover" /\ connected' = connected \cup {Current} /\ found' = found \o new
      /\ UNCHANGED <<registry, allowed>> /\ stage' \in {"connect", "register"}
  BY DEF Discovers, GoOn, ComesTo
<1>3. {Current} \X tools \subseteq FoundTools
  BY DEF FoundTools
<1> HIDE DEF new
<1>4. new \in Seq(FoundTools)
  BY <1>1, <1>3
<1>5. found' \in Seq(FoundTools)
  BY <1>2, <1>4 DEF RegistryInv
<1>6. ASSUME NEW t \in ToSet(found') PROVE t[1] \in connected'
  <2>1. found \in Seq(FoundTools) /\ \A u \in ToSet(found) : u[1] \in connected
    BY <1>2 DEF RegistryInv
  <2>2. PICK i \in 1..Len(found') : found'[i] = t
    BY <1>5, MembersOf
  <2>3. CASE i <= Len(found)
    <3>1. found'[i] = found[i] /\ i \in 1..Len(found)
      BY <1>2, <1>4, <2>1, <2>2, <2>3
    <3>2. t \in ToSet(found)
      BY <2>1, <2>2, <3>1, MembersOf
    <3> QED
      BY <1>2, <2>1, <3>2
  <2>4. CASE ~(i <= Len(found))
    <3>1. found'[i] = new[i - Len(found)] /\ i - Len(found) \in 1..Len(new)
      BY <1>2, <1>4, <2>1, <2>2, <2>4
    <3>2. new[i - Len(found)] \in {Current} \X tools
      BY <1>1, <3>1
    <3> QED
      BY <1>2, <2>2, <3>1, <3>2
  <2> QED
    BY <2>3, <2>4
<1> QED
  BY <1>2, <1>5, <1>6 DEF RegistryInv

LEMMA RegistersInv == ASSUME RegistryInv, Registers PROVE RegistryInv'
<1>1. /\ stage = "register" /\ stage' = "allow" /\ registry' = Registered
      /\ UNCHANGED <<connected, found, allowed>>
  BY DEF Registers
<1>2. found \in Seq(FoundTools) /\ registry = [n \in Native |-> NativeTool]
  BY <1>1 DEF RegistryInv
<1> DEFINE names == {NameOf(t) : t \in ToSet(found)}
<1>3. /\ DOMAIN registry' = Native \cup names
      /\ \A n \in names : registry'[n] = found[LastNamed(n)]
      /\ \A n \in Native \ names : registry'[n] = NativeTool
  BY <1>1, <1>2 DEF Registered
<1>4. ASSUME NEW n \in names
      PROVE  found[LastNamed(n)] \in ToSet(found) /\ NameOf(found[LastNamed(n)]) = n
  <2> DEFINE T == {i \in 1..Len(found) : NameOf(found[i]) = n}
  <2>1. T # {} /\ T \in SUBSET (1..Len(found)) /\ Len(found) \in Nat /\ DOMAIN found = 1..Len(found)
    BY <1>2, MembersOf
  <2>2. PICK m \in T : \A x \in T : x <= m
    <3> HIDE DEF T
    <3> QED
      BY <2>1, LastIndex
  <2>3. /\ m \in DOMAIN found /\ NameOf(found[m]) = n
        /\ \A j \in DOMAIN found : NameOf(found[j]) = n => j <= m
    BY <2>1, <2>2
  <2>4. LastNamed(n) \in DOMAIN found /\ NameOf(found[LastNamed(n)]) = n
    BY <2>3 DEF LastNamed
  <2> QED
    BY <1>2, <2>1, <2>4, MembersOf
<1>5. RegistryOk'
  <2>1. \A t \in ToSet(found) : NameOf(t) \in names
    OBVIOUS
  <2>2. ASSUME NEW n \in DOMAIN registry'
        PROVE  \/ \E t \in ToSet(found) : NameOf(t) = n /\ registry'[n] = t
               \/ registry'[n] = NativeTool /\ \A t \in ToSet(found) : NameOf(t) # n
    <3>1. CASE n \in names
      BY <1>3, <1>4, <3>1
    <3>2. CASE n \notin names
      BY <1>3, <2>1, <3>2
    <3> QED
      BY <3>1, <3>2
  <2> HIDE DEF names
  <2> QED
    BY <1>1, <1>3, <2>1, <2>2 DEF RegistryOk, NameOf
<1> QED
  BY <1>1, <1>5 DEF RegistryInv

LEMMA RegistryStep ==
  ASSUME RegistryInv, at \in 1..(Len(Servers) + 1), Starting => Current \in ToSet(Servers),
         [McpNext]_mcpVars
  PROVE  RegistryInv'
<1>1. CASE Enters
  BY <1>1 DEF Enters, RegistryInv
<1>2. CASE Initializes
  BY <1>2 DEF Initializes, RegistryInv
<1>3. CASE Skips
  BY <1>3 DEF Skips, GoOn, ComesTo, RegistryInv
<1>4. ASSUME at <= Len(Servers), NEW tools \in SUBSET Offers[Current], Discovers(tools)
      PROVE  RegistryInv'
  <2>1. at \in 1..Len(Servers) /\ Current \in ToSet(Servers)
    BY <1>4, McpAssumption DEF Discovers, Starting
  <2> QED
    BY <1>4, <2>1, DiscoversInv
<1>5. CASE Registers
  BY <1>5, RegistersInv
<1>6. CASE Allows
  BY <1>6 DEF Allows, RegistryInv, RegistryOk, NameOf, AutoAllowed
<1>7. CASE AllowFails
  BY <1>7 DEF AllowFails, RegistryInv
<1>8. CASE ClosesAll
  BY <1>8 DEF ClosesAll, RegistryInv
<1>9. CASE UNCHANGED mcpVars
  BY <1>9 DEF mcpVars, RegistryInv, RegistryOk, NameOf, AutoAllowed
<1> QED
  BY <1>1, <1>2, <1>3, <1>4, <1>5, <1>6, <1>7, <1>8, <1>9 DEF McpNext

\* What the registry promises while the service runs.
LEMMA NamesReach == ASSUME RegistryInv, ClientsInv PROVE NamesReachTheirServer /\ McpTypeOK
<1>1. NamesReachTheirServer
  <2> SUFFICES ASSUME stage = "serving"
               PROVE  /\ \A n \in DOMAIN registry :
                           registry[n] = NativeTool \/ registry[n][1] \in connected
                      /\ \A t \in ToSet(found) : registry[NameOf(t)] = t \/ Collides(NameOf(t))
                      /\ \A n \in allowed : registry[n][1] \in AutoAllow \/ Collides(n)
    BY DEF NamesReachTheirServer
  <2>1. /\ RegistryOk /\ allowed = AutoAllowed
        /\ \A t \in ToSet(found) : t[1] \in connected
    BY DEF RegistryInv
  <2>2. \A n \in DOMAIN registry : registry[n] = NativeTool \/ registry[n][1] \in connected
    BY <2>1 DEF RegistryOk
  <2>3. ASSUME NEW t \in ToSet(found) PROVE registry[NameOf(t)] = t \/ Collides(NameOf(t))
    <3>1. PICK u \in ToSet(found) : NameOf(u) = NameOf(t) /\ registry[NameOf(t)] = u
      BY <2>1 DEF RegistryOk
    <3> QED
      BY <3>1 DEF Collides
  <2>4. ASSUME NEW n \in allowed PROVE registry[n][1] \in AutoAllow \/ Collides(n)
    <3>1. PICK t \in ToSet(found) : t[1] \in AutoAllow /\ NameOf(t) = n
      BY <2>1 DEF AutoAllowed
    <3> QED
      BY <2>3, <3>1
  <2> QED
    BY <2>2, <2>3, <2>4
<1>2. McpTypeOK
  <2>1. \A t \in ToSet(found) : t[1] \in ToSet(Servers) /\ t[2] \in Offers[t[1]]
    <3>1. \A t \in ToSet(found) : t \in FoundTools
      BY MembersOf DEF RegistryInv
    <3> QED
      BY <3>1 DEF FoundTools
  <2> QED
    BY <2>1 DEF ClientsInv, McpTypeOK, Stages
<1> QED
  BY <1>1, <1>2

LEMMA RegistryInvariant == McpSpec => [](RegistryInv /\ ClientsInv)
<1>1. McpInit => RegistryInv
  BY DEF McpInit, RegistryInv, ComesTo, ToSet
<1>2. RegistryInv /\ ClientsInv /\ [McpNext]_mcpVars => RegistryInv'
  <2> SUFFICES ASSUME RegistryInv, ClientsInv, [McpNext]_mcpVars PROVE RegistryInv'
    OBVIOUS
  <2>1. at \in 1..(Len(Servers) + 1) /\ (Starting => Current \in ToSet(Servers))
    BY ServersAreMany DEF ClientsInv, Current
  <2> QED
    BY <2>1, RegistryStep
<1> QED
  BY <1>1, <1>2, ClientsInvariant, PTL DEF McpSpec

\* The clients that are connected, and the tools they listed, are those of configured
\* servers (mcp.py).
THEOREM McpTypes == McpSpec => []McpTypeOK
BY RegistryInvariant, NamesReach, PTL

\* astart: while the service runs, a registered name calls a tool that a connected
\* server listed under it, or a native one, and is allowed by default only if that
\* server has auto_allow, or two of the tools found came out with the same name.
THEOREM NamesAreRight == McpSpec => []NamesReachTheirServer
BY RegistryInvariant, NamesReach, PTL

-----------------------------------------------------------------------------
(* The rate limiter.                                                       *)

\* Where the observer looks, there is a bucket with these tokens.
WindowInv ==
  LET k == window.key
  IN  k # "none" =>
        /\ k \in Keys /\ PerMinute[k] > 0 /\ k \in ToSet(lru)
        /\ window.from \in Int /\ window.from <= clock /\ window.calls \in Nat
        /\ window.calls * Minute + Refilled(k) <= Capacity(k) + PerMinute[k] * (clock - window.from)

Windows == [key : Keys \cup {"none"}, from : Nat, calls : Nat]

TokensInv ==
  /\ clock \in Nat /\ window \in Windows
  /\ tokens \in [Keys -> Int] /\ last \in [Keys -> Int]
  /\ \A k \in Keys : tokens[k] >= 0 /\ last[k] <= clock

LimiterInv == TokensInv /\ WindowInv

-----------------------------------------------------------------------------
(* Arithmetic.                                                             *)

LEMMA Distributes ==
  ASSUME NEW p \in Int, NEW a \in Int PROVE p * (a + 1) = p * a + p /\ p * a \in Int
OBVIOUS

LEMMA ProductIsNat == ASSUME NEW p \in Nat, NEW a \in Nat PROVE p * a \in Nat
OBVIOUS

LEMMA RateTypes ==
  /\ Minute \in Nat /\ Minute > 0
  /\ \A k \in Keys : PerMinute[k] \in Int /\ Capacity(k) \in Int
  /\ \A k \in Keys : PerMinute[k] > 0 => Capacity(k) >= 0
<1>1. /\ Minute \in Nat /\ Minute > 0
      /\ \A k \in Keys : PerMinute[k] \in Int
  BY LimiterAssumption
<1>2. \A k \in Keys : PerMinute[k] * Minute \in Int
  BY <1>1
<1>3. \A k \in Keys : PerMinute[k] > 0 => PerMinute[k] * Minute \in Nat
  BY <1>1, ProductIsNat
<1> QED
  BY <1>1, <1>2, <1>3 DEF Capacity

\* A bucket holds something between nothing and the burst.
LEMMA RefilledBounds ==
  ASSUME TokensInv, NEW k \in Keys, PerMinute[k] > 0
  PROVE  /\ Refilled(k) \in Int /\ 0 <= Refilled(k) /\ Refilled(k) <= Capacity(k)
         /\ Found(k) \in Int /\ 0 <= Found(k) /\ Found(k) <= Capacity(k)
<1>1. clock - last[k] \in Nat /\ tokens[k] \in Nat /\ PerMinute[k] \in Nat
  BY RateTypes DEF TokensInv
<1>2. PerMinute[k] * (clock - last[k]) \in Nat
  BY <1>1, ProductIsNat
<1>3. Capacity(k) \in Int /\ Capacity(k) >= 0
  BY RateTypes
<1>4. Refilled(k) \in Int /\ 0 <= Refilled(k) /\ Refilled(k) <= Capacity(k)
  BY <1>1, <1>2, <1>3 DEF Refilled
<1> QED
  BY <1>3, <1>4 DEF Found

-----------------------------------------------------------------------------
(* Steps.                                                                  *)

LEMMA PassesInv == ASSUME LimiterInv, Passes PROVE LimiterInv'
<1>1. clock \in Nat /\ clock' = clock + 1 /\ UNCHANGED <<lru, tokens, last, window>>
  BY DEF Passes, LimiterInv, TokensInv
<1>2. TokensInv'
  BY <1>1 DEF LimiterInv, TokensInv
<1>3. WindowInv'
  <2> SUFFICES ASSUME window.key # "none" PROVE WindowInv'
    BY <1>1 DEF WindowInv
  <2> DEFINE k == window.key
             p == PerMinute[k]
             d == clock - last[k]
             e == clock - window.from
  <2>1. /\ k \in Keys /\ p > 0 /\ k \in ToSet(lru)
        /\ window.from \in Int /\ window.from <= clock /\ window.calls \in Nat
        /\ window.calls * Minute + Refilled(k) <= Capacity(k) + p * e
    BY DEF LimiterInv, WindowInv
  <2>2. p \in Int /\ d \in Int /\ e \in Int /\ tokens[k] \in Int /\ Capacity(k) \in Int
    BY <2>1, RateTypes DEF LimiterInv, TokensInv
  <2>3. /\ clock' - last[k] = d + 1 /\ clock' - window.from = e + 1
    BY <1>1, <2>1 DEF LimiterInv, TokensInv
  <2>4. p * (d + 1) = p * d + p /\ p * (e + 1) = p * e + p /\ p * d \in Int /\ p * e \in Int
    BY <2>2, Distributes
  <2>5. Refilled(k)' <= Refilled(k) + p /\ Refilled(k) \in Int /\ Refilled(k)' \in Int
    <3>1. Refilled(k)' = IF tokens[k] + p * (d + 1) > Capacity(k) THEN Capacity(k)
                                                               ELSE tokens[k] + p * (d + 1)
      BY <1>1, <2>3 DEF Refilled, Capacity
    <3>2. Refilled(k) = IF tokens[k] + p * d > Capacity(k) THEN Capacity(k) ELSE tokens[k] + p * d
      BY DEF Refilled
    <3> HIDE DEF p, d, k
    <3> QED
      BY <2>1, <2>2, <2>4, <3>1, <3>2
  <2>6. window.calls * Minute \in Int
    BY <2>1, RateTypes
  <2>7. window.calls * Minute + Refilled(k)' <= Capacity(k) + p * (e + 1)
    <3> HIDE DEF p, e, k
    <3> QED
      BY <2>1, <2>2, <2>4, <2>5, <2>6
  <2> QED
    BY <1>1, <2>1, <2>3, <2>7 DEF WindowInv, Capacity, LimiterInv, TokensInv
<1> QED
  BY <1>2, <1>3 DEF LimiterInv

LEMMA ObserveInv == ASSUME LimiterInv, NEW k \in Keys, Observe(k) PROVE LimiterInv'
<1>1. /\ UNCHANGED <<clock, lru, tokens, last>>
      /\ window' = [key |-> k, from |-> clock, calls |-> 0]
      /\ PerMinute[k] > 0 /\ k \in ToSet(lru)
  BY DEF Observe
<1>2. TokensInv'
  BY <1>1 DEF LimiterInv, TokensInv, Windows
<1>3. PerMinute[k] * (clock - clock) = 0
  BY RateTypes DEF LimiterInv, TokensInv
<1>4. 0 * Minute + Refilled(k) <= Capacity(k) + PerMinute[k] * (clock - clock)
  BY <1>1, <1>3, RateTypes, RefilledBounds DEF LimiterInv
<1>5. Refilled(k)' = Refilled(k)
  BY <1>1 DEF Refilled, Capacity
<1> QED
  BY <1>1, <1>2, <1>4, <1>5 DEF LimiterInv, TokensInv, WindowInv, Capacity

LEMMA TryAcquireInv == ASSUME LimiterInv, NEW k \in Keys, TryAcquire(k) PROVE LimiterInv'
<1> DEFINE f == Found(k)
           left == IF f >= Minute THEN f - Minute ELSE f
<1>1. /\ clock' = clock /\ PerMinute[k] > 0
      /\ last' = [last EXCEPT ![k] = clock]
      /\ tokens' = [tokens EXCEPT ![k] = left]
      /\ window' = IF window.key # "none" /\ window.key \notin ToSet(lru') THEN NoWindow
                   ELSE IF window.key = k /\ f >= Minute THEN [window EXCEPT !.calls = @ + 1]
                   ELSE window
  BY DEF TryAcquire
<1>2. f \in Int /\ 0 <= f /\ f <= Capacity(k) /\ Minute \in Nat /\ Minute > 0
  BY <1>1, RefilledBounds, RateTypes DEF LimiterInv
<1>3. left \in Int /\ 0 <= left /\ left <= Capacity(k)
  BY <1>2, RateTypes
<1> HIDE DEF left, f
<1>4. TokensInv'
  <2>1. window' \in Windows
    <3>1. window \in Windows /\ NoWindow \in Windows
      BY DEF LimiterInv, TokensInv, NoWindow, Windows
    <3>2. [window EXCEPT !.calls = @ + 1] \in Windows
      BY <3>1 DEF Windows
    <3> QED
      BY <1>1, <3>1, <3>2
  <2> QED
    BY <1>1, <1>3, <2>1 DEF LimiterInv, TokensInv
<1>5. WindowInv'
  <2>1. CASE window.key = "none" \/ window.key \notin ToSet(lru')
    <3>1. window'.key = "none"
      BY <1>1, <2>1 DEF NoWindow
    <3> QED
      BY <3>1 DEF WindowInv
  <2>2. CASE window.key # "none" /\ window.key \in ToSet(lru')
    <3> DEFINE u == window.key
               e == clock - window.from
    <3>1. /\ u \in Keys /\ PerMinute[u] > 0 /\ u \in ToSet(lru)
          /\ window.from \in Int /\ window.from <= clock /\ window.calls \in Nat
          /\ window.calls * Minute + Refilled(u) <= Capacity(u) + PerMinute[u] * e
      BY <2>2 DEF LimiterInv, WindowInv
    <3>2. CASE u # k
      <4>1. window' = window /\ tokens'[u] = tokens[u] /\ last'[u] = last[u]
        BY <1>1, <2>2, <3>1, <3>2 DEF LimiterInv, TokensInv
      <4>2. Refilled(u)' = Refilled(u)
        BY <1>1, <4>1 DEF Refilled, Capacity
      <4> QED
        BY <1>1, <2>2, <3>1, <4>1, <4>2 DEF WindowInv, Capacity
    <3>3. CASE u = k
      <4>1. f = Refilled(k)
        BY <3>1, <3>3 DEF f, Found
      <4>2. tokens'[k] = left /\ last'[k] = clock
        BY <1>1 DEF LimiterInv, TokensInv
      <4>3. Refilled(k)' = left
        <5>1. PerMinute[k] * (clock' - last'[k]) = 0
          BY <1>1, <4>2, RateTypes DEF LimiterInv, TokensInv
        <5>2. tokens'[k] + PerMinute[k] * (clock' - last'[k]) = left
          BY <1>3, <4>2, <5>1
        <5> QED
          BY <1>3, <5>2, RateTypes DEF Refilled, Capacity
      <4>4. CASE f >= Minute
        <5>1. window' = [window EXCEPT !.calls = @ + 1]
          BY <1>1, <2>2, <3>3, <4>4
        <5>2. window'.key = k /\ window'.from = window.from /\ window'.calls = window.calls + 1
          BY <3>3, <5>1 DEF LimiterInv, TokensInv, Windows
        <5>3. Minute * (window.calls + 1) = Minute * window.calls + Minute
          BY <1>2, <3>1, Distributes
        <5>4. window.calls * Minute \in Int /\ (window.calls + 1) * Minute = window.calls * Minute + Minute
          BY <1>2, <3>1, <5>3
        <5>5. PerMinute[k] * e \in Int /\ Capacity(k) \in Int
          BY <3>1, RateTypes DEF LimiterInv, TokensInv
        <5>6. left = f - Minute
          BY <4>4 DEF left
        <5>7. (window.calls + 1) * Minute + left <= Capacity(k) + PerMinute[k] * e
          <6> HIDE DEF e
          <6> QED
            BY <1>2, <3>1, <3>3, <4>1, <5>4, <5>5, <5>6
        <5> QED
          BY <1>1, <2>2, <3>1, <3>3, <4>3, <5>2, <5>7 DEF WindowInv, Capacity
      <4>5. CASE ~(f >= Minute)
        <5>1. window' = window /\ left = f
          BY <1>1, <2>2, <4>5 DEF left
        <5> QED
          BY <1>1, <2>2, <3>1, <3>3, <4>1, <4>3, <5>1 DEF WindowInv, Capacity
      <4> QED
        BY <4>4, <4>5
    <3> QED
      BY <3>2, <3>3
  <2> QED
    BY <2>1, <2>2
<1> QED
  BY <1>4, <1>5 DEF LimiterInv

LEMMA LimiterInvariant == LimiterSpec => []LimiterInv
<1>1. LimiterInit => LimiterInv
  BY DEF LimiterInit, LimiterInv, TokensInv, WindowInv, NoWindow, Windows
<1>2. LimiterInv /\ [LimiterNext]_limiterVars => LimiterInv'
  <2> SUFFICES ASSUME LimiterInv, [LimiterNext]_limiterVars PROVE LimiterInv'
    OBVIOUS
  <2>1. CASE UNCHANGED limiterVars
    BY <2>1 DEF limiterVars, LimiterInv, TokensInv, WindowInv, Refilled, Capacity
  <2>2. CASE LimiterNext
    BY <2>2, PassesInv, ObserveInv, TryAcquireInv DEF LimiterNext
  <2> QED
    BY <2>1, <2>2
<1> QED
  BY <1>1, <1>2, PTL DEF LimiterSpec

\* try_acquire and try_consume: over any time, a bucket lets through no more than
\* one burst and what that time brings.
THEOREM RateIsKept == LimiterSpec => []RateHolds
<1>1. LimiterInv => RateHolds
  <2> SUFFICES ASSUME LimiterInv, window.key # "none"
               PROVE  window.calls * Minute
                        <= Capacity(window.key) + PerMinute[window.key] * (clock - window.from)
    BY DEF RateHolds
  <2> DEFINE k == window.key
             bound == Capacity(k) + PerMinute[k] * (clock - window.from)
  <2>1. k \in Keys /\ PerMinute[k] > 0 /\ window.calls * Minute + Refilled(k) <= bound
    BY DEF LimiterInv, WindowInv
  <2>2. Refilled(k) \in Int /\ 0 <= Refilled(k)
    BY <2>1, RefilledBounds DEF LimiterInv
  <2>3. window.calls * Minute \in Int /\ bound \in Int
    BY <2>1, RateTypes DEF LimiterInv, TokensInv, WindowInv
  <2> HIDE DEF k, bound
  <2>4. window.calls * Minute <= bound
    BY <2>1, <2>2, <2>3
  <2> QED
    BY <2>4 DEF k, bound
<1> QED
  BY <1>1, LimiterInvariant, PTL

-----------------------------------------------------------------------------
(* Who is remembered.                                                      *)

\* How many of the keys that were ever checked have been forgotten.
Gone == IF Len(uses) > MaxBuckets THEN Len(uses) - MaxBuckets ELSE 0

\* The dictionary is the end of the list of all keys, none of which is there twice.
OrderInv ==
  /\ lru \in Seq(Keys) /\ uses \in Seq(Keys)
  /\ \A i, j \in 1..Len(uses) : uses[i] = uses[j] => i = j
  /\ Len(lru) = Len(uses) - Gone
  /\ \A i \in 1..Len(lru) : lru[i] = uses[Gone + i]

LEMMA RemoveAtIs ==
  ASSUME NEW S, NEW s \in Seq(S), NEW p \in 1..Len(s)
  PROVE  /\ RemoveAt(s, p) \in Seq(S) /\ Len(RemoveAt(s, p)) = Len(s) - 1
         /\ \A i \in 1..(Len(s) - 1) : RemoveAt(s, p)[i] = IF i < p THEN s[i] ELSE s[i + 1]
<1> DEFINE a == SubSeq(s, 1, p - 1)
           b == SubSeq(s, p + 1, Len(s))
<1>1. Len(s) \in Nat /\ p \in Nat /\ 1 <= p /\ p <= Len(s)
  OBVIOUS
<1>2. /\ a \in Seq(S) /\ Len(a) = p - 1 /\ \A i \in 1..(p - 1) : a[i] = s[i]
  BY <1>1
<1>3. /\ b \in Seq(S) /\ Len(b) = Len(s) - p /\ \A i \in 1..(Len(s) - p) : b[i] = s[p + i]
  BY <1>1
<1>4. RemoveAt(s, p) = a \o b
  BY DEF RemoveAt
<1> HIDE DEF a, b
<1>5. /\ a \o b \in Seq(S) /\ Len(a \o b) = Len(s) - 1
      /\ \A i \in 1..(Len(s) - 1) : (a \o b)[i] = IF i <= p - 1 THEN a[i] ELSE b[i - (p - 1)]
  <2> a \in Seq(S) /\ b \in Seq(S)
    BY <1>2, <1>3
  <2>1. a \o b \in Seq(S) /\ Len(a \o b) = Len(a) + Len(b)
    OBVIOUS
  <2>2. \A i \in 1..(Len(a) + Len(b)) : (a \o b)[i] = IF i <= Len(a) THEN a[i] ELSE b[i - Len(a)]
    OBVIOUS
  <2>3. Len(a) + Len(b) = Len(s) - 1
    BY <1>1, <1>2, <1>3
  <2> QED
    BY <1>2, <2>1, <2>2, <2>3
<1>6. ASSUME NEW i \in 1..(Len(s) - 1) PROVE (a \o b)[i] = IF i < p THEN s[i] ELSE s[i + 1]
  <2>1. CASE i < p
    BY <1>1, <1>2, <1>5, <2>1
  <2>2. CASE ~(i < p)
    <3>1. i - (p - 1) \in 1..(Len(s) - p) /\ p + (i - (p - 1)) = i + 1
      BY <1>1, <2>2
    <3>2. b[i - (p - 1)] = s[p + (i - (p - 1))]
      BY <1>3, <3>1
    <3> QED
      BY <1>1, <1>5, <2>2, <3>1, <3>2
  <2> QED
    BY <2>1, <2>2
<1> QED
  BY <1>4, <1>5, <1>6

\* A key that is used goes to the end, and the others move up.
LEMMA UsedNew ==
  ASSUME NEW s \in Seq(Keys), NEW k \in Keys, \A i \in 1..Len(s) : s[i] # k
  PROVE  /\ Used(s, k) \in Seq(Keys) /\ Len(Used(s, k)) = Len(s) + 1
         /\ Used(s, k)[Len(s) + 1] = k
         /\ \A i \in 1..Len(s) : Used(s, k)[i] = s[i]
<1>1. Used(s, k) = Append(s, k)
  BY MembersOf DEF Used
<1> QED
  BY <1>1

LEMMA UsedAgain ==
  ASSUME NEW s \in Seq(Keys), NEW k \in Keys, NEW p \in 1..Len(s), s[p] = k,
         \A i \in 1..Len(s) : s[i] = k => i = p
  PROVE  /\ Used(s, k) \in Seq(Keys) /\ Len(Used(s, k)) = Len(s)
         /\ Used(s, k)[Len(s)] = k
         /\ \A i \in 1..(Len(s) - 1) : Used(s, k)[i] = IF i < p THEN s[i] ELSE s[i + 1]
<1> DEFINE r == RemoveAt(s, p)
<1>1. Place(s, k) = p
  BY DEF Place
<1>2. k \in ToSet(s)
  BY MembersOf
<1>3. Used(s, k) = Append(r, k)
  BY <1>1, <1>2 DEF Used
<1>4. /\ r \in Seq(Keys) /\ Len(r) = Len(s) - 1
      /\ \A i \in 1..(Len(s) - 1) : r[i] = IF i < p THEN s[i] ELSE s[i + 1]
  BY RemoveAtIs
<1> HIDE DEF r
<1>5. Len(s) \in Nat /\ Len(s) >= 1
  OBVIOUS
<1> QED
  BY <1>3, <1>4, <1>5

\* The dictionary after a use, when nothing is dropped and when something is.
LEMMA TouchedIs ==
  ASSUME NEW s \in Seq(Keys), NEW k \in Keys, Used(s, k) \in Seq(Keys)
  PROVE  /\ Len(Used(s, k)) <= MaxBuckets => Touched(s, k) = Used(s, k)
         /\ Len(Used(s, k)) > MaxBuckets =>
              /\ Touched(s, k) \in Seq(Keys) /\ Len(Touched(s, k)) = Len(Used(s, k)) - 1
              /\ \A i \in 1..(Len(Used(s, k)) - 1) : Touched(s, k)[i] = Used(s, k)[i + 1]
<1>1. MaxBuckets \in Nat
  BY LimiterAssumption
<1>2. CASE Len(Used(s, k)) <= MaxBuckets
  BY <1>1, <1>2 DEF Touched
<1>3. CASE Len(Used(s, k)) > MaxBuckets
  <2> DEFINE t == Used(s, k)
  <2>1. Touched(s, k) = Tail(t)
    BY <1>3 DEF Touched
  <2> HIDE DEF t
  <2>2. t \in Seq(Keys) /\ Len(t) > MaxBuckets
    BY <1>3 DEF t
  <2>3. t # <<>> /\ Len(t) \in Nat
    BY <1>1, <2>2
  <2> QED
    BY <1>1, <1>3, <2>1, <2>2, <2>3 DEF t
<1> QED
  BY <1>1, <1>2, <1>3

LEMMA UsesStep ==
  ASSUME OrderInv, NEW k \in Keys, lru' = Touched(lru, k), uses' = Used(uses, k)
  PROVE  OrderInv'
<1> DEFINE n == Len(uses)
           m == Len(lru)
<1>1. /\ lru \in Seq(Keys) /\ uses \in Seq(Keys) /\ n \in Nat /\ m \in Nat
      /\ MaxBuckets \in Nat /\ Gone \in Nat /\ m = n - Gone /\ m <= MaxBuckets
      /\ Gone > 0 => m = MaxBuckets
      /\ \A i, j \in 1..n : uses[i] = uses[j] => i = j
      /\ \A i \in 1..m : lru[i] = uses[Gone + i]
  BY LimiterAssumption DEF OrderInv, Gone
<1> SUFFICES OrderInv'
  OBVIOUS
<1> HIDE DEF n, m
<1>2. CASE \A i \in 1..n : uses[i] # k
  <2>1. /\ uses' \in Seq(Keys) /\ Len(uses') = n + 1 /\ uses'[n + 1] = k
        /\ \A i \in 1..n : uses'[i] = uses[i]
    BY <1>1, <1>2, UsedNew DEF n, m
  <2>2. \A i \in 1..m : lru[i] # k
    BY <1>1, <1>2
  <2>3. /\ Used(lru, k) \in Seq(Keys) /\ Len(Used(lru, k)) = m + 1 /\ Used(lru, k)[m + 1] = k
        /\ \A i \in 1..m : Used(lru, k)[i] = lru[i]
    BY <1>1, <2>2, UsedNew DEF n, m
  <2>4. \A i, j \in 1..(n + 1) : uses'[i] = uses'[j] => i = j
    <3> SUFFICES ASSUME NEW i \in 1..(n + 1), NEW j \in 1..(n + 1), uses'[i] = uses'[j] PROVE i = j
      OBVIOUS
    <3>1. \A x \in 1..(n + 1) : x = n + 1 \/ x \in 1..n
      BY <1>1
    <3>2. CASE i \in 1..n /\ j \in 1..n
      BY <1>1, <2>1, <3>2
    <3>3. CASE i = n + 1 /\ j \in 1..n
      BY <1>2, <2>1, <3>3
    <3>4. CASE j = n + 1 /\ i \in 1..n
      BY <1>2, <2>1, <3>4
    <3> QED
      BY <3>1, <3>2, <3>3, <3>4
  <2>5. CASE m < MaxBuckets
    <3>1. lru' = Used(lru, k)
      BY <1>1, <2>3, <2>5, TouchedIs
    <3>2. Gone = 0 /\ Gone' = 0
      BY <1>1, <2>1, <2>5 DEF Gone, n
    <3> QED
      BY <1>1, <2>1, <2>3, <2>4, <3>1, <3>2 DEF OrderInv
  <2>6. CASE m = MaxBuckets
    <3>1. /\ lru' \in Seq(Keys) /\ Len(lru') = m
          /\ \A i \in 1..m : lru'[i] = Used(lru, k)[i + 1]
      <4>1. Len(Used(lru, k)) > MaxBuckets /\ Len(Used(lru, k)) - 1 = m
        BY <1>1, <2>3, <2>6
      <4>2. /\ lru' \in Seq(Keys) /\ Len(lru') = Len(Used(lru, k)) - 1
            /\ \A i \in 1..(Len(Used(lru, k)) - 1) : lru'[i] = Used(lru, k)[i + 1]
        BY <1>1, <2>3, <4>1, TouchedIs
      <4> QED
        BY <4>1, <4>2
    <3>2. Gone' = Gone + 1
      BY <1>1, <2>1, <2>6 DEF Gone, n
    <3>3. ASSUME NEW i \in 1..m PROVE lru'[i] = uses'[Gone' + i]
      <4>1. CASE i = m
        BY <1>1, <2>1, <2>3, <3>1, <3>2, <4>1
      <4>2. CASE i # m
        <5>1. i + 1 \in 1..m /\ Gone + (i + 1) \in 1..n /\ Gone + (i + 1) = Gone' + i
          BY <1>1, <3>2, <4>2
        <5>2. lru'[i] = lru[i + 1] /\ lru[i + 1] = uses[Gone + (i + 1)]
          BY <1>1, <2>3, <3>1, <5>1
        <5> QED
          BY <2>1, <5>1, <5>2
      <4> QED
        BY <4>1, <4>2
    <3> QED
      BY <1>1, <2>1, <2>4, <3>1, <3>2, <3>3 DEF OrderInv
  <2> QED
    BY <1>1, <2>5, <2>6
<1>3. ASSUME NEW p \in 1..n, uses[p] = k PROVE OrderInv'
  <2>1. /\ uses' \in Seq(Keys) /\ Len(uses') = n /\ uses'[n] = k
        /\ \A i \in 1..(n - 1) : uses'[i] = IF i < p THEN uses[i] ELSE uses[i + 1]
    <3>1. \A i \in 1..n : uses[i] = k => i = p
      BY <1>1, <1>3
    <3> QED
      BY <1>1, <1>3, <3>1, UsedAgain, SMTT(30) DEF n
  <2>2. Gone' = Gone
    BY <2>1 DEF Gone, n
  <2>3. ASSUME NEW i \in 1..n, NEW j \in 1..n, uses'[i] = uses'[j] PROVE i = j
    <3>1. ASSUME NEW x \in 1..n
          PROVE  \E y \in 1..n : uses'[x] = uses[y] /\ y = IF x = n THEN p ELSE IF x < p THEN x ELSE x + 1
      <4>1. CASE x = n
        BY <1>3, <2>1, <4>1
      <4>2. CASE x # n
        <5>1. x \in 1..(n - 1) /\ (x < p => x \in 1..n) /\ (~(x < p) => x + 1 \in 1..n)
          BY <1>1, <4>2
        <5> QED
          BY <2>1, <4>2, <5>1
      <4> QED
        BY <4>1, <4>2
    <3>2. PICK y \in 1..n : uses'[i] = uses[y] /\ y = IF i = n THEN p ELSE IF i < p THEN i ELSE i + 1
      BY <3>1
    <3>3. PICK z \in 1..n : uses'[j] = uses[z] /\ z = IF j = n THEN p ELSE IF j < p THEN j ELSE j + 1
      BY <3>1
    <3>4. y = z
      BY <1>1, <2>3, <3>2, <3>3
    <3> QED
      BY <1>1, <3>2, <3>3, <3>4
  <2>4. CASE p <= Gone
    <3>1. \A i \in 1..m : lru[i] # k
      <4> SUFFICES ASSUME NEW i \in 1..m, lru[i] = k PROVE FALSE
        OBVIOUS
      <4>1. Gone + i \in 1..n /\ uses[Gone + i] = uses[p]
        BY <1>1, <1>3
      <4>2. Gone + i = p
        BY <1>1, <4>1
      <4> QED
        BY <1>1, <2>4, <4>2
    <3>2. /\ Used(lru, k) \in Seq(Keys) /\ Len(Used(lru, k)) = m + 1 /\ Used(lru, k)[m + 1] = k
          /\ \A i \in 1..m : Used(lru, k)[i] = lru[i]
      BY <1>1, <3>1, UsedNew DEF n, m
    <3>3. m = MaxBuckets
      BY <1>1, <2>4
    <3>4. /\ lru' \in Seq(Keys) /\ Len(lru') = m
          /\ \A i \in 1..m : lru'[i] = Used(lru, k)[i + 1]
      <4>1. Len(Used(lru, k)) > MaxBuckets /\ Len(Used(lru, k)) - 1 = m
        BY <1>1, <3>2, <3>3
      <4>2. /\ lru' \in Seq(Keys) /\ Len(lru') = Len(Used(lru, k)) - 1
            /\ \A i \in 1..(Len(Used(lru, k)) - 1) : lru'[i] = Used(lru, k)[i + 1]
        BY <1>1, <3>2, <4>1, TouchedIs
      <4> QED
        BY <4>1, <4>2
    <3>5. ASSUME NEW i \in 1..m PROVE lru'[i] = uses'[Gone + i]
      <4>1. CASE i = m
        BY <1>1, <2>1, <3>2, <3>4, <4>1
      <4>2. CASE i # m
        <5>1. /\ i + 1 \in 1..m /\ Gone + i \in 1..(n - 1) /\ ~(Gone + i < p)
              /\ Gone + (i + 1) = (Gone + i) + 1
          BY <1>1, <2>4, <4>2
        <5>2. lru'[i] = lru[i + 1] /\ lru[i + 1] = uses[Gone + (i + 1)]
          BY <1>1, <3>2, <3>4, <5>1
        <5> QED
          BY <2>1, <5>1, <5>2
      <4> QED
        BY <4>1, <4>2
    <3> QED
      BY <1>1, <2>1, <2>2, <2>3, <3>4, <3>5 DEF OrderInv
  <2>5. CASE p > Gone
    <3> DEFINE q == p - Gone
    <3>1. q \in 1..m /\ lru[q] = k /\ Gone + q = p
      <4>1. q \in 1..m /\ Gone + q = p
        BY <1>1, <1>3, <2>5
      <4> HIDE DEF q
      <4> QED
        BY <1>1, <1>3, <4>1
    <3>2. \A i \in 1..m : lru[i] = k => i = q
      <4> SUFFICES ASSUME NEW i \in 1..m, lru[i] = k PROVE i = q
        OBVIOUS
      <4>1. Gone + i \in 1..n /\ uses[Gone + i] = uses[p]
        BY <1>1, <1>3
      <4>2. Gone + i = p
        BY <1>1, <4>1
      <4> QED
        BY <1>1, <4>2
    <3> HIDE DEF q
    <3>3. /\ Used(lru, k) \in Seq(Keys) /\ Len(Used(lru, k)) = m /\ Used(lru, k)[m] = k
          /\ \A i \in 1..(m - 1) : Used(lru, k)[i] = IF i < q THEN lru[i] ELSE lru[i + 1]
      <4>1. q \in 1..Len(lru) /\ \A i \in 1..Len(lru) : lru[i] = k => i = q
        BY <3>1, <3>2 DEF m
      <4>2. lru \in Seq(Keys) /\ k \in Keys /\ lru[q] = k
        BY <1>1, <3>1
      <4> QED
        BY <4>1, <4>2, UsedAgain DEF m
    <3>4. lru' = Used(lru, k)
      BY <1>1, <3>3, TouchedIs
    <3>5. ASSUME NEW i \in 1..m PROVE lru'[i] = uses'[Gone + i]
      <4>1. CASE i = m
        BY <1>1, <2>1, <3>3, <3>4, <4>1
      <4>2. CASE i # m
        <5>1. /\ i \in 1..(m - 1) /\ Gone + i \in 1..(n - 1) /\ (i < q <=> Gone + i < p)
              /\ Gone + (i + 1) = (Gone + i) + 1 /\ i + 1 \in 1..m
          BY <1>1, <3>1, <4>2
        <5>2. lru[i] = uses[Gone + i] /\ lru[i + 1] = uses[Gone + (i + 1)]
          BY <1>1, <5>1
        <5> QED
          BY <2>1, <3>3, <3>4, <5>1, <5>2
      <4> QED
        BY <4>1, <4>2
    <3> QED
      BY <1>1, <2>1, <2>2, <2>3, <3>3, <3>4, <3>5 DEF OrderInv
  <2> QED
    BY <1>1, <2>4, <2>5
<1> QED
  BY <1>2, <1>3

LEMMA OrderInvariant == LimiterSpec => []OrderInv
<1>1. LimiterInit => OrderInv
  BY LimiterAssumption DEF LimiterInit, OrderInv, Gone
<1>2. OrderInv /\ [LimiterNext]_limiterVars => OrderInv'
  <2> SUFFICES ASSUME OrderInv, [LimiterNext]_limiterVars PROVE OrderInv'
    OBVIOUS
  <2>1. CASE UNCHANGED <<lru, uses>>
    BY <2>1 DEF OrderInv, Gone
  <2>2. ASSUME NEW k \in Keys, TryAcquire(k) PROVE OrderInv'
    BY <2>2, UsesStep DEF TryAcquire
  <2>3. Passes \/ (\E k \in Keys : Observe(k)) \/ UNCHANGED limiterVars => UNCHANGED <<lru, uses>>
    BY DEF Passes, Observe, limiterVars
  <2> QED
    BY <2>1, <2>2, <2>3 DEF LimiterNext
<1> QED
  BY <1>1, <1>2, PTL DEF LimiterSpec

\* try_consume, through BoundedLRUDict: the buckets there are those of the last
\* MaxBuckets keys that were checked, in the order of their last check.
THEOREM RecentAreKept == LimiterSpec => []KeepsRecent
<1>1. OrderInv => KeepsRecent
  <2> SUFFICES ASSUME OrderInv PROVE lru = SubSeq(uses, Gone + 1, Len(uses))
    BY DEF KeepsRecent, Gone
  <2>1. /\ lru \in Seq(Keys) /\ uses \in Seq(Keys) /\ Len(uses) \in Nat /\ Gone \in Nat
        /\ Gone <= Len(uses) /\ Len(lru) = Len(uses) - Gone
        /\ \A i \in 1..Len(lru) : lru[i] = uses[Gone + i]
    BY LimiterAssumption DEF OrderInv, Gone
  <2> DEFINE t == SubSeq(uses, Gone + 1, Len(uses))
  <2>2. /\ t \in Seq(Keys) /\ Len(t) = Len(uses) - Gone
        /\ \A i \in 1..(Len(uses) - Gone) : t[i] = uses[Gone + i]
    BY <2>1
  <2> HIDE DEF t
  <2>3. lru = t
    BY <2>1, <2>2, SMTT(30)
  <2> QED
    BY <2>3 DEF t
<1> QED
  BY <1>1, OrderInvariant, PTL

\* What a use brings into the dictionary is the key that was used.
LEMMA MembersStep ==
  ASSUME NEW s \in Seq(Keys), NEW k \in Keys
  PROVE  ToSet(Touched(s, k)) \subseteq ToSet(s) \cup {k}
<1>1. /\ Used(s, k) \in Seq(Keys)
      /\ \A i \in 1..Len(Used(s, k)) : Used(s, k)[i] \in ToSet(s) \cup {k}
  <2>1. CASE k \notin ToSet(s)
    <3>1. \A i \in 1..Len(s) : s[i] # k
      BY <2>1, MembersOf
    <3>2. /\ Used(s, k) \in Seq(Keys) /\ Len(Used(s, k)) = Len(s) + 1
          /\ Used(s, k)[Len(s) + 1] = k /\ \A i \in 1..Len(s) : Used(s, k)[i] = s[i]
      BY <3>1, UsedNew
    <3>3. \A i \in 1..(Len(s) + 1) : i = Len(s) + 1 \/ i \in 1..Len(s)
      OBVIOUS
    <3> QED
      BY <3>2, <3>3, MembersOf
  <2>2. CASE k \in ToSet(s)
    <3> DEFINE p == Place(s, k)
               r == RemoveAt(s, p)
    <3>1. p \in 1..Len(s)
      BY <2>2, MembersOf DEF Place
    <3>2. /\ r \in Seq(Keys) /\ Len(r) = Len(s) - 1
          /\ \A i \in 1..(Len(s) - 1) : r[i] = IF i < p THEN s[i] ELSE s[i + 1]
      BY <3>1, RemoveAtIs
    <3>3. Used(s, k) = Append(r, k)
      BY <2>2 DEF Used
    <3> HIDE DEF p, r
    <3>4. \A i \in 1..Len(r) : r[i] \in ToSet(s)
      <4> SUFFICES ASSUME NEW i \in 1..(Len(s) - 1) PROVE r[i] \in ToSet(s)
        BY <3>2
      <4>1. i \in 1..Len(s) /\ i + 1 \in 1..Len(s) /\ (r[i] = s[i] \/ r[i] = s[i + 1])
        BY <3>1, <3>2
      <4> QED
        BY <4>1, MembersOf
    <3>5. /\ Append(r, k) \in Seq(Keys) /\ Len(Append(r, k)) = Len(r) + 1
          /\ \A i \in 1..(Len(r) + 1) : Append(r, k)[i] = IF i = Len(r) + 1 THEN k ELSE r[i]
      BY <3>2
    <3>6. \A i \in 1..(Len(r) + 1) : i = Len(r) + 1 \/ i \in 1..Len(r)
      BY <3>2
    <3> QED
      BY <3>3, <3>4, <3>5, <3>6
  <2> QED
    BY <2>1, <2>2
<1>2. /\ Touched(s, k) \in Seq(Keys)
      /\ \A i \in 1..Len(Touched(s, k)) : Touched(s, k)[i] \in ToSet(s) \cup {k}
  <2> DEFINE n == Len(Used(s, k))
  <2>1. n \in Nat /\ MaxBuckets \in Nat
    BY <1>1, LimiterAssumption
  <2>2. CASE n <= MaxBuckets
    BY <1>1, <2>2, TouchedIs
  <2>3. CASE n > MaxBuckets
    <3>1. /\ Touched(s, k) \in Seq(Keys) /\ Len(Touched(s, k)) = n - 1
          /\ \A i \in 1..(n - 1) : Touched(s, k)[i] = Used(s, k)[i + 1]
      BY <1>1, <2>3, TouchedIs
    <3>2. \A i \in 1..(n - 1) : i + 1 \in 1..n
      BY <2>1
    <3> QED
      BY <1>1, <3>1, <3>2
  <2> QED
    BY <2>1, <2>2, <2>3
<1> QED
  BY <1>2, MembersOf

\* No bucket holds more than the burst.
BucketsInv ==
  /\ \A k \in Keys : last[k] \in Nat
  /\ \A k \in Keys : k \in ToSet(lru) => tokens[k] <= Capacity(k)

LEMMA BucketsStep ==
  ASSUME LimiterInv, OrderInv, BucketsInv, [LimiterNext]_limiterVars
  PROVE  BucketsInv'
<1>1. CASE UNCHANGED <<lru, tokens, last>>
  BY <1>1 DEF BucketsInv, Capacity
<1>2. ASSUME NEW k \in Keys, TryAcquire(k) PROVE BucketsInv'
  <2> DEFINE left == IF Found(k) >= Minute THEN Found(k) - Minute ELSE Found(k)
  <2>1. /\ PerMinute[k] > 0 /\ last' = [last EXCEPT ![k] = clock]
        /\ tokens' = [tokens EXCEPT ![k] = left] /\ lru' = Touched(lru, k)
    BY <1>2 DEF TryAcquire
  <2>2. left <= Capacity(k)
    BY <2>1, RefilledBounds, RateTypes DEF LimiterInv
  <2> HIDE DEF left
  <2>3. tokens \in [Keys -> Int] /\ last \in [Keys -> Int] /\ clock \in Nat
    BY DEF LimiterInv, TokensInv
  <2>4. ToSet(lru') \subseteq ToSet(lru) \cup {k}
    BY <2>1, MembersStep DEF OrderInv
  <2> QED
    BY <2>1, <2>2, <2>3, <2>4 DEF BucketsInv, Capacity
<1>3. Passes \/ (\E k \in Keys : Observe(k)) \/ UNCHANGED limiterVars => UNCHANGED <<lru, tokens, last>>
  BY DEF Passes, Observe, limiterVars
<1> QED
  BY <1>1, <1>2, <1>3 DEF LimiterNext

\* Buckets hold between nothing and the burst, and were checked in the past
\* (ratelimit.py).
THEOREM LimiterTypes == LimiterSpec => []LimiterTypeOK
<1>1. LimiterInit => BucketsInv
  BY DEF LimiterInit, BucketsInv, ToSet
<1>2. LimiterInv /\ OrderInv /\ BucketsInv /\ [LimiterNext]_limiterVars => BucketsInv'
  BY BucketsStep
<1>3. LimiterInv /\ OrderInv /\ BucketsInv => LimiterTypeOK
  <2> SUFFICES ASSUME LimiterInv, OrderInv, BucketsInv PROVE LimiterTypeOK
    OBVIOUS
  <2>1. \A k \in ToSet(lru) : k \in Keys
    BY MembersOf DEF OrderInv
  <2> QED
    BY <2>1 DEF LimiterInv, TokensInv, WindowInv, OrderInv, BucketsInv, LimiterTypeOK, Windows
<1> QED
  BY <1>1, <1>2, <1>3, LimiterInvariant, OrderInvariant, PTL DEF LimiterSpec
-----------------------------------------------------------------------------
(* The run of the four parts.                                              *)

\* Each part of the run behaves as its module says, so that what is proved of the
\* modules is true of the run; the budgeter's idle input must be one it can have.
THEOREM RunOfTheParts ==
  ASSUME 0 \in Budgets, 0 \in Costs
  PROVE  AllSpec => ServingSpec /\ McpSpec /\ LimiterSpec /\ ContextSpec
<1>1. NoInputs \in BudgetInputs
  <2>1. <<>> \in [1..0 -> Costs] /\ <<>> \in [1..0 -> Hits]
    OBVIOUS
  <2>2. 0 \in 0..MaxBuffer /\ 0 \in 0..MaxHits
    BY ContextAssumption DEF ContextAssumption
  <2> QED BY <2>1, <2>2 DEF NoInputs, BudgetInputs
<1>2. AllInit => ServingInit /\ McpInit /\ LimiterInit /\ ContextInit
  BY <1>1 DEF AllInit, ContextInit
<1>3. ASSUME [AllNext]_allVars
      PROVE  /\ [ServingNext]_servingVars /\ [McpNext]_mcpVars
             /\ [LimiterNext]_limiterVars /\ [ContextNext]_contextVars
  <2>1. CASE UNCHANGED allVars
    <3>1. UNCHANGED <<servingVars, mcpVars, limiterVars, contextVars>>
      BY <2>1 DEF allVars
    <3> QED BY <3>1
  <2>2. CASE AllNext
    BY <2>2 DEF AllNext
  <2> QED BY <1>3, <2>1, <2>2
<1> QED BY <1>2, <1>3, PTL DEF AllSpec, ServingSpec, McpSpec, LimiterSpec, ContextSpec

\* Every part of the run keeps the state its module says.
THEOREM PartsTypes ==
  ASSUME 0 \in Budgets, 0 \in Costs
  PROVE  AllSpec => []PartsTypeOK
<1>1. ServingTypeOK /\ McpTypeOK /\ LimiterTypeOK /\ ContextTypeOK => PartsTypeOK
  BY DEF PartsTypeOK
<1>2. AllSpec => ServingSpec /\ McpSpec /\ LimiterSpec /\ ContextSpec
  BY RunOfTheParts
<1> QED BY <1>1, <1>2, ServingTypes, McpTypes, LimiterTypes, ContextTypes, PTL
=============================================================================
