----------------------------- MODULE MCTurnLoop -----------------------------
(* TurnLoop on small instances: values of its constants for TLC.           *)
EXTENDS TurnLoop, TLC

CONSTANTS t1, t2, c1, c2, send, read, ghost, k1, k2, k3, k4

\* Two turns of one conversation, or of two.
SameConv  == [t \in {t1, t2} |-> c1]
OtherConv == (t1 :> c1) @@ (t2 :> c2)
OneConv   == (t1 :> c1)

\* Ids by place: any, where IdsByPlace is FALSE and they do not matter; one of
\* its own for every place of two turns of one iteration; and, for one turn, two
\* ids in the first iteration and in the second one of them twice.
Places == Turns \X (1..MaxIterations) \X (1..MaxCalls)
AnyId == [p \in Places |-> k1]
IdOfPlace == [p \in Places |-> IF p[1] = t1 THEN IF p[3] = 1 THEN k1 ELSE k2
                                           ELSE IF p[3] = 1 THEN k3 ELSE k4]
ReusedIds == [p \in Places |-> IF p[2] = 1 /\ p[3] = 2 THEN k2 ELSE k1]

\* Turns of one conversation, and call ids, are interchangeable in safety runs.
Interchangeable == Permutations({t1, t2}) \cup Permutations({k1, k2})
=============================================================================
