-------------------------- MODULE MCWorkingMemory --------------------------
(* WorkingMemory on a small instance: values of its constants for TLC.     *)
EXTENDS WorkingMemory, TLC

CONSTANTS r1, r2, r3

\* A long turn, a short one, one too small to count.
Lengths == <<2, 1, 0, 2, 1, 3>>
FirstLengths == [t \in TurnIds |-> Lengths[t]]

Interchangeable == Permutations({r1, r2, r3})

=============================================================================
