----------------------------- MODULE Components -----------------------------
(***************************************************************************)
(* What the dedup job (jobs/dedup.py) is to merge: the groups of points    *)
(* that a chain of similar pairs connects.  Clusters is how it finds them. *)
(***************************************************************************)
EXTENDS Naturals, FiniteSets

\* No edge leads out of S, or into it.
Closed(S, edges) == \A e \in edges : e[1] \in S <=> e[2] \in S

\* The smallest set around x that no edge leaves.
Component(nodes, edges, x) ==
  {y \in nodes : \A S \in SUBSET nodes : x \in S /\ Closed(S, edges) => y \in S}

MergeGroups(nodes, edges) ==
  {g \in {Component(nodes, edges, x) : x \in nodes} : Cardinality(g) >= 2}
=============================================================================
