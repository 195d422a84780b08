------------------------------ MODULE Clusters ------------------------------
(***************************************************************************)
(* How the dedup job (jobs/dedup.py) finds the groups of points to merge:  *)
(* a union-find over the pairs whose similarity reaches the threshold,     *)
(* with path halving in find and no ranks.  One step is one round of a     *)
(* loop; the points are numbered from 1.                                   *)
(***************************************************************************)
EXTENDS Components, Sequences

CONSTANT Size  \* conversation points that were read

ASSUME ClustersAssumption == Size \in Nat

VARIABLES
  similar,  \* input: the pairs i < j that are similar enough
  parent,
  todo,     \* the pairs that the loop over edges has not taken
  rx, ry,   \* where the finds of union's x and y are; 0: nothing is looked up
  roots     \* the roots of the points, in order, once the edges are done

clusterVars == <<similar, parent, todo, rx, ry, roots>>

Nodes == 1..Size
Pairs == {e \in Nodes \X Nodes : e[1] < e[2]}

\* Row by row, as np.where lists them.
NotAfter(e, f) == e[1] < f[1] \/ (e[1] = f[1] /\ e[2] <= f[2])

ClustersInit ==
  /\ similar \in SUBSET Pairs
  /\ parent = [x \in Nodes |-> x]
  /\ todo = similar
  /\ rx = 0 /\ ry = 0
  /\ roots = <<>>

\* for i, j in edges: union(i, j) begins with find(i).
NextEdge ==
  /\ rx = 0
  /\ \E e \in todo :
       /\ \A f \in todo : NotAfter(e, f)
       /\ rx' = e[1] /\ ry' = e[2] /\ todo' = todo \ {e}
  /\ UNCHANGED <<similar, parent, roots>>

IsRoot(x) == parent[x] = x

\* A round of find: climb two parents at a time, writing the shortcut down.
Halve(x) == parent' = [parent EXCEPT ![x] = parent[parent[x]]]

FindX ==
  /\ rx # 0 /\ ~IsRoot(rx)
  /\ Halve(rx) /\ rx' = parent'[rx]
  /\ UNCHANGED <<similar, todo, ry, roots>>

FindY ==
  /\ rx # 0 /\ IsRoot(rx) /\ ry # 0 /\ ~IsRoot(ry)
  /\ Halve(ry) /\ ry' = parent'[ry]
  /\ UNCHANGED <<similar, todo, rx, roots>>

\* A bug to catch: the node where y's find stands, not its root, is hung up.
UnionOfNodes ==
  /\ rx # 0 /\ IsRoot(rx) /\ ry # 0
  /\ parent' = [parent EXCEPT ![ry] = rx] /\ rx' = 0 /\ ry' = 0
  /\ UNCHANGED <<similar, todo, roots>>

\* Nothing changes if both have one root.
Union ==
  /\ rx # 0 /\ IsRoot(rx) /\ ry # 0 /\ IsRoot(ry)
  /\ parent' = [parent EXCEPT ![rx] = ry] /\ rx' = 0 /\ ry' = 0
  /\ UNCHANGED <<similar, todo, roots>>

\* for idx in range(...): clusters[find(idx)].append(idx), once there are no more edges.
NextPoint ==
  /\ rx = 0 /\ todo = {} /\ Len(roots) < Size
  /\ rx' = Len(roots) + 1
  /\ UNCHANGED <<similar, parent, todo, ry, roots>>

Place ==
  /\ rx # 0 /\ IsRoot(rx) /\ ry = 0
  /\ roots' = Append(roots, rx) /\ rx' = 0
  /\ UNCHANGED <<similar, parent, todo, ry>>

ClustersNext == NextEdge \/ FindX \/ FindY \/ Union \/ NextPoint \/ Place

ClustersSpec == ClustersInit /\ [][ClustersNext]_clusterVars

\* merge_groups: the clusters of two points or more.
Found == {g \in {{x \in Nodes : roots[x] = r} : r \in Nodes} : Cardinality(g) >= 2}

-----------------------------------------------------------------------------
\* The groups are the connected components of two points or more, whatever the
\* similarities (dedup.py:106-131): no point is merged twice, and none is left out
\* because an earlier union had moved its root.
GroupsAreExact == Len(roots) = Size => Found = MergeGroups(Nodes, similar)

\* No find goes round in circles: whatever set of points keeps its parents has a
\* root (dedup.py:110-114 has no other exit).
FindsEnd == \A S \in (SUBSET Nodes) \ {{}} : (\A x \in S : parent[x] \in S) => \E x \in S : IsRoot(x)
=============================================================================
