------------------------------ MODULE MCStores ------------------------------
(* The stores on small instances: values of their constants for TLC.  The      *)
(* stores share no state, and Redis none between conversations, so each        *)
(* behaviour is of one part, and their orders among each other are left out.   *)
EXTENDS RedisSession, SqlPermissions, Profile, Episodic, Clusters

CONSTANTS m1, m2  \* two of whatever is interchangeable in a part

VARIABLE part  \* the store, or the algorithm, a behaviour is of

storesVars == <<redisVars, permVars, profileVars, episodicVars, clusterVars, part>>

Parts == RConvs \cup {"permissions", "profile", "episodic", "clusters"}

\* The operations on other conversations.
Elsewhere(c) == \E w \in Tasks : op'[w] # op[w] /\ {op[w].conv, op'[w].conv} \ {c, "none"} # {}

StoresInit ==
  /\ part \in Parts
  /\ RedisInit /\ PermInit /\ ProfileInit /\ EpisodicInit /\ ClustersInit
  /\ part # "clusters" => similar = {}

StoresNext ==
  /\ UNCHANGED part
  /\ \/ /\ part \in RConvs
        /\ RedisNext /\ ~Elsewhere(part)
        /\ UNCHANGED <<permVars, profileVars, episodicVars, clusterVars>>
     \/ /\ part = "permissions"
        /\ PermNext
        /\ UNCHANGED <<redisVars, profileVars, episodicVars, clusterVars>>
     \/ /\ part = "profile"
        /\ ProfileNext
        /\ UNCHANGED <<redisVars, permVars, episodicVars, clusterVars>>
     \/ /\ part = "episodic"
        /\ EpisodicNext
        /\ UNCHANGED <<redisVars, permVars, profileVars, clusterVars>>
     \/ /\ part = "clusters"
        /\ ClustersNext
        /\ UNCHANGED <<redisVars, permVars, profileVars, episodicVars>>

StoresSpec == StoresInit /\ [][StoresNext]_storesVars

Interchangeable == Permutations({m1, m2})

\* Every part has the state its module says (the stores of src/src/harness_kit/stores
\* and the memory of one user).
StoresTypeOK == RedisTypeOK /\ PermTypeOK /\ ProfileTypeOK /\ EpisodicTypeOK
=============================================================================
