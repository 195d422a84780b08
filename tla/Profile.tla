------------------------------ MODULE Profile ------------------------------
(***************************************************************************)
(* Factual memory (memory/factual.py) of one user over the SQLite profile  *)
(* store (stores/sqlite_profile.py): one row of facts, which every write   *)
(* selects, merges with its own facts and writes back.  The driver opens   *)
(* the transaction at the write, so that the remember_fact calls of one    *)
(* batch, the extraction after a turn and the forget_fact tool come        *)
(* between.  stores/memory_profile.py is the case in which they do not.    *)
(***************************************************************************)
CONSTANTS
  Facts,   \* keys
  Values,  \* what may be remembered under them
  Actors   \* the tool calls and extractions that use the profile

VARIABLES
  exists,  \* whether the user has a row
  facts,   \* the facts in it: a function from some keys to values
  act,     \* what each actor has under way
  known    \* facts written while nobody held a copy of the row, until the next
           \* write or removal of the same key

profileVars == <<exists, facts, act, known>>

NoFacts == <<>>
SomeFacts == UNION {[keys -> Values] : keys \in SUBSET Facts}
\* g.update(f).
Over(f, g) == [k \in DOMAIN f \cup DOMAIN g |-> IF k \in DOMAIN f THEN f[k] ELSE g[k]]
Without(f, keys) == [k \in DOMAIN f \ keys |-> f[k]]
Resting == [kind |-> "none", new |-> NoFacts, keys |-> {}, stage |-> "idle",
            found |-> FALSE, read |-> NoFacts]
Undisturbed(a) == \A b \in Actors \ {a} : act[b].stage # "write"

-----------------------------------------------------------------------------
\* get: a user without a row gets an empty one, INSERT OR IGNORE.
GetRow == exists' = TRUE /\ UNCHANGED facts

\* list_facts, and the profile block of a prompt.
ListFacts ==
  /\ GetRow
  /\ UNCHANGED <<act, known>>

\* upsert_facts is called.
Brings(a, kind, new) ==
  /\ act[a] = Resting
  /\ act' = [act EXCEPT ![a] = [Resting EXCEPT !.kind = kind, !.new = new, !.stage = "select"]]
  /\ UNCHANGED <<exists, facts, known>>

\* remember_fact.
Remembers(a, k, v) == Brings(a, "remember", [x \in {k} |-> v])

\* extract, once the model has found some facts in an earlier turn.
Extracts(a, new) == DOMAIN new # {} /\ Brings(a, "extract", new)

\* forget_fact: get, and nothing more to do for a fact that is not there.
AsksToForget(a, k) ==
  /\ act[a] = Resting
  /\ GetRow
  /\ act' = IF k \in DOMAIN facts
              THEN [act EXCEPT ![a] = [Resting EXCEPT !.kind = "forget", !.keys = {k},
                                                      !.stage = "select"]]
              ELSE act
  /\ UNCHANGED known

\* The SELECT of upsert_facts and forget_facts.
Selects(a) ==
  /\ act[a].stage = "select"
  /\ act' = [act EXCEPT ![a].stage = "write", ![a].found = exists, ![a].read = facts]
  /\ UNCHANGED <<exists, facts, known>>

\* A bug to catch: the new facts replace the row.
MergedOver(a) == IF act[a].kind = "forget" THEN Without(act[a].read, act[a].keys) ELSE act[a].new

\* What the call makes of the facts it read.
MergedFacts(a) ==
  IF act[a].kind = "forget" THEN Without(act[a].read, act[a].keys)
  ELSE Over(act[a].new, act[a].read)

Touched(a) == act[a].keys \cup DOMAIN act[a].new

\* INSERT or UPDATE, and COMMIT.  Facts that were gone when forget_facts selected
\* them are not written, nor is the row.
WriteBack(a) ==
  IF act[a].kind = "forget" /\ act[a].keys \cap DOMAIN act[a].read = {}
    THEN UNCHANGED <<exists, facts, known>>
    ELSE /\ exists' = TRUE
         /\ facts' = MergedFacts(a)
         /\ known' = IF Undisturbed(a) THEN Over(act[a].new, Without(known, Touched(a)))
                     ELSE Without(known, Touched(a))

\* The INSERT raises if the row has come up since.
Conflict(a) == ~act[a].found /\ exists /\ act[a].kind # "forget"

Commits(a) ==
  /\ act[a].stage = "write" /\ ~Conflict(a)
  /\ WriteBack(a)
  /\ act' = [act EXCEPT ![a] = Resting]

\* The write raises, done or not: a tool call ends with the error, store_write
\* has extract's upsert start again, SELECT included, unless it has given up.
ProfileWriteFails(a) ==
  /\ act[a].stage = "write"
  /\ \/ UNCHANGED <<exists, facts, known>>
     \/ ~Conflict(a) /\ WriteBack(a)
  /\ \/ act' = [act EXCEPT ![a] = Resting]
     \/ act[a].kind = "extract" /\ act' = [act EXCEPT ![a].stage = "select", ![a].found = FALSE,
                                                       ![a].read = NoFacts]

ProfileInit ==
  /\ exists = FALSE
  /\ facts = NoFacts
  /\ act = [a \in Actors |-> Resting]
  /\ known = NoFacts

ProfileNext ==
  \/ ListFacts
  \/ \E a \in Actors :
       \/ \E k \in Facts, v \in Values : Remembers(a, k, v)
       \/ \E new \in SomeFacts : Extracts(a, new)
       \/ \E k \in Facts : AsksToForget(a, k)
       \/ Selects(a) \/ Commits(a) \/ ProfileWriteFails(a)

ProfileSpec == ProfileInit /\ [][ProfileNext]_profileVars

-----------------------------------------------------------------------------
(* Properties.                                                             *)

\* The row and the calls keep their shape; there are no facts without a row.
ProfileTypeOK ==
  /\ exists \in BOOLEAN
  /\ facts \in SomeFacts /\ known \in SomeFacts
  /\ exists \/ facts = NoFacts
  /\ act \in [Actors -> [kind : {"none", "remember", "extract", "forget"}, new : SomeFacts,
                         keys : SUBSET Facts, stage : {"idle", "select", "write"},
                         found : BOOLEAN, read : SomeFacts]]

\* A fact written while no other call held a copy of the row keeps its value until
\* somebody writes or forgets that fact (sqlite_profile.py:85-131), whatever is
\* remembered, extracted, retried or forgotten beside it afterwards.
KnownFactsKept == \A k \in DOMAIN known : k \in DOMAIN facts /\ facts[k] = known[k]
=============================================================================
