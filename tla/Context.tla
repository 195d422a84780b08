------------------------------ MODULE Context ------------------------------
(***************************************************************************)
(* What goes into a prompt: the budgeter's allocation of the input tokens  *)
(* to the sources of a turn (agent/budgeter.py), and the builder's         *)
(* assembly of what was kept (agent/context.py).  A source is its          *)
(* estimated tokens; headers and separators are not estimated by the code  *)
(* either.                                                                 *)
(***************************************************************************)
EXTENDS Integers, Sequences

CONSTANTS
  Budgets,    \* what the configuration may leave for input
  Costs,      \* what a source may be estimated at
  Scores,     \* how similar a hit may be
  MaxBuffer,  \* turns in the buffer
  MaxHits     \* hits of a retrieval

ASSUME ContextAssumption ==
  /\ Budgets \subseteq Int /\ Costs \subseteq Nat /\ Scores \subseteq Int
  /\ MaxBuffer \in Nat /\ MaxHits \in Nat

VARIABLES
  inputs,  \* what the builder has gathered
  result   \* what the budgeter made of it

contextVars == <<inputs, result>>

Hits == [cost : Costs, score : Scores]

\* The buffer has its newest turn last, the hits come in any order.
BudgetInputs ==
  [budget : Budgets, fixed : Costs, factual : Costs, summary : Costs,
   buffer : UNION {[1..n -> Costs] : n \in 0..MaxBuffer},
   episodic : UNION {[1..n -> Hits] : n \in 0..MaxHits}]

NotYet == [kind |-> "none"]
Overflow == [kind |-> "overflow"]

\* What the parts S of a list cost together.
Spent(costs, S) ==
  LET sum[k \in 0..Len(costs)] ==
        IF k = 0 THEN 0 ELSE sum[k - 1] + (IF k \in S THEN costs[k] ELSE 0)
  IN  sum[Len(costs)]

HitCosts(hits) == [i \in 1..Len(hits) |-> hits[i].cost]

\* The parts that are considered before each: later turns, better hits.  sorted
\* leaves equal scores in their order.
Newer(buffer) == [i \in 1..Len(buffer) |-> (i + 1)..Len(buffer)]
Better(hits) ==
  LET ahead(j, i) == \/ hits[j].score > hits[i].score
                     \/ hits[j].score = hits[i].score /\ j < i
  IN  [i \in 1..Len(hits) |-> {j \in 1..Len(hits) : ahead(j, i)}]

\* A bug to catch: a part that fills the room exactly is left out.
TakeLess(costs, before, room) ==
  {i \in 1..Len(costs) :
     \A j \in before[i] \cup {i} : Spent(costs, before[j] \cup {j}) < room}

\* Parts in order of preference, up to the first that does not fit.
Take(costs, before, room) ==
  {i \in 1..Len(costs) :
     \A j \in before[i] \cup {i} : Spent(costs, before[j] \cup {j}) <= room}

\* A bug to catch: a part is kept whatever room there is.
WholeAlways(cost, room) == cost

\* A part kept whole or not at all.
Whole(cost, room) == IF cost <= room THEN cost ELSE 0

\* allocate: tier 0 must fit; then the profile, the summary, the newest turns and
\* the best hits, each in the room the ones before have left.
Allocate(in) ==
  IF in.fixed > in.budget THEN Overflow
  ELSE LET factual == Whole(in.factual, in.budget - in.fixed)
           summary == Whole(in.summary, in.budget - in.fixed - factual)
           room    == in.budget - in.fixed - factual - summary
           turns   == Take(in.buffer, Newer(in.buffer), room)
           left    == room - Spent(in.buffer, turns)
           hits    == Take(HitCosts(in.episodic), Better(in.episodic), left)
       IN  [kind |-> "kept", factual |-> factual, summary |-> summary,
            buffer |-> turns, episodic |-> hits,
            used |-> in.budget - (left - Spent(HitCosts(in.episodic), hits))]

\* The system text and the messages: the builder formats the profile again, whether
\* or not allocate kept it (context.py:114-120).
Assembled(in, out) ==
  [factual |-> in.factual, summary |-> out.summary, buffer |-> out.buffer,
   episodic |-> out.episodic]

ContextInit == inputs \in BudgetInputs /\ result = NotYet

\* build, once the sources are gathered.
Build == result = NotYet /\ result' = Allocate(inputs) /\ UNCHANGED inputs

ContextNext == Build
ContextSpec == ContextInit /\ [][ContextNext]_contextVars

-----------------------------------------------------------------------------
ContextTypeOK ==
  /\ inputs \in BudgetInputs
  /\ result.kind \in {"none", "overflow", "kept"}
  /\ result.kind = "kept" =>
       /\ result.factual \in {0, inputs.factual} /\ result.summary \in {0, inputs.summary}
       /\ result.buffer \subseteq 1..Len(inputs.buffer)
       /\ result.episodic \subseteq 1..Len(inputs.episodic)
       /\ result.used \in Int

Tokens(in, sent) ==
  in.fixed + sent.factual + sent.summary + Spent(in.buffer, sent.buffer)
    + Spent(HitCosts(in.episodic), sent.episodic)

\* "Never silently overflowing the model window" (budgeter.py:3-4): what is sent
\* fits the budget and is what used_tokens says, or the turn is refused because tier
\* 0 alone overflows; but a profile that was dropped for its size is sent all the
\* same.
BudgetHolds ==
  /\ result.kind = "overflow" => inputs.fixed > inputs.budget
  /\ result.kind = "kept" =>
       /\ result.used = Tokens(inputs, result)
       /\ result.used <= inputs.budget
       /\ result.factual = inputs.factual =>
            Tokens(inputs, Assembled(inputs, result)) <= inputs.budget

\* What is left out is what the code's order of preference leaves no room for, and no
\* more: the profile is sent just if it fits beside tier 0, the summary just if it
\* fits beside that; a turn is sent just if it and all newer ones fit beside the two
\* (budgeter.py:84-109); no hit left out is better than one that is sent, and the
\* best of those left out would not fit beside the rest (budgeter.py:111-119).
\* The summary comes before the buffer here, which the header of the file ranks
\* above it (budgeter.py:8-12).
EvictionIsLeast ==
  result.kind = "kept" =>
    LET room  == inputs.budget - inputs.fixed - result.factual - result.summary
        after == room - Spent(inputs.buffer, result.buffer)
        hits  == inputs.episodic
        left  == (1..Len(hits)) \ result.episodic
    IN  /\ result.factual = inputs.factual <=> inputs.fixed + inputs.factual <= inputs.budget
        /\ result.summary = inputs.summary <=>
             inputs.fixed + result.factual + inputs.summary <= inputs.budget
        /\ \A i \in 1..Len(inputs.buffer) :
             i \in result.buffer <=> Spent(inputs.buffer, i..Len(inputs.buffer)) <= room
        /\ \A i \in left, j \in result.episodic : hits[i].score <= hits[j].score
        /\ left # {} =>
             \E i \in left :
               /\ \A j \in left : hits[j].score <= hits[i].score
               /\ Spent(HitCosts(hits), result.episodic \cup {i}) > after
=============================================================================
