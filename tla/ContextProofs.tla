--------------------------- MODULE ContextProofs ---------------------------
(***************************************************************************)
(* The budgeter for any inputs.  Turns and hits are both taken in a strict *)
(* order, so that what is taken of them is all up to some last part, and   *)
(* the cost of that was tested.                                            *)
(***************************************************************************)
EXTENDS Context, WellFoundedInduction, TLAPS

-----------------------------------------------------------------------------
(* Naturals.                                                               *)

\* A nonempty set of naturals has a least element.
LEMMA LeastNatural ==
  ASSUME NEW S \in SUBSET Nat, S # {}
  PROVE  \E m \in S : \A x \in S : m <= x
<1>1. \E x \in S : \A y \in S : ~(<<y, x>> \in OpToRel(<, Nat))
  BY NatLessThanWellFounded, WFMin
<1>2. ASSUME NEW x \in Nat, NEW y \in Nat, ~(<<y, x>> \in OpToRel(<, Nat))
      PROVE  x <= y
  BY <1>2 DEF OpToRel
<1> QED
  BY <1>1, <1>2

\* Induction up to n, over members of a set.
LEMMA UpTo ==
  ASSUME NEW n \in Nat, NEW S, 0 \in S, \A m \in 1..n : m - 1 \in S => m \in S
  PROVE  \A m \in 0..n : m \in S
<1> DEFINE Bad == {m \in 0..n : m \notin S}
<1> SUFFICES ASSUME Bad # {} PROVE FALSE
  OBVIOUS
<1>1. PICK m \in Bad : \A x \in Bad : m <= x
  <2>1. Bad \in SUBSET Nat
    OBVIOUS
  <2> HIDE DEF Bad
  <2> QED
    BY <2>1, LeastNatural
<1>2. m \in 1..n /\ m \notin S
  OBVIOUS
<1>3. m - 1 \in S
  <2>1. m - 1 \in 0..n /\ ~(m <= m - 1)
    BY <1>2
  <2> QED
    BY <1>1, <2>1
<1> QED
  BY <1>2, <1>3

\* A running total of n costs.
Totals(n, c, g) == g[0] = 0 /\ \A i \in 1..n : g[i] = g[i - 1] + c[i]

LEMMA TotalsExist ==
  ASSUME NEW n \in Nat, NEW c \in [1..n -> Nat]
  PROVE  \E g \in [0..n -> Nat] : Totals(n, c, g)
<1> DEFINE Good(m) == \E g \in [0..m -> Nat] : Totals(m, c, g)
           Here == {m \in 0..n : Good(m)}
<1>1. 0 \in Here
  <2> DEFINE g == [i \in 0..0 |-> 0]
  <2>1. g \in [0..0 -> Nat] /\ Totals(0, c, g)
    BY DEF Totals
  <2> HIDE DEF g
  <2>2. 0 \in 0..n /\ Good(0)
    BY <2>1
  <2> QED
    BY <2>2
<1>2. ASSUME NEW m \in 1..n, m - 1 \in Here PROVE m \in Here
  <2>1. PICK g \in [0..(m - 1) -> Nat] : Totals(m - 1, c, g)
    BY <1>2
  <2> DEFINE h == [i \in 0..m |-> IF i = m THEN g[m - 1] + c[m] ELSE g[i]]
  <2>2. h \in [0..m -> Nat] /\ h[0] = 0
    BY <2>1 DEF Totals
  <2>3. ASSUME NEW i \in 1..m PROVE h[i] = h[i - 1] + c[i]
    <3>1. CASE i = m
      BY <3>1
    <3>2. CASE i # m
      <4>1. i \in 1..(m - 1) /\ i \in 0..m /\ i - 1 \in 0..m /\ i - 1 # m
        BY <3>2
      <4>2. h[i] = g[i] /\ h[i - 1] = g[i - 1]
        BY <3>2, <4>1
      <4> QED
        BY <2>1, <4>1, <4>2 DEF Totals
    <3> QED
      BY <3>1, <3>2
  <2> HIDE DEF h
  <2>4. Totals(m, c, h)
    BY <2>2, <2>3 DEF Totals
  <2>5. Good(m)
    BY <2>2, <2>4, Zenon
  <2>6. m \in 0..n
    OBVIOUS
  <2> QED
    BY <2>5, <2>6
<1>3. n \in Here
  <2>1. \A m \in 0..n : m \in Here
    <3> HIDE DEF Here
    <3> QED
      BY <1>1, <1>2, UpTo
  <2>2. n \in 0..n
    OBVIOUS
  <2> QED
    BY <2>1, <2>2
<1> QED
  BY <1>3

-----------------------------------------------------------------------------
(* The cost of parts.                                                      *)

Chosen(c, S) == [k \in 1..Len(c) |-> IF k \in S THEN c[k] ELSE 0]

LEMMA SpentIs ==
  ASSUME NEW c \in Seq(Nat), NEW S
  PROVE  \E g \in [0..Len(c) -> Nat] : Totals(Len(c), Chosen(c, S), g) /\ Spent(c, S) = g[Len(c)]
<1> DEFINE n == Len(c)
           F(g) == [k \in 0..n |-> IF k = 0 THEN 0
                                   ELSE g[k - 1] + (IF k \in S THEN c[k] ELSE 0)]
           sum == CHOOSE g : g = F(g)
<1>1. n \in Nat /\ Chosen(c, S) \in [1..n -> Nat]
  BY DEF Chosen
<1>2. PICK g \in [0..n -> Nat] : Totals(n, Chosen(c, S), g)
  <2> HIDE DEF n
  <2> QED
    BY <1>1, TotalsExist
<1>3. g = F(g)
  <2>1. ASSUME NEW i \in 0..n PROVE g[i] = F(g)[i]
    <3>1. i = 0 \/ i \in 1..n
      BY <1>1
    <3> QED
      BY <1>2, <3>1 DEF Totals, Chosen
  <2> QED
    BY <1>2, <2>1
<1>4. sum = F(sum)
  BY <1>3
<1>5. Spent(c, S) = sum[n]
  BY DEF Spent
<1> HIDE DEF sum
<1>6. sum \in [0..n -> Nat]
  <2>1. \A i \in 0..n : sum[i] = g[i]
    <3> DEFINE Here == {m \in 0..n : sum[m] = g[m]}
    <3>1. 0 \in Here
      BY <1>1, <1>2, <1>4 DEF Totals
    <3>2. ASSUME NEW m \in 1..n, m - 1 \in Here PROVE m \in Here
      <4>1. sum[m] = sum[m - 1] + (IF m \in S THEN c[m] ELSE 0)
        BY <1>1, <1>4, SMTT(30)
      <4>2. g[m] = g[m - 1] + (IF m \in S THEN c[m] ELSE 0)
        BY <1>2 DEF Totals, Chosen
      <4> QED
        BY <3>2, <4>1, <4>2
    <3>3. \A m \in 0..n : m \in Here
      <4> HIDE DEF Here, n
      <4> QED
        BY <1>1, <3>1, <3>2, UpTo
    <3> QED
      BY <3>3
  <2>2. sum = [i \in 0..n |-> sum[i]]
    BY <1>4
  <2> HIDE DEF n
  <2> QED
    BY <1>2, <2>1, <2>2
<1>7. Totals(n, Chosen(c, S), sum)
  <2>1. sum[0] = 0
    BY <1>1, <1>4
  <2>2. ASSUME NEW i \in 1..n PROVE sum[i] = sum[i - 1] + Chosen(c, S)[i]
    BY <1>1, <1>4, SMTT(30) DEF Chosen
  <2> QED
    BY <2>1, <2>2 DEF Totals
<1> QED
  BY <1>5, <1>6, <1>7

\* Nothing costs nothing, and more parts cost no less.
LEMMA SpentNone == ASSUME NEW c \in Seq(Nat) PROVE Spent(c, {}) = 0
<1> DEFINE n == Len(c)
<1>1. PICK g \in [0..n -> Nat] : Totals(n, Chosen(c, {}), g) /\ Spent(c, {}) = g[n]
  BY SpentIs
<1> DEFINE Here == {m \in 0..n : g[m] = 0}
<1>2. 0 \in Here
  BY <1>1 DEF Totals
<1>3. ASSUME NEW m \in 1..n, m - 1 \in Here PROVE m \in Here
  BY <1>1, <1>3 DEF Totals, Chosen
<1>4. n \in Nat /\ n \in 0..n
  OBVIOUS
<1>5. \A m \in 0..n : m \in Here
  <2> HIDE DEF Here, n
  <2> QED
    BY <1>2, <1>3, <1>4, UpTo
<1> QED
  BY <1>1, <1>4, <1>5

LEMMA SpentGrows ==
  ASSUME NEW c \in Seq(Nat), NEW S, NEW T, S \subseteq T
  PROVE  /\ Spent(c, S) \in Nat /\ Spent(c, T) \in Nat
         /\ Spent(c, S) <= Spent(c, T)
<1> DEFINE n == Len(c)
<1>1. PICK g \in [0..n -> Nat] : Totals(n, Chosen(c, S), g) /\ Spent(c, S) = g[n]
  BY SpentIs
<1>2. PICK h \in [0..n -> Nat] : Totals(n, Chosen(c, T), h) /\ Spent(c, T) = h[n]
  BY SpentIs
<1> DEFINE Here == {m \in 0..n : g[m] <= h[m]}
<1>3. 0 \in Here
  BY <1>1, <1>2 DEF Totals
<1>4. ASSUME NEW m \in 1..n, m - 1 \in Here PROVE m \in Here
  <2>1. g[m] = g[m - 1] + Chosen(c, S)[m] /\ h[m] = h[m - 1] + Chosen(c, T)[m]
    BY <1>1, <1>2 DEF Totals
  <2>2. /\ Chosen(c, S)[m] \in Nat /\ Chosen(c, T)[m] \in Nat
        /\ Chosen(c, S)[m] <= Chosen(c, T)[m]
    BY DEF Chosen
  <2>3. m \in 0..n /\ m - 1 \in 0..n /\ g[m - 1] \in Nat /\ h[m - 1] \in Nat
        /\ g[m - 1] <= h[m - 1]
    BY <1>1, <1>2, <1>4
  <2> QED
    BY <2>1, <2>2, <2>3
<1>5. n \in Nat /\ n \in 0..n
  OBVIOUS
<1>6. \A m \in 0..n : m \in Here
  <2> HIDE DEF Here, n
  <2> QED
    BY <1>3, <1>4, <1>5, UpTo
<1> QED
  BY <1>1, <1>2, <1>5, <1>6

-----------------------------------------------------------------------------
(* The order in which parts are taken.                                     *)

Order(n, before) ==
  /\ before \in [1..n -> SUBSET (1..n)]
  /\ \A i \in 1..n : i \notin before[i]
  /\ \A i, j \in 1..n : i # j => i \in before[j] \/ j \in before[i]
  /\ \A i, j, k \in 1..n : i \in before[j] /\ j \in before[k] => i \in before[k]

\* Of any parts one comes first.
LEMMA FirstPart ==
  ASSUME NEW n \in Nat, NEW before, Order(n, before), NEW P \in SUBSET (1..n), P # {}
  PROVE  \E i \in P : \A j \in P : j # i => i \in before[j]
<1> DEFINE First(m) == \E i \in P : i <= m /\ \A j \in P : j # i /\ j <= m => i \in before[j]
           Here == {m \in 0..n : (\E j \in P : j <= m) => First(m)}
<1>1. 0 \in Here
  OBVIOUS
<1>2. ASSUME NEW m \in 1..n, m - 1 \in Here PROVE m \in Here
  <2>1. SUFFICES ASSUME \E j \in P : j <= m PROVE First(m)
    OBVIOUS
  <2>2. CASE m \notin P
    <3>1. \A j \in P : j <= m <=> j <= m - 1
      BY <2>2
    <3>2. First(m - 1)
      BY <1>2, <2>1, <3>1
    <3>3. PICK i \in P : i <= m - 1 /\ \A j \in P : j # i /\ j <= m - 1 => i \in before[j]
      BY <3>2
    <3> QED
      BY <3>1, <3>3
  <2>3. CASE m \in P /\ ~\E j \in P : j <= m - 1
    BY <2>3
  <2>4. CASE m \in P /\ \E j \in P : j <= m - 1
    <3>1. First(m - 1)
      BY <1>2, <2>4
    <3>2. PICK i \in P : i <= m - 1 /\ \A j \in P : j # i /\ j <= m - 1 => i \in before[j]
      BY <3>1
    <3>3. CASE i \in before[m]
      <4>1. ASSUME NEW j \in P, j # i, j <= m PROVE i \in before[j]
        <5>1. j = m \/ j <= m - 1
          BY <4>1
        <5> QED
          BY <3>2, <3>3, <4>1, <5>1
      <4>2. i <= m
        BY <3>2
      <4> QED
        BY <4>1, <4>2
    <3>4. CASE i \notin before[m]
      <4>1. i # m /\ m \in before[i]
        BY <2>4, <3>2, <3>4 DEF Order
      <4>2. ASSUME NEW j \in P, j # m, j <= m PROVE m \in before[j]
        <5>1. j <= m - 1
          BY <4>2
        <5>2. j = i \/ i \in before[j]
          BY <3>2, <5>1
        <5> QED
          BY <4>1, <5>2 DEF Order
      <4> QED
        BY <2>4, <4>2
    <3> QED
      BY <3>3, <3>4
  <2> QED
    BY <2>2, <2>3, <2>4
<1>3. \A m \in 0..n : m \in Here
  <2> HIDE DEF Here
  <2> QED
    BY <1>1, <1>2, UpTo
<1>4. First(n)
  <2>1. n \in 0..n /\ \E j \in P : j <= n
    <3>1. PICK j \in P : j \in 1..n
      OBVIOUS
    <3> QED
      BY <3>1
  <2> HIDE DEF First
  <2> QED
    BY <1>3, <2>1
<1>5. \A j \in P : j <= n
  OBVIOUS
<1> QED
  BY <1>4, <1>5

\* And one last, the first of the order turned round.
LEMMA LastPart ==
  ASSUME NEW n \in Nat, NEW before, Order(n, before), NEW P \in SUBSET (1..n), P # {}
  PROVE  \E i \in P : \A j \in P : j # i => j \in before[i]
<1> DEFINE behind == [i \in 1..n |-> {j \in 1..n : i \in before[j]}]
<1>1. Order(n, behind)
  BY DEF Order
<1>2. PICK i \in P : \A j \in P : j # i => i \in behind[j]
  <2> HIDE DEF behind
  <2> QED
    BY <1>1, FirstPart
<1> QED
  BY <1>2

LEMMA NewerOrders == ASSUME NEW b \in Seq(Nat) PROVE Order(Len(b), Newer(b))
BY DEF Order, Newer

LEMMA MemberOf == ASSUME NEW S, NEW s \in Seq(S), NEW i \in 1..Len(s) PROVE s[i] \in S
OBVIOUS

LEMMA ListIs ==
  ASSUME NEW S, NEW n \in Nat, NEW f \in [1..n -> S] PROVE f \in Seq(S) /\ Len(f) = n
OBVIOUS

LEMMA BetterOrders ==
  ASSUME NEW hits \in Seq([cost : Nat, score : Int]) PROVE Order(Len(hits), Better(hits))
<1>1. \A i \in 1..Len(hits) : hits[i].score \in Int
  <2>1. \A i \in 1..Len(hits) : hits[i] \in [cost : Nat, score : Int]
    BY MemberOf
  <2> QED
    BY <2>1
<1>2. /\ Better(hits) \in [1..Len(hits) -> SUBSET (1..Len(hits))]
      /\ \A i, j \in 1..Len(hits) :
           j \in Better(hits)[i] <=> \/ hits[j].score > hits[i].score
                                     \/ hits[j].score = hits[i].score /\ j < i
  BY DEF Better
<1> DEFINE n == Len(hits)
           s == [i \in 1..n |-> hits[i].score]
           b == Better(hits)
<1>3. n \in Nat /\ s \in [1..n -> Int]
  BY <1>1
<1>4. /\ b \in [1..n -> SUBSET (1..n)]
      /\ \A i, j \in 1..n : j \in b[i] <=> s[j] > s[i] \/ (s[j] = s[i] /\ j < i)
  BY <1>2
<1> HIDE DEF n, s, b
<1>5. Order(n, b)
  <2>1. \A i \in 1..n : s[i] \in Int
    BY <1>3
  <2>2. \A i \in 1..n : i \notin b[i]
    BY <1>3, <1>4, <2>1
  <2>3. \A i, j \in 1..n : i # j => i \in b[j] \/ j \in b[i]
    BY <1>3, <1>4, <2>1
  <2>4. \A i, j, k \in 1..n : i \in b[j] /\ j \in b[k] => i \in b[k]
    BY <1>3, <1>4, <2>1, SMTT(30)
  <2> QED
    BY <1>4, <2>2, <2>3, <2>4 DEF Order
<1> QED
  BY <1>5 DEF n, b

-----------------------------------------------------------------------------
(* What is taken.                                                          *)

\* All parts up to some last one, or none; they fit the room, and the first part
\* left out would not.
Taken(c, before, room, kept) ==
  LET left == (1..Len(c)) \ kept
  IN  /\ kept \subseteq 1..Len(c)
      /\ Spent(c, kept) \in Nat /\ Spent(c, kept) <= room
      /\ \A i \in left, j \in kept : i \notin before[j]
      /\ left # {} => \E i \in left : /\ \A j \in left : j # i => i \in before[j]
                                      /\ Spent(c, kept \cup {i}) > room

LEMMA TakeIs ==
  ASSUME NEW c \in Seq(Nat), NEW before, Order(Len(c), before), NEW room \in Nat
  PROVE  Taken(c, before, room, Take(c, before, room))
<1> DEFINE kept == Take(c, before, room)
           left == (1..Len(c)) \ kept
           upto(j) == before[j] \cup {j}
<1>1. kept = {i \in 1..Len(c) : \A j \in upto(i) : Spent(c, upto(j)) <= room}
  BY DEF Take
<1>2. Len(c) \in Nat /\ kept \in SUBSET (1..Len(c)) /\ left \in SUBSET (1..Len(c))
  BY <1>1
<1>3. ASSUME NEW j \in kept, NEW i \in before[j] PROVE i \in kept
  <2>1. i \in 1..Len(c) /\ j \in 1..Len(c)
    BY <1>2 DEF Order
  <2>2. upto(i) \subseteq upto(j)
    BY <2>1 DEF Order
  <2> QED
    BY <1>1, <2>1, <2>2
<1>4. Spent(c, kept) \in Nat /\ Spent(c, kept) <= room
  <2>1. CASE kept = {}
    BY <2>1, SpentNone
  <2>2. CASE kept # {}
    <3>1. PICK i \in kept : \A j \in kept : j # i => j \in before[i]
      <4> HIDE DEF kept
      <4> QED
        BY <1>2, <2>2, LastPart
    <3>2. kept = upto(i)
      BY <1>3, <3>1
    <3>3. Spent(c, upto(i)) <= room
      BY <1>1, <3>1
    <3> HIDE DEF kept
    <3>4. Spent(c, kept) \in Nat
      BY SpentGrows
    <3> QED
      BY <3>2, <3>3, <3>4
  <2> QED
    BY <2>1, <2>2
<1>5. ASSUME left # {}
      PROVE  \E i \in left : /\ \A j \in left : j # i => i \in before[j]
                             /\ Spent(c, kept \cup {i}) > room
  <2>1. PICK i \in left : \A j \in left : j # i => i \in before[j]
    <3> HIDE DEF left
    <3> QED
      BY <1>2, <1>5, FirstPart
  <2>2. kept = before[i]
    <3>1. ASSUME NEW j \in before[i] PROVE j \in kept
      <4>1. j \in 1..Len(c) /\ i \in 1..Len(c) /\ j # i /\ i \notin before[j]
        BY <1>2 DEF Order
      <4> QED
        BY <2>1, <4>1
    <3>2. ASSUME NEW j \in kept PROVE j \in before[i]
      <4>1. j \in 1..Len(c) /\ i \in 1..Len(c) /\ j # i /\ i \notin before[j]
        BY <1>2, <1>3
      <4> QED
        BY <4>1 DEF Order
    <3> QED
      BY <3>1, <3>2
  <2>3. ~(Spent(c, upto(i)) <= room)
    <3>1. PICK j \in upto(i) : ~(Spent(c, upto(j)) <= room)
      BY <1>1, <1>2
    <3>2. j \notin kept
      BY <1>1, <3>1
    <3> QED
      BY <2>2, <3>1, <3>2
  <2>4. Spent(c, upto(i)) \in Nat
    BY SpentGrows
  <2>5. kept \cup {i} = upto(i)
    BY <2>2
  <2> HIDE DEF kept, upto
  <2>6. Spent(c, kept \cup {i}) = Spent(c, upto(i))
    BY <2>5
  <2>7. Spent(c, upto(i)) > room
    BY <2>3, <2>4
  <2> QED
    BY <2>1, <2>6, <2>7
<1> HIDE DEF kept
<1> QED
  BY <1>2, <1>3, <1>4, <1>5 DEF kept, Taken

\* Of the turns, just those that fit with all newer ones.
LEMMA TakeNewest ==
  ASSUME NEW c \in Seq(Nat), NEW room \in Nat, NEW i \in 1..Len(c)
  PROVE  i \in Take(c, Newer(c), room) <=> Spent(c, i..Len(c)) <= room
<1>1. \A j \in 1..Len(c) : Newer(c)[j] \cup {j} = j..Len(c)
  BY DEF Newer
<1>2. \A j \in i..Len(c) : j \in 1..Len(c) /\ j..Len(c) \subseteq i..Len(c)
  OBVIOUS
<1>3. \A j \in i..Len(c) : /\ Spent(c, j..Len(c)) \in Nat /\ Spent(c, i..Len(c)) \in Nat
                           /\ Spent(c, j..Len(c)) <= Spent(c, i..Len(c))
  BY <1>2, SpentGrows
<1>4. i \in Take(c, Newer(c), room) <=> \A j \in i..Len(c) : Spent(c, j..Len(c)) <= room
  BY <1>1, <1>2 DEF Take
<1>5. i \in i..Len(c)
  OBVIOUS
<1> QED
  BY <1>3, <1>4, <1>5
-----------------------------------------------------------------------------
(* The theorems.                                                           *)

LEMMA InputTypes ==
  ASSUME inputs \in BudgetInputs
  PROVE  /\ inputs.budget \in Int /\ inputs.fixed \in Nat
         /\ inputs.factual \in Nat /\ inputs.summary \in Nat
         /\ inputs.buffer \in Seq(Nat)
         /\ inputs.episodic \in Seq([cost : Nat, score : Int])
         /\ HitCosts(inputs.episodic) \in Seq(Nat)
         /\ Len(HitCosts(inputs.episodic)) = Len(inputs.episodic)
<1>1. /\ inputs.budget \in Budgets /\ inputs.fixed \in Costs
      /\ inputs.factual \in Costs /\ inputs.summary \in Costs
      /\ \E n \in Nat : inputs.buffer \in [1..n -> Costs]
      /\ \E n \in Nat : inputs.episodic \in [1..n -> Hits]
  BY DEF BudgetInputs
<1>2. inputs.buffer \in Seq(Nat)
  <2>1. PICK n \in Nat : inputs.buffer \in [1..n -> Costs]
    BY <1>1
  <2>2. inputs.buffer \in [1..n -> Nat]
    BY <2>1, ContextAssumption
  <2> QED
    BY <2>2, ListIs
<1>3. inputs.episodic \in Seq([cost : Nat, score : Int])
  <2>1. Hits \subseteq [cost : Nat, score : Int]
    BY ContextAssumption DEF Hits
  <2>2. PICK n \in Nat : inputs.episodic \in [1..n -> Hits]
    BY <1>1
  <2>3. inputs.episodic \in [1..n -> [cost : Nat, score : Int]]
    BY <2>1, <2>2
  <2> QED
    BY <2>3, ListIs
<1>4. \A i \in 1..Len(inputs.episodic) : inputs.episodic[i].cost \in Nat
  <2>1. \A i \in 1..Len(inputs.episodic) : inputs.episodic[i] \in [cost : Nat, score : Int]
    BY <1>3, MemberOf
  <2> QED
    BY <2>1
<1>5. /\ HitCosts(inputs.episodic) \in Seq(Nat)
      /\ Len(HitCosts(inputs.episodic)) = Len(inputs.episodic)
  <2> DEFINE n == Len(inputs.episodic)
  <2>1. n \in Nat /\ HitCosts(inputs.episodic) \in [1..n -> Nat]
    BY <1>3, <1>4 DEF HitCosts
  <2> HIDE DEF n
  <2>2. HitCosts(inputs.episodic) \in Seq(Nat) /\ Len(HitCosts(inputs.episodic)) = n
    BY <2>1, ListIs
  <2> QED
    BY <2>2 DEF n
<1> QED
  BY <1>1, <1>2, <1>3, <1>5, ContextAssumption

\* What the budgeter makes of the inputs is decided when the prompt is built.
ContextInv == inputs \in BudgetInputs /\ result \in {NotYet, Allocate(inputs)}

LEMMA ContextInvHolds == ContextSpec => []ContextInv
<1>1. ContextInit => ContextInv
  BY DEF ContextInit, ContextInv
<1>2. ContextInv /\ [ContextNext]_contextVars => ContextInv'
  BY DEF ContextInv, ContextNext, Build, contextVars
<1> QED
  BY <1>1, <1>2, PTL DEF ContextSpec

\* What allocate returns, unless it raises.
LEMMA AllocateIs ==
  ASSUME ContextInv, result.kind = "kept"
  PROVE  LET room  == inputs.budget - inputs.fixed - result.factual - result.summary
             costs == HitCosts(inputs.episodic)
             after == room - Spent(inputs.buffer, result.buffer)
         IN  /\ result.factual = Whole(inputs.factual, inputs.budget - inputs.fixed)
             /\ result.summary = Whole(inputs.summary,
                                        inputs.budget - inputs.fixed - result.factual)
             /\ result.factual \in {0, inputs.factual} /\ result.summary \in {0, inputs.summary}
             /\ inputs.fixed <= inputs.budget
             /\ inputs.budget - inputs.fixed - result.factual \in Nat
             /\ room \in Nat /\ after \in Int
             /\ result.buffer = Take(inputs.buffer, Newer(inputs.buffer), room)
             /\ result.episodic = Take(costs, Better(inputs.episodic), after)
             /\ result.used = inputs.budget - (after - Spent(costs, result.episodic))
<1>1. result = Allocate(inputs)
  BY DEF ContextInv, NotYet
<1>2. inputs.fixed <= inputs.budget
  BY <1>1, InputTypes DEF ContextInv, Allocate, Overflow
<1> DEFINE factual == Whole(inputs.factual, inputs.budget - inputs.fixed)
           summary == Whole(inputs.summary, inputs.budget - inputs.fixed - factual)
           room == inputs.budget - inputs.fixed - factual - summary
           turns == Take(inputs.buffer, Newer(inputs.buffer), room)
           left == room - Spent(inputs.buffer, turns)
           costs == HitCosts(inputs.episodic)
           hits == Take(costs, Better(inputs.episodic), left)
<1>3. /\ result.factual = factual /\ result.summary = summary /\ result.buffer = turns
      /\ result.episodic = hits /\ result.used = inputs.budget - (left - Spent(costs, hits))
  BY <1>1, <1>2, InputTypes DEF ContextInv, Allocate
<1>4. factual \in {0, inputs.factual} /\ inputs.budget - inputs.fixed - factual \in Nat
  BY <1>2, InputTypes DEF ContextInv, Whole
<1>5. summary \in {0, inputs.summary} /\ room \in Nat
  <2> HIDE DEF factual
  <2> QED
    BY <1>4, InputTypes DEF ContextInv, Whole
<1>6. left \in Int
  <2> HIDE DEF room, turns
  <2>1. Spent(inputs.buffer, turns) \in Nat
    BY InputTypes, SpentGrows DEF ContextInv
  <2> QED
    BY <1>5, <2>1
<1> QED
  BY <1>2, <1>3, <1>4, <1>5, <1>6

\* What is kept of the turns and of the hits.
LEMMA KeptIs ==
  ASSUME ContextInv, result.kind = "kept"
  PROVE  LET room  == inputs.budget - inputs.fixed - result.factual - result.summary
             costs == HitCosts(inputs.episodic)
             after == room - Spent(inputs.buffer, result.buffer)
         IN  /\ Taken(inputs.buffer, Newer(inputs.buffer), room, result.buffer)
             /\ Taken(costs, Better(inputs.episodic), after, result.episodic)
<1> DEFINE room == inputs.budget - inputs.fixed - result.factual - result.summary
           costs == HitCosts(inputs.episodic)
           after == room - Spent(inputs.buffer, result.buffer)
<1>1. /\ inputs.buffer \in Seq(Nat) /\ inputs.episodic \in Seq([cost : Nat, score : Int])
      /\ costs \in Seq(Nat) /\ Len(costs) = Len(inputs.episodic)
  BY InputTypes DEF ContextInv
<1>2. /\ room \in Nat
      /\ result.buffer = Take(inputs.buffer, Newer(inputs.buffer), room)
      /\ result.episodic = Take(costs, Better(inputs.episodic), after)
  BY AllocateIs
<1> HIDE DEF room, costs
<1>3. Taken(inputs.buffer, Newer(inputs.buffer), room, result.buffer)
  BY <1>1, <1>2, NewerOrders, TakeIs
<1>4. after \in Nat
  BY <1>2, <1>3 DEF Taken
<1>5. Order(Len(costs), Better(inputs.episodic))
  BY <1>1, BetterOrders
<1>6. Taken(costs, Better(inputs.episodic), after, result.episodic)
  <2> HIDE DEF after
  <2> QED
    BY <1>1, <1>2, <1>4, <1>5, TakeIs
<1> QED
  BY <1>3, <1>6 DEF room, costs, after

LEMMA KeptCosts ==
  ASSUME ContextInv, result.kind = "kept"
  PROVE  LET turns == Spent(inputs.buffer, result.buffer)
             hits  == Spent(HitCosts(inputs.episodic), result.episodic)
         IN  /\ turns \in Nat /\ hits \in Nat
             /\ turns + hits <= inputs.budget - inputs.fixed - result.factual - result.summary
             /\ result.buffer \subseteq 1..Len(inputs.buffer)
             /\ result.episodic \subseteq 1..Len(inputs.episodic)
<1> DEFINE room == inputs.budget - inputs.fixed - result.factual - result.summary
           turns == Spent(inputs.buffer, result.buffer)
           hits == Spent(HitCosts(inputs.episodic), result.episodic)
<1>1. /\ turns \in Nat /\ hits \in Nat /\ hits <= room - turns
      /\ result.buffer \subseteq 1..Len(inputs.buffer)
      /\ result.episodic \subseteq 1..Len(HitCosts(inputs.episodic))
  BY KeptIs DEF Taken
<1>2. room \in Nat
  BY AllocateIs
<1>3. Len(HitCosts(inputs.episodic)) = Len(inputs.episodic)
  BY InputTypes DEF ContextInv
<1> HIDE DEF room, turns, hits
<1>4. turns + hits <= room
  BY <1>1, <1>2
<1> QED
  BY <1>1, <1>3, <1>4 DEF room, turns, hits

\* The budgeter's result is made of parts of its inputs.
THEOREM ContextTypes == ContextSpec => []ContextTypeOK
<1>1. ContextInv => ContextTypeOK
  <2> SUFFICES ASSUME ContextInv PROVE ContextTypeOK
    OBVIOUS
  <2>1. result.kind \in {"none", "overflow", "kept"}
    BY DEF ContextInv, NotYet, Allocate, Overflow
  <2>2. ASSUME result.kind = "kept" PROVE result.used \in Int
    <3> DEFINE turns == Spent(inputs.buffer, result.buffer)
               hits == Spent(HitCosts(inputs.episodic), result.episodic)
               room == inputs.budget - inputs.fixed - result.factual - result.summary
    <3>1. result.used = inputs.budget - ((room - turns) - hits) /\ room \in Nat
      BY <2>2, AllocateIs
    <3>2. turns \in Nat /\ hits \in Nat
      BY <2>2, KeptCosts
    <3>3. inputs.budget \in Int
      BY InputTypes DEF ContextInv
    <3> HIDE DEF turns, hits, room
    <3> QED
      BY <3>1, <3>2, <3>3
  <2> QED
    BY <2>1, <2>2, AllocateIs, KeptCosts DEF ContextInv, ContextTypeOK
<1> QED
  BY <1>1, ContextInvHolds, PTL

\* allocate: for any costs and any budget, what is sent fits, or the turn is refused
\* because tier 0 alone does not; used_tokens is what was kept (agent/budgeter.py:61-128).
THEOREM BudgetAlwaysHolds == ContextSpec => []BudgetHolds
<1>1. ContextInv => BudgetHolds
  <2> SUFFICES ASSUME ContextInv PROVE BudgetHolds
    OBVIOUS
  <2>1. ASSUME result.kind = "overflow" PROVE inputs.fixed > inputs.budget
    BY <2>1 DEF ContextInv, NotYet, Allocate
  <2>2. ASSUME result.kind = "kept"
        PROVE  /\ result.used = Tokens(inputs, result)
               /\ result.used <= inputs.budget
               /\ result.factual = inputs.factual =>
                    Tokens(inputs, Assembled(inputs, result)) <= inputs.budget
    <3> DEFINE turns == Spent(inputs.buffer, result.buffer)
               hits == Spent(HitCosts(inputs.episodic), result.episodic)
               room == inputs.budget - inputs.fixed - result.factual - result.summary
    <3>1. result.used = inputs.budget - ((room - turns) - hits) /\ room \in Nat
      BY <2>2, AllocateIs
    <3>2. result.factual \in {0, inputs.factual} /\ result.summary \in {0, inputs.summary}
      BY <2>2, AllocateIs
    <3>3. /\ inputs.budget \in Int /\ inputs.fixed \in Nat
          /\ result.factual \in Nat /\ result.summary \in Nat
      BY <3>2, InputTypes DEF ContextInv
    <3>4. turns \in Nat /\ hits \in Nat /\ turns + hits <= room
      BY <2>2, KeptCosts
    <3>5. Tokens(inputs, result) = inputs.fixed + result.factual + result.summary + turns + hits
      BY DEF Tokens
    <3>6. result.factual = inputs.factual =>
            Tokens(inputs, Assembled(inputs, result)) = Tokens(inputs, result)
      BY DEF Tokens, Assembled
    <3> HIDE DEF turns, hits
    <3>7. result.used = Tokens(inputs, result) /\ result.used <= inputs.budget
      BY <3>1, <3>4, <3>5, <3>3
    <3> QED
      BY <3>6, <3>7
  <2> QED
    BY <2>1, <2>2 DEF BudgetHolds
<1> QED
  BY <1>1, ContextInvHolds, PTL

\* allocate: for any costs, scores and budget, profile, summary, newest turns and best
\* hits are left out, in this order of preference, just where they do not fit beside
\* what precedes them (agent/budgeter.py:84-119).
THEOREM OnlyTheLeastIsEvicted == ContextSpec => []EvictionIsLeast
<1>1. ContextInv => EvictionIsLeast
  <2> SUFFICES ASSUME ContextInv, result.kind = "kept" PROVE EvictionIsLeast
    BY DEF EvictionIsLeast
  <2> DEFINE room == inputs.budget - inputs.fixed - result.factual - result.summary
             after == room - Spent(inputs.buffer, result.buffer)
             hits == inputs.episodic
             left == (1..Len(hits)) \ result.episodic
  <2>1. /\ inputs.buffer \in Seq(Nat) /\ hits \in Seq([cost : Nat, score : Int])
    BY InputTypes DEF ContextInv
  <2>2. \A i \in 1..Len(hits) : hits[i].score \in Int
    <3>1. \A i \in 1..Len(hits) : hits[i] \in [cost : Nat, score : Int]
      BY <2>1, MemberOf
    <3> QED
      BY <3>1
  <2>3. /\ inputs.budget \in Int /\ inputs.fixed \in Nat
        /\ inputs.factual \in Nat /\ inputs.summary \in Nat /\ result.factual \in Nat
    BY InputTypes, AllocateIs DEF ContextInv
  <2>4. /\ result.factual = inputs.factual <=> inputs.fixed + inputs.factual <= inputs.budget
        /\ result.summary = inputs.summary <=>
             inputs.fixed + result.factual + inputs.summary <= inputs.budget
    <3>1. /\ result.factual = Whole(inputs.factual, inputs.budget - inputs.fixed)
          /\ result.summary = Whole(inputs.summary,
                                     inputs.budget - inputs.fixed - result.factual)
          /\ inputs.fixed <= inputs.budget
          /\ inputs.budget - inputs.fixed - result.factual \in Nat
      BY AllocateIs
    <3> QED
      BY <2>3, <3>1 DEF Whole
  <2>5. ASSUME NEW i \in 1..Len(inputs.buffer)
        PROVE  i \in result.buffer <=> Spent(inputs.buffer, i..Len(inputs.buffer)) <= room
    <3>1. room \in Nat /\ result.buffer = Take(inputs.buffer, Newer(inputs.buffer), room)
      BY AllocateIs
    <3> HIDE DEF room
    <3> QED
      BY <2>1, <3>1, TakeNewest
  <2>6. /\ result.episodic \subseteq 1..Len(hits)
        /\ \A i \in left, j \in result.episodic : i \notin Better(hits)[j]
        /\ left # {} =>
             \E i \in left : /\ \A j \in left : j # i => i \in Better(hits)[j]
                             /\ Spent(HitCosts(hits), result.episodic \cup {i}) > after
    <3>1. Len(HitCosts(hits)) = Len(hits)
      BY InputTypes DEF ContextInv
    <3>2. Taken(HitCosts(hits), Better(hits), after, result.episodic)
      BY KeptIs
    <3> HIDE DEF after, hits
    <3> QED
      BY <3>1, <3>2 DEF Taken, hits
  <2>7. \A i, j \in 1..Len(hits) : /\ i \in Better(hits)[j] => hits[j].score <= hits[i].score
                                   /\ i \notin Better(hits)[j] => hits[i].score <= hits[j].score
    BY <2>2 DEF Better
  <2>8. \A i \in left, j \in result.episodic : hits[i].score <= hits[j].score
    BY <2>6, <2>7
  <2>9. ASSUME left # {}
        PROVE  \E i \in left : /\ \A j \in left : hits[j].score <= hits[i].score
                               /\ Spent(HitCosts(hits), result.episodic \cup {i}) > after
    <3>1. PICK i \in left : /\ \A j \in left : j # i => i \in Better(hits)[j]
                            /\ Spent(HitCosts(hits), result.episodic \cup {i}) > after
      BY <2>6, <2>9
    <3>2. ASSUME NEW j \in left PROVE hits[j].score <= hits[i].score
      BY <2>2, <2>7, <3>1
    <3> QED
      BY <3>1, <3>2
  <2> QED
    BY <2>4, <2>5, <2>8, <2>9 DEF EvictionIsLeast
<1> QED
  BY <1>1, ContextInvHolds, PTL
=============================================================================
