------------------------ MODULE WorkingMemoryProofs ------------------------
(***************************************************************************)
(* Rollovers of any number, over any turns, budget and evictions.  Each of *)
(* them holds a copy of the session it read; all that such a copy lacks    *)
(* are turns persisted since, while it was at work.                        *)
(***************************************************************************)
EXTENDS WorkingMemory, WellFoundedInduction, TLAPS

States == [buffer : Seq(TurnIds), summary : SUBSET TurnIds]
Tasks == [stage : {"none", "queued", "summarizing"}, session : Sessions \cup {0},
          kept : Seq(TurnIds), evicted : Seq(TurnIds), prior : SUBSET TurnIds,
          overtaken : BOOLEAN]

\* A summary and the buffer that follows it, of turns up to n.
Follows(summary, b, n) ==
  /\ \A i, j \in DOMAIN b : i < j => b[i] < b[j]
  /\ \A t \in summary : \A i \in DOMAIN b : t < b[i]
  /\ \A i \in DOMAIN b : b[i] <= n
  /\ \A t \in summary : t <= n

\* What a summarizing rollover will write; without an answer it may write back the
\* summary it read, but only where what it was to summarize has been given up.
CopyInv(t) ==
  t.stage = "summarizing" =>
    LET folded == t.prior \cup (Elems(t.evicted) \ Textless)
    IN  /\ t.session # 0 /\ t.session <= made
        /\ Follows(folded, t.kept, count)
        /\ said \ exposed \subseteq folded \cup Elems(t.kept)
        /\ t.overtaken => Elems(t.evicted) \ Textless \subseteq exposed

MemoryTypes ==
  /\ state \in [Sessions -> States]
  /\ made \in 0..MaxSessions /\ stored \in 0..made
  /\ expired \in BOOLEAN
  /\ running \in 0..MaxRunning /\ count \in 0..MaxTurns
  /\ task \in [Rollovers -> Tasks]
  /\ \A r \in Rollovers : task[r].session <= made
  /\ said \subseteq TurnIds \ Textless /\ exposed \subseteq TurnIds
  /\ stored = 0 => said = {}

MemoryInv ==
  /\ MemoryTypes
  /\ \A o \in Sessions : Follows(state[o].summary, state[o].buffer, count)
  /\ \A r \in Rollovers : CopyInv(task[r])
  /\ QuietTurnsKept

-----------------------------------------------------------------------------
(* Sequences.                                                              *)

LEMMA LeastNatural ==
  ASSUME NEW S \in SUBSET Nat, S # {}
  PROVE  Min(S) \in S /\ \A x \in S : Min(S) <= x
<1>1. \E x \in S : \A y \in S : ~(<<y, x>> \in OpToRel(<, Nat))
  BY NatLessThanWellFounded, WFMin
<1>2. ASSUME NEW x \in Nat, NEW y \in Nat, ~(<<y, x>> \in OpToRel(<, Nat))
      PROVE  x <= y
  BY <1>2 DEF OpToRel
<1>3. \E x \in S : \A y \in S : x <= y
  BY <1>1, <1>2
<1> QED
  BY <1>3 DEF Min

\* Both halves of a split, and nothing else.
LEMMA SplitFacts ==
  ASSUME NEW b \in Seq(TurnIds)
  PROVE  \E m \in 0..Len(b) :
           /\ Split(b).evicted \in Seq(TurnIds) /\ Len(Split(b).evicted) = m
           /\ Split(b).kept \in Seq(TurnIds) /\ Len(Split(b).kept) = Len(b) - m
           /\ \A i \in 1..m : Split(b).evicted[i] = b[i]
           /\ \A i \in 1..(Len(b) - m) : Split(b).kept[i] = b[m + i]
<1> DEFINE n == Len(b)
           S == {n + 1} \cup {i \in 1..n : \A j \in i..(n - 1) : Tokens(b, n - j + 1) <= Budget}
           from == Min(S)
<1>1. n \in Nat /\ S \in SUBSET Nat /\ S # {} /\ S \subseteq 1..(n + 1)
  OBVIOUS
<1>2. from \in 1..(n + 1)
  <2> HIDE DEF S, n
  <2> QED
    BY <1>1, LeastNatural
<1>3. Split(b).kept = SubSeq(b, from, n) /\ Split(b).evicted = SubSeq(b, 1, from - 1)
  BY DEF Split
<1> HIDE DEF from
<1>4. /\ SubSeq(b, 1, from - 1) \in Seq(TurnIds) /\ Len(SubSeq(b, 1, from - 1)) = from - 1
      /\ \A i \in 1..(from - 1) : SubSeq(b, 1, from - 1)[i] = b[i]
  BY <1>2
<1>5. /\ SubSeq(b, from, n) \in Seq(TurnIds) /\ Len(SubSeq(b, from, n)) = n - (from - 1)
      /\ \A i \in 1..(n - (from - 1)) : SubSeq(b, from, n)[i] = b[(from - 1) + i]
  BY <1>2
<1>6. from - 1 \in 0..n
  BY <1>2
<1> QED
  BY <1>3, <1>4, <1>5, <1>6

\* A split puts nothing in between, and nothing elsewhere.
LEMMA SplitJoins ==
  ASSUME NEW b \in Seq(TurnIds)
  PROVE  Split(b).evicted \o Split(b).kept = b
<1> DEFINE e == Split(b).evicted
           k == Split(b).kept
<1>1. PICK m \in 0..Len(b) :
           /\ e \in Seq(TurnIds) /\ Len(e) = m
           /\ k \in Seq(TurnIds) /\ Len(k) = Len(b) - m
           /\ \A i \in 1..m : e[i] = b[i]
           /\ \A i \in 1..(Len(b) - m) : k[i] = b[m + i]
  BY SplitFacts
<1> HIDE DEF e, k
<1>2. e \o k \in Seq(TurnIds) /\ Len(e \o k) = Len(b) /\ Len(b) \in Nat
  BY <1>1
<1>3. ASSUME NEW i \in 1..Len(b) PROVE (e \o k)[i] = b[i]
  <2>1. CASE i <= m
    BY <1>1, <1>2, <2>1
  <2>2. CASE i > m
    <3>1. i - m \in 1..(Len(b) - m) /\ m + (i - m) = i
      BY <1>1, <1>2, <2>2
    <3>2. (e \o k)[i] = k[i - m]
      BY <1>1, <1>2, <2>2
    <3> QED
      BY <1>1, <3>1, <3>2
  <2> QED
    BY <1>1, <1>2, <2>1, <2>2
<1>4. e \o k = b
  <2>1. PICK s \in Seq(TurnIds) : s = e \o k
    BY <1>2
  <2>2. Len(s) = Len(b) /\ \A i \in 1..Len(b) : s[i] = b[i]
    BY <1>2, <1>3, <2>1
  <2>3. s = b
    BY <2>2
  <2> QED
    BY <2>1, <2>3
<1> QED
  BY <1>4 DEF e, k

\* A property of 0 that passes from each number below n to the next holds up to n.
\* (Stated for sets: the numbers in S.)
LEMMA UpTo ==
  ASSUME NEW n \in Nat, NEW S, 0 \in S, \A m \in 1..n : m - 1 \in S => m \in S
  PROVE  \A m \in 0..n : m \in S
<1> DEFINE Bad == {m \in 0..n : m \notin S}
<1> SUFFICES ASSUME Bad # {} PROVE FALSE
  OBVIOUS
<1>1. PICK m \in Bad : \A x \in Bad : m <= x
  <2>1. Bad \in SUBSET Nat
    OBVIOUS
  <2> HIDE DEF Bad
  <2> QED
    BY <2>1, LeastNatural
<1>2. m \in 1..n /\ m \notin S
  OBVIOUS
<1>3. m - 1 \in S
  <2>1. m - 1 \in 0..n /\ ~(m <= m - 1)
    BY <1>2
  <2> QED
    BY <1>1, <2>1
<1> QED
  BY <1>2, <1>3

\* A running total of n costs.
Totals(n, c, g) == g[0] = 0 /\ \A i \in 1..n : g[i] = g[i - 1] + c[i]

LEMMA TotalsExist ==
  ASSUME NEW n \in Nat, NEW c \in [1..n -> Nat]
  PROVE  \E g \in [0..n -> Nat] : Totals(n, c, g)
<1> DEFINE Good(m) == \E g \in [0..m -> Nat] : Totals(m, c, g)
           Here == {m \in 0..n : Good(m)}
<1>1. 0 \in Here
  <2> DEFINE g == [i \in 0..0 |-> 0]
  <2>1. g \in [0..0 -> Nat] /\ Totals(0, c, g)
    BY DEF Totals
  <2> HIDE DEF g
  <2>2. 0 \in 0..n /\ Good(0)
    BY <2>1
  <2> QED
    BY <2>2
<1>2. ASSUME NEW m \in 1..n, m - 1 \in Here PROVE m \in Here
  <2>1. PICK g \in [0..(m - 1) -> Nat] : Totals(m - 1, c, g)
    BY <1>2
  <2> DEFINE h == [i \in 0..m |-> IF i = m THEN g[m - 1] + c[m] ELSE g[i]]
  <2>2. h \in [0..m -> Nat] /\ h[0] = 0
    BY <2>1 DEF Totals
  <2>3. ASSUME NEW i \in 1..m PROVE h[i] = h[i - 1] + c[i]
    <3>1. CASE i = m
      BY <3>1
    <3>2. CASE i # m
      <4>1. i \in 1..(m - 1) /\ i \in 0..m /\ i - 1 \in 0..m /\ i - 1 # m
        BY <3>2
      <4>2. h[i] = g[i] /\ h[i - 1] = g[i - 1]
        BY <3>2, <4>1
      <4> QED
        BY <2>1, <4>1, <4>2 DEF Totals
    <3> QED
      BY <3>1, <3>2
  <2> HIDE DEF h
  <2>4. Totals(m, c, h)
    BY <2>2, <2>3 DEF Totals
  <2>5. Good(m)
    BY <2>2, <2>4, Zenon
  <2>6. m \in 0..n
    OBVIOUS
  <2> QED
    BY <2>5, <2>6
<1>3. n \in Here
  <2>1. \A m \in 0..n : m \in Here
    <3> HIDE DEF Here
    <3> QED
      BY <1>1, <1>2, UpTo
  <2>2. n \in 0..n
    OBVIOUS
  <2> QED
    BY <2>1, <2>2
<1> QED
  BY <1>3

\* The cost of the newest turns: nothing for none of them, and one turn's more for
\* each.
LEMMA TokensAdd ==
  ASSUME NEW b \in Seq(TurnIds)
  PROVE  /\ Tokens(b, 0) = 0
         /\ \A k \in 1..Len(b) : Tokens(b, k) = Tokens(b, k - 1) + Cost[b[Len(b) - k + 1]]
<1> DEFINE n == Len(b)
           c == [j \in 1..n |-> Cost[b[n - j + 1]]]
           F(g) == [j \in 0..n |-> IF j = 0 THEN 0 ELSE g[j - 1] + Cost[b[n - j + 1]]]
           used == CHOOSE g : g = F(g)
<1>1. n \in Nat /\ c \in [1..n -> Nat]
  <2>1. \A j \in 1..n : n - j + 1 \in 1..n /\ b[n - j + 1] \in TurnIds
    OBVIOUS
  <2> QED
    BY <2>1, WorkingMemoryAssumption
<1>2. PICK g \in [0..n -> Nat] : Totals(n, c, g)
  <2> HIDE DEF n, c
  <2> QED
    BY <1>1, TotalsExist
<1>3. g = F(g)
  <2>1. ASSUME NEW i \in 0..n PROVE g[i] = F(g)[i]
    <3>1. i = 0 \/ i \in 1..n
      BY <1>1
    <3> QED
      BY <1>2, <3>1 DEF Totals
  <2> QED
    BY <1>2, <2>1
<1>4. used = F(used)
  BY <1>3
<1>5. \A k : Tokens(b, k) = used[k]
  BY DEF Tokens
<1> HIDE DEF used
<1>6. used[0] = 0
  BY <1>1, <1>4
<1>7. ASSUME NEW k \in 1..n PROVE used[k] = used[k - 1] + Cost[b[n - k + 1]]
  BY <1>1, <1>4
<1> QED
  BY <1>5, <1>6, <1>7

\* It grows with the number of them.
LEMMA TokensGrow ==
  ASSUME NEW b \in Seq(TurnIds), NEW k \in 0..Len(b)
  PROVE  /\ Tokens(b, k) \in Nat
         /\ \A j \in 0..k : Tokens(b, j) <= Tokens(b, k)
<1> DEFINE Here == {m \in 0..Len(b) : \A j \in 0..m : Tokens(b, j) \in Nat
                                                         /\ Tokens(b, j) <= Tokens(b, m)}
<1>1. 0 \in Here
  BY TokensAdd
<1>2. ASSUME NEW m \in 1..Len(b), m - 1 \in Here PROVE m \in Here
  <2>1. Tokens(b, m) = Tokens(b, m - 1) + Cost[b[Len(b) - m + 1]]
    BY TokensAdd
  <2>2. Cost[b[Len(b) - m + 1]] \in Nat
    <3>1. Len(b) - m + 1 \in 1..Len(b)
      OBVIOUS
    <3>2. b[Len(b) - m + 1] \in TurnIds
      BY <3>1
    <3> QED
      BY <3>2, WorkingMemoryAssumption
  <2>3. /\ Tokens(b, m - 1) \in Nat
        /\ \A j \in 0..(m - 1) : Tokens(b, j) \in Nat /\ Tokens(b, j) <= Tokens(b, m - 1)
    BY <1>2
  <2>4. Tokens(b, m) \in Nat /\ Tokens(b, m - 1) <= Tokens(b, m)
    BY <2>1, <2>2, <2>3
  <2>5. ASSUME NEW j \in 0..m PROVE Tokens(b, j) \in Nat /\ Tokens(b, j) <= Tokens(b, m)
    <3>1. CASE j = m
      BY <2>4, <3>1
    <3>2. CASE j # m
      <4>1. j \in 0..(m - 1)
        BY <3>2
      <4>2. Tokens(b, j) \in Nat /\ Tokens(b, j) <= Tokens(b, m - 1)
        BY <2>3, <4>1
      <4> QED
        BY <2>3, <2>4, <4>2
    <3> QED
      BY <3>1, <3>2
  <2> QED
    BY <2>4, <2>5
<1>3. k \in Here
  <2> HIDE DEF Here
  <2> QED
    BY <1>1, <1>2, UpTo, SMTT(30)
<1>4. k \in 0..k
  <2> HIDE DEF Here
  <2> QED
    OBVIOUS
<1> QED
  BY <1>3, <1>4

\* What a rollover is to keep of a buffer.
KeptLength(b) == Max({1} \cup {k \in 1..Len(b) : Tokens(b, k) <= Budget})

\* A split keeps the most turns that fit, or the newest alone.
LEMMA SplitFits ==
  ASSUME NEW b \in Seq(TurnIds), b # <<>>
  PROVE  Len(Split(b).kept) = KeptLength(b)
<1> DEFINE n == Len(b)
           S == {n + 1} \cup {i \in 1..n : \A j \in i..(n - 1) : Tokens(b, n - j + 1) <= Budget}
           from == Min(S)
           m == n - from + 1
           T == {1} \cup {k \in 1..n : Tokens(b, k) <= Budget}
<1>1. n \in Nat /\ n >= 1 /\ S \in SUBSET Nat /\ S # {} /\ S \subseteq 1..(n + 1)
  OBVIOUS
<1>2. from \in S /\ \A x \in S : from <= x
  <2> HIDE DEF S, n
  <2> QED
    BY <1>1, LeastNatural
<1>3. n \in S
  BY <1>1
<1>4. from \in 1..n
  BY <1>1, <1>2, <1>3
<1> HIDE DEF from
<1>5. Len(Split(b).kept) = m
  <2>1. Split(b).kept = SubSeq(b, from, n)
    BY DEF Split, from
  <2> QED
    BY <1>1, <1>4, <2>1
<1>6. m \in T
  <2>1. CASE from = n
    BY <2>1, <1>4
  <2>2. CASE from # n
    <3>1. from \in from..(n - 1) /\ from # n + 1
      BY <1>1, <1>4, <2>2
    <3>2. Tokens(b, n - from + 1) <= Budget
      BY <1>2, <3>1
    <3>3. m \in 1..n
      BY <1>1, <1>4
    <3> QED
      BY <3>2, <3>3
  <2> QED
    BY <2>1, <2>2
<1>7. ASSUME NEW x \in T PROVE m >= x
  <2>1. CASE x = 1
    BY <1>1, <1>4, <2>1
  <2>2. CASE x \in 1..n /\ Tokens(b, x) <= Budget
    <3> DEFINE i == n - x + 1
    <3>1. i \in 1..n
      BY <1>1, <2>2
    <3>2. ASSUME NEW j \in i..(n - 1) PROVE Tokens(b, n - j + 1) <= Budget
      <4>1. x \in 0..Len(b) /\ n - j + 1 \in 0..x
        BY <1>1, <2>2, <3>1
      <4>2. /\ Tokens(b, n - j + 1) <= Tokens(b, x) /\ Tokens(b, x) \in Nat
            /\ Tokens(b, n - j + 1) \in Nat
        <5>1. n - j + 1 \in 0..Len(b)
          BY <4>1, <1>1
        <5> HIDE DEF n
        <5> QED
          BY <4>1, <5>1, TokensGrow
      <4> QED
        BY <2>2, <4>2, WorkingMemoryAssumption
    <3>3. i \in S
      BY <3>1, <3>2
    <3>4. from <= i
      BY <1>2, <3>3
    <3> QED
      BY <1>1, <1>4, <2>2, <3>1, <3>4
  <2> QED
    BY <2>1, <2>2
<1>8. T \subseteq Nat
  BY <1>1
<1>9. Max(T) = m
  <2> HIDE DEF T, m
  <2>1. \A x \in T : (\A y \in T : x >= y) => x = m
    <3> TAKE x \in T
    <3> HAVE \A y \in T : x >= y
    <3>1. x >= m /\ m >= x /\ x \in Nat /\ m \in Nat
      BY <1>6, <1>7, <1>8
    <3> QED
      BY <3>1
  <2> QED
    BY <1>6, <1>7, <2>1 DEF Max
<1> QED
  BY <1>5, <1>9 DEF KeptLength

\* A split of a buffer that follows its summary.
LEMMA SplitFollows ==
  ASSUME NEW b \in Seq(TurnIds), NEW summary \in SUBSET TurnIds, NEW n \in Nat,
         Follows(summary, b, n)
  PROVE  /\ Split(b).kept \in Seq(TurnIds) /\ Split(b).evicted \in Seq(TurnIds)
         /\ Follows(summary \cup (Elems(Split(b).evicted) \ Textless), Split(b).kept, n)
         /\ Elems(b) = Elems(Split(b).evicted) \cup Elems(Split(b).kept)
<1> DEFINE e == Split(b).evicted
           k == Split(b).kept
<1>1. PICK m \in 0..Len(b) :
           /\ e \in Seq(TurnIds) /\ Len(e) = m
           /\ k \in Seq(TurnIds) /\ Len(k) = Len(b) - m
           /\ \A i \in 1..m : e[i] = b[i]
           /\ \A i \in 1..(Len(b) - m) : k[i] = b[m + i]
  BY SplitFacts
<1>2. /\ DOMAIN e = 1..m /\ DOMAIN k = 1..(Len(b) - m) /\ DOMAIN b = 1..Len(b)
      /\ Len(b) \in Nat /\ m \in Nat /\ m <= Len(b)
  BY <1>1
<1> HIDE DEF e, k
<1>3. \A i \in DOMAIN b : b[i] \in Nat
  BY WorkingMemoryAssumption DEF TurnIds
<1>4. /\ \A i, j \in DOMAIN b : i < j => b[i] < b[j]
      /\ \A t \in summary : \A i \in DOMAIN b : t < b[i]
      /\ \A i \in DOMAIN b : b[i] <= n
      /\ \A t \in summary : t <= n
  BY DEF Follows
<1>halves. /\ \A i \in DOMAIN k : m + i \in DOMAIN b /\ k[i] = b[m + i] /\ i \in Nat /\ i > 0
      /\ \A i \in DOMAIN e : i \in DOMAIN b /\ e[i] = b[i] /\ i \in Nat /\ i <= m
  BY <1>1, <1>2
<1>5. \A i, j \in DOMAIN k : i < j => k[i] < k[j]
  <2> SUFFICES ASSUME NEW i \in DOMAIN k, NEW j \in DOMAIN k, i < j PROVE k[i] < k[j]
    OBVIOUS
  <2>1. m + i < m + j
    BY <1>halves, <1>2
  <2> QED
    BY <1>halves, <1>4, <2>1
<1>6. \A t \in summary \cup Elems(e) : \A i \in DOMAIN k : t < k[i]
  <2> SUFFICES ASSUME NEW i \in DOMAIN k
               PROVE  (\A t \in summary : t < k[i]) /\ \A j \in DOMAIN e : e[j] < k[i]
    BY DEF Elems
  <2>1. \A j \in DOMAIN e : j < m + i
    BY <1>halves, <1>2
  <2> QED
    BY <1>halves, <1>4, <2>1
<1>7. (\A i \in DOMAIN k : k[i] <= n) /\ \A t \in summary \cup Elems(e) : t <= n
  BY <1>halves, <1>4 DEF Elems
<1>8. Follows(summary \cup (Elems(e) \ Textless), k, n)
  BY <1>5, <1>6, <1>7 DEF Follows
<1>9. Elems(b) = Elems(e) \cup Elems(k)
  <2>1. ASSUME NEW i \in DOMAIN b PROVE b[i] \in Elems(e) \cup Elems(k)
    <3>1. CASE i <= m
      BY <1>1, <1>2, <3>1 DEF Elems
    <3>2. CASE i > m
      <4>1. i - m \in 1..(Len(b) - m) /\ m + (i - m) = i
        BY <1>2, <3>2
      <4> QED
        BY <1>1, <1>2, <4>1 DEF Elems
    <3> QED
      BY <1>2, <3>1, <3>2
  <2>2. Elems(e) \cup Elems(k) \subseteq Elems(b)
    <3>1. ASSUME NEW i \in DOMAIN e PROVE e[i] \in Elems(b)
      BY <1>halves DEF Elems
    <3>2. ASSUME NEW i \in DOMAIN k PROVE k[i] \in Elems(b)
      BY <1>halves DEF Elems
    <3> QED
      BY <3>1, <3>2 DEF Elems
  <2> QED
    BY <2>1, <2>2 DEF Elems
<1> QED
  BY <1>1, <1>8, <1>9 DEF e, k

\* Turns that are persisted follow all there are.
LEMMA AppendFollows ==
  ASSUME NEW b \in Seq(TurnIds), NEW summary \in SUBSET TurnIds, NEW n \in Nat, NEW k \in Nat,
         n + k <= MaxTurns, Follows(summary, b, n)
  PROVE  LET batch == [i \in 1..k |-> n + i]
         IN  /\ batch \in Seq(TurnIds) /\ b \o batch \in Seq(TurnIds)
             /\ Elems(batch) = (n + 1)..(n + k)
             /\ Elems(b \o batch) = Elems(b) \cup Elems(batch)
             /\ Follows(summary, b \o batch, n + k)
<1> DEFINE batch == [i \in 1..k |-> n + i]
           c == b \o batch
<1>1. batch \in Seq(TurnIds) /\ Len(batch) = k /\ \A i \in 1..k : batch[i] = n + i
  BY WorkingMemoryAssumption DEF TurnIds
<1> HIDE DEF batch
<1>2. /\ c \in Seq(TurnIds) /\ Len(c) = Len(b) + k /\ Len(b) \in Nat
      /\ \A i \in 1..Len(b) : c[i] = b[i]
      /\ \A i \in 1..k : c[Len(b) + i] = batch[i]
  BY <1>1
<1> HIDE DEF c
<1>3. /\ DOMAIN b = 1..Len(b) /\ DOMAIN c = 1..(Len(b) + k) /\ DOMAIN batch = 1..k
  BY <1>1, <1>2
<1>4. \A i \in DOMAIN c : \/ i \in DOMAIN b /\ c[i] = b[i]
                          \/ i - Len(b) \in 1..k /\ c[i] = n + (i - Len(b))
  <2> SUFFICES ASSUME NEW i \in DOMAIN c, i \notin DOMAIN b
               PROVE  i - Len(b) \in 1..k /\ c[i] = n + (i - Len(b))
    BY <1>2, <1>3
  <2>1. i - Len(b) \in 1..k /\ Len(b) + (i - Len(b)) = i
    BY <1>2, <1>3
  <2> QED
    BY <1>1, <1>2, <2>1
<1>5. Elems(batch) = (n + 1)..(n + k)
  <2>1. ASSUME NEW t \in (n + 1)..(n + k) PROVE t \in Elems(batch)
    <3>1. t - n \in 1..k /\ batch[t - n] = t
      BY <1>1
    <3> QED
      BY <1>3, <3>1 DEF Elems
  <2> QED
    BY <1>1, <1>3, <2>1 DEF Elems
<1>6. Elems(c) = Elems(b) \cup Elems(batch)
  <2>1. Elems(b) \subseteq Elems(c)
    BY <1>2, <1>3 DEF Elems
  <2>2. ASSUME NEW i \in 1..k PROVE batch[i] \in Elems(c)
    <3>1. Len(b) + i \in DOMAIN c
      BY <1>2, <1>3
    <3> QED
      BY <1>2, <3>1 DEF Elems
  <2>3. Elems(c) \subseteq Elems(b) \cup Elems(batch)
    BY <1>1, <1>3, <1>4 DEF Elems
  <2> QED
    BY <1>3, <2>1, <2>2, <2>3 DEF Elems
<1>7. /\ \A i \in DOMAIN b : b[i] \in Nat /\ b[i] <= n
      /\ \A t \in summary : t \in Nat /\ t <= n
      /\ \A i, j \in DOMAIN b : i < j => b[i] < b[j]
      /\ \A t \in summary : \A i \in DOMAIN b : t < b[i]
  BY <1>3, WorkingMemoryAssumption DEF Follows, TurnIds
<1>8. Follows(summary, c, n + k)
  <2>1. \A i, j \in DOMAIN c : i < j => c[i] < c[j]
    <3> SUFFICES ASSUME NEW i \in DOMAIN c, NEW j \in DOMAIN c, i < j PROVE c[i] < c[j]
      OBVIOUS
    <3>1. CASE j \in DOMAIN b
      BY <1>2, <1>3, <1>7, <3>1
    <3>2. CASE j \notin DOMAIN b
      <4>1. j - Len(b) \in 1..k /\ c[j] = n + (j - Len(b))
        BY <1>4, <3>2
      <4>2. CASE i \in DOMAIN b
        BY <1>2, <1>3, <1>7, <4>1, <4>2
      <4>3. CASE i \notin DOMAIN b
        BY <1>2, <1>3, <1>4, <4>1, <4>3
      <4> QED
        BY <4>2, <4>3
    <3> QED
      BY <3>1, <3>2
  <2>2. \A t \in summary : \A i \in DOMAIN c : t < c[i]
    BY <1>4, <1>7
  <2>3. \A i \in DOMAIN c : c[i] <= n + k
    BY <1>4, <1>7
  <2>4. \A t \in summary : t <= n + k
    BY <1>7
  <2> QED
    BY <2>1, <2>2, <2>3, <2>4 DEF Follows
<1> QED
  BY <1>1, <1>2, <1>5, <1>6, <1>8 DEF batch, c

-----------------------------------------------------------------------------
(* Shapes.                                                                 *)

LEMMA StateType ==
  ASSUME NEW b \in Seq(TurnIds), NEW summary \in SUBSET TurnIds
  PROVE  /\ State(b, summary) \in States
         /\ State(b, summary).buffer = b /\ State(b, summary).summary = summary
BY DEF State, States

LEMMA EmptyType ==
  /\ Empty \in States /\ Empty.summary = {} /\ Empty.buffer = <<>>
  /\ \A n : Follows(Empty.summary, Empty.buffer, n)
<1>1. <<>> \in Seq(TurnIds) /\ DOMAIN <<>> = {}
  OBVIOUS
<1>2. Empty \in States /\ Empty.summary = {} /\ Empty.buffer = <<>>
  BY <1>1, StateType DEF Empty
<1> QED
  BY <1>1, <1>2 DEF Follows

LEMMA TaskType ==
  ASSUME NEW stage \in {"none", "queued", "summarizing"}, NEW o \in Sessions \cup {0},
         NEW kept \in Seq(TurnIds), NEW evicted \in Seq(TurnIds), NEW prior \in SUBSET TurnIds
  PROVE  /\ Task(stage, o, kept, evicted, prior) \in Tasks
         /\ Task(stage, o, kept, evicted, prior).stage = stage
         /\ Task(stage, o, kept, evicted, prior).session = o
         /\ Task(stage, o, kept, evicted, prior).kept = kept
         /\ Task(stage, o, kept, evicted, prior).evicted = evicted
         /\ Task(stage, o, kept, evicted, prior).prior = prior
         /\ ~Task(stage, o, kept, evicted, prior).overtaken
BY DEF Task, Tasks

LEMMA IdleTypes ==
  /\ NoTask \in Tasks /\ NoTask.stage = "none" /\ NoTask.session = 0
  /\ Queued \in Tasks /\ Queued.stage = "queued" /\ Queued.session = 0
<1>1. <<>> \in Seq(TurnIds)
  OBVIOUS
<1>2. NoTask \in Tasks /\ NoTask.stage = "none" /\ NoTask.session = 0
  BY <1>1 DEF NoTask, Task, Tasks
<1>3. Queued \in Tasks /\ Queued.stage = "queued" /\ Queued.session = 0
  BY <1>1 DEF Queued, Task, Tasks
<1> QED
  BY <1>2, <1>3

\* All that happens to the rollovers is that r's becomes t.
LEMMA TasksStep ==
  ASSUME MemoryInv, NEW r \in Rollovers, NEW t \in Tasks, task' = [task EXCEPT ![r] = t],
         t.session <= made', made' \in Nat, made <= made'
  PROVE  /\ task' \in [Rollovers -> Tasks] /\ \A q \in Rollovers : task'[q].session <= made'
         /\ task'[r] = t /\ \A q \in Rollovers : q # r => task'[q] = task[q]
<1>1. /\ task' \in [Rollovers -> Tasks]
      /\ task'[r] = t /\ \A q \in Rollovers : q # r => task'[q] = task[q]
  BY DEF MemoryInv, MemoryTypes
<1>2. ASSUME NEW q \in Rollovers, q # r PROVE task'[q].session <= made'
  <2>1. task[q].session \in Nat /\ task[q].session <= made /\ made \in Nat
    BY WorkingMemoryAssumption DEF MemoryInv, MemoryTypes, Tasks, Sessions
  <2> QED
    BY <1>1, <1>2, <2>1
<1> QED
  BY <1>1, <1>2

\* A copy stays what it is while sessions come and go, as long as what has been
\* said in the meantime is exposed.
LEMMA CopyStays ==
  ASSUME MemoryInv, NEW r \in Rollovers, made' \in Nat, made <= made', count' = count,
         said' \subseteq said, exposed \subseteq exposed'
  PROVE  CopyInv(task[r])' \/ task'[r] # task[r]
<1> SUFFICES ASSUME task'[r] = task[r], task[r].stage = "summarizing" PROVE CopyInv(task[r])'
  BY DEF CopyInv
<1>1. task[r].session \in Nat /\ made \in Nat
  BY WorkingMemoryAssumption DEF MemoryInv, MemoryTypes, Tasks, Sessions
<1> DEFINE text == Elems(task[r].evicted) \ Textless
           folded == task[r].prior \cup text
<1>2. /\ task[r].session # 0 /\ task[r].session <= made
      /\ Follows(folded, task[r].kept, count)
      /\ said \ exposed \subseteq folded \cup Elems(task[r].kept)
      /\ task[r].overtaken => text \subseteq exposed
  BY DEF MemoryInv, CopyInv
<1>3. /\ task[r].session <= made'
      /\ said' \ exposed' \subseteq folded \cup Elems(task[r].kept)
      /\ task[r].overtaken => text \subseteq exposed'
  <2> HIDE DEF text
  <2> QED
    BY <1>1, <1>2
<1>4. Follows(folded, task[r].kept, count)'
  BY <1>2 DEF Follows
<1> QED
  BY <1>2, <1>3, <1>4 DEF CopyInv

-----------------------------------------------------------------------------
(* The session store.                                                      *)

LEMMA LookFacts ==
  ASSUME MemoryInv, Look
  PROVE  /\ UNCHANGED <<state, made>> /\ stored' = Found /\ Found \in {0, stored}
         /\ stored' \in 0..made' /\ expired' \in BOOLEAN
         /\ said' \subseteq said /\ said' \subseteq TurnIds \ Textless
         /\ stored' = 0 => said' = {}
<1>1. /\ made \in Nat /\ stored \in 0..made /\ said \subseteq TurnIds \ Textless
      /\ (stored = 0 => said = {})
  BY WorkingMemoryAssumption DEF MemoryInv, MemoryTypes
<1>2. /\ UNCHANGED <<state, made>> /\ stored' = Found /\ expired' = FALSE
      /\ said' = IF expired THEN {} ELSE said
  BY DEF Look
<1>3. expired' \in BOOLEAN
  BY <1>2, Zenon
<1>4. CASE expired
  BY <1>1, <1>2, <1>3, <1>4 DEF Found
<1>5. CASE ~expired
  BY <1>1, <1>2, <1>3, <1>5 DEF Found
<1> QED
  BY <1>4, <1>5

LEMMA LookOrMakeFacts ==
  ASSUME MemoryInv, LookOrMake
  PROVE  /\ state' \in [Sessions -> States]
         /\ made' \in 0..MaxSessions /\ made <= made' /\ stored' \in 1..made'
         /\ expired' \in BOOLEAN
         /\ said' \subseteq said
         /\ \A o \in Sessions : state'[o] \in {state[o], Empty}
         /\ IF Found = 0 THEN said' = {} ELSE stored' = stored /\ state' = state
<1>1. /\ made \in 0..MaxSessions /\ MaxSessions \in Nat /\ stored \in 0..made
      /\ state \in [Sessions -> States] /\ (stored = 0 => said = {})
  BY WorkingMemoryAssumption DEF MemoryInv, MemoryTypes
<1>2. CASE Found = 0
  <2>1. /\ made < MaxSessions /\ made' = made + 1 /\ stored' = made + 1
        /\ state' = [state EXCEPT ![made + 1] = Empty]
        /\ expired' = FALSE
    BY <1>2 DEF LookOrMake
  <2>2. said' = {}
    BY <1>1, <1>2 DEF LookOrMake, Found
  <2>3. state' \in [Sessions -> States] /\ \A o \in Sessions : state'[o] \in {state[o], Empty}
    BY <1>1, <2>1, EmptyType
  <2>4. expired' \in BOOLEAN
    BY <2>1, Zenon
  <2>5. made' \in 0..MaxSessions /\ made <= made' /\ stored' \in 1..made'
    BY <1>1, <2>1
  <2> QED
    BY <1>2, <2>2, <2>3, <2>4, <2>5
<1>3. CASE Found # 0
  <2>1. Found = stored /\ stored # 0 /\ ~expired
    BY <1>3 DEF Found
  <2>2. UNCHANGED <<made, state>> /\ stored' = stored /\ said' = said /\ expired' = FALSE
    BY <1>3, <2>1 DEF LookOrMake
  <2>3. expired' \in BOOLEAN
    BY <2>2, Zenon
  <2> QED
    BY <1>1, <1>3, <2>1, <2>2, <2>3
<1> QED
  BY <1>2, <1>3

\* Whatever only looks at the session, or makes one.
LEMMA LookOrMakeStep ==
  ASSUME MemoryInv, LookOrMake, UNCHANGED <<count, task, exposed>>, running' \in 0..MaxRunning
  PROVE  MemoryInv'
<1>1. /\ state' \in [Sessions -> States]
      /\ made' \in 0..MaxSessions /\ made <= made' /\ stored' \in 1..made'
      /\ expired' \in BOOLEAN /\ said' \subseteq said
      /\ \A o \in Sessions : state'[o] \in {state[o], Empty}
      /\ IF Found = 0 THEN said' = {} ELSE stored' = stored /\ state' = state
  BY LookOrMakeFacts
<1>2. made' \in Nat /\ made \in Nat
  BY <1>1, WorkingMemoryAssumption DEF MemoryInv, MemoryTypes
<1>3. \A r \in Rollovers : task[r].session <= made'
  <2> SUFFICES ASSUME NEW r \in Rollovers PROVE task[r].session <= made'
    OBVIOUS
  <2>1. task[r] \in Tasks /\ task[r].session <= made
    BY DEF MemoryInv, MemoryTypes
  <2>2. task[r].session \in Nat
    BY <2>1, WorkingMemoryAssumption DEF Tasks, Sessions
  <2> QED
    BY <1>1, <1>2, <2>1, <2>2
<1>4. MemoryTypes'
  <2>1. stored' # 0 /\ stored' \in 0..made'
    BY <1>1, <1>2
  <2>2. said' \subseteq TurnIds \ Textless /\ exposed' \subseteq TurnIds
    BY <1>1 DEF MemoryInv, MemoryTypes
  <2>3. count' \in 0..MaxTurns /\ task' \in [Rollovers -> Tasks] /\ running' \in 0..MaxRunning
    BY DEF MemoryInv, MemoryTypes
  <2>4. \A r \in Rollovers : task'[r].session <= made'
    BY <1>3
  <2> QED
    BY <1>1, <2>1, <2>2, <2>3, <2>4 DEF MemoryTypes
<1>5. ASSUME NEW o \in Sessions PROVE Follows(state[o].summary, state[o].buffer, count)'
  BY <1>1, EmptyType DEF MemoryInv, Follows
<1>6. \A r \in Rollovers : CopyInv(task[r])'
  BY <1>1, <1>2, CopyStays
<1>7. QuietTurnsKept'
  BY <1>1, <1>2 DEF MemoryInv, QuietTurnsKept, Content, Found
<1> QED
  BY <1>4, <1>5, <1>6, <1>7 DEF MemoryInv

LEMMA LookStep ==
  ASSUME MemoryInv, Look, UNCHANGED <<running, count, exposed>>,
         task' \in [Rollovers -> Tasks], \A r \in Rollovers : task'[r].session <= made,
         \A r \in Rollovers : task'[r] = task[r] \/ CopyInv(task[r])'
  PROVE  MemoryInv'
<1>1. /\ UNCHANGED <<state, made>> /\ stored' = Found /\ Found \in {0, stored}
      /\ stored' \in 0..made' /\ expired' \in BOOLEAN
      /\ said' \subseteq said /\ said' \subseteq TurnIds \ Textless
      /\ stored' = 0 => said' = {}
  BY LookFacts
<1>2. made \in Nat
  BY WorkingMemoryAssumption DEF MemoryInv, MemoryTypes
<1>3. MemoryTypes'
  BY <1>1 DEF MemoryInv, MemoryTypes
<1>4. \A r \in Rollovers : CopyInv(task[r])'
  BY <1>1, <1>2, CopyStays
<1>5. QuietTurnsKept'
  BY <1>1 DEF MemoryInv, QuietTurnsKept, Content
<1> QED
  BY <1>1, <1>3, <1>4, <1>5 DEF MemoryInv, Follows

-----------------------------------------------------------------------------
(* Rollovers.                                                              *)

LEMMA RolloverStartsStep ==
  ASSUME MemoryInv, NEW r \in Rollovers, RolloverStarts(r) PROVE MemoryInv'
<1>1. /\ UNCHANGED <<state, made>> /\ stored' = Found /\ Found \in {0, stored}
      /\ said' \subseteq said
  BY LookFacts DEF RolloverStarts
<1>2. made \in Nat /\ made' \in Nat /\ made <= made' /\ stored \in 0..made
  BY <1>1, WorkingMemoryAssumption DEF MemoryInv, MemoryTypes
<1>3. PICK t : t = task'[r]
  OBVIOUS
<1>4. task' = [task EXCEPT ![r] = t]
  BY <1>3 DEF RolloverStarts, MemoryInv, MemoryTypes
<1>5. t \in Tasks /\ t.session <= made /\ CopyInv(t)'
  <2>1. CASE t = NoTask
    <3>1. t \in Tasks /\ t.stage = "none" /\ t.session = 0
      BY <2>1, IdleTypes
    <3> QED
      BY <1>2, <3>1 DEF CopyInv
  <2>2. ASSUME Found # 0,
               t = Task("summarizing", Found, Split(state[Found].buffer).kept,
                        Split(state[Found].buffer).evicted, state[Found].summary)
        PROVE  t \in Tasks /\ t.session <= made /\ CopyInv(t)'
    <3> DEFINE b == state[Found].buffer
               summary == state[Found].summary
               folded == summary \cup (Elems(Split(b).evicted) \ Textless)
    <3>1. Found = stored /\ Found \in Sessions /\ Found <= made
      BY <1>1, <1>2, <2>2, WorkingMemoryAssumption DEF Sessions, MemoryInv, MemoryTypes
    <3>2. b \in Seq(TurnIds) /\ summary \in SUBSET TurnIds
      BY <3>1 DEF MemoryInv, MemoryTypes, States
    <3>3. Follows(summary, b, count) /\ count \in Nat
      BY <3>1, WorkingMemoryAssumption DEF MemoryInv, MemoryTypes
    <3>4. /\ Split(b).kept \in Seq(TurnIds) /\ Split(b).evicted \in Seq(TurnIds)
          /\ Follows(folded, Split(b).kept, count)
          /\ Elems(b) = Elems(Split(b).evicted) \cup Elems(Split(b).kept)
      BY <3>2, <3>3, SplitFollows
    <3>5. /\ t \in Tasks /\ t.session = Found /\ t.kept = Split(b).kept
          /\ t.evicted = Split(b).evicted /\ t.prior = summary /\ ~t.overtaken
      BY <2>2, <3>1, <3>2, <3>4, TaskType
    <3>6. said \ exposed \subseteq folded \cup Elems(Split(b).kept)
      BY <2>2, <3>1, <3>4 DEF MemoryInv, MemoryTypes, QuietTurnsKept, Content
    <3>7. count' = count /\ exposed' = exposed
      BY DEF RolloverStarts
    <3> QED
      BY <1>1, <2>2, <3>1, <3>4, <3>5, <3>6, <3>7 DEF CopyInv
  <2> QED
    BY <1>3, <2>1, <2>2 DEF RolloverStarts, MemoryInv, MemoryTypes
<1>6. /\ task' \in [Rollovers -> Tasks] /\ \A q \in Rollovers : task'[q].session <= made'
      /\ task'[r] = t /\ \A q \in Rollovers : q # r => task'[q] = task[q]
  BY <1>1, <1>2, <1>4, <1>5, TasksStep
<1>7. \A q \in Rollovers : task'[q] = task[q] \/ CopyInv(task[q])'
  BY <1>5, <1>6 DEF CopyInv
<1> QED
  BY <1>1, <1>6, <1>7, LookStep DEF RolloverStarts

LEMMA RolloverGivesUpStep ==
  ASSUME MemoryInv, NEW r \in Rollovers, RolloverGivesUp(r) PROVE MemoryInv'
<1>1. /\ UNCHANGED <<state, made, stored, expired, running, count, said, exposed>>
      /\ task' = [task EXCEPT ![r] = NoTask]
  BY DEF RolloverGivesUp
<1>2. made' \in Nat /\ made <= made' /\ 0 <= made'
  BY <1>1, WorkingMemoryAssumption DEF MemoryInv, MemoryTypes
<1>3. PICK t : t = NoTask
  OBVIOUS
<1>4. /\ task' \in [Rollovers -> Tasks] /\ \A q \in Rollovers : task'[q].session <= made'
      /\ task'[r] = NoTask /\ \A q \in Rollovers : q # r => task'[q] = task[q]
  BY <1>1, <1>2, <1>3, IdleTypes, TasksStep
<1>5. \A q \in Rollovers : CopyInv(task[q])'
  <2>1. CopyInv(task[r])'
    BY <1>4, IdleTypes DEF CopyInv
  <2>2. \A q \in Rollovers : q # r => CopyInv(task[q])'
    BY <1>1, <1>2, <1>4, CopyStays
  <2> QED
    BY <2>1, <2>2
<1> QED
  BY <1>1, <1>4, <1>5 DEF MemoryInv, MemoryTypes, Follows, QuietTurnsKept, Content

\* A copy is written, and lacks nothing but what is exposed; what others were to
\* summarize of the session it overwrites is exposed from then on.
LEMMA SavesStep ==
  ASSUME MemoryInv, NEW r \in Rollovers, NEW summary \in SUBSET TurnIds,
         task[r].stage = "summarizing", Saves(r, summary),
         Follows(summary, task[r].kept, count),
         said \ exposed \subseteq summary \cup Elems(task[r].kept)
  PROVE  MemoryInv'
<1> DEFINE s == task[r].session
           new == State(task[r].kept, summary)
           Overtaken == {q \in Summarizing \ {r} : task[q].session = s}
           Text(q) == Elems(task[q].evicted) \ Textless
<1>1. /\ state' = [state EXCEPT ![s] = new] /\ stored' = s /\ expired' = FALSE
      /\ exposed' = exposed \cup UNION {Text(q) : q \in Overtaken}
      /\ task' = [q \in Rollovers |->
                   IF q = r THEN NoTask
                   ELSE [task[q] EXCEPT !.overtaken = @ \/ q \in Overtaken]]
      /\ UNCHANGED <<made, running, count, said>>
  BY DEF Saves
<1>2. task \in [Rollovers -> Tasks] /\ \A q \in Rollovers : task[q].session <= made
  BY DEF MemoryInv, MemoryTypes
<1>3. /\ task[r] \in Tasks /\ s # 0 /\ s \in Sessions /\ task[r].kept \in Seq(TurnIds)
  BY <1>2 DEF MemoryInv, CopyInv, Tasks
<1>4. new \in States /\ new.buffer = task[r].kept /\ new.summary = summary
  BY <1>3, StateType
<1> HIDE DEF new
<1>5. /\ state' \in [Sessions -> States] /\ state'[s] = new
      /\ \A o \in Sessions : o # s => state'[o] = state[o]
  BY <1>1, <1>3, <1>4 DEF MemoryInv, MemoryTypes
<1>6. made' \in Nat /\ 0 <= made' /\ s \in 0..made /\ made \in 0..MaxSessions
  BY <1>1, <1>2, <1>3, WorkingMemoryAssumption DEF MemoryInv, MemoryTypes, Sessions
<1>7. task'[r] = NoTask
  BY <1>1
<1>8. ASSUME NEW q \in Rollovers, q # r
      PROVE  /\ task'[q] \in Tasks
             /\ task'[q].stage = task[q].stage /\ task'[q].session = task[q].session
             /\ task'[q].kept = task[q].kept /\ task'[q].evicted = task[q].evicted
             /\ task'[q].prior = task[q].prior
             /\ task'[q].overtaken <=> task[q].overtaken \/ q \in Overtaken
  <2> DEFINE over == task[q].overtaken \/ q \in Overtaken
  <2>1. task[q] \in Tasks
    BY <1>2
  <2>2. task'[q] = [task[q] EXCEPT !.overtaken = over]
    BY <1>1, <1>8
  <2>3. over \in BOOLEAN
    OBVIOUS
  <2> HIDE DEF over
  <2>4. /\ task'[q] \in Tasks
        /\ task'[q].stage = task[q].stage /\ task'[q].session = task[q].session
        /\ task'[q].kept = task[q].kept /\ task'[q].evicted = task[q].evicted
        /\ task'[q].prior = task[q].prior /\ task'[q].overtaken = over
    BY <2>1, <2>2, <2>3 DEF Tasks
  <2> QED
    BY <2>4 DEF over
<1>9. task' \in [Rollovers -> Tasks]
  <2>1. NoTask \in Tasks
    BY IdleTypes
  <2>2. \A q \in Rollovers : task'[q] \in Tasks
    BY <1>7, <1>8, <2>1
  <2>3. task' = [q \in Rollovers |-> task'[q]]
    BY <1>1, Zenon
  <2> QED
    BY <2>2, <2>3
<1>10. \A q \in Rollovers : task'[q].session <= made'
  BY <1>1, <1>2, <1>6, <1>7, <1>8, IdleTypes
<1>11. expired' \in BOOLEAN
  BY <1>1, Zenon
<1>12. exposed \subseteq exposed' /\ exposed' \subseteq TurnIds
  <2>1. ASSUME NEW q \in Overtaken PROVE Text(q) \subseteq TurnIds
    <3>1. task[q].evicted \in Seq(TurnIds)
      BY <1>2 DEF Summarizing, Tasks
    <3>2. \A i \in DOMAIN task[q].evicted : task[q].evicted[i] \in TurnIds
      BY <3>1
    <3> QED
      BY <3>2 DEF Elems
  <2>2. exposed \subseteq TurnIds
    BY DEF MemoryInv, MemoryTypes
  <2> QED
    BY <1>1, <2>1, <2>2
<1>13. MemoryTypes'
  BY <1>1, <1>3, <1>5, <1>6, <1>9, <1>10, <1>11, <1>12 DEF MemoryInv, MemoryTypes
<1>14. ASSUME NEW o \in Sessions PROVE Follows(state[o].summary, state[o].buffer, count)'
  BY <1>1, <1>4, <1>5 DEF MemoryInv, Follows
<1>15. ASSUME NEW q \in Rollovers PROVE CopyInv(task[q])'
  <2>1. CASE q = r
    BY <1>7, <2>1, IdleTypes DEF CopyInv
  <2>2. CASE q # r /\ task[q].stage = "summarizing"
    <3> DEFINE folded == task[q].prior \cup Text(q)
    <3>1. /\ task[q].session # 0 /\ task[q].session <= made
          /\ Follows(folded, task[q].kept, count)
          /\ said \ exposed \subseteq folded \cup Elems(task[q].kept)
          /\ task[q].overtaken => Text(q) \subseteq exposed
      BY <2>2 DEF MemoryInv, CopyInv
    <3>2. q \in Overtaken => Text(q) \subseteq exposed'
      BY <1>1
    <3>3. task'[q].overtaken => Text(q) \subseteq exposed'
      BY <1>8, <1>12, <2>2, <3>1, <3>2
    <3> HIDE DEF Overtaken
    <3> QED
      BY <1>1, <1>8, <1>12, <2>2, <3>1, <3>3 DEF CopyInv, Follows
  <2>3. CASE q # r /\ task[q].stage # "summarizing"
    BY <1>8, <2>3 DEF CopyInv
  <2> QED
    BY <2>1, <2>2, <2>3
<1>16. QuietTurnsKept'
  BY <1>1, <1>4, <1>5, <1>12 DEF QuietTurnsKept, Content
<1> QED
  BY <1>13, <1>14, <1>15, <1>16 DEF MemoryInv

\* What a rollover is to write, with an answer and without one.
LEMMA CopyFacts ==
  ASSUME MemoryInv, NEW r \in Rollovers, task[r].stage = "summarizing"
  PROVE  /\ Folded(r) \in SUBSET TurnIds /\ task[r].prior \in SUBSET TurnIds
         /\ Follows(Folded(r), task[r].kept, count) /\ Follows(task[r].prior, task[r].kept, count)
         /\ said \ exposed \subseteq Folded(r) \cup Elems(task[r].kept)
         /\ task[r].overtaken =>
              said \ exposed \subseteq task[r].prior \cup Elems(task[r].kept)
<1>1. /\ task[r] \in Tasks
      /\ Follows(Folded(r), task[r].kept, count)
      /\ said \ exposed \subseteq Folded(r) \cup Elems(task[r].kept)
      /\ task[r].overtaken => Elems(task[r].evicted) \ Textless \subseteq exposed
  BY DEF MemoryInv, MemoryTypes, CopyInv, Folded
<1>2. task[r].evicted \in Seq(TurnIds) /\ task[r].prior \in SUBSET TurnIds
  BY <1>1 DEF Tasks
<1>3. Elems(task[r].evicted) \subseteq TurnIds
  <2>1. \A i \in DOMAIN task[r].evicted : task[r].evicted[i] \in TurnIds
    BY <1>2
  <2> QED
    BY <2>1 DEF Elems
<1>4. Follows(task[r].prior, task[r].kept, count)
  BY <1>1 DEF Follows, Folded
<1> QED
  BY <1>1, <1>2, <1>3, <1>4 DEF Folded

LEMMA RolloverWritesStep ==
  ASSUME MemoryInv, NEW r \in Rollovers, RolloverWrites(r) PROVE MemoryInv'
<1>1. PICK summary : summary = Folded(r)
  OBVIOUS
<1>2. task[r].stage = "summarizing" /\ Saves(r, summary)
  BY <1>1 DEF RolloverWrites
<1> QED
  BY <1>1, <1>2, CopyFacts, SavesStep

LEMMA RolloverRevertsStep ==
  ASSUME MemoryInv, NEW r \in Rollovers, RolloverReverts(r) PROVE MemoryInv'
<1>1. PICK summary : summary = task[r].prior
  OBVIOUS
<1>2. task[r].stage = "summarizing" /\ task[r].overtaken /\ Saves(r, summary)
  BY <1>1 DEF RolloverReverts
<1> QED
  BY <1>1, <1>2, CopyFacts, SavesStep

-----------------------------------------------------------------------------
(* Turns.                                                                  *)

LEMMA FollowsLater ==
  ASSUME NEW b \in Seq(TurnIds), NEW summary \in SUBSET TurnIds, NEW n \in Nat, NEW m \in Nat,
         n <= m, Follows(summary, b, n)
  PROVE  Follows(summary, b, m)
<1>1. (\A i \in DOMAIN b : b[i] \in Nat) /\ \A t \in summary : t \in Nat
  BY WorkingMemoryAssumption DEF TurnIds
<1> QED
  BY <1>1 DEF Follows

\* Nothing is persisted unseen: it comes into the buffer, and is exposed where a
\* summarizer is at work.
LEMMA TurnPersistsStep ==
  ASSUME MemoryInv, NEW r \in Rollovers, NEW k \in 1..MaxBatch, TurnPersists(r, k)
  PROVE  MemoryInv'
<1>1. /\ running > 0 /\ running' = running - 1 /\ UNCHANGED <<made, stored>>
      /\ count + k <= MaxTurns /\ task[r].stage = "none"
  BY DEF TurnPersists
<1>2. running' \in 0..MaxRunning /\ count \in Nat /\ k \in Nat /\ MaxTurns \in Nat
      /\ made \in Nat /\ stored \in 0..made
  BY <1>1, WorkingMemoryAssumption DEF MemoryInv, MemoryTypes
<1>3. CASE stored = 0
  <2>1. UNCHANGED <<state, expired, count, task, said, exposed>>
    BY <1>3 DEF TurnPersists
  <2> QED
    BY <1>1, <1>2, <2>1 DEF MemoryInv, MemoryTypes, Follows, CopyInv, QuietTurnsKept, Content
<1>4. CASE stored # 0
  <2> DEFINE batch == [i \in 1..k |-> count + i]
             text == Elems(batch) \ Textless
             old == state[stored]
             new == State(old.buffer \o batch, old.summary)
  <2>1. /\ count' = count + k
        /\ state' = [state EXCEPT ![stored] = new]
        /\ expired' = FALSE
        /\ said' = said \cup text
        /\ exposed' = IF Summarizing = {} THEN exposed ELSE exposed \cup text
        /\ task' = [task EXCEPT ![r] = Queued]
    BY <1>4 DEF TurnPersists
  <2>2. stored \in Sessions
    BY <1>2, <1>4, WorkingMemoryAssumption DEF Sessions, MemoryInv, MemoryTypes
  <2>3. /\ old.buffer \in Seq(TurnIds) /\ old.summary \in SUBSET TurnIds
        /\ Follows(old.summary, old.buffer, count)
    BY <2>2 DEF MemoryInv, MemoryTypes, States
  <2>4. /\ batch \in Seq(TurnIds) /\ old.buffer \o batch \in Seq(TurnIds)
        /\ Elems(batch) = (count + 1)..(count + k)
        /\ Elems(old.buffer \o batch) = Elems(old.buffer) \cup Elems(batch)
        /\ Follows(old.summary, old.buffer \o batch, count + k)
    BY <1>1, <1>2, <2>3, AppendFollows
  <2>5. new \in States /\ new.buffer = old.buffer \o batch /\ new.summary = old.summary
    BY <2>3, <2>4, StateType
  <2>6. text \subseteq TurnIds \ Textless
    <3>1. (count + 1)..(count + k) \subseteq TurnIds
      BY <1>1, <1>2 DEF TurnIds
    <3> HIDE DEF batch
    <3> QED
      BY <2>4, <3>1
  <2> HIDE DEF batch, text, new
  <2>7. /\ state' \in [Sessions -> States] /\ state'[stored] = new
        /\ \A o \in Sessions : o # stored => state'[o] = state[o]
    BY <2>1, <2>2, <2>5 DEF MemoryInv, MemoryTypes
  <2>8. PICK t : t = Queued /\ t \in Tasks /\ t.session = 0
    BY IdleTypes
  <2>9. /\ task' \in [Rollovers -> Tasks] /\ \A q \in Rollovers : task'[q].session <= made'
        /\ task'[r] = Queued /\ \A q \in Rollovers : q # r => task'[q] = task[q]
    <3>1. t.session <= made' /\ made' \in Nat /\ made <= made'
      BY <1>1, <1>2, <2>8
    <3>2. task' = [task EXCEPT ![r] = t]
      BY <2>1, <2>8
    <3>3. /\ task' \in [Rollovers -> Tasks] /\ \A q \in Rollovers : task'[q].session <= made'
          /\ task'[r] = t /\ \A q \in Rollovers : q # r => task'[q] = task[q]
      BY <2>8, <3>1, <3>2, TasksStep
    <3> QED
      BY <2>8, <3>3
  <2>10. expired' \in BOOLEAN
    BY <2>1, Zenon
  <2>11. MemoryTypes'
    <3>1. count' \in 0..MaxTurns /\ made' \in 0..MaxSessions /\ stored' \in 0..made'
      BY <1>1, <1>2, <2>1 DEF MemoryInv, MemoryTypes
    <3>2. said' \subseteq TurnIds \ Textless /\ exposed' \subseteq TurnIds
      BY <2>1, <2>6 DEF MemoryInv, MemoryTypes
    <3> QED
      BY <1>1, <1>2, <1>4, <2>7, <2>9, <2>10, <3>1, <3>2 DEF MemoryTypes
  <2>12. ASSUME NEW o \in Sessions PROVE Follows(state[o].summary, state[o].buffer, count)'
    <3>1. CASE o = stored
      <4>1. Follows(old.summary, new.buffer, count + k)
        BY <2>4, <2>5
      <4> QED
        BY <2>1, <2>5, <2>7, <3>1, <4>1 DEF Follows
    <3>2. CASE o # stored
      <4>1. /\ state[o].buffer \in Seq(TurnIds) /\ state[o].summary \in SUBSET TurnIds
            /\ Follows(state[o].summary, state[o].buffer, count)
        BY DEF MemoryInv, MemoryTypes, States
      <4>2. Follows(state[o].summary, state[o].buffer, count + k)
        BY <1>2, <4>1, FollowsLater
      <4> QED
        BY <2>1, <2>7, <3>2, <4>2 DEF Follows
    <3> QED
      BY <3>1, <3>2
  <2>13. ASSUME NEW q \in Rollovers PROVE CopyInv(task[q])'
    <3>1. CASE q = r
      BY <2>9, <3>1, IdleTypes DEF CopyInv
    <3>2. CASE q # r /\ task[q].stage = "summarizing"
      <4> DEFINE folded == task[q].prior \cup (Elems(task[q].evicted) \ Textless)
      <4>1. task'[q] = task[q] /\ exposed' = exposed \cup text
        BY <2>1, <2>9, <3>2 DEF Summarizing
      <4>2. task[q] \in Tasks /\ task[q].session # 0 /\ task[q].session <= made
            /\ Follows(folded, task[q].kept, count)
            /\ said \ exposed \subseteq folded \cup Elems(task[q].kept)
        BY <3>2 DEF MemoryInv, MemoryTypes, CopyInv
      <4>3. /\ task[q].kept \in Seq(TurnIds) /\ task[q].prior \in SUBSET TurnIds
            /\ task[q].evicted \in Seq(TurnIds)
        BY <4>2 DEF Tasks
      <4>4. folded \in SUBSET TurnIds
        <5>1. \A i \in DOMAIN task[q].evicted : task[q].evicted[i] \in TurnIds
          BY <4>3
        <5> QED
          BY <4>3, <5>1 DEF Elems
      <4>5. Follows(folded, task[q].kept, count + k)
        <5>1. count + k \in Nat /\ count <= count + k /\ Follows(folded, task[q].kept, count)
          BY <1>2, <4>2
        <5> HIDE DEF folded
        <5> QED
          BY <1>2, <4>3, <4>4, <5>1, FollowsLater
      <4>6. said' \ exposed' \subseteq said \ exposed
        BY <2>1, <4>1
      <4>7. said' \ exposed' \subseteq folded \cup Elems(task[q].kept)
        BY <4>2, <4>6
      <4>8. Follows(folded, task[q].kept, count)'
        BY <2>1, <4>1, <4>5 DEF Follows
      <4>9. task[q].overtaken => Elems(task[q].evicted) \ Textless \subseteq exposed'
        <5>1. task[q].overtaken => Elems(task[q].evicted) \ Textless \subseteq exposed
          BY <3>2 DEF MemoryInv, CopyInv
        <5> QED
          BY <4>1, <5>1
      <4> QED
        BY <1>1, <3>2, <4>1, <4>2, <4>7, <4>8, <4>9 DEF CopyInv
    <3>3. CASE q # r /\ task[q].stage # "summarizing"
      BY <2>9, <3>3 DEF CopyInv
    <3> QED
      BY <3>1, <3>2, <3>3
  <2>14. QuietTurnsKept'
    <3>1. Content(stored)' = Content(stored) \cup Elems(batch)
      BY <1>1, <2>4, <2>5, <2>7 DEF Content
    <3>2. said \ exposed \subseteq Content(stored)
      BY <1>4 DEF MemoryInv, QuietTurnsKept
    <3>3. said' \ exposed' \subseteq (said \ exposed) \cup text /\ text \subseteq Elems(batch)
      BY <2>1 DEF text
    <3> QED
      BY <3>1, <3>2, <3>3 DEF QuietTurnsKept
  <2> QED
    BY <2>11, <2>12, <2>13, <2>14 DEF MemoryInv
<1> QED
  BY <1>3, <1>4

-----------------------------------------------------------------------------
(* The theorems.                                                           *)

LEMMA MemoryInvHolds == Spec => []MemoryInv
<1>1. Init => MemoryInv
  <2> SUFFICES ASSUME Init PROVE MemoryInv
    OBVIOUS
  <2>1. expired \in BOOLEAN
    BY Zenon DEF Init
  <2>2. MemoryTypes
    BY <2>1, EmptyType, IdleTypes, WorkingMemoryAssumption DEF Init, MemoryTypes
  <2>3. \A o \in Sessions : Follows(state[o].summary, state[o].buffer, count)
    BY EmptyType DEF Init
  <2>4. \A r \in Rollovers : CopyInv(task[r])
    BY IdleTypes DEF Init, CopyInv
  <2> QED
    BY <2>2, <2>3, <2>4 DEF Init, MemoryInv, QuietTurnsKept
<1>2. MemoryInv /\ [Next]_vars => MemoryInv'
  <2> SUFFICES ASSUME MemoryInv, [Next]_vars PROVE MemoryInv'
    OBVIOUS
  <2>1. running \in 0..MaxRunning /\ MaxRunning \in Nat
    BY WorkingMemoryAssumption DEF MemoryInv, MemoryTypes
  <2>2. CASE UNCHANGED vars
    BY <2>2 DEF vars, MemoryInv, MemoryTypes, Follows, CopyInv, QuietTurnsKept, Content
  <2>3. CASE TurnLoads
    BY <2>1, <2>3, LookOrMakeStep DEF TurnLoads
  <2>4. CASE SetModel
    BY <2>1, <2>4, LookOrMakeStep DEF SetModel
  <2>5. CASE TurnDropped
    BY <2>1, <2>5 DEF TurnDropped, MemoryInv, MemoryTypes, Follows, CopyInv, QuietTurnsKept, Content
  <2>6. CASE Peek
    BY <2>6, LookStep DEF Peek, MemoryInv, MemoryTypes
  <2>7. CASE TtlPasses
    <3>1. expired' \in BOOLEAN
      BY <2>7, Zenon DEF TtlPasses
    <3> QED
      BY <2>7, <3>1 DEF TtlPasses, MemoryInv, MemoryTypes, Follows, CopyInv, QuietTurnsKept, Content
  <2> QED
    BY <2>2, <2>3, <2>4, <2>5, <2>6, <2>7, TurnPersistsStep, RolloverStartsStep,
       RolloverGivesUpStep, RolloverWritesStep, RolloverRevertsStep DEF Next
<1> QED
  BY <1>1, <1>2, PTL DEF Spec

\* The session objects, the store and the rollover tasks keep their shape.
THEOREM MemoryShapes == Spec => []TypeOK
<1>1. MemoryInv => TypeOK
  <2> SUFFICES ASSUME MemoryInv PROVE TypeOK
    OBVIOUS
  <2>1. made \in Nat /\ \A r \in Rollovers : task[r] \in Tasks /\ task[r].session <= made
    BY WorkingMemoryAssumption DEF MemoryInv, MemoryTypes
  <2>2. ASSUME NEW r \in Rollovers
        PROVE  task[r] \in [stage : {"none", "queued", "summarizing"}, session : 0..made,
                            kept : Seq(TurnIds), evicted : Seq(TurnIds),
                            prior : SUBSET TurnIds, overtaken : BOOLEAN]
    <3>1. task[r] \in Tasks /\ task[r].session \in 0..made
      BY <2>1, WorkingMemoryAssumption DEF Tasks, Sessions
    <3> QED
      BY <3>1 DEF Tasks
  <2>3. \A r \in Summarizing : task[r].session # 0
    BY DEF MemoryInv, CopyInv, Summarizing
  <2> QED
    BY <2>2, <2>3 DEF MemoryInv, MemoryTypes, TypeOK, States
<1> QED
  BY <1>1, MemoryInvHolds, PTL

\* maybe_rollover: whatever overlaps, evicts or brings back, the only turns it loses
\* are those persisted while a summarizer was at work, and those a rollover was to
\* summarize when another saved the same session (memory/working.py:105-131, 165-167).
THEOREM QuietTurnsStay == Spec => []QuietTurnsKept
<1>1. MemoryInv => QuietTurnsKept
  BY DEF MemoryInv
<1> QED
  BY <1>1, MemoryInvHolds, PTL

\* The summary covers only turns older than the buffer's, whichever order rollovers
\* finish in.
THEOREM SummaryComesFirst == Spec => []SummaryIsOlder
<1>1. MemoryInv => SummaryIsOlder
  BY DEF MemoryInv, Follows, SummaryIsOlder
<1> QED
  BY <1>1, MemoryInvHolds, PTL

\* What a rollover under way has been left with.
LeavesWhatFits(r) ==
  LET b == task[r].evicted \o task[r].kept
  IN  Len(task[r].kept) = KeptLength(b)

\* A rollover's split is made when it starts, of the buffer it reads, and stays.
LEMMA SplitStays ==
  ASSUME MemoryInv, [Next]_vars, NEW r \in Summarizing'
  PROVE  \/ /\ r \in Summarizing
            /\ task'[r].kept = task[r].kept /\ task'[r].evicted = task[r].evicted
         \/ \E b \in Seq(TurnIds) : /\ b # <<>>
                                  /\ task'[r].kept = Split(b).kept
                                  /\ task'[r].evicted = Split(b).evicted
<1>1. r \in Rollovers /\ task'[r].stage = "summarizing"
  BY DEF Summarizing
<1>2. DOMAIN task = Rollovers
  BY DEF MemoryInv, MemoryTypes
<1>3. CASE task'[r] = task[r]
  BY <1>1, <1>3 DEF Summarizing
<1>4. ASSUME NEW q \in Rollovers, NEW t, task' = [task EXCEPT ![q] = t], t.stage # "summarizing"
      PROVE  task'[r] = task[r]
  BY <1>1, <1>2, <1>4
<1>5. CASE \E q \in Rollovers : RolloverStarts(q)
  <2>1. PICK q \in Rollovers : RolloverStarts(q)
    BY <1>5
  <2>2. CASE q # r
    BY <1>1, <1>3, <2>1, <2>2 DEF RolloverStarts
  <2>3. CASE q = r
    <3> DEFINE b == state[Found].buffer
    <3>1. task'[r] # NoTask
      BY <1>1 DEF NoTask, Task
    <3>2. /\ Found # 0 /\ ~(Elems(Split(b).evicted) \subseteq Textless)
          /\ task'[r] = Task("summarizing", Found, Split(b).kept, Split(b).evicted,
                             state[Found].summary)
      BY <1>1, <1>2, <2>1, <2>3, <3>1 DEF RolloverStarts
    <3>3. Found \in Sessions
      BY <3>2, WorkingMemoryAssumption DEF Found, MemoryInv, MemoryTypes, Sessions
    <3>4. b \in Seq(TurnIds)
      BY <3>3 DEF MemoryInv, MemoryTypes, States
    <3> HIDE DEF b
    <3>5. b # <<>>
      <4> SUFFICES ASSUME b = <<>> PROVE FALSE
        OBVIOUS
      <4>1. PICK m \in 0..Len(b) : Split(b).evicted \in Seq(TurnIds) /\ Len(Split(b).evicted) = m
        BY <3>4, SplitFacts
      <4>2. Len(Split(b).evicted) = 0 /\ DOMAIN Split(b).evicted = {}
        BY <4>1
      <4> QED
        BY <3>2, <4>2 DEF Elems
    <3>6. task'[r].kept = Split(b).kept /\ task'[r].evicted = Split(b).evicted
      BY <3>2 DEF Task
    <3> QED
      BY <3>4, <3>5, <3>6
  <2> QED
    BY <2>2, <2>3
<1>6. NoTask.stage # "summarizing" /\ Queued.stage # "summarizing"
  BY DEF NoTask, Queued, Task
<1>7. ASSUME NEW q \in Rollovers, NEW summary, Saves(q, summary)
      PROVE  /\ task'[r].stage = task[r].stage
             /\ task'[r].kept = task[r].kept /\ task'[r].evicted = task[r].evicted
  <2> DEFINE Overtaken == {p \in Summarizing \ {q} : task[p].session = task[q].session}
             over == task[r].overtaken \/ r \in Overtaken
  <2>1. q # r
    BY <1>1, <1>6, <1>7 DEF Saves
  <2>2. task'[r] = [task[r] EXCEPT !.overtaken = over]
    BY <1>1, <1>7, <2>1 DEF Saves
  <2> HIDE DEF over
  <2> QED
    BY <1>1, <2>2 DEF MemoryInv, MemoryTypes, Tasks
<1>8. CASE \E q \in Rollovers : RolloverWrites(q) \/ RolloverReverts(q)
  BY <1>1, <1>7, <1>8 DEF RolloverWrites, RolloverReverts, Summarizing
<1>9. \/ UNCHANGED task
      \/ \E q \in Rollovers : RolloverStarts(q)
      \/ \E q \in Rollovers : RolloverWrites(q) \/ RolloverReverts(q)
      \/ \E q \in Rollovers, t \in {NoTask, Queued} : task' = [task EXCEPT ![q] = t]
  BY DEF Next, vars, TurnLoads, TurnDropped, SetModel, Peek, TtlPasses, TurnPersists,
         RolloverGivesUp
<1> QED
  BY <1>3, <1>4, <1>5, <1>6, <1>8, <1>9

\* _split_for_rollover: every rollover under way leaves the longest suffix of the buffer
\* it read that fits the budget, or the newest turn alone (memory/working.py:133-144).
THEOREM RolloversKeepWhatFits == Spec => []KeepsWhatFits
<1> DEFINE Left == \A r \in Summarizing : LeavesWhatFits(r)
<1>1. Init => Left
  BY DEF Init, Summarizing, NoTask, Task
<1>2. MemoryInv /\ Left /\ [Next]_vars => Left'
  <2> SUFFICES ASSUME MemoryInv, Left, [Next]_vars, NEW r \in Summarizing'
               PROVE  LeavesWhatFits(r)'
    OBVIOUS
  <2>1. CASE /\ r \in Summarizing
             /\ task'[r].kept = task[r].kept /\ task'[r].evicted = task[r].evicted
    <3>1. \A k : Tokens(task'[r].evicted \o task'[r].kept, k)
                  = Tokens(task[r].evicted \o task[r].kept, k)
      BY <2>1
    <3> QED
      BY <2>1 DEF LeavesWhatFits
  <2>2. CASE \E b \in Seq(TurnIds) : /\ b # <<>>
                                  /\ task'[r].kept = Split(b).kept
                                  /\ task'[r].evicted = Split(b).evicted
    <3>1. PICK b \in Seq(TurnIds) : /\ b # <<>>
                                  /\ task'[r].kept = Split(b).kept
                                  /\ task'[r].evicted = Split(b).evicted
      BY <2>2
    <3>2. task'[r].evicted \o task'[r].kept = b /\ Len(task'[r].kept) = KeptLength(b)
      BY <3>1, SplitJoins, SplitFits
    <3> QED
      BY <3>2 DEF LeavesWhatFits
  <2> QED
    BY <2>1, <2>2, SplitStays
<1>3. Left => KeepsWhatFits
  BY DEF LeavesWhatFits, KeptLength, KeepsWhatFits
<1> QED
  BY <1>1, <1>2, <1>3, MemoryInvHolds, PTL DEF Spec
=============================================================================
