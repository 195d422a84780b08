-------------------------- MODULE TurnHistoryProofs --------------------------
(***************************************************************************)
(* What a turn leaves behind, for every number of turns, conversations,    *)
(* tools, calls and iterations: the model's history, the events its client *)
(* saw, its workers, and what the session store holds of it.               *)
(***************************************************************************)
EXTENDS TurnLoopProofs, WellFoundedInduction

(***************************************************************************)
(* Lemmas about recursive functions and sequences.                         *)
(***************************************************************************)

\* A nonempty set of naturals has a least element.
LEMMA LeastNatural ==
  ASSUME NEW S \in SUBSET Nat, S # {}
  PROVE  \E m \in S : \A x \in S : m <= x
<1>1. \E x \in S : \A y \in S : ~(<<y, x>> \in OpToRel(<, Nat))
  BY NatLessThanWellFounded, WFMin
<1>2. ASSUME NEW x \in Nat, NEW y \in Nat, ~(<<y, x>> \in OpToRel(<, Nat))
      PROVE  x <= y
  BY <1>2 DEF OpToRel
<1> QED
  BY <1>1, <1>2

\* A property of 0 that passes from each number below n to the next holds up to n.
\* (Stated for sets: the numbers in S.)
LEMMA UpTo ==
  ASSUME NEW n \in Nat, NEW S, 0 \in S, \A m \in 1..n : m - 1 \in S => m \in S
  PROVE  \A m \in 0..n : m \in S
<1> DEFINE Bad == {m \in 0..n : m \notin S}
<1> SUFFICES ASSUME Bad # {} PROVE FALSE
  OBVIOUS
<1>1. PICK m \in Bad : \A x \in Bad : m <= x
  <2>1. Bad \in SUBSET Nat
    OBVIOUS
  <2> HIDE DEF Bad
  <2> QED
    BY <2>1, LeastNatural
<1>2. m \in 1..n /\ m \notin S
  OBVIOUS
<1>3. m - 1 \in S
  <2>1. m - 1 \in 0..n /\ ~(m <= m - 1)
    BY <1>2
  <2> QED
    BY <1>1, <2>1
<1> QED
  BY <1>2, <1>3

\* A function on 0..n that starts at b and goes on by D.
Recurses(n, V, b, D) ==
  \E g \in [0..n -> V] : g[0] = b /\ \A i \in 1..n : g[i] = D[i][g[i - 1]]

\* A function on 0..n can be given by its first value and by how each value
\* follows from the one before.
LEMMA RecursionExists ==
  ASSUME NEW n \in Nat, NEW V, NEW b \in V, NEW D \in [1..n -> [V -> V]]
  PROVE  Recurses(n, V, b, D)
<1> DEFINE Good(m) == \E g \in [0..m -> V] :
             g[0] = b /\ \A i \in 1..m : g[i] = D[i][g[i - 1]]
           Here == {m \in 0..n : Good(m)}
<1>1. 0 \in Here
  <2> DEFINE g == [i \in 0..0 |-> b]
  <2>1. g \in [0..0 -> V] /\ g[0] = b /\ \A i \in 1..0 : g[i] = D[i][g[i - 1]]
    OBVIOUS
  <2> HIDE DEF g
  <2>2. 0 \in 0..n /\ Good(0)
    BY <2>1
  <2> QED
    BY <2>2
<1>2. ASSUME NEW m \in 1..n, m - 1 \in Here PROVE m \in Here
  <2>1. PICK g \in [0..(m - 1) -> V] :
          g[0] = b /\ \A i \in 1..(m - 1) : g[i] = D[i][g[i - 1]]
    BY <1>2
  <2> DEFINE h == [i \in 0..m |-> IF i = m THEN D[m][g[m - 1]] ELSE g[i]]
  <2>2. g[m - 1] \in V /\ D[m][g[m - 1]] \in V
    OBVIOUS
  <2>3. h \in [0..m -> V] /\ h[0] = b
    BY <2>1, <2>2
  <2>4. ASSUME NEW i \in 1..m PROVE h[i] = D[i][h[i - 1]]
    <3>1. CASE i = m
      BY <3>1
    <3>2. CASE i # m
      <4>1. i \in 1..(m - 1) /\ i \in 0..m /\ i - 1 \in 0..m /\ i - 1 # m
        BY <3>2
      <4>2. h[i] = g[i] /\ h[i - 1] = g[i - 1]
        BY <3>2, <4>1
      <4> QED
        BY <2>1, <4>1, <4>2
    <3> QED
      BY <3>1, <3>2
  <2> HIDE DEF h
  <2>5. Good(m) /\ m \in 0..n
    BY <2>3, <2>4, SMTT(30)
  <2> QED
    BY <2>5
<1>3. Good(n)
  <2>1. \A m \in 0..n : m \in Here
    <3> HIDE DEF Here
    <3> QED
      BY <1>1, <1>2, UpTo
  <2>2. n \in Here
    BY <2>1
  <2> QED
    BY <2>2
<1> QED
  BY <1>3 DEF Recurses

\* The filter's value on each prefix.
LEMMA OnlySteps ==
  ASSUME NEW T, NEW s \in Seq(T), NEW S
  PROVE  \E g \in [0..Len(s) -> Seq(S)] :
           /\ g[0] = <<>>
           /\ \A n \in 1..Len(s) :
                g[n] = IF s[n] \in S THEN Append(g[n - 1], s[n]) ELSE g[n - 1]
           /\ Only(s, S) = g[Len(s)]
<1> DEFINE N == Len(s)
           V == Seq(S)
           D == [n \in 1..N |-> [v \in V |-> IF s[n] \in S THEN Append(v, s[n]) ELSE v]]
           F(g) == [n \in 0..N |-> IF n = 0 THEN <<>>
                                   ELSE IF s[n] \in S THEN Append(g[n - 1], s[n])
                                   ELSE g[n - 1]]
           only == CHOOSE g : g = F(g)
<1>1. N \in Nat /\ <<>> \in V /\ D \in [1..N -> [V -> V]]
  OBVIOUS
<1>2. PICK g \in [0..N -> V] :
        g[0] = <<>> /\ \A i \in 1..N : g[i] = D[i][g[i - 1]]
  <2>1. Recurses(N, V, <<>>, D)
    <3> HIDE DEF D, N, V
    <3> QED
      BY <1>1, RecursionExists
  <2> QED
    BY <2>1 DEF Recurses
<1>3. g = F(g)
  <2>1. ASSUME NEW i \in 1..N
        PROVE  g[i] = IF s[i] \in S THEN Append(g[i - 1], s[i]) ELSE g[i - 1]
    <3>1. g[i - 1] \in V
      BY <1>1, <1>2, SMTT(30)
    <3>2. D[i][g[i - 1]] = IF s[i] \in S THEN Append(g[i - 1], s[i]) ELSE g[i - 1]
      BY <3>1
    <3> QED
      BY <1>2, <3>2
  <2>2. ASSUME NEW i \in 0..N PROVE g[i] = F(g)[i]
    <3>1. i = 0 \/ i \in 1..N
      BY <1>1
    <3> QED
      BY <1>2, <2>1, <3>1
  <2> QED
    BY <1>2, <2>2
<1>4. only = F(only)
  BY <1>3
<1>5. Only(s, S) = only[N]
  BY DEF Only
<1> HIDE DEF only
<1>6. \A n \in 0..N : only[n] \in V
  <2> DEFINE Typed == {n \in 0..N : only[n] \in V}
  <2>1. 0 \in Typed
    BY <1>4
  <2>2. ASSUME NEW m \in 1..N, m - 1 \in Typed PROVE m \in Typed
    <3>1. only[m] = IF s[m] \in S THEN Append(only[m - 1], s[m]) ELSE only[m - 1]
      <4>1. m \in 0..N /\ m # 0
        BY <1>1
      <4>2. only[m] = F(only)[m]
        BY <1>4
      <4> QED
        BY <4>1, <4>2
    <3>2. s[m] \in S => Append(only[m - 1], s[m]) \in V
      BY <2>2
    <3>3. m \in 0..N /\ only[m] \in V
      BY <2>2, <3>1, <3>2
    <3> QED
      BY <3>3
  <2>3. \A m \in 0..N : m \in Typed
    <3> HIDE DEF Typed
    <3> QED
      BY <1>1, <2>1, <2>2, UpTo
  <2> QED
    BY <2>3
<1>7. only \in [0..N -> V]
  BY <1>4, <1>6
<1>8. only[0] = <<>> /\ \A n \in 1..N :
        only[n] = IF s[n] \in S THEN Append(only[n - 1], s[n]) ELSE only[n - 1]
  <2>1. 0 \in 0..N /\ \A n \in 1..N : n \in 0..N /\ n # 0
    BY <1>1
  <2>2. \A n \in 0..N : only[n] = F(only)[n]
    BY <1>4
  <2> QED
    BY <2>1, <2>2
<1> QED
  BY <1>5, <1>7, <1>8

\* Filtering keeps elements of the filter only.
LEMMA OnlyType ==
  ASSUME NEW T, NEW s \in Seq(T), NEW S
  PROVE  Only(s, S) \in Seq(S)
<1>1. PICK g \in [0..Len(s) -> Seq(S)] : Only(s, S) = g[Len(s)]
  BY OnlySteps
<1> QED
  BY <1>1

\* Nothing of nothing.
LEMMA OnlyEmpty == ASSUME NEW S PROVE Only(<<>>, S) = <<>>
<1> DEFINE e == <<>>
<1>1. e \in Seq(S) /\ Len(e) = 0
  OBVIOUS
<1> HIDE DEF e
<1>2. PICK g \in [0..Len(e) -> Seq(S)] :
        /\ g[0] = <<>>
        /\ \A n \in 1..Len(e) : g[n] = IF e[n] \in S THEN Append(g[n - 1], e[n]) ELSE g[n - 1]
        /\ Only(e, S) = g[Len(e)]
  BY <1>1, OnlySteps
<1>3. Only(e, S) = <<>>
  BY <1>1, <1>2
<1> QED
  BY <1>3 DEF e

\* What one more element adds.
LEMMA OnlyAppend ==
  ASSUME NEW T, NEW s \in Seq(T), NEW e \in T, NEW S
  PROVE  Only(Append(s, e), S) = IF e \in S THEN Append(Only(s, S), e) ELSE Only(s, S)
<1> DEFINE N == Len(s)
           u == Append(s, e)
<1>1. N \in Nat /\ u \in Seq(T) /\ Len(u) = N + 1 /\ u[N + 1] = e
      /\ \A n \in 1..N : u[n] = s[n]
  OBVIOUS
<1> HIDE DEF u
<1>2. PICK g \in [0..N -> Seq(S)] :
        /\ g[0] = <<>>
        /\ \A n \in 1..N : g[n] = IF s[n] \in S THEN Append(g[n - 1], s[n]) ELSE g[n - 1]
        /\ Only(s, S) = g[N]
  BY OnlySteps
<1>3. PICK h \in [0..Len(u) -> Seq(S)] :
        /\ h[0] = <<>>
        /\ \A n \in 1..Len(u) :
             h[n] = IF u[n] \in S THEN Append(h[n - 1], u[n]) ELSE h[n - 1]
        /\ Only(u, S) = h[Len(u)]
  BY <1>1, OnlySteps
<1>4. h[N] = g[N]
  <2> DEFINE Same == {n \in 0..N : h[n] = g[n]}
  <2>1. 0 \in Same
    BY <1>1, <1>2, <1>3
  <2>2. ASSUME NEW m \in 1..N, m - 1 \in Same PROVE m \in Same
    <3>1. m \in 1..Len(u) /\ u[m] = s[m] /\ h[m - 1] = g[m - 1]
      BY <1>1, <2>2
    <3>2. h[m] = g[m]
      BY <1>2, <1>3, <3>1
    <3> QED
      BY <3>2
  <2>3. N \in Same
    <3> HIDE DEF Same
    <3>1. \A m \in 0..N : m \in Same
      BY <1>1, <2>1, <2>2, UpTo
    <3> QED
      BY <1>1, <3>1
  <2> QED
    BY <2>3
<1>5. h[N + 1] = IF e \in S THEN Append(h[N], e) ELSE h[N]
  BY <1>1, <1>3
<1>6. Only(u, S) = h[N + 1]
  BY <1>1, <1>3
<1>7. Only(u, S) = IF e \in S THEN Append(Only(s, S), e) ELSE Only(s, S)
  BY <1>2, <1>4, <1>5, <1>6
<1> QED
  BY <1>7 DEF u

\* A sequence is its first elements and its last one.
LEMMA LastApart ==
  ASSUME NEW T, NEW s \in Seq(T), NEW n \in 1..Len(s)
  PROVE  /\ SubSeq(s, 1, n - 1) \in Seq(T)
         /\ s[n] \in T
         /\ SubSeq(s, 1, n) = Append(SubSeq(s, 1, n - 1), s[n])
<1> DEFINE a == SubSeq(s, 1, n)
           b == SubSeq(s, 1, n - 1)
<1>1. /\ a \in Seq(T) /\ Len(a) = n /\ \A i \in 1..n : a[i] = s[i]
      /\ b \in Seq(T) /\ Len(b) = n - 1 /\ \A i \in 1..(n - 1) : b[i] = s[i]
  OBVIOUS
<1>2. s[n] \in T
  BY ElementOfSeq
<1> HIDE DEF a, b
<1>3. Append(b, s[n]) \in Seq(T) /\ Len(Append(b, s[n])) = n
      /\ \A i \in 1..n : Append(b, s[n])[i] = s[i]
  BY <1>1, <1>2
<1>4. a = Append(b, s[n])
  BY <1>1, <1>3, SeqEqual
<1> QED
  BY <1>1, <1>2, <1>4 DEF a, b

\* Filtering two parts is filtering the whole.
LEMMA OnlyConcat ==
  ASSUME NEW T, NEW s \in Seq(T), NEW u \in Seq(T), NEW S
  PROVE  Only(s \o u, S) = Only(s, S) \o Only(u, S)
<1> DEFINE N == Len(u)
           Pre(n) == SubSeq(u, 1, n)
           Good == {n \in 0..N : Only(s \o Pre(n), S) = Only(s, S) \o Only(Pre(n), S)}
<1>1. N \in Nat /\ Only(s, S) \in Seq(S)
  BY OnlyType
<1>2. Pre(0) = <<>> /\ Pre(N) = u
  OBVIOUS
<1>3. 0 \in Good
  <2>1. s \o <<>> = s /\ Only(s, S) \o <<>> = Only(s, S)
    BY <1>1, ConcatEmptySeq
  <2>2. Only(s \o Pre(0), S) = Only(s, S) \o Only(Pre(0), S)
    BY <1>2, <2>1, OnlyEmpty
  <2> QED
    BY <1>1, <2>2
<1>4. ASSUME NEW m \in 1..N, m - 1 \in Good PROVE m \in Good
  <2> DEFINE v == Pre(m - 1)
             x == u[m]
  <2>1. v \in Seq(T) /\ x \in T /\ Pre(m) = Append(v, x)
    BY LastApart
  <2>2. Only(s \o v, S) = Only(s, S) \o Only(v, S)
    BY <1>4
  <2> HIDE DEF v, x
  <2>3. s \o v \in Seq(T) /\ s \o Append(v, x) = Append(s \o v, x)
    BY <2>1, AppendIsConcat, ConcatAssociative
  <2>4. Only(Append(v, x), S) = IF x \in S THEN Append(Only(v, S), x) ELSE Only(v, S)
    BY <2>1, OnlyAppend
  <2> DEFINE w == s \o v
  <2>5. Only(Append(w, x), S) = IF x \in S THEN Append(Only(w, S), x) ELSE Only(w, S)
    <3>1. w \in Seq(T)
      BY <2>3
    <3> HIDE DEF w
    <3> QED
      BY <2>1, <3>1, OnlyAppend
  <2>6. Only(v, S) \in Seq(S)
    BY <2>1, OnlyType
  <2>7. x \in S => Append(Only(s, S) \o Only(v, S), x) = Only(s, S) \o Append(Only(v, S), x)
    <3> DEFINE a == Only(s, S)
               b == Only(v, S)
    <3>1. a \in Seq(S) /\ b \in Seq(S)
      BY <1>1, <2>6
    <3> HIDE DEF a, b
    <3>2. ASSUME x \in S PROVE Append(a \o b, x) = a \o Append(b, x)
      <4>1. <<x>> \in Seq(S) /\ a \o b \in Seq(S)
        BY <3>1, <3>2
      <4>2. Append(a \o b, x) = (a \o b) \o <<x>> /\ Append(b, x) = b \o <<x>>
        BY <3>1, <3>2, <4>1, AppendIsConcat
      <4>3. (a \o b) \o <<x>> = a \o (b \o <<x>>)
        BY <3>1, <4>1, ConcatAssociative, SMTT(30)
      <4> QED
        BY <4>2, <4>3
    <3> QED
      BY <3>2 DEF a, b
  <2>8. Only(s \o Append(v, x), S) = Only(s, S) \o Only(Append(v, x), S)
    BY <2>2, <2>3, <2>4, <2>5, <2>7
  <2>9. m \in 0..N /\ Only(s \o Pre(m), S) = Only(s, S) \o Only(Pre(m), S)
    <3>1. m \in 0..N
      BY <1>1
    <3> HIDE DEF Pre
    <3> QED
      BY <2>1, <2>8, <3>1
  <2> QED
    BY <2>9
<1>5. N \in Good
  <2> HIDE DEF Good
  <2>1. \A m \in 0..N : m \in Good
    BY <1>1, <1>3, <1>4, UpTo
  <2> QED
    BY <1>1, <2>1
<1> QED
  BY <1>2, <1>5

\* A filter that lets everything pass.
LEMMA OnlyAll ==
  ASSUME NEW S, NEW s \in Seq(S)
  PROVE  Only(s, S) = s
<1> DEFINE N == Len(s)
           Pre(n) == SubSeq(s, 1, n)
           Good == {n \in 0..N : Only(Pre(n), S) = Pre(n)}
<1>1. N \in Nat /\ Pre(0) = <<>> /\ Pre(N) = s
  OBVIOUS
<1>2. 0 \in Good
  <2>1. 0 \in 0..N /\ Only(Pre(0), S) = Pre(0)
    <3>1. Only(<<>>, S) = <<>>
      BY OnlyEmpty
    <3> HIDE DEF Pre
    <3> QED
      BY <1>1, <3>1
  <2> QED
    BY <2>1
<1>3. ASSUME NEW m \in 1..N, m - 1 \in Good PROVE m \in Good
  <2>1. Pre(m - 1) \in Seq(S) /\ s[m] \in S /\ Pre(m) = Append(Pre(m - 1), s[m])
    BY LastApart
  <2>2. Only(Pre(m - 1), S) = Pre(m - 1)
    BY <1>3
  <2>3. Only(Pre(m), S) = Pre(m)
    <3> HIDE DEF Pre
    <3> QED
      BY <2>1, <2>2, OnlyAppend
  <2> QED
    BY <2>3
<1>4. N \in Good
  <2> HIDE DEF Good
  <2>1. \A m \in 0..N : m \in Good
    BY <1>1, <1>2, <1>3, UpTo
  <2> QED
    BY <1>1, <2>1
<1> QED
  BY <1>1, <1>4

\* The concatenation of a sequence of sequences, prefix by prefix.
LEMMA FlattenSteps ==
  ASSUME NEW T, NEW ss \in Seq(Seq(T))
  PROVE  \E g \in [0..Len(ss) -> Seq(T)] :
           /\ g[0] = <<>>
           /\ \A n \in 1..Len(ss) : g[n] = g[n - 1] \o ss[n]
           /\ FlattenSeq(ss) = g[Len(ss)]
<1> DEFINE N == Len(ss)
           V == Seq(T)
           D == [n \in 1..N |-> [v \in V |-> v \o ss[n]]]
           F(f) == [i \in 1..N |-> IF i = 1 THEN ss[i] ELSE f[i - 1] \o ss[i]]
           flatten == CHOOSE f : f = F(f)
<1>1. N \in Nat /\ <<>> \in V /\ D \in [1..N -> [V -> V]] /\ \A n \in 1..N : ss[n] \in V
  OBVIOUS
<1>2. PICK g \in [0..N -> V] :
        g[0] = <<>> /\ \A i \in 1..N : g[i] = D[i][g[i - 1]]
  <2>1. Recurses(N, V, <<>>, D)
    <3> HIDE DEF D, N, V
    <3> QED
      BY <1>1, RecursionExists
  <2> QED
    BY <2>1 DEF Recurses
<1>3. \A i \in 1..N : g[i] = g[i - 1] \o ss[i]
  <2> SUFFICES ASSUME NEW i \in 1..N PROVE g[i] = g[i - 1] \o ss[i]
    OBVIOUS
  <2>1. g[i - 1] \in V
    <3>1. i - 1 \in 0..N
      BY <1>1
    <3> HIDE DEF V, N
    <3> QED
      BY <1>2, <3>1
  <2>2. D[i][g[i - 1]] = g[i - 1] \o ss[i]
    BY <2>1
  <2> QED
    BY <1>2, <2>2
<1>4. FlattenSeq(ss) = g[N]
  <2>1. CASE N = 0
    <3>1. ss = <<>> /\ FlattenSeq(ss) = ss
      BY <2>1 DEF FlattenSeq
    <3> QED
      BY <1>2, <2>1, <3>1
  <2>2. CASE N # 0
    <3> DEFINE f == [i \in 1..N |-> g[i]]
    <3>1. f = F(f)
      <4>1. ASSUME NEW i \in 1..N PROVE f[i] = F(f)[i]
        <5>1. CASE i = 1
          <6>1. g[1] = <<>> \o ss[1]
            <7>1. 1 \in 1..N /\ 1 - 1 = 0
              BY <1>1, <5>1
            <7> HIDE DEF N, V
            <7> QED
              BY <1>2, <1>3, <7>1
          <6>2. <<>> \o ss[1] = ss[1]
            BY <1>1, <5>1, ConcatEmptySeq
          <6> QED
            BY <5>1, <6>1, <6>2
        <5>2. CASE i # 1
          <6>1. i - 1 \in 1..N
            BY <1>1, <5>2
          <6> QED
            BY <1>3, <5>2, <6>1
        <5> QED
          BY <5>1, <5>2
      <4> QED
        BY <4>1
    <3>2. flatten = F(flatten)
      <4> HIDE DEF f
      <4> QED
        BY <3>1
    <3>3. FlattenSeq(ss) = flatten[N]
      BY <2>2 DEF FlattenSeq
    <3> HIDE DEF flatten, f
    <3> DEFINE Same == {n \in 0..N : n = 0 \/ flatten[n] = g[n]}
    <3>4. 0 \in Same
      BY <1>1
    <3>5. ASSUME NEW m \in 1..N, m - 1 \in Same PROVE m \in Same
      <4>1. flatten[m] = IF m = 1 THEN ss[m] ELSE flatten[m - 1] \o ss[m]
        BY <3>2
      <4>2. CASE m = 1
        <5>1. g[1] = <<>> \o ss[1]
          <6>1. 1 \in 1..N /\ 1 - 1 = 0
            BY <1>1, <4>2
          <6> HIDE DEF N, V
          <6> QED
            BY <1>2, <1>3, <6>1
        <5>2. <<>> \o ss[1] = ss[1]
          BY <1>1, <4>2, ConcatEmptySeq
        <5>3. m \in 0..N /\ flatten[m] = g[m]
          BY <4>1, <4>2, <5>1, <5>2
        <5> QED
          BY <5>3
      <4>3. CASE m # 1
        <5>1. m \in 0..N /\ m - 1 # 0 /\ flatten[m - 1] = g[m - 1]
          BY <3>5, <4>3
        <5>2. flatten[m] = g[m]
          BY <1>3, <4>1, <4>3, <5>1
        <5> QED
          BY <5>1, <5>2
      <4> QED
        BY <4>2, <4>3
    <3>6. N \in Same
      <4> HIDE DEF Same
      <4>1. \A m \in 0..N : m \in Same
        BY <1>1, <3>4, <3>5, UpTo
      <4> QED
        BY <1>1, <4>1
    <3> QED
      BY <2>2, <3>3, <3>6
  <2> QED
    BY <2>1, <2>2
<1> HIDE DEF D
<1> QED
  BY <1>2, <1>3, <1>4

(***************************************************************************)
(* Call turns and result turns.                                            *)
(***************************************************************************)

ToolItems(t) == Items(t, {"call", "tool"})

Recordable == [kind : {"result"}, iter : Nat, slot : Nat,
               outcome : {o \in Outcomes : Recorded(o)}]

\* Two runs of paired turns are a run of paired turns.
LEMMA PairedConcat ==
  ASSUME NEW t, NEW I, NEW E, NEW a \in Seq(I), NEW b \in Seq(I),
         NEW d \in Seq(E), NEW e \in Seq(E),
         Paired(t, a, d), Paired(t, b, e)
  PROVE  Paired(t, a \o b, d \o e)
<1> DEFINE A == Len(a)
           B == Len(b)
           Dn == Len(d)
           En == Len(e)
<1>1. /\ A \in Nat /\ B \in Nat /\ Dn \in Nat /\ En \in Nat
      /\ Len(a \o b) = A + B /\ Len(d \o e) = Dn + En
  BY ConcatProperties
<1>2. A = 2 * Dn /\ B = 2 * En
  BY DEF Paired
<1>3. ASSUME NEW p \in 1..A PROVE (a \o b)[p] = a[p]
  BY ConcatProperties
<1>4. ASSUME NEW p \in 1..B PROVE (a \o b)[A + p] = b[p]
  <2>1. A + p \in 1..(A + B) /\ ~(A + p <= A) /\ (A + p) - A = p
    BY <1>1
  <2> QED
    BY <2>1, ConcatProperties
<1>5. ASSUME NEW p \in 1..Dn PROVE (d \o e)[p] = d[p]
  BY ConcatProperties
<1>6. ASSUME NEW p \in 1..En PROVE (d \o e)[Dn + p] = e[p]
  <2>1. Dn + p \in 1..(Dn + En) /\ ~(Dn + p <= Dn) /\ (Dn + p) - Dn = p
    BY <1>1
  <2> QED
    BY <2>1, ConcatProperties
<1>7. /\ \A k \in 1..Dn : /\ a[2 * k - 1] = Item(t, "call", d[k].iter, d[k].slot)
                          /\ a[2 * k] = Item(t, "tool", d[k].iter, d[k].slot)
      /\ \A k \in 1..En : /\ b[2 * k - 1] = Item(t, "call", e[k].iter, e[k].slot)
                          /\ b[2 * k] = Item(t, "tool", e[k].iter, e[k].slot)
  BY DEF Paired
<1> HIDE DEF A, B, Dn, En
<1>8. ASSUME NEW k \in 1..(Dn + En)
      PROVE  /\ (a \o b)[2 * k - 1] = Item(t, "call", (d \o e)[k].iter, (d \o e)[k].slot)
             /\ (a \o b)[2 * k] = Item(t, "tool", (d \o e)[k].iter, (d \o e)[k].slot)
  <2>1. CASE k <= Dn
    <3>1. k \in 1..Dn /\ 2 * k - 1 \in 1..A /\ 2 * k \in 1..A
      BY <1>1, <1>2, <2>1
    <3> QED
      BY <1>3, <1>5, <1>7, <3>1
  <2>2. CASE k > Dn
    <3> DEFINE j == k - Dn
    <3>1. /\ j \in 1..En /\ 2 * j - 1 \in 1..B /\ 2 * j \in 1..B
          /\ k = Dn + j /\ 2 * k - 1 = A + (2 * j - 1) /\ 2 * k = A + 2 * j
      BY <1>1, <1>2, <2>2
    <3> HIDE DEF j
    <3> QED
      BY <1>4, <1>6, <1>7, <3>1, ZenonT(30)
  <2>3. k <= Dn \/ k > Dn
    BY <1>1
  <2> QED
    BY <2>1, <2>2, <2>3
<1>9. Len(a \o b) = 2 * Len(d \o e)
  BY <1>1, <1>2
<1> QED
  BY <1>1, <1>8, <1>9 DEF Paired

\* The turns of one answered call.
TurnsOf(t, r) == <<Item(t, "call", r.iter, r.slot), Item(t, "tool", r.iter, r.slot)>>

\* The turns a batch leaves go with its recorded results.
LEMMA BatchPaired ==
  ASSUME NEW t \in Turns, NEW M, NEW R \in Seq(M), NEW G,
         G = [i \in 1..Len(R) |-> IF R[i] \in Recordable THEN TurnsOf(t, R[i]) ELSE <<>>]
  PROVE  /\ FlattenSeq(G) \in Seq(ToolItems(t))
         /\ Paired(t, FlattenSeq(G), Only(R, Recordable))
<1> DEFINE N == Len(R)
           I == ToolItems(t)
<1>1. ASSUME NEW r \in Recordable
      PROVE  TurnsOf(t, r) \in Seq(I) /\ Paired(t, TurnsOf(t, r), <<r>>)
  <2>1. Item(t, "call", r.iter, r.slot) \in I /\ Item(t, "tool", r.iter, r.slot) \in I
    BY <1>1 DEF Recordable, Item, ToolItems, Items
  <2>2. TurnsOf(t, r) \in Seq(I) /\ Len(TurnsOf(t, r)) = 2
    BY <2>1 DEF TurnsOf
  <2>3. Len(<<r>>) = 1 /\ <<r>>[1] = r
    OBVIOUS
  <2>4. Paired(t, TurnsOf(t, r), <<r>>)
    BY <2>2, <2>3 DEF TurnsOf, Paired
  <2> QED
    BY <2>2, <2>4
<1>2. G \in Seq(Seq(I)) /\ Len(G) = N /\ N \in Nat
  <2>1. ASSUME NEW i \in 1..N PROVE G[i] \in Seq(I)
    <3>1. <<>> \in Seq(I)
      OBVIOUS
    <3>2. G[i] = IF R[i] \in Recordable THEN TurnsOf(t, R[i]) ELSE <<>>
      OBVIOUS
    <3> HIDE DEF I
    <3> QED
      BY <1>1, <3>1, <3>2
  <2>2. G = [i \in 1..N |-> G[i]] /\ N \in Nat
    OBVIOUS
  <2> HIDE DEF I, N
  <2> QED
    BY <2>1, <2>2
<1>3. PICK g \in [0..N -> Seq(I)] :
        /\ g[0] = <<>>
        /\ \A n \in 1..N : g[n] = g[n - 1] \o G[n]
        /\ FlattenSeq(G) = g[N]
  <2> HIDE DEF I, N
  <2> QED
    BY <1>2, FlattenSteps
<1>4. PICK o \in [0..N -> Seq(Recordable)] :
        /\ o[0] = <<>>
        /\ \A n \in 1..N : o[n] = IF R[n] \in Recordable THEN Append(o[n - 1], R[n]) ELSE o[n - 1]
        /\ Only(R, Recordable) = o[N]
  BY OnlySteps, ZenonT(30)
<1> DEFINE Good == {n \in 0..N : Paired(t, g[n], o[n])}
<1>5. 0 \in Good
  BY <1>2, <1>3, <1>4 DEF Paired
<1>6. ASSUME NEW m \in 1..N, m - 1 \in Good PROVE m \in Good
  <2>1. m \in 0..N /\ m - 1 \in 0..N /\ Paired(t, g[m - 1], o[m - 1])
    BY <1>2, <1>6
  <2>2. g[m - 1] \in Seq(I) /\ o[m - 1] \in Seq(Recordable)
    BY <2>1
  <2>3. CASE R[m] \in Recordable
    <3>1. /\ g[m] = g[m - 1] \o TurnsOf(t, R[m])
          /\ o[m] = Append(o[m - 1], R[m])
      BY <1>3, <1>4, <2>3
    <3>2. Append(o[m - 1], R[m]) = o[m - 1] \o <<R[m]>> /\ <<R[m]>> \in Seq(Recordable)
      BY <2>2, <2>3, AppendIsConcat
    <3>3. TurnsOf(t, R[m]) \in Seq(I) /\ Paired(t, TurnsOf(t, R[m]), <<R[m]>>)
      BY <1>1, <2>3
    <3>4. Paired(t, g[m - 1] \o TurnsOf(t, R[m]), o[m - 1] \o <<R[m]>>)
      <4> HIDE DEF I
      <4> QED
        BY <2>1, <2>2, <3>2, <3>3, PairedConcat
    <3> QED
      BY <2>1, <3>1, <3>2, <3>4
  <2>4. CASE R[m] \notin Recordable
    <3>1. G[m] = <<>> /\ o[m] = o[m - 1]
      BY <1>4, <2>4
    <3>2. g[m] = g[m - 1]
      BY <1>3, <2>2, <3>1, ConcatEmptySeq
    <3> QED
      BY <2>1, <3>1, <3>2
  <2> QED
    BY <2>3, <2>4
<1>7. N \in Good
  <2> HIDE DEF Good
  <2>1. \A m \in 0..N : m \in Good
    BY <1>2, <1>5, <1>6, UpTo
  <2> QED
    BY <1>2, <2>1
<1> QED
  BY <1>2, <1>3, <1>4, <1>7

(***************************************************************************)
(* Types of the histories.                                                 *)
(***************************************************************************)

Messages == [kind : {"calls", "result"}, iter : Nat, slot : Nat,
             outcome : Outcomes \cup {"none"}]
TurnItems == [turn : Turns, kind : {"user", "assistant", "call", "tool"},
              iter : Nat, slot : Nat]
ClientEvents == [kind : {"approval", "started", "result", "complete", "failed"},
                 slot : Nat]

\* The model's history, what is to persist, what is stored and what the client
\* saw have the shapes loop.py gives them.
HistoryType ==
  /\ messages \in [Turns -> Seq(Messages)]
  /\ toolTurns \in [Turns -> Seq(TurnItems)]
  /\ todo \in [Turns -> Seq(TurnItems)]
  /\ stored \in [Convs -> Seq(TurnItems)]
  /\ events \in [Turns -> Seq(ClientEvents)]
  /\ \A t \in Turns : Len(calls[t]) \in 0..MaxCalls

\* What _persist appends are turns.
LEMMA PersistItemsType ==
  ASSUME HistoryType, NEW t \in Turns, NEW txt \in BOOLEAN
  PROVE  PersistItems(t, txt) \in Seq(TurnItems)
<1>1. <<Item(t, "user", 0, 0)>> \in Seq(TurnItems)
  BY DEF Item, TurnItems
<1>2. /\ <<Item(t, "assistant", 0, 0)>> \in Seq(TurnItems)
      /\ <<>> \in Seq(TurnItems)
  BY DEF Item, TurnItems
<1>3. toolTurns[t] \in Seq(TurnItems)
  BY DEF HistoryType
<1> QED
  BY <1>1, <1>2, <1>3 DEF PersistItems

\* A longer sequence at one place of a function.
LEMMA AppendAt ==
  ASSUME NEW D, NEW T, NEW f \in [D -> Seq(T)], NEW x \in D, NEW e \in T
  PROVE  [f EXCEPT ![x] = Append(@, e)] \in [D -> Seq(T)]
<1>1. Append(f[x], e) \in Seq(T)
  OBVIOUS
<1> QED
  BY <1>1

\* A concatenation at one place of a function.
LEMMA ConcatAt ==
  ASSUME NEW D, NEW T, NEW f \in [D -> Seq(T)], NEW x \in D, NEW s \in Seq(T)
  PROVE  [f EXCEPT ![x] = @ \o s] \in [D -> Seq(T)]
<1>1. f[x] \o s \in Seq(T)
  OBVIOUS
<1> QED
  BY <1>1

\* A subset's sequences.
LEMMA SeqMonotone ==
  ASSUME NEW S, NEW T, S \subseteq T, NEW s \in Seq(S)
  PROVE  s \in Seq(T)
<1>1. s = [i \in 1..Len(s) |-> s[i]] /\ Len(s) \in Nat
  OBVIOUS
<1>2. \A i \in 1..Len(s) : s[i] \in T
  BY ElementOfSeq
<1> QED
  BY <1>1, <1>2

\* What a finished batch adds to the history and to the turns to persist: the
\* results are messages, the turns are of this turn, and they go together.
LEMMA BatchHistory ==
  ASSUME TypeOK, HistoryType, NEW t \in Turns, Remaining(t) = {}
  PROVE  /\ ResultMessages(t) \in Seq(Messages)
         /\ Len(ResultMessages(t)) = Len(calls[t])
         /\ ResultTurns(t) \in Seq(ToolItems(t))
         /\ Paired(t, ResultTurns(t), Only(ResultMessages(t), Recordable))
<1> DEFINE n == Len(calls[t])
           R == ResultMessages(t)
           G == [i \in 1..n |-> IF R[i] \in Recordable THEN TurnsOf(t, R[i]) ELSE <<>>]
<1>1. n \in Nat
  BY DEF TypeOK, BatchType
<1>2. iter[t] \in Nat
  BY TurnLoopAssumption DEF TypeOK, ControlType
<1>3. ASSUME NEW i \in 1..n
      PROVE  results[t][i].slot \in Nat /\ results[t][i].outcome \in Outcomes
  <2>1. i \in Slots /\ i \in Active(t)
    BY TurnLoopAssumption DEF HistoryType, Slots, Active
  <2>2. results[t][i] \in ResultEntries /\ results[t][i] # Unfilled
    BY <2>1 DEF Remaining, TypeOK, BatchType
  <2>3. results[t][i] \in [kind : {"done"}, slot : Slots, outcome : Outcomes]
    BY <2>2 DEF ResultEntries
  <2> QED
    BY <2>3, TurnLoopAssumption DEF Slots
<1>4. ASSUME NEW i \in 1..n
      PROVE  /\ R[i] = Message(t, "result", results[t][i].slot, results[t][i].outcome)
             /\ R[i] \in Messages
             /\ R[i] \in Recordable <=> Recorded(results[t][i].outcome)
             /\ R[i].iter = iter[t] /\ R[i].slot = results[t][i].slot
  <2>1. R[i] = Message(t, "result", results[t][i].slot, results[t][i].outcome)
    BY DEF ResultMessages
  <2> HIDE DEF R
  <2> QED
    BY <1>2, <1>3, <2>1 DEF Message, Messages, Recordable
<1>5. R = [i \in 1..n |-> R[i]] /\ R \in Seq(Messages) /\ Len(R) = n
  <2>1. R = [i \in 1..n |-> R[i]]
    BY DEF ResultMessages
  <2> HIDE DEF R, n
  <2>2. R \in Seq(Messages)
    BY <1>1, <1>4, <2>1
  <2> QED
    BY <1>1, <2>1, <2>2
<1>6. ResultTurns(t) = FlattenSeq(G)
  <2>1. ASSUME NEW i \in 1..n
        PROVE  G[i] = IF Recorded(results[t][i].outcome)
                        THEN <<Item(t, "call", iter[t], results[t][i].slot),
                               Item(t, "tool", iter[t], results[t][i].slot)>>
                        ELSE <<>>
    <3>1. G[i] = IF R[i] \in Recordable THEN TurnsOf(t, R[i]) ELSE <<>>
      OBVIOUS
    <3> HIDE DEF R, G
    <3> QED
      BY <1>4, <3>1 DEF TurnsOf
  <2>2. G = [i \in 1..n |-> IF Recorded(results[t][i].outcome)
                             THEN <<Item(t, "call", iter[t], results[t][i].slot),
                                    Item(t, "tool", iter[t], results[t][i].slot)>>
                             ELSE <<>>]
    <3>1. G = [i \in 1..n |-> G[i]]
      OBVIOUS
    <3> HIDE DEF G
    <3> QED
      BY <2>1, <3>1
  <2> HIDE DEF G
  <2> QED
    BY <2>2 DEF ResultTurns
<1>7. G = [i \in 1..Len(R) |-> IF R[i] \in Recordable THEN TurnsOf(t, R[i]) ELSE <<>>]
  <2> HIDE DEF R, n
  <2> QED
    BY <1>5
<1> HIDE DEF R, G, n
<1>8. FlattenSeq(G) \in Seq(ToolItems(t)) /\ Paired(t, FlattenSeq(G), Only(R, Recordable))
  BY <1>5, <1>7, BatchPaired
<1> QED
  BY <1>5, <1>6, <1>8 DEF R, n

\* Every step keeps the types of the histories.
LEMMA StepHistoryType == TypeOK /\ HistoryType /\ [Next]_vars => HistoryType'
<1> SUFFICES ASSUME TypeOK /\ HistoryType, [Next]_vars PROVE HistoryType'
  OBVIOUS
<1>1. ASSUME NEW t \in Turns, StartTurn(t) PROVE HistoryType'
  BY <1>1 DEF StartTurn, HistoryType, batchVars, persistVars
<1>2. ASSUME NEW t \in Turns, RejectTurn(t) PROVE HistoryType'
  BY <1>2 DEF RejectTurn, HistoryType, batchVars, persistVars
<1>3. ASSUME NEW t \in Turns, HitIterationCap(t) PROVE HistoryType'
  <2>1. PICK txt \in BOOLEAN : todo' = [todo EXCEPT ![t] = PersistItems(t, txt)]
    BY <1>3 DEF HitIterationCap, BeginPersist, EarlierText
  <2>2. PersistItems(t, txt) \in Seq(TurnItems)
    BY PersistItemsType
  <2>3. UNCHANGED <<messages, toolTurns, stored, events, calls>>
    BY <1>3 DEF HitIterationCap, BeginPersist, batchVars
  <2> QED
    BY <2>1, <2>2, <2>3 DEF HistoryType
<1>4. ASSUME NEW t \in Turns, EndLoop(t) PROVE HistoryType'
  <2>1. PICK txt \in BOOLEAN : todo' = [todo EXCEPT ![t] = PersistItems(t, txt)]
    BY <1>4 DEF EndLoop, BeginPersist, EarlierText
  <2>2. PersistItems(t, txt) \in Seq(TurnItems)
    BY PersistItemsType
  <2>3. UNCHANGED <<messages, toolTurns, stored, events, calls>>
    BY <1>4 DEF EndLoop, BeginPersist, batchVars
  <2> QED
    BY <2>1, <2>2, <2>3 DEF HistoryType
<1>5. ASSUME NEW t \in Turns, ModelFails(t) PROVE HistoryType'
  <2>1. PICK txt \in BOOLEAN : todo' = [todo EXCEPT ![t] = PersistItems(t, txt)]
    BY <1>5 DEF ModelFails, BeginPersist, EarlierText
  <2>2. PersistItems(t, txt) \in Seq(TurnItems)
    BY PersistItemsType
  <2>3. UNCHANGED <<messages, toolTurns, stored, events, calls>>
    BY <1>5 DEF ModelFails, BeginPersist, batchVars
  <2> QED
    BY <2>1, <2>2, <2>3 DEF HistoryType
<1>6. ASSUME NEW t \in Turns, ModelCallsTools(t) PROVE HistoryType'
  <2>1. PICK cs \in Batches : CallTools(t, cs)
    BY <1>6 DEF ModelCallsTools
  <2>2. Len(cs) \in 0..MaxCalls
    BY TurnLoopAssumption DEF Batches, Slots
  <2>3. iter[t] + 1 \in Nat /\ iter'[t] = iter[t] + 1
    BY <2>1, TurnLoopAssumption DEF CallTools, BeginIteration, TypeOK, ControlType
  <2> DEFINE m == [kind |-> "calls", iter |-> iter'[t], slot |-> Len(cs), outcome |-> "none"]
  <2>4. m \in Messages
    BY <2>2, <2>3, TurnLoopAssumption DEF Messages
  <2>5. messages' = [messages EXCEPT ![t] = Append(@, m)]
    BY <2>1 DEF CallTools
  <2> HIDE DEF m
  <2>6. messages' \in [Turns -> Seq(Messages)]
    BY <2>4, <2>5, AppendAt DEF HistoryType
  <2>7. UNCHANGED <<toolTurns, todo, stored>> /\ calls' = [calls EXCEPT ![t] = cs]
        /\ events' = [events EXCEPT ![t] = <<>>]
    BY <2>1 DEF CallTools, SetBatch, persistVars
  <2> QED
    BY <2>2, <2>6, <2>7 DEF HistoryType, TypeOK, BatchType
<1>7. ASSUME NEW t \in Turns, FanIn(t) PROVE HistoryType'
  <2>1. UNCHANGED <<messages, toolTurns, todo, stored, calls>>
    BY <1>7 DEF FanIn, persistVars
  <2>2. queue[t] \in Seq(QueueItems) /\ queue[t] # <<>>
    BY <1>7 DEF FanIn, TypeOK, BatchType
  <2>3. Head(queue[t]) \in QueueItems
    BY <2>2
  <2>4. CASE Head(queue[t]).kind = "done"
    BY <1>7, <2>1, <2>4 DEF FanIn, HistoryType
  <2>5. CASE Head(queue[t]).kind # "done"
    <3>1. Head(queue[t]) \in ClientEvents
      BY <2>3, <2>5, TurnLoopAssumption DEF QueueItems, ClientEvents, Slots
    <3>2. events' = [events EXCEPT ![t] = Append(@, Head(queue[t]))]
      BY <1>7, <2>5 DEF FanIn
    <3>3. events' \in [Turns -> Seq(ClientEvents)]
      BY <3>1, <3>2, AppendAt DEF HistoryType
    <3> QED
      BY <2>1, <3>3 DEF HistoryType
  <2> QED
    BY <2>4, <2>5
<1>8. ASSUME NEW t \in Turns, CollectBatch(t) PROVE HistoryType'
  <2>1. /\ messages' = [messages EXCEPT ![t] = @ \o ResultMessages(t)]
        /\ toolTurns' = [toolTurns EXCEPT ![t] = @ \o ResultTurns(t)]
        /\ calls' = [calls EXCEPT ![t] = <<>>]
        /\ events' = [events EXCEPT ![t] = <<>>]
        /\ UNCHANGED <<todo, stored>>
    BY <1>8 DEF CollectBatch, SetBatch, persistVars
  <2>2. ResultMessages(t) \in Seq(Messages) /\ ResultTurns(t) \in Seq(ToolItems(t))
    BY <1>8, BatchHistory DEF CollectBatch
  <2>3. ToolItems(t) \subseteq TurnItems
    BY DEF ToolItems, Items, TurnItems
  <2>4. ResultTurns(t) \in Seq(TurnItems)
    BY <2>2, <2>3, SeqMonotone
  <2>5. messages' \in [Turns -> Seq(Messages)] /\ toolTurns' \in [Turns -> Seq(TurnItems)]
    BY <2>1, <2>2, <2>4, ConcatAt DEF HistoryType
  <2> QED
    BY <2>1, <2>5, TurnLoopAssumption DEF HistoryType, TypeOK, BatchType
<1>9. ASSUME NEW t \in Turns, AppendTurn(t) PROVE HistoryType'
  <2>1. todo[t] \in Seq(TurnItems) /\ todo[t] # <<>> /\ ConvOf[t] \in Convs
    BY <1>9, TurnLoopAssumption DEF AppendTurn, HistoryType
  <2>2. Head(todo[t]) \in TurnItems /\ Tail(todo[t]) \in Seq(TurnItems)
    BY <2>1
  <2>3. /\ stored' = [stored EXCEPT ![ConvOf[t]] = Append(@, Head(todo[t]))]
        /\ todo' = [todo EXCEPT ![t] = Tail(@)]
        /\ UNCHANGED <<messages, toolTurns, events, calls>>
    BY <1>9 DEF AppendTurn, batchVars
  <2>4. stored' \in [Convs -> Seq(TurnItems)]
    BY <2>1, <2>2, <2>3, AppendAt DEF HistoryType
  <2> QED
    BY <2>2, <2>3, <2>4 DEF HistoryType
<1>10. ASSUME NEW t \in Turns, CompleteTurn(t) PROVE HistoryType'
  <2>1. PICK k \in {"complete", "failed"} : events' = [events EXCEPT ![t] = Append(@, Event(k, 0))]
    BY <1>10 DEF CompleteTurn, Terminate
  <2>2. Event(k, 0) \in ClientEvents
    BY DEF Event, ClientEvents
  <2>3. events' \in [Turns -> Seq(ClientEvents)]
    BY <2>1, <2>2, AppendAt DEF HistoryType
  <2>4. UNCHANGED <<messages, toolTurns, todo, stored, calls>>
    BY <1>10 DEF CompleteTurn, PersistFrame, batchVars
  <2> QED
    BY <2>3, <2>4 DEF HistoryType
<1>11. ASSUME NEW t \in Turns, FailTurn(t) PROVE HistoryType'
  <2>1. PICK k \in {"complete", "failed"} : events' = [events EXCEPT ![t] = Append(@, Event(k, 0))]
    BY <1>11 DEF FailTurn, Terminate
  <2>2. Event(k, 0) \in ClientEvents
    BY DEF Event, ClientEvents
  <2>3. events' \in [Turns -> Seq(ClientEvents)]
    BY <2>1, <2>2, AppendAt DEF HistoryType
  <2>4. UNCHANGED <<messages, toolTurns, todo, stored, calls>>
    BY <1>11 DEF FailTurn, PersistFrame, batchVars
  <2> QED
    BY <2>3, <2>4 DEF HistoryType
<1>12. ASSUME NEW t \in Turns, AppendFails(t) PROVE HistoryType'
  <2>1. UNCHANGED <<messages, toolTurns, stored, calls>>
    BY <1>12 DEF AppendFails, PersistFrame, batchVars
  <2>2. CASE phase[t] = "persist"
    <3>1. UNCHANGED events /\ todo' = [todo EXCEPT ![t] = PersistItems(t, hasText[t])]
      BY <1>12, <2>2 DEF AppendFails
    <3>2. PersistItems(t, hasText[t]) \in Seq(TurnItems)
      BY PersistItemsType DEF TypeOK, ControlType
    <3> QED
      BY <2>1, <3>1, <3>2 DEF HistoryType
  <2>3. CASE phase[t] # "persist"
    <3>1. UNCHANGED todo /\ events' = [events EXCEPT ![t] = Append(@, Event("failed", 0))]
      BY <1>12, <2>3 DEF AppendFails, Terminate
    <3>2. Event("failed", 0) \in ClientEvents
      BY DEF Event, ClientEvents
    <3>3. events' \in [Turns -> Seq(ClientEvents)]
      BY <3>1, <3>2, AppendAt DEF HistoryType
    <3> QED
      BY <2>1, <3>1, <3>3 DEF HistoryType
  <2> QED
    BY <2>2, <2>3
<1>13. ASSUME NEW t \in Turns, CloseTurn(t) PROVE HistoryType'
  BY <1>13 DEF CloseTurn, HistoryType, batchVars, persistVars
<1>14. ASSUME NEW t \in Turns, TurnClosed(t) PROVE HistoryType'
  BY <1>14 DEF TurnClosed, HistoryType, batchVars, persistVars
<1>15. ASSUME NEW t \in Turns, NEW i \in Slots, WorkerBegins(t, i) PROVE HistoryType'
  BY <1>15 DEF WorkerBegins, WorkerFrame, HistoryType, batchVars, persistVars
<1>16. ASSUME NEW t \in Turns, NEW i \in Slots, WorkerApproved(t, i) PROVE HistoryType'
  BY <1>16 DEF WorkerApproved, WorkerFrame, LeaveGate, HistoryType, batchVars, persistVars
<1>17. ASSUME NEW t \in Turns, NEW i \in Slots, WorkerDenied(t, i) PROVE HistoryType'
  BY <1>17 DEF WorkerDenied, WorkerFrame, LeaveGate, HistoryType, batchVars, persistVars
<1>18. ASSUME NEW t \in Turns, NEW i \in Slots, ApprovalTimesOut(t, i) PROVE HistoryType'
  BY <1>18 DEF ApprovalTimesOut, WorkerFrame, LeaveGate, HistoryType, batchVars, persistVars
<1>19. ASSUME NEW t \in Turns, NEW i \in Slots, RegistryRefuses(t, i) PROVE HistoryType'
  BY <1>19 DEF RegistryRefuses, WorkerFrame, HistoryType, batchVars, persistVars
<1>20. ASSUME NEW t \in Turns, NEW i \in Slots, HandlerStarts(t, i) PROVE HistoryType'
  BY <1>20 DEF HandlerStarts, WorkerFrame, HistoryType, batchVars, persistVars
<1>21. ASSUME NEW t \in Turns, NEW i \in Slots, HandlerEnds(t, i) PROVE HistoryType'
  BY <1>21 DEF HandlerEnds, WorkerFrame, HistoryType, batchVars, persistVars
<1>22. ASSUME NEW t \in Turns, NEW i \in Slots, HandlerCancelled(t, i) PROVE HistoryType'
  BY <1>22 DEF HandlerCancelled, WorkerFrame, HistoryType, batchVars, persistVars
<1>23. ASSUME NEW t \in Turns, NEW i \in Slots, CancelWorker(t, i) PROVE HistoryType'
  BY <1>23 DEF CancelWorker, WorkerFrame, LeaveGate, HistoryType, batchVars, persistVars
<1>24. ASSUME NEW id \in CallIds, NEW ans \in BOOLEAN, NEW c \in Answering,
         Resolve(id, ans, c) PROVE HistoryType'
  BY <1>24 DEF Resolve, HistoryType, batchVars, persistVars
<1>25. ASSUME ChangePermissions PROVE HistoryType'
  BY <1>25 DEF ChangePermissions, HistoryType, batchVars, persistVars
<1>26. CASE UNCHANGED vars
  BY <1>26 DEF vars, HistoryType
<1>27. ASSUME NEW t \in Turns, NEW i \in Slots, ApprovalTimerFires(t, i) PROVE HistoryType'
  BY <1>27 DEF ApprovalTimerFires, WorkerFrame, HistoryType, batchVars, persistVars
<1>28. ASSUME NEW t \in Turns, NEW i \in Slots, PermissionRead(t, i) PROVE HistoryType'
  BY <1>28 DEF PermissionRead, WorkerFrame, HistoryType, batchVars, persistVars
<1> QED
  BY <1>1, <1>2, <1>3, <1>4, <1>5, <1>6, <1>7, <1>8, <1>9, <1>10, <1>11, <1>12, <1>13,
     <1>14, <1>15, <1>16, <1>17, <1>18, <1>19, <1>20, <1>21, <1>22, <1>23, <1>24, <1>25,
     <1>26, <1>27, <1>28
  DEF Next, TurnStep, ModelStep, PersistStep, WorkerStep, ClientAnswers, Finished


(***************************************************************************)
(* One step, seen from one turn.                                           *)
(***************************************************************************)

\* The step leaves the turn's own state alone.
Still(u) ==
  /\ phase'[u] = phase[u] /\ iter'[u] = iter[u]
  /\ calls'[u] = calls[u] /\ worker'[u] = worker[u]
  /\ queue'[u] = queue[u] /\ results'[u] = results[u]
  /\ messages'[u] = messages[u] /\ hasText'[u] = hasText[u]
  /\ toolTurns'[u] = toolTurns[u] /\ todo'[u] = todo[u]
  /\ bg'[u] = bg[u] /\ events'[u] = events[u]

\* No step of one turn touches another's own state.
LEMMA OthersStill ==
  ASSUME TypeOK, HistoryType, NEW t \in Turns,
         TurnStep(t) \/ CloseTurn(t) \/ \E i \in Slots : WorkerStep(t, i),
         NEW u \in Turns, u # t
  PROVE  Still(u)
<1> USE DEF Still, TypeOK, ControlType, BatchType, HistoryType
<1>1. ASSUME StartTurn(t) PROVE Still(u)
  BY <1>1 DEF StartTurn, batchVars, persistVars
<1>2. ASSUME RejectTurn(t) PROVE Still(u)
  BY <1>2 DEF RejectTurn, batchVars, persistVars
<1>3. ASSUME HitIterationCap(t) PROVE Still(u)
  BY <1>3 DEF HitIterationCap, BeginPersist, batchVars, persistVars
<1>4. ASSUME EndLoop(t) PROVE Still(u)
  BY <1>4 DEF EndLoop, BeginIteration, BeginPersist, batchVars, persistVars
<1>5. ASSUME ModelFails(t) PROVE Still(u)
  BY <1>5 DEF ModelFails, BeginIteration, BeginPersist, batchVars, persistVars
<1>6. ASSUME ModelCallsTools(t) PROVE Still(u)
  BY <1>6 DEF ModelCallsTools, CallTools, BeginIteration, SetBatch, batchVars, persistVars
<1>7. ASSUME FanIn(t) PROVE Still(u)
  BY <1>7 DEF FanIn, batchVars, persistVars
<1>8. ASSUME CollectBatch(t) PROVE Still(u)
  BY <1>8 DEF CollectBatch, SetBatch, batchVars, persistVars
<1>9. ASSUME AppendTurn(t) PROVE Still(u)
  BY <1>9 DEF AppendTurn, batchVars, persistVars
<1>10. ASSUME CompleteTurn(t) PROVE Still(u)
  BY <1>10 DEF CompleteTurn, Terminate, PersistFrame, batchVars, persistVars
<1>11. ASSUME FailTurn(t) PROVE Still(u)
  BY <1>11 DEF FailTurn, Terminate, PersistFrame, batchVars, persistVars
<1>12. ASSUME AppendFails(t) PROVE Still(u)
  BY <1>12 DEF AppendFails, Terminate, PersistFrame, batchVars, persistVars
<1>13. ASSUME CloseTurn(t) PROVE Still(u)
  BY <1>13 DEF CloseTurn, batchVars, persistVars
<1>14. ASSUME TurnClosed(t) PROVE Still(u)
  BY <1>14 DEF TurnClosed, batchVars, persistVars
<1>15. ASSUME NEW i \in Slots, WorkerBegins(t, i) PROVE Still(u)
  BY <1>15 DEF WorkerBegins, EnterRegistry, WorkerFrame, SetWorker, Emit, batchVars, persistVars
<1>16. ASSUME NEW i \in Slots, WorkerApproved(t, i) PROVE Still(u)
  BY <1>16 DEF WorkerApproved, EnterRegistry, WorkerFrame, SetWorker, Emit, batchVars, persistVars
<1>17. ASSUME NEW i \in Slots, WorkerDenied(t, i) PROVE Still(u)
  <2>1. worker' = [worker EXCEPT ![t][i] = "finished"]
    BY <1>17 DEF WorkerDenied, Finish, SetWorker
  <2>2. queue'[u] = queue[u]
    BY <1>17 DEF WorkerDenied, Finish, Emit
  <2>3. UNCHANGED <<phase, iter, calls, results, messages, hasText, toolTurns, todo, bg, events>>
    BY <1>17 DEF WorkerDenied, WorkerFrame, persistVars
  <2> QED
    BY <2>1, <2>2, <2>3
<1>18. ASSUME NEW i \in Slots, ApprovalTimesOut(t, i) PROVE Still(u)
  <2>1. worker' = [worker EXCEPT ![t][i] = "finished"]
    BY <1>18 DEF ApprovalTimesOut, Finish, SetWorker
  <2>2. queue'[u] = queue[u]
    BY <1>18 DEF ApprovalTimesOut, Finish, Emit
  <2>3. UNCHANGED <<phase, iter, calls, results, messages, hasText, toolTurns, todo, bg, events>>
    BY <1>18 DEF ApprovalTimesOut, WorkerFrame, persistVars
  <2> QED
    BY <2>1, <2>2, <2>3
<1>19. ASSUME NEW i \in Slots, RegistryRefuses(t, i) PROVE Still(u)
  <2>1. worker' = [worker EXCEPT ![t][i] = "finished"]
    BY <1>19 DEF RegistryRefuses, Finish, SetWorker
  <2>2. queue'[u] = queue[u]
    BY <1>19 DEF RegistryRefuses, Finish, Emit
  <2>3. UNCHANGED <<phase, iter, calls, results, messages, hasText, toolTurns, todo, bg, events>>
    BY <1>19 DEF RegistryRefuses, WorkerFrame, persistVars
  <2> QED
    BY <2>1, <2>2, <2>3
<1>20. ASSUME NEW i \in Slots, HandlerStarts(t, i) PROVE Still(u)
  BY <1>20 DEF HandlerStarts, WorkerFrame, SetWorker, batchVars, persistVars
<1>21. ASSUME NEW i \in Slots, HandlerEnds(t, i) PROVE Still(u)
  <2>1. worker' = [worker EXCEPT ![t][i] = "finished"]
    BY <1>21 DEF HandlerEnds, Finish, SetWorker
  <2>2. queue'[u] = queue[u]
    BY <1>21 DEF HandlerEnds, Finish, Emit
  <2>3. UNCHANGED <<phase, iter, calls, results, messages, hasText, toolTurns, todo, bg, events>>
    BY <1>21 DEF HandlerEnds, WorkerFrame, persistVars
  <2> QED
    BY <2>1, <2>2, <2>3
<1>22. ASSUME NEW i \in Slots, HandlerCancelled(t, i) PROVE Still(u)
  BY <1>22 DEF HandlerCancelled, WorkerFrame, SetWorker, batchVars, persistVars
<1>23. ASSUME NEW i \in Slots, CancelWorker(t, i) PROVE Still(u)
  BY <1>23 DEF CancelWorker, WorkerFrame, LeaveGate, SetWorker, batchVars, persistVars
<1>24. ASSUME NEW i \in Slots, ApprovalTimerFires(t, i) PROVE Still(u)
  BY <1>24 DEF ApprovalTimerFires, WorkerFrame, SetWorker, batchVars, persistVars
<1>25. ASSUME NEW i \in Slots, PermissionRead(t, i) PROVE Still(u)
  BY <1>25 DEF PermissionRead, WorkerFrame, SetWorker, batchVars, persistVars
<1> QED
  BY <1>1, <1>2, <1>3, <1>4, <1>5, <1>6, <1>7, <1>8, <1>9, <1>10, <1>11, <1>12, <1>13,
     <1>14, <1>15, <1>16, <1>17, <1>18, <1>19, <1>20, <1>21, <1>22, <1>23, <1>24, <1>25
  DEF TurnStep, ModelStep, PersistStep, WorkerStep

\* A step is one of the turn's own, or leaves its state alone.
LEMMA StepShape ==
  ASSUME TypeOK, HistoryType, [Next]_vars, NEW u \in Turns
  PROVE  \/ TurnStep(u)
         \/ \E i \in Slots : WorkerStep(u, i)
         \/ CloseTurn(u)
         \/ Still(u)
<1>1. ASSUME NEW t \in Turns,
             TurnStep(t) \/ CloseTurn(t) \/ \E i \in Slots : WorkerStep(t, i), u # t
      PROVE  Still(u)
  BY <1>1, OthersStill
<1>2. ASSUME NEW id \in CallIds, NEW ans \in BOOLEAN, NEW c \in Answering,
             Resolve(id, ans, c)
      PROVE  Still(u)
  BY <1>2 DEF Resolve, Still, persistVars
<1>3. ASSUME ChangePermissions PROVE Still(u)
  BY <1>3 DEF ChangePermissions, Still, batchVars, persistVars
<1>4. ASSUME UNCHANGED vars PROVE Still(u)
  BY <1>4 DEF vars, Still
<1> QED
  BY <1>1, <1>2, <1>3, <1>4 DEF Next, ClientAnswers, Finished

\* States of a worker between its gate and its end, and the moves that put
\* nothing on the queue.
InRegistry == {"checking", "admitted", "running"}
QuietArcs == {<<"waiting", "expiring">>, <<"checking", "admitted">>,
              <<"admitted", "running">>}

\* What a worker's step may do: from which state to which, and with which items.
Arc(t, i, s, items) ==
  \/ /\ worker[t][i] = "created" /\ s = "waiting" /\ Name(t, i) \in Gated
     /\ items = <<Event("approval", i)>>
  \/ /\ worker[t][i] = "created" /\ s = "checking" /\ Name(t, i) \notin Gated
     /\ items = <<Event("started", i)>>
  \/ /\ worker[t][i] = "waiting" /\ s = "checking"
     /\ items = <<Event("started", i)>>
  \/ /\ worker[t][i] \in AtGate /\ s = "finished"
     /\ items = <<Event("result", i), Done(i, "refused")>>
  \/ /\ worker[t][i] \in InRegistry /\ s = "finished"
     /\ \E o \in {"answered", "crashed"} : items = <<Event("result", i), Done(i, o)>>
  \/ <<worker[t][i], s>> \in QuietArcs /\ items = <<>>
  \/ /\ worker[t][i] \in Live /\ s = "cancelled" /\ items = <<>>

WorkerMoves(t, i, s, items) ==
  /\ i \in Active(t)
  /\ Arc(t, i, s, items)
  /\ worker' = [worker EXCEPT ![t][i] = s]
  /\ queue' = [queue EXCEPT ![t] = @ \o items]
  /\ UNCHANGED <<phase, iter, calls, results, messages, hasText, toolTurns,
                 todo, stored, bg, events>>

\* Every step of a worker is one of those.
LEMMA WorkerShape ==
  ASSUME TypeOK, NEW t \in Turns, NEW i \in Slots, WorkerStep(t, i)
  PROVE  \E s \in WorkerStates, items \in Seq(QueueItems) : WorkerMoves(t, i, s, items)
<1> DEFINE Goal == \E s \in WorkerStates, items \in Seq(QueueItems) : WorkerMoves(t, i, s, items)
<1>1. /\ \A k \in {"approval", "started", "result"} : <<Event(k, i)>> \in Seq(QueueItems)
      /\ \A o \in Outcomes : <<Event("result", i), Done(i, o)>> \in Seq(QueueItems)
      /\ <<>> \in Seq(QueueItems)
  <2>1. "refused" \in Outcomes
    BY DEF Outcomes
  <2>2. \A k \in {"approval", "started", "result"} : <<Event(k, i)>> \in Seq(QueueItems)
    BY <2>1, ItemTypes
  <2>3. \A o \in Outcomes : <<Event("result", i), Done(i, o)>> \in Seq(QueueItems)
    BY ItemTypes
  <2> QED
    BY <2>2, <2>3
<1>2. /\ "waiting" \in WorkerStates /\ "checking" \in WorkerStates /\ "running" \in WorkerStates
      /\ "finished" \in WorkerStates /\ "cancelled" \in WorkerStates
      /\ "expiring" \in WorkerStates /\ "admitted" \in WorkerStates
  BY DEF WorkerStates
<1>3. ASSUME UNCHANGED queue PROVE queue' = [queue EXCEPT ![t] = @ \o <<>>]
  <2>1. queue[t] \o <<>> = queue[t] /\ queue \in [Turns -> Seq(QueueItems)]
    BY ConcatEmptySeq DEF TypeOK, BatchType
  <2> QED
    BY <1>3, <2>1
<1>4. ASSUME NEW s \in WorkerStates, NEW items \in Seq(QueueItems), WorkerMoves(t, i, s, items)
      PROVE  Goal
  BY <1>4
<1>5. ASSUME WorkerFrame
      PROVE  UNCHANGED <<phase, iter, calls, results, messages, hasText, toolTurns,
                         todo, stored, bg, events>>
  BY <1>5 DEF WorkerFrame, persistVars
<1> HIDE DEF Goal
<1>6. ASSUME WorkerBegins(t, i) PROVE Goal
  <2>1. WorkerIs(t, i, "created") /\ WorkerFrame
    BY <1>6 DEF WorkerBegins
  <2>2. CASE Name(t, i) \in Gated
    <3>1. SetWorker(t, i, "waiting") /\ Emit(t, <<Event("approval", i)>>)
      BY <1>6, <2>2 DEF WorkerBegins
    <3>2. Arc(t, i, "waiting", <<Event("approval", i)>>)
      BY <2>1, <2>2 DEF Arc, WorkerIs
    <3>3. WorkerMoves(t, i, "waiting", <<Event("approval", i)>>)
      BY <1>5, <2>1, <3>1, <3>2 DEF WorkerMoves, SetWorker, Emit, WorkerIs
    <3> QED
      BY <1>1, <1>2, <1>4, <3>3
  <2>3. CASE Name(t, i) \notin Gated
    <3>1. SetWorker(t, i, "checking") /\ Emit(t, <<Event("started", i)>>)
      BY <1>6, <2>3 DEF WorkerBegins, EnterRegistry
    <3>2. Arc(t, i, "checking", <<Event("started", i)>>)
      BY <2>1, <2>3 DEF Arc, WorkerIs
    <3>3. WorkerMoves(t, i, "checking", <<Event("started", i)>>)
      BY <1>5, <2>1, <3>1, <3>2 DEF WorkerMoves, SetWorker, Emit, WorkerIs
    <3> QED
      BY <1>1, <1>2, <1>4, <3>3
  <2> QED
    BY <2>2, <2>3
<1>7. ASSUME WorkerApproved(t, i) PROVE Goal
  <2>1. /\ WorkerIs(t, i, "waiting") /\ WorkerFrame
        /\ SetWorker(t, i, "checking") /\ Emit(t, <<Event("started", i)>>)
    BY <1>7 DEF WorkerApproved, EnterRegistry
  <2>2. Arc(t, i, "checking", <<Event("started", i)>>)
    BY <2>1 DEF Arc, WorkerIs, Live
  <2>3. WorkerMoves(t, i, "checking", <<Event("started", i)>>)
    BY <1>5, <2>1, <2>2 DEF WorkerMoves, SetWorker, Emit, WorkerIs
  <2> QED
    BY <1>1, <1>2, <1>4, <2>3
<1>8. ASSUME WorkerDenied(t, i) PROVE Goal
  <2>1. /\ WorkerIs(t, i, "waiting") /\ WorkerFrame
        /\ SetWorker(t, i, "finished") /\ Emit(t, <<Event("result", i), Done(i, "refused")>>)
    BY <1>8 DEF Finish, WorkerDenied
  <2>2. Arc(t, i, "finished", <<Event("result", i), Done(i, "refused")>>)
    BY <2>1 DEF Arc, AtGate, WorkerIs, Live
  <2>3. WorkerMoves(t, i, "finished", <<Event("result", i), Done(i, "refused")>>)
    BY <1>5, <2>1, <2>2 DEF WorkerMoves, SetWorker, Emit, WorkerIs
  <2> QED
    BY <1>1, <1>2, <1>4, <2>3 DEF Outcomes
<1>9. ASSUME ApprovalTimesOut(t, i) PROVE Goal
  <2>1. /\ WorkerIs(t, i, "expiring") /\ WorkerFrame
        /\ SetWorker(t, i, "finished") /\ Emit(t, <<Event("result", i), Done(i, "refused")>>)
    BY <1>9 DEF Finish, ApprovalTimesOut
  <2>2. Arc(t, i, "finished", <<Event("result", i), Done(i, "refused")>>)
    BY <2>1 DEF Arc, AtGate, WorkerIs, Live
  <2>3. WorkerMoves(t, i, "finished", <<Event("result", i), Done(i, "refused")>>)
    BY <1>5, <2>1, <2>2 DEF WorkerMoves, SetWorker, Emit, WorkerIs
  <2> QED
    BY <1>1, <1>2, <1>4, <2>3 DEF Outcomes
<1>10. ASSUME RegistryRefuses(t, i) PROVE Goal
  <2>1. WorkerIs(t, i, "checking") \/ WorkerIs(t, i, "admitted")
    BY <1>10 DEF RegistryRefuses
  <2>2. PICK o \in {"answered", "crashed"} : Finish(t, i, o)
    BY <1>10 DEF RegistryRefuses
  <2>3. o \in Outcomes
    BY DEF Outcomes
  <2> DEFINE items == <<Event("result", i), Done(i, o)>>
  <2>4. Arc(t, i, "finished", items)
    BY <2>1 DEF Arc, InRegistry, WorkerIs
  <2>5. WorkerFrame
    BY <1>10 DEF RegistryRefuses
  <2>6. WorkerMoves(t, i, "finished", items)
    BY <1>5, <2>1, <2>2, <2>4, <2>5 DEF WorkerMoves, Finish, SetWorker, Emit, WorkerIs
  <2> QED
    BY <1>1, <1>2, <1>4, <2>3, <2>6
<1>11. ASSUME HandlerStarts(t, i) PROVE Goal
  <2>1. /\ WorkerIs(t, i, "admitted") /\ WorkerFrame
        /\ SetWorker(t, i, "running") /\ UNCHANGED queue
    BY <1>11 DEF HandlerStarts
  <2>2. Arc(t, i, "running", <<>>)
    BY <2>1 DEF Arc, QuietArcs, WorkerIs
  <2>3. WorkerMoves(t, i, "running", <<>>)
    BY <1>3, <1>5, <2>1, <2>2 DEF WorkerMoves, SetWorker, WorkerIs
  <2> QED
    BY <1>1, <1>2, <1>4, <2>3
<1>12. ASSUME HandlerEnds(t, i) PROVE Goal
  <2>1. /\ WorkerIs(t, i, "running") /\ WorkerFrame
        /\ SetWorker(t, i, "finished") /\ Emit(t, <<Event("result", i), Done(i, "answered")>>)
    BY <1>12 DEF Finish, HandlerEnds
  <2>2. Arc(t, i, "finished", <<Event("result", i), Done(i, "answered")>>)
    BY <2>1 DEF Arc, InRegistry, WorkerIs
  <2>3. WorkerMoves(t, i, "finished", <<Event("result", i), Done(i, "answered")>>)
    BY <1>5, <2>1, <2>2 DEF WorkerMoves, SetWorker, Emit, WorkerIs
  <2> QED
    BY <1>1, <1>2, <1>4, <2>3 DEF Outcomes
<1>13. ASSUME HandlerCancelled(t, i) PROVE Goal
  <2>1. /\ WorkerIs(t, i, "running") /\ WorkerFrame
        /\ SetWorker(t, i, "cancelled") /\ UNCHANGED queue
    BY <1>13 DEF HandlerCancelled
  <2>2. Arc(t, i, "cancelled", <<>>)
    BY <2>1 DEF Arc, WorkerIs, Live
  <2>3. WorkerMoves(t, i, "cancelled", <<>>)
    BY <1>3, <1>5, <2>1, <2>2 DEF WorkerMoves, SetWorker, WorkerIs
  <2> QED
    BY <1>1, <1>2, <1>4, <2>3
<1>14. ASSUME CancelWorker(t, i) PROVE Goal
  <2>1. /\ i \in Active(t) /\ worker[t][i] \in Live /\ WorkerFrame
        /\ SetWorker(t, i, "cancelled") /\ UNCHANGED queue
    BY <1>14 DEF CancelWorker
  <2>2. Arc(t, i, "cancelled", <<>>)
    BY <2>1 DEF Arc
  <2>3. WorkerMoves(t, i, "cancelled", <<>>)
    BY <1>3, <1>5, <2>1, <2>2 DEF WorkerMoves, SetWorker
  <2> QED
    BY <1>1, <1>2, <1>4, <2>3
<1>15. ASSUME ApprovalTimerFires(t, i) PROVE Goal
  <2>1. /\ WorkerIs(t, i, "waiting") /\ WorkerFrame
        /\ SetWorker(t, i, "expiring") /\ UNCHANGED queue
    BY <1>15 DEF ApprovalTimerFires
  <2>2. Arc(t, i, "expiring", <<>>)
    BY <2>1 DEF Arc, QuietArcs, WorkerIs
  <2>3. WorkerMoves(t, i, "expiring", <<>>)
    BY <1>3, <1>5, <2>1, <2>2 DEF WorkerMoves, SetWorker, WorkerIs
  <2> QED
    BY <1>1, <1>2, <1>4, <2>3
<1>16. ASSUME PermissionRead(t, i) PROVE Goal
  <2>1. /\ WorkerIs(t, i, "checking") /\ WorkerFrame
        /\ SetWorker(t, i, "admitted") /\ UNCHANGED queue
    BY <1>16 DEF PermissionRead
  <2>2. Arc(t, i, "admitted", <<>>)
    BY <2>1 DEF Arc, QuietArcs, WorkerIs
  <2>3. WorkerMoves(t, i, "admitted", <<>>)
    BY <1>3, <1>5, <2>1, <2>2 DEF WorkerMoves, SetWorker, WorkerIs
  <2> QED
    BY <1>1, <1>2, <1>4, <2>3
<1> QED
  BY <1>6, <1>7, <1>8, <1>9, <1>10, <1>11, <1>12, <1>13, <1>14, <1>15, <1>16
  DEF WorkerStep, Goal

\* Phases in which a turn may have a batch.
Batched == {"fanin", "closing", "closed"}

\* A step of the turn outside its fan-in: the batch and the model's history stay,
\* and the only event is the terminal one.
Quiet(t) ==
  /\ calls'[t] = calls[t] /\ worker'[t] = worker[t]
  /\ queue'[t] = queue[t] /\ results'[t] = results[t]
  /\ messages'[t] = messages[t] /\ toolTurns'[t] = toolTurns[t]
  /\ phase[t] \notin Over /\ phase'[t] # "fanin"
  /\ phase'[t] \in {"closing", "closed"} \/ phase[t] \notin Batched
  /\ phase'[t] = "closed" => phase[t] = "closing"
  /\ \/ phase'[t] \notin {"completed", "failed"} /\ events'[t] = events[t]
     \/ /\ phase[t] \in {"persist", "recover"} /\ phase'[t] \in {"completed", "failed"}
        /\ \E k \in {"complete", "failed"} : events'[t] = Append(events[t], Event(k, 0))

\* A turn's own step is quiet, or begins, feeds or ends a batch.
LEMMA TurnShape ==
  ASSUME TypeOK, HistoryType, NEW t \in Turns, TurnStep(t) \/ CloseTurn(t)
  PROVE  Quiet(t) \/ ModelCallsTools(t) \/ FanIn(t) \/ CollectBatch(t)
<1> USE DEF Quiet, Batched, Over, TypeOK, ControlType, BatchType, HistoryType
<1>1. ASSUME StartTurn(t) PROVE Quiet(t)
  BY <1>1 DEF StartTurn, batchVars, persistVars
<1>2. ASSUME RejectTurn(t) PROVE Quiet(t)
  BY <1>2 DEF RejectTurn, batchVars, persistVars
<1>3. ASSUME HitIterationCap(t) PROVE Quiet(t)
  BY <1>3 DEF HitIterationCap, BeginPersist, batchVars, persistVars
<1>4. ASSUME EndLoop(t) PROVE Quiet(t)
  BY <1>4 DEF EndLoop, BeginIteration, BeginPersist, batchVars, persistVars
<1>5. ASSUME ModelFails(t) PROVE Quiet(t)
  BY <1>5 DEF ModelFails, BeginIteration, BeginPersist, batchVars, persistVars
<1>6. ASSUME AppendTurn(t) PROVE Quiet(t)
  BY <1>6 DEF AppendTurn, batchVars, persistVars
<1>7. ASSUME CompleteTurn(t) PROVE Quiet(t)
  BY <1>7 DEF CompleteTurn, Terminate, PersistFrame, batchVars, persistVars
<1>8. ASSUME FailTurn(t) PROVE Quiet(t)
  BY <1>8 DEF FailTurn, Terminate, PersistFrame, batchVars, persistVars
<1>9. ASSUME AppendFails(t) PROVE Quiet(t)
  BY <1>9 DEF AppendFails, Terminate, PersistFrame, batchVars, persistVars
<1>10. ASSUME CloseTurn(t) PROVE Quiet(t)
  BY <1>10 DEF CloseTurn, batchVars, persistVars
<1>11. ASSUME TurnClosed(t) PROVE Quiet(t)
  BY <1>11 DEF TurnClosed, batchVars, persistVars
<1> QED
  BY <1>1, <1>2, <1>3, <1>4, <1>5, <1>6, <1>7, <1>8, <1>9, <1>10, <1>11
  DEF TurnStep, ModelStep, PersistStep

(***************************************************************************)
(* The batch.                                                              *)
(***************************************************************************)

\* There is a batch only between its first task and its last; slots without a
\* call have no worker; a slot of the results is filled, and a sentinel is on
\* the queue, only for a worker that has finished (loop.py:265-308).
BatchOk(t) ==
  /\ phase[t] \notin Batched => calls[t] = <<>> /\ queue[t] = <<>>
  /\ \A i \in Slots \ Active(t) : worker[t][i] = "none"
  /\ \A i \in Slots : results[t][i] # Unfilled =>
       i \in Active(t) /\ results[t][i].slot = i /\ worker[t][i] = "finished"
  /\ \A p \in 1..Len(queue[t]) :
       /\ queue[t][p].slot \in Active(t)
       /\ queue[t][p].kind = "done" => worker[t][queue[t][p].slot] = "finished"

\* Initially there is no batch.
LEMMA BatchInit == Init => \A t \in Turns : BatchOk(t)
BY TurnLoopAssumption DEF Init, BatchOk, Batched, Active, Slots, Unfilled

\* A batch begun or thrown away.
LEMMA SetBatchOk ==
  ASSUME TypeOK, NEW t \in Turns, NEW cs \in Seq([id : CallIds, name : Tools]),
         NEW s \in {"created", "none"}, SetBatch(t, cs, s),
         phase'[t] \in Batched \/ cs = <<>>
  PROVE  BatchOk(t)'
<1>1. /\ calls'[t] = cs /\ queue'[t] = <<>>
      /\ worker'[t] = [i \in Slots |-> IF i <= Len(cs) THEN s ELSE "none"]
      /\ results'[t] = [i \in Slots |-> Unfilled]
  BY DEF SetBatch, TypeOK, BatchType
<1>2. Active(t)' = {i \in Slots : i <= Len(cs)}
  BY <1>1 DEF Active
<1> QED
  BY <1>1, <1>2 DEF BatchOk

\* The calls a model may make form a sequence.
LEMMA BatchesType ==
  ASSUME NEW cs \in Batches
  PROVE  cs \in Seq([id : CallIds, name : Tools]) /\ Len(cs) \in Slots
<1> DEFINE Call == [id : CallIds, name : Tools]
<1>1. PICK n \in Slots : cs \in [1..n -> Call]
  BY DEF Batches
<1>2. n \in Nat
  BY TurnLoopAssumption DEF Slots
<1>3. cs \in UNION {[1..m -> Call] : m \in Nat}
  BY <1>1, <1>2
<1>4. Seq(Call) = UNION {[1..m -> Call] : m \in Nat}
  BY SeqDef
<1>5. Len(cs) = n
  BY <1>1, <1>2
<1> QED
  BY <1>1, <1>3, <1>4, <1>5

\* The fan-in takes the first item of the queue.
LEMMA HeadTail ==
  ASSUME NEW T, NEW s \in Seq(T), s # <<>>
  PROVE  /\ 1 \in 1..Len(s) /\ Head(s) = s[1] /\ Head(s) \in T
         /\ Tail(s) \in Seq(T) /\ Len(Tail(s)) = Len(s) - 1
         /\ \A p \in 1..(Len(s) - 1) : p + 1 \in 1..Len(s) /\ Tail(s)[p] = s[p + 1]
OBVIOUS

\* The batch after an item went to the client or into its slot.
LEMMA BatchFanIn ==
  ASSUME TypeOK, NEW t \in Turns, BatchOk(t), FanIn(t)
  PROVE  BatchOk(t)'
<1> DEFINE q == queue[t]
           item == Head(q)
<1>1. q \in Seq(QueueItems) /\ q # <<>> /\ phase[t] = "fanin"
  BY DEF FanIn, TypeOK, BatchType
<1>2. /\ 1 \in 1..Len(q) /\ item = q[1] /\ item \in QueueItems
      /\ Tail(q) \in Seq(QueueItems) /\ Len(Tail(q)) = Len(q) - 1
      /\ \A p \in 1..(Len(q) - 1) : p + 1 \in 1..Len(q) /\ Tail(q)[p] = q[p + 1]
  BY <1>1, HeadTail
<1>3. queue'[t] = Tail(q) /\ UNCHANGED <<phase, calls, worker>>
  BY DEF FanIn, TypeOK, BatchType
<1>4. \A p \in 1..Len(q) : /\ q[p].slot \in Active(t)
                           /\ q[p].kind = "done" => worker[t][q[p].slot] = "finished"
  BY DEF BatchOk
<1>5. \/ item.kind = "done" /\ results' = [results EXCEPT ![t][item.slot] = item]
      \/ results' = results
  BY DEF FanIn
<1>6. Active(t)' = Active(t)
  BY <1>3 DEF Active
<1> HIDE DEF item, q
<1>7. ASSUME NEW i \in Slots, results'[t][i] # Unfilled
      PROVE  i \in Active(t) /\ results'[t][i].slot = i /\ worker[t][i] = "finished"
  <2>1. CASE results'[t][i] = results[t][i]
    BY <1>7, <2>1 DEF BatchOk
  <2>2. CASE results'[t][i] # results[t][i]
    <3>1. item.kind = "done" /\ i = item.slot /\ results'[t][i] = item
      BY <1>5, <2>2 DEF TypeOK, BatchType
    <3> QED
      BY <1>2, <1>4, <3>1
  <2> QED
    BY <2>1, <2>2
<1>8. ASSUME NEW p \in 1..Len(queue'[t])
      PROVE  /\ queue'[t][p].slot \in Active(t)
             /\ queue'[t][p].kind = "done" => worker[t][queue'[t][p].slot] = "finished"
  BY <1>2, <1>3, <1>4
<1>9. \A i \in Slots \ Active(t) : worker[t][i] = "none"
  BY DEF BatchOk
<1> QED
  BY <1>1, <1>3, <1>6, <1>7, <1>8, <1>9 DEF BatchOk, Batched

\* The batch after a worker moved.
LEMMA BatchMoves ==
  ASSUME TypeOK, LiveInBatch, NEW t \in Turns, BatchOk(t), NEW i \in Slots,
         NEW s \in WorkerStates, NEW items \in Seq(QueueItems), WorkerMoves(t, i, s, items)
  PROVE  BatchOk(t)'
<1> DEFINE q == queue[t]
<1>1. /\ i \in Active(t) /\ Active(t)' = Active(t)
      /\ worker' = [worker EXCEPT ![t][i] = s]
      /\ queue'[t] = q \o items
      /\ UNCHANGED <<phase, calls, results>>
  BY DEF WorkerMoves, Active, TypeOK, BatchType
<1>2. worker[t][i] \in Live /\ worker[t][i] # "finished"
  BY DEF WorkerMoves, Arc, QuietArcs, AtGate, InRegistry, Live
<1>3. phase[t] \in Batched
  BY <1>1, <1>2 DEF LiveInBatch, Batched
<1>4. \A p \in 1..Len(items) :
        items[p].slot = i /\ (items[p].kind = "done" => s = "finished")
  BY DEF WorkerMoves, Arc, Event, Done
<1>5. /\ worker'[t][i] = s
      /\ \A k \in Slots : k # i => worker'[t][k] = worker[t][k]
  BY <1>1 DEF TypeOK, BatchType
<1>6. ASSUME NEW p \in 1..Len(q \o items)
      PROVE  /\ (q \o items)[p].slot \in Active(t)
             /\ (q \o items)[p].kind = "done" => worker'[t][(q \o items)[p].slot] = "finished"
  <2>1. q \in Seq(QueueItems)
    BY DEF TypeOK, BatchType
  <2>2. /\ Len(q) \in Nat /\ Len(items) \in Nat
        /\ p \in 1..(Len(q) + Len(items))
        /\ (q \o items)[p] = IF p <= Len(q) THEN q[p] ELSE items[p - Len(q)]
    BY <2>1, ConcatProperties
  <2>3. CASE p <= Len(q)
    <3>1. p \in 1..Len(q) /\ (q \o items)[p] = q[p]
      BY <2>2, <2>3
    <3>2. /\ q[p].slot \in Active(t)
          /\ q[p].kind = "done" => worker[t][q[p].slot] = "finished"
      BY <3>1 DEF BatchOk
    <3>3. q[p].slot \in Slots
      BY <3>2 DEF Active
    <3> QED
      BY <1>2, <1>5, <3>1, <3>2, <3>3
  <2>4. CASE ~(p <= Len(q))
    <3>1. p - Len(q) \in 1..Len(items) /\ (q \o items)[p] = items[p - Len(q)]
      BY <2>2, <2>4
    <3> QED
      BY <1>1, <1>4, <1>5, <3>1
  <2> QED
    BY <2>3, <2>4
<1>7. ASSUME NEW k \in Slots, results[t][k] # Unfilled
      PROVE  k \in Active(t) /\ results[t][k].slot = k /\ worker'[t][k] = "finished"
  BY <1>2, <1>5, <1>7 DEF BatchOk
<1>8. \A k \in Slots \ Active(t) : worker'[t][k] = "none"
  BY <1>1, <1>5 DEF BatchOk
<1> HIDE DEF q
<1> QED
  BY <1>1, <1>3, <1>6, <1>7, <1>8 DEF BatchOk

\* Every step keeps every batch in order.
LEMMA StepBatchOk ==
  ASSUME TypeOK, HistoryType, LiveInBatch, \A t \in Turns : BatchOk(t), [Next]_vars
  PROVE  \A t \in Turns : BatchOk(t)'
<1> SUFFICES ASSUME NEW t \in Turns PROVE BatchOk(t)'
  OBVIOUS
<1>1. BatchOk(t)
  OBVIOUS
<1>2. CASE Still(t) \/ Quiet(t)
  <2>1. /\ calls'[t] = calls[t] /\ worker'[t] = worker[t]
        /\ queue'[t] = queue[t] /\ results'[t] = results[t]
        /\ phase'[t] \in Batched \/ phase[t] \notin Batched
    BY <1>2 DEF Still, Quiet, Batched
  <2>2. Active(t)' = Active(t)
    BY <2>1 DEF Active
  <2> QED
    BY <1>1, <2>1, <2>2 DEF BatchOk
<1>3. CASE ModelCallsTools(t)
  <2>1. PICK cs \in Batches : CallTools(t, cs)
    BY <1>3 DEF ModelCallsTools
  <2>2. SetBatch(t, cs, "created") /\ phase'[t] = "fanin"
    BY <2>1 DEF CallTools, TypeOK, ControlType
  <2>3. cs \in Seq([id : CallIds, name : Tools])
    BY BatchesType
  <2> QED
    BY <2>2, <2>3, SetBatchOk DEF Batched
<1>4. CASE FanIn(t)
  BY <1>1, <1>4, BatchFanIn
<1>5. CASE CollectBatch(t)
  <2>1. SetBatch(t, <<>>, "none")
    BY <1>5 DEF CollectBatch
  <2>2. <<>> \in Seq([id : CallIds, name : Tools])
    OBVIOUS
  <2> QED
    BY <2>1, <2>2, SetBatchOk
<1>6. ASSUME NEW i \in Slots, WorkerStep(t, i) PROVE BatchOk(t)'
  <2>1. PICK s \in WorkerStates, items \in Seq(QueueItems) : WorkerMoves(t, i, s, items)
    BY <1>6, WorkerShape
  <2> QED
    BY <1>1, <2>1, BatchMoves
<1> QED
  BY <1>2, <1>3, <1>4, <1>5, <1>6, StepShape, TurnShape

\* The invariant of the batches, on top of the approval gate's.
BatchInv == GateInv /\ HistoryType /\ \A t \in Turns : BatchOk(t)

\* Initially the histories have their types.
LEMMA InitHistoryType == Init => HistoryType
BY TurnLoopAssumption DEF Init, HistoryType

\* The batches' invariant holds of every behaviour.
LEMMA BatchInvariant == Spec => []BatchInv
<1>1. Init => BatchInv
  BY InitGateInv, InitHistoryType, BatchInit DEF BatchInv
<1>2. BatchInv /\ [Next]_vars => BatchInv'
  <2> SUFFICES ASSUME BatchInv, [Next]_vars PROVE BatchInv'
    OBVIOUS
  <2>1. GateInv'
    BY StepGateInv DEF BatchInv
  <2>2. TypeOK /\ LiveInBatch
    BY DEF BatchInv, GateInv
  <2>3. HistoryType'
    BY <2>2, StepHistoryType DEF BatchInv
  <2>4. \A t \in Turns : BatchOk(t)'
    BY <2>2, StepBatchOk DEF BatchInv
  <2> QED
    BY <2>1, <2>3, <2>4 DEF BatchInv
<1> QED
  BY <1>1, <1>2, PTL DEF Spec

\* When a turn is over, or its batch has all its results, none of its workers is
\* alive and none of its approvals is pending (loop.py:298-308): closing the
\* generator leaves nothing behind.
THEOREM NothingLeftBehind == Spec => []NoOrphans
<1>1. BatchInv => NoOrphans
  <2> SUFFICES ASSUME BatchInv, NEW t \in Turns,
                      phase[t] \in Over \/ (phase[t] = "fanin" /\ Remaining(t) = {})
               PROVE  /\ \A i \in Slots : worker[t][i] \notin Live
                      /\ \A e \in pending : e.turn # t
    BY DEF NoOrphans
  <2>1. ASSUME NEW i \in Slots PROVE worker[t][i] \notin Live
    <3>1. CASE i \notin Active(t)
      BY <3>1 DEF BatchInv, BatchOk, Live
    <3>2. CASE i \in Active(t) /\ phase[t] \in Over
      BY <3>2 DEF BatchInv, GateInv, LiveInBatch, Over
    <3>3. CASE i \in Active(t) /\ phase[t] = "fanin" /\ Remaining(t) = {}
      <4>1. results[t][i] # Unfilled
        BY <3>3 DEF Remaining
      <4> QED
        BY <4>1 DEF BatchInv, BatchOk, Live
    <3> QED
      BY <3>1, <3>2, <3>3
  <2>2. ASSUME NEW e \in pending, e.turn = t PROVE FALSE
    <3>1. e.slot \in Active(t) /\ worker[t][e.slot] \in AtGate
      BY <2>2 DEF BatchInv, GateInv, PendingIsWaiting
    <3>2. e.slot \in Slots /\ worker[t][e.slot] \in Live
      BY <3>1 DEF Active, Live, AtGate
    <3> QED
      BY <2>1, <3>2
  <2> QED
    BY <2>1, <2>2
<1> QED
  BY <1>1, BatchInvariant, PTL

(***************************************************************************)
(* The model's history.                                                    *)
(***************************************************************************)

CallsMessage(t) ==
  [kind |-> "calls", iter |-> iter[t], slot |-> Len(calls[t]), outcome |-> "none"]

\* Outside a batch the history is well formed; during the fan-in it is but for
\* the last message, the one whose calls are being executed.
HistoryOk(t) ==
  /\ phase[t] \notin Batched => WellFormed(messages[t])
  /\ phase[t] = "fanin" =>
       \E m \in Seq(Messages) : WellFormed(m) /\ messages[t] = Append(m, CallsMessage(t))

\* A well-formed history stays so when a message with calls and its results
\* come after it.
LEMMA WellFormedGrows ==
  ASSUME NEW m \in Seq(Messages), WellFormed(m),
         NEW c \in Messages, c.kind = "calls",
         NEW R \in Seq(Messages), Len(R) = c.slot,
         \A i \in 1..Len(R) : R[i].kind = "result" /\ R[i].iter = c.iter /\ R[i].slot = i
  PROVE  WellFormed(Append(m, c) \o R)
<1> DEFINE n == Len(m)
           k == Len(R)
           a == Append(m, c)
           w == a \o R
<1>1. n \in Nat /\ k \in Nat /\ c.slot = k
  OBVIOUS
<1>2. /\ a \in Seq(Messages) /\ Len(a) = n + 1
      /\ a[n + 1] = c /\ \A p \in 1..n : a[p] = m[p]
  OBVIOUS
<1>3. /\ Len(w) = n + 1 + k
      /\ \A p \in 1..(n + 1 + k) : w[p] = IF p <= n + 1 THEN a[p] ELSE R[p - (n + 1)]
  <2> HIDE DEF a
  <2>1. /\ Len(a \o R) = Len(a) + Len(R)
        /\ \A p \in 1..(Len(a) + Len(R)) :
             (a \o R)[p] = IF p <= Len(a) THEN a[p] ELSE R[p - Len(a)]
    <3>1. a \in Seq(Messages)
      BY <1>2
    <3> HIDE DEF n, k, w
    <3> QED
      BY <3>1, ConcatProperties
  <2> HIDE DEF n
  <2> QED
    BY <1>2, <2>1
<1> HIDE DEF w, a, n, k
<1>4. /\ \A p \in 1..n : w[p] = m[p]
      /\ w[n + 1] = c
      /\ \A i \in 1..k : w[n + 1 + i] = R[i]
  <2>1. ASSUME NEW p \in 1..n PROVE w[p] = m[p]
    BY <1>1, <1>2, <1>3
  <2>2. w[n + 1] = c
    BY <1>1, <1>2, <1>3
  <2>3. ASSUME NEW i \in 1..k PROVE w[n + 1 + i] = R[i]
    <3>1. /\ n + 1 + i \in 1..(n + 1 + k) /\ ~(n + 1 + i <= n + 1)
          /\ (n + 1 + i) - (n + 1) = i
      BY <1>1
    <3> QED
      BY <1>3, <3>1
  <2> QED
    BY <2>1, <2>2, <2>3
<1>5. /\ \A p \in 1..n : m[p].slot \in Nat
      /\ \A p \in 1..n : m[p].kind = "calls" =>
           /\ p + m[p].slot <= n
           /\ \A i \in 1..m[p].slot :
                m[p + i].kind = "result" /\ m[p + i].iter = m[p].iter /\ m[p + i].slot = i
      /\ \A p \in 1..n : m[p].kind = "result" =>
           \E q \in 1..(p - 1) : m[q].kind = "calls" /\ p <= q + m[q].slot
  <2>1. \A p \in 1..n : m[p] \in Messages
    BY DEF n
  <2>2. \A p \in 1..n : m[p].slot \in Nat
    BY <2>1 DEF Messages
  <2> QED
    BY <2>2 DEF WellFormed, n
<1>6. \A i \in 1..k : R[i].kind = "result" /\ R[i].iter = c.iter /\ R[i].slot = i
  BY DEF k
<1>7. ASSUME NEW p \in 1..Len(w), w[p].kind = "calls"
      PROVE  /\ p + w[p].slot <= Len(w)
             /\ \A i \in 1..w[p].slot :
                  w[p + i].kind = "result" /\ w[p + i].iter = w[p].iter /\ w[p + i].slot = i
  <2>1. CASE p \in 1..n
    <3>1. w[p] = m[p] /\ p + m[p].slot <= n /\ m[p].slot \in Nat
      BY <1>4, <1>5, <1>7, <2>1
    <3>2. ASSUME NEW i \in 1..m[p].slot
          PROVE  w[p + i].kind = "result" /\ w[p + i].iter = m[p].iter /\ w[p + i].slot = i
      <4>1. p + i \in 1..n
        BY <1>1, <2>1, <3>1
      <4>2. /\ m[p + i].kind = "result" /\ m[p + i].iter = m[p].iter
            /\ m[p + i].slot = i
        BY <1>5, <1>7, <2>1, <3>1
      <4> QED
        BY <1>4, <4>1, <4>2
    <3>3. p + m[p].slot <= Len(w)
      BY <1>1, <1>3, <3>1
    <3> QED
      BY <3>1, <3>2, <3>3
  <2>2. CASE p = n + 1
    BY <1>1, <1>3, <1>4, <1>6, <2>2
  <2>3. CASE p > n + 1
    <3>1. p - (n + 1) \in 1..k /\ p = n + 1 + (p - (n + 1))
      BY <1>1, <1>3, <2>3
    <3>2. w[p] = R[p - (n + 1)]
      BY <1>4, <3>1
    <3> QED
      BY <1>6, <1>7, <3>1, <3>2
  <2> QED
    BY <1>1, <1>3, <2>1, <2>2, <2>3
<1>8. ASSUME NEW p \in 1..Len(w), w[p].kind = "result"
      PROVE  \E q \in 1..(p - 1) : w[q].kind = "calls" /\ p <= q + w[q].slot
  <2>1. CASE p \in 1..n
    <3>1. PICK q \in 1..(p - 1) : m[q].kind = "calls" /\ p <= q + m[q].slot
      BY <1>4, <1>5, <1>8, <2>1
    <3>2. q \in 1..n
      BY <1>1, <2>1
    <3> QED
      BY <1>4, <3>1, <3>2
  <2>2. CASE p = n + 1
    BY <1>4, <1>8, <2>2
  <2>3. CASE p > n + 1
    <3>1. n + 1 \in 1..(p - 1) /\ p <= n + 1 + k
      BY <1>1, <1>3, <2>3
    <3> QED
      BY <1>1, <1>4, <3>1
  <2> QED
    BY <1>1, <1>3, <2>1, <2>2, <2>3
<1>9. WellFormed(w)
  BY <1>7, <1>8 DEF WellFormed
<1> QED
  BY <1>9 DEF w, a

\* What the messages of a finished batch say.
LEMMA ResultsInOrder ==
  ASSUME BatchInv, NEW t \in Turns, Remaining(t) = {}
  PROVE  \A i \in 1..Len(ResultMessages(t)) :
           /\ ResultMessages(t)[i].kind = "result"
           /\ ResultMessages(t)[i].iter = iter[t]
           /\ ResultMessages(t)[i].slot = i
<1> SUFFICES ASSUME NEW i \in 1..Len(calls[t])
             PROVE  /\ ResultMessages(t)[i].kind = "result"
                    /\ ResultMessages(t)[i].iter = iter[t]
                    /\ ResultMessages(t)[i].slot = i
  BY BatchHistory DEF BatchInv, GateInv
<1>1. i \in Slots /\ i \in Active(t)
  BY TurnLoopAssumption DEF BatchInv, HistoryType, Slots, Active
<1>2. results[t][i].slot = i
  BY <1>1 DEF Remaining, BatchInv, BatchOk
<1> QED
  BY <1>2 DEF ResultMessages, Message

\* Every step keeps the histories.
LEMMA StepHistoryOk ==
  ASSUME BatchInv, \A t \in Turns : HistoryOk(t), [Next]_vars
  PROVE  \A t \in Turns : HistoryOk(t)'
<1> SUFFICES ASSUME NEW t \in Turns PROVE HistoryOk(t)'
  OBVIOUS
<1>1. HistoryOk(t) /\ TypeOK /\ HistoryType
  BY DEF BatchInv, GateInv
<1>2. CASE Still(t)
  BY <1>1, <1>2 DEF Still, HistoryOk, CallsMessage
<1>3. CASE Quiet(t)
  BY <1>1, <1>3 DEF Quiet, HistoryOk, Batched
<1>4. CASE ModelCallsTools(t)
  <2>1. PICK cs \in Batches : CallTools(t, cs)
    BY <1>4 DEF ModelCallsTools
  <2>2. /\ phase[t] = "loop" /\ phase'[t] = "fanin" /\ calls'[t] = cs
        /\ messages'[t] = Append(messages[t], [kind |-> "calls", iter |-> iter'[t],
                                              slot |-> Len(cs), outcome |-> "none"])
    BY <1>1, <2>1
    DEF CallTools, BeginIteration, SetBatch, TypeOK, ControlType, BatchType, HistoryType
  <2>3. messages'[t] = Append(messages[t], CallsMessage(t)')
    BY <2>2 DEF CallsMessage
  <2>4. WellFormed(messages[t]) /\ messages[t] \in Seq(Messages)
    BY <1>1, <2>2 DEF HistoryOk, Batched, HistoryType
  <2> QED
    BY <2>2, <2>3, <2>4 DEF HistoryOk, Batched
<1>5. CASE FanIn(t)
  BY <1>1, <1>5 DEF FanIn, HistoryOk, CallsMessage
<1>6. CASE CollectBatch(t)
  <2>1. /\ phase[t] = "fanin" /\ Remaining(t) = {} /\ phase'[t] = "loop"
        /\ messages'[t] = messages[t] \o ResultMessages(t)
    BY <1>1, <1>6 DEF CollectBatch, TypeOK, ControlType, HistoryType
  <2>2. PICK m \in Seq(Messages) : WellFormed(m) /\ messages[t] = Append(m, CallsMessage(t))
    BY <1>1, <2>1 DEF HistoryOk
  <2>3. /\ ResultMessages(t) \in Seq(Messages)
        /\ Len(ResultMessages(t)) = Len(calls[t])
    BY <1>1, <2>1, BatchHistory
  <2>4. CallsMessage(t) \in Messages /\ CallsMessage(t).kind = "calls"
        /\ CallsMessage(t).slot = Len(calls[t]) /\ CallsMessage(t).iter = iter[t]
    BY <1>1, TurnLoopAssumption
    DEF CallsMessage, Messages, TypeOK, ControlType, HistoryType
  <2>5. WellFormed(Append(m, CallsMessage(t)) \o ResultMessages(t))
    BY <2>1, <2>2, <2>3, <2>4, ResultsInOrder, WellFormedGrows, ZenonT(30)
  <2> QED
    BY <2>1, <2>2, <2>5 DEF HistoryOk, Batched
<1>7. ASSUME NEW i \in Slots, WorkerStep(t, i) PROVE HistoryOk(t)'
  <2>1. PICK s \in WorkerStates, items \in Seq(QueueItems) : WorkerMoves(t, i, s, items)
    BY <1>1, <1>7, WorkerShape
  <2>2. UNCHANGED <<phase, iter, calls, messages>>
    BY <2>1 DEF WorkerMoves
  <2> QED
    BY <1>1, <2>2 DEF HistoryOk, CallsMessage
<1> QED
  BY <1>1, <1>2, <1>3, <1>4, <1>5, <1>6, <1>7, StepShape, TurnShape

\* At every model call the history is one the model API accepts, whatever order
\* the workers ended in (loop.py:274-279, 310-312, 464-473).
THEOREM HistoriesAccepted == Spec => []HistoryWellFormed
<1>1. Init => \A t \in Turns : HistoryOk(t)
  BY DEF Init, HistoryOk, WellFormed, Batched
<1>2. BatchInv /\ (\A t \in Turns : HistoryOk(t)) /\ [Next]_vars
        => (\A t \in Turns : HistoryOk(t))'
  BY StepHistoryOk
<1>3. (\A t \in Turns : HistoryOk(t)) => HistoryWellFormed
  BY DEF HistoryOk, HistoryWellFormed, Batched
<1> QED
  BY <1>1, <1>2, <1>3, BatchInvariant, PTL DEF Spec

(***************************************************************************)
(* What the client sees.                                                   *)
(***************************************************************************)

\* Items of one call come in the order of their ranks.
Ordered(s) ==
  \A p, q \in 1..Len(s) : p < q /\ s[p].slot = s[q].slot => Rank(s[p].kind) < Rank(s[q].kind)

Before(s, u) ==
  \A p \in 1..Len(s), q \in 1..Len(u) :
    s[p].slot = u[q].slot => Rank(s[p].kind) < Rank(u[q].kind)

\* The kinds of item a call has put on the queue so far.
Known(t, i) ==
  Kinds(events[t], i) \cup Kinds(queue[t], i)
    \cup (IF results[t][i] # Unfilled THEN {"done"} ELSE {})

\* What a worker in state s has put on the queue.
Progress(t, i, s, K) ==
  /\ s = "created" => K = {}
  /\ s \in AtGate => Name(t, i) \in Gated /\ K = {"approval"}
  /\ s \in InRegistry =>
       K = IF Name(t, i) \in Gated THEN {"approval", "started"} ELSE {"started"}
  /\ s = "finished" => \E c \in Courses(t, i) : K = c \cup {"done"}
  /\ s = "cancelled" =>
       K \in IF Name(t, i) \in Gated THEN {{}, {"approval"}, {"approval", "started"}}
                                     ELSE {{}, {"started"}}

\* A turn that has no batch has shown its client nothing of one.
QuietEvents(t) ==
  phase[t] \notin Batched =>
    \/ events[t] = <<>>
    \/ /\ phase[t] \in {"completed", "failed"}
       /\ \E k \in {"complete", "failed"} : events[t] = <<Event(k, 0)>>

\* In a batch the events and then the queue hold the items of each call in order.
EventsInOrder(t) ==
  phase[t] \in Batched =>
    /\ \A p \in 1..Len(events[t]) : events[t][p].kind \in {"approval", "started", "result"}
    /\ Ordered(events[t]) /\ Ordered(queue[t]) /\ Before(events[t], queue[t])

\* What is known of a call is just what its worker's state says; a result that
\* is in was the last of its call; a refused call, its refusal in or still on
\* its way to the client, never started.
CallFollows(t, i) ==
  /\ worker[t][i] \in WorkerStates \ {"none"}
  /\ Progress(t, i, worker[t][i], Known(t, i))
  /\ results[t][i] # Unfilled => \A p \in 1..Len(queue[t]) : queue[t][p].slot # i
  /\ results[t][i] # Unfilled /\ results[t][i].outcome = "refused"
       => "started" \notin Known(t, i)
  /\ \A p \in 1..Len(queue[t]) :
       queue[t][p].slot = i /\ queue[t][p].kind = "done" /\ queue[t][p].outcome = "refused"
         => "started" \notin Known(t, i)

EventsOk(t) ==
  /\ QuietEvents(t)
  /\ EventsInOrder(t)
  /\ \A i \in Active(t) : CallFollows(t, i)

\* The ranks.
LEMMA Ranks ==
  /\ Rank("approval") = 1 /\ Rank("started") = 2 /\ Rank("result") = 3 /\ Rank("done") = 4
  /\ \A k : Rank(k) \in 1..4
BY DEF Rank

\* The kinds in a sequence with one more item, and in two sequences.
LEMMA KindsConcat ==
  ASSUME NEW T, NEW s \in Seq(T), NEW u \in Seq(T), NEW i
  PROVE  Kinds(s \o u, i) = Kinds(s, i) \cup Kinds(u, i)
<1>1. /\ Len(s) \in Nat /\ Len(u) \in Nat /\ Len(s \o u) = Len(s) + Len(u)
      /\ \A p \in 1..(Len(s) + Len(u)) :
           (s \o u)[p] = IF p <= Len(s) THEN s[p] ELSE u[p - Len(s)]
  BY ConcatProperties
<1> DEFINE w == s \o u
           n == Len(s)
           m == Len(u)
<1> HIDE DEF w
<1>2. n \in Nat /\ m \in Nat /\ Len(w) = n + m
  BY <1>1 DEF w
<1>3. ASSUME NEW p \in 1..n PROVE p \in 1..(n + m) /\ w[p] = s[p]
  BY <1>1 DEF w
<1>4. ASSUME NEW p \in 1..m PROVE n + p \in 1..(n + m) /\ w[n + p] = u[p]
  <2>1. n + p \in 1..(n + m) /\ ~(n + p <= n) /\ (n + p) - n = p
    BY <1>2
  <2> QED
    BY <1>1, <2>1 DEF w
<1> HIDE DEF n, m
<1>5. ASSUME NEW k \in Kinds(w, i) PROVE k \in Kinds(s, i) \cup Kinds(u, i)
  <2>1. PICK p \in 1..(n + m) : w[p].slot = i /\ w[p].kind = k
    BY <1>2 DEF Kinds
  <2>2. CASE p <= n
    <3>1. p \in 1..n
      BY <1>2, <2>2
    <3> QED
      BY <1>3, <2>1, <3>1 DEF Kinds, n
  <2>3. CASE ~(p <= n)
    <3>1. p - n \in 1..m /\ n + (p - n) = p
      BY <1>2, <2>3
    <3>2. w[p] = u[p - n]
      BY <1>4, <3>1
    <3> QED
      BY <2>1, <3>1, <3>2 DEF Kinds, m
  <2> QED
    BY <2>2, <2>3
<1>6. ASSUME NEW k \in Kinds(s, i) PROVE k \in Kinds(w, i)
  <2>1. PICK p \in 1..n : s[p].slot = i /\ s[p].kind = k
    BY DEF Kinds, n
  <2> QED
    BY <1>2, <1>3, <2>1 DEF Kinds
<1>7. ASSUME NEW k \in Kinds(u, i) PROVE k \in Kinds(w, i)
  <2>1. PICK p \in 1..m : u[p].slot = i /\ u[p].kind = k
    BY DEF Kinds, m
  <2> QED
    BY <1>2, <1>4, <2>1 DEF Kinds
<1> QED
  BY <1>5, <1>6, <1>7 DEF w

LEMMA KindsFew ==
  /\ \A i : Kinds(<<>>, i) = {}
  /\ \A a, i : Kinds(<<a>>, i) = IF a.slot = i THEN {a.kind} ELSE {}
  /\ \A a, b, i : Kinds(<<a, b>>, i) = (IF a.slot = i THEN {a.kind} ELSE {})
                                         \cup (IF b.slot = i THEN {b.kind} ELSE {})
<1>1. ASSUME NEW i PROVE Kinds(<<>>, i) = {}
  BY DEF Kinds
<1>2. ASSUME NEW a, NEW i PROVE Kinds(<<a>>, i) = IF a.slot = i THEN {a.kind} ELSE {}
  <2> DEFINE s == <<a>>
  <2>1. Len(s) = 1 /\ s[1] = a
    OBVIOUS
  <2> HIDE DEF s
  <2>2. Kinds(s, i) = IF a.slot = i THEN {a.kind} ELSE {}
    BY <2>1 DEF Kinds
  <2> QED
    BY <2>2 DEF s
<1>3. ASSUME NEW a, NEW b, NEW i
      PROVE  Kinds(<<a, b>>, i) = (IF a.slot = i THEN {a.kind} ELSE {})
                                    \cup (IF b.slot = i THEN {b.kind} ELSE {})
  <2> DEFINE s == <<a, b>>
  <2>1. Len(s) = 2 /\ s[1] = a /\ s[2] = b /\ 1..2 = {1, 2}
    OBVIOUS
  <2> HIDE DEF s
  <2>2. Kinds(s, i) = {s[p].kind : p \in {q \in {1, 2} : s[q].slot = i}}
    BY <2>1 DEF Kinds
  <2>3. Kinds(s, i) = (IF a.slot = i THEN {a.kind} ELSE {})
                        \cup (IF b.slot = i THEN {b.kind} ELSE {})
    BY <2>1, <2>2
  <2> QED
    BY <2>3 DEF s
<1> QED
  BY <1>1, <1>2, <1>3

\* Order in two sequences, and before two sequences.
LEMMA OrderedConcat ==
  ASSUME NEW T, NEW s \in Seq(T), NEW u \in Seq(T), Ordered(s), Ordered(u), Before(s, u)
  PROVE  Ordered(s \o u)
<1> DEFINE w == s \o u
           n == Len(s)
           m == Len(u)
<1>1. /\ n \in Nat /\ m \in Nat /\ Len(w) = n + m
      /\ \A p \in 1..(n + m) : w[p] = IF p <= n THEN s[p] ELSE u[p - n]
  BY ConcatProperties
<1> HIDE DEF w
<1> SUFFICES ASSUME NEW p \in 1..(n + m), NEW q \in 1..(n + m), p < q, w[p].slot = w[q].slot
             PROVE  Rank(w[p].kind) < Rank(w[q].kind)
  BY <1>1 DEF Ordered, w
<1>2. CASE q <= n
  <2>1. p \in 1..n /\ q \in 1..n /\ w[p] = s[p] /\ w[q] = s[q]
    BY <1>1, <1>2
  <2> QED
    BY <2>1 DEF Ordered
<1>3. CASE p <= n /\ ~(q <= n)
  <2>1. p \in 1..n /\ q - n \in 1..m /\ w[p] = s[p] /\ w[q] = u[q - n]
    BY <1>1, <1>3
  <2> QED
    BY <2>1 DEF Before
<1>4. CASE ~(p <= n)
  <2>1. p - n \in 1..m /\ q - n \in 1..m /\ p - n < q - n /\ w[p] = u[p - n] /\ w[q] = u[q - n]
    BY <1>1, <1>4
  <2> QED
    BY <2>1 DEF Ordered
<1> QED
  BY <1>2, <1>3, <1>4

LEMMA BeforeConcat ==
  ASSUME NEW T, NEW e, NEW s \in Seq(T), NEW u \in Seq(T), Before(e, s), Before(e, u)
  PROVE  Before(e, s \o u)
<1> DEFINE w == s \o u
           n == Len(s)
           m == Len(u)
<1>1. /\ n \in Nat /\ m \in Nat /\ Len(w) = n + m
      /\ \A p \in 1..(n + m) : w[p] = IF p <= n THEN s[p] ELSE u[p - n]
  BY ConcatProperties
<1> HIDE DEF w
<1> SUFFICES ASSUME NEW p \in 1..Len(e), NEW q \in 1..(n + m), e[p].slot = w[q].slot
             PROVE  Rank(e[p].kind) < Rank(w[q].kind)
  BY <1>1 DEF Before, w
<1>2. CASE q <= n
  <2>1. q \in 1..n /\ w[q] = s[q]
    BY <1>1, <1>2
  <2> QED
    BY <2>1 DEF Before
<1>3. CASE ~(q <= n)
  <2>1. q - n \in 1..m /\ w[q] = u[q - n]
    BY <1>1, <1>3
  <2> QED
    BY <2>1 DEF Before
<1> QED
  BY <1>2, <1>3

\* One element, at the front of one sequence or at the end of another.
LEMMA AppendFacts ==
  ASSUME NEW T, NEW s \in Seq(T), NEW e \in T
  PROVE  /\ Append(s, e) \in Seq(T) /\ Len(Append(s, e)) = Len(s) + 1
         /\ Append(s, e)[Len(s) + 1] = e
         /\ \A p \in 1..Len(s) : p \in 1..(Len(s) + 1) /\ Append(s, e)[p] = s[p]
OBVIOUS

\* An item off the front of a queue.
LEMMA OrderedTail ==
  ASSUME NEW T, NEW q \in Seq(T), q # <<>>, Ordered(q)
  PROVE  /\ Ordered(Tail(q))
         /\ \A p \in 1..Len(Tail(q)) :
              Tail(q)[p].slot = Head(q).slot => Rank(Head(q).kind) < Rank(Tail(q)[p].kind)
         /\ \A i : Kinds(q, i) = (IF Head(q).slot = i THEN {Head(q).kind} ELSE {})
                                   \cup Kinds(Tail(q), i)
<1> DEFINE r == Tail(q)
           a == Head(q)
           w == <<a>>
           m == Len(q)
<1>1. /\ m \in Nat /\ m > 0 /\ a = q[1] /\ a \in T /\ r \in Seq(T) /\ Len(r) = m - 1
      /\ \A p \in 1..(m - 1) : r[p] = q[p + 1]
  OBVIOUS
<1>2. w \in Seq(T) /\ q = w \o r
  OBVIOUS
<1> HIDE DEF r, a
<1>3. \A p \in 1..(m - 1) : p + 1 \in 1..m
  BY <1>1
<1>4. Ordered(r)
  <2> SUFFICES ASSUME NEW p \in 1..(m - 1), NEW s \in 1..(m - 1), p < s, r[p].slot = r[s].slot
               PROVE  Rank(r[p].kind) < Rank(r[s].kind)
    BY <1>1 DEF Ordered
  <2>1. r[p] = q[p + 1] /\ r[s] = q[s + 1] /\ p + 1 \in 1..m /\ s + 1 \in 1..m /\ p + 1 < s + 1
    BY <1>1, <1>3
  <2> QED
    BY <2>1 DEF Ordered
<1>5. ASSUME NEW p \in 1..Len(r), r[p].slot = a.slot
      PROVE  Rank(a.kind) < Rank(r[p].kind)
  <2>1. r[p] = q[p + 1] /\ 1 \in 1..m /\ p + 1 \in 1..m /\ 1 < p + 1
    BY <1>1, <1>3
  <2> QED
    BY <1>1, <1>5, <2>1 DEF Ordered
<1>6. ASSUME NEW i PROVE Kinds(q, i) = (IF a.slot = i THEN {a.kind} ELSE {}) \cup Kinds(r, i)
  <2>1. Kinds(w, i) = IF a.slot = i THEN {a.kind} ELSE {}
    BY KindsFew
  <2> HIDE DEF w
  <2>2. Kinds(w \o r, i) = Kinds(w, i) \cup Kinds(r, i)
    BY <1>1, <1>2, KindsConcat
  <2> QED
    BY <1>2, <2>1, <2>2
<1> QED
  BY <1>4, <1>5, <1>6 DEF r, a

\* An item at the end of the events.
LEMMA OrderedAppend ==
  ASSUME NEW T, NEW e \in Seq(T), NEW a \in T, Ordered(e),
         \A p \in 1..Len(e) : e[p].slot = a.slot => Rank(e[p].kind) < Rank(a.kind)
  PROVE  /\ Ordered(Append(e, a))
         /\ \A i : Kinds(Append(e, a), i) = Kinds(e, i) \cup (IF a.slot = i THEN {a.kind} ELSE {})
<1> DEFINE w == Append(e, a)
           n == Len(e)
           o == <<a>>
<1>1. /\ n \in Nat /\ w \in Seq(T) /\ Len(w) = n + 1 /\ w[n + 1] = a
      /\ \A p \in 1..n : w[p] = e[p]
  OBVIOUS
<1>2. o \in Seq(T) /\ w = e \o o
  OBVIOUS
<1> HIDE DEF w
<1>3. Ordered(w)
  <2> SUFFICES ASSUME NEW p \in 1..(n + 1), NEW r \in 1..(n + 1), p < r, w[p].slot = w[r].slot
               PROVE  Rank(w[p].kind) < Rank(w[r].kind)
    BY <1>1 DEF Ordered
  <2>1. p \in 1..n /\ w[p] = e[p]
    BY <1>1
  <2>2. CASE r \in 1..n
    BY <1>1, <2>1, <2>2 DEF Ordered
  <2>3. CASE r = n + 1
    BY <1>1, <2>1, <2>3
  <2> QED
    BY <1>1, <2>2, <2>3
<1>4. ASSUME NEW i
      PROVE  Kinds(w, i) = Kinds(e, i) \cup (IF a.slot = i THEN {a.kind} ELSE {})
  <2>1. Kinds(o, i) = IF a.slot = i THEN {a.kind} ELSE {}
    BY KindsFew
  <2> HIDE DEF o
  <2>2. Kinds(e \o o, i) = Kinds(e, i) \cup Kinds(o, i)
    BY <1>2, KindsConcat
  <2> QED
    BY <1>2, <2>1, <2>2
<1> QED
  BY <1>3, <1>4 DEF w

\* The events after the fan-in took an item off the queue.
LEMMA EventsFanIn ==
  ASSUME BatchInv, NEW t \in Turns, EventsOk(t), FanIn(t)
  PROVE  EventsOk(t)'
<1> DEFINE e == events[t]
           q == queue[t]
           r == Tail(q)
           item == Head(q)
<1>1. /\ TypeOK /\ HistoryType /\ BatchOk(t)
      /\ q \in Seq(QueueItems) /\ q # <<>> /\ e \in Seq(ClientEvents)
      /\ phase[t] = "fanin"
  BY DEF FanIn, BatchInv, GateInv, TypeOK, BatchType, HistoryType
<1>2. /\ 1 \in 1..Len(q) /\ item = q[1] /\ item \in QueueItems
      /\ r \in Seq(QueueItems) /\ Len(r) = Len(q) - 1
      /\ \A p \in 1..Len(r) : p + 1 \in 1..Len(q) /\ r[p] = q[p + 1]
  BY <1>1, HeadTail
<1>3. /\ queue'[t] = r /\ phase'[t] = phase[t] /\ calls'[t] = calls[t]
      /\ worker'[t] = worker[t]
  BY <1>1 DEF FanIn, TypeOK, BatchType
<1>4. \/ /\ item.kind = "done" /\ events'[t] = e
         /\ results' = [results EXCEPT ![t][item.slot] = item]
      \/ /\ item.kind # "done" /\ results' = results
         /\ events'[t] = Append(e, item)
  BY <1>1 DEF FanIn, HistoryType
<1>5. /\ \A p \in 1..Len(e) : e[p].kind \in {"approval", "started", "result"}
      /\ Ordered(e) /\ Ordered(q) /\ Before(e, q)
  BY <1>1 DEF EventsOk, EventsInOrder, Batched
<1>6. /\ Ordered(r)
      /\ \A p \in 1..Len(r) : r[p].slot = item.slot => Rank(item.kind) < Rank(r[p].kind)
      /\ \A i : Kinds(q, i) = (IF item.slot = i THEN {item.kind} ELSE {}) \cup Kinds(r, i)
  BY <1>1, <1>5, OrderedTail
<1>7. Before(e, r)
  BY <1>2, <1>5 DEF Before
<1>8. /\ Active(t)' = Active(t) /\ \A i : Name(t, i)' = Name(t, i)
      /\ \A i : Courses(t, i)' = Courses(t, i)
  BY <1>3 DEF Active, Name, Courses
<1>9. /\ \A i \in Active(t) : CallFollows(t, i)
      /\ \A p \in 1..Len(q) : q[p].slot \in Active(t)
  BY <1>1 DEF EventsOk, BatchOk
<1>10. QuietEvents(t)'
  BY <1>1, <1>3 DEF QuietEvents, Batched
<1> HIDE DEF e, q, r, item
<1>11. ASSUME \A i \in Slots : Known(t, i)' = Known(t, i),
              \A i \in Slots : results'[t][i] # results[t][i] =>
                /\ i = item.slot /\ item.kind = "done" /\ results'[t][i] = item
       PROVE  (\A i \in Active(t) : CallFollows(t, i))'
  <2>1. ASSUME NEW i \in Active(t) PROVE CallFollows(t, i)'
    <3>1. i \in Slots /\ Known(t, i)' = Known(t, i) /\ CallFollows(t, i)
      BY <1>9, <1>11 DEF Active
    <3>2. Progress(t, i, worker[t][i], Known(t, i))'
      BY <1>3, <1>8, <3>1 DEF Progress, CallFollows
    <3>3. /\ results[t][i] # Unfilled => \A p \in 1..Len(r) : r[p].slot # i
          /\ \A p \in 1..Len(r) : r[p].slot = i /\ r[p].kind = "done" /\ r[p].outcome = "refused"
               => "started" \notin Known(t, i)
      BY <1>2, <3>1 DEF CallFollows, q
    <3>4. CASE results'[t][i] = results[t][i]
      BY <1>3, <3>1, <3>2, <3>3, <3>4 DEF CallFollows
    <3>5. CASE results'[t][i] # results[t][i]
      <4>1. i = item.slot /\ item.kind = "done" /\ results'[t][i] = item
        BY <1>11, <3>1, <3>5
      <4>2. ASSUME NEW p \in 1..Len(r), r[p].slot = i PROVE FALSE
        <5>1. Rank("done") < Rank(r[p].kind)
          BY <1>6, <4>1, <4>2
        <5> QED
          BY <5>1, Ranks
      <4>3. item.outcome = "refused" => "started" \notin Known(t, i)
        BY <1>2, <3>1, <4>1 DEF CallFollows, q
      <4> QED
        BY <1>3, <3>1, <3>2, <3>3, <4>1, <4>2, <4>3 DEF CallFollows
    <3> QED
      BY <3>4, <3>5
  <2> QED
    BY <1>8, <2>1
<1>12. CASE item.kind = "done"
  <2>1. /\ events'[t] = e /\ results' = [results EXCEPT ![t][item.slot] = item]
    BY <1>4, <1>12
  <2>2. \A i \in Slots : results'[t][i] = IF i = item.slot THEN item ELSE results[t][i]
    BY <1>1, <2>1 DEF TypeOK, BatchType
  <2>3. item # Unfilled
    BY <1>12 DEF Unfilled
  <2>4. ASSUME NEW i \in Slots PROVE Known(t, i)' = Known(t, i)
    <3>1. Known(t, i)' = Kinds(e, i) \cup Kinds(r, i)
                           \cup (IF results'[t][i] # Unfilled THEN {"done"} ELSE {})
      BY <1>3, <2>1 DEF Known
    <3>2. Known(t, i) = Kinds(e, i) \cup Kinds(q, i)
                           \cup (IF results[t][i] # Unfilled THEN {"done"} ELSE {})
      BY DEF Known, e, q
    <3> QED
      BY <1>6, <1>12, <2>2, <2>3, <3>1, <3>2
  <2>5. \A i \in Slots : results'[t][i] # results[t][i] =>
          i = item.slot /\ item.kind = "done" /\ results'[t][i] = item
    BY <1>12, <2>2
  <2>6. EventsInOrder(t)'
    BY <1>3, <1>5, <1>6, <1>7, <2>1 DEF EventsInOrder
  <2>7. (\A i \in Active(t) : CallFollows(t, i))'
    BY <1>11, <2>4, <2>5
  <2> QED
    BY <1>10, <2>6, <2>7 DEF EventsOk
<1>13. CASE item.kind # "done"
  <2> DEFINE f == Append(e, item)
             n == Len(e)
  <2>1. results' = results /\ events'[t] = f
    BY <1>4, <1>13
  <2>2. item \in ClientEvents /\ item.kind \in {"approval", "started", "result"}
    BY <1>2, <1>13, TurnLoopAssumption DEF QueueItems, ClientEvents, Slots
  <2>3. \A p \in 1..n : e[p].slot = item.slot => Rank(e[p].kind) < Rank(item.kind)
    BY <1>2, <1>5 DEF Before
  <2>4. /\ Ordered(f)
        /\ \A i : Kinds(f, i) = Kinds(e, i) \cup (IF item.slot = i THEN {item.kind} ELSE {})
    BY <1>1, <1>5, <2>2, <2>3, OrderedAppend
  <2>5. /\ Len(f) = n + 1 /\ f[n + 1] = item /\ n \in Nat
        /\ \A p \in 1..n : f[p] = e[p]
    BY <1>1, <2>2, AppendFacts
  <2> HIDE DEF f
  <2>6. \A p \in 1..(n + 1) : p \in 1..n \/ p = n + 1
    BY <2>5
  <2>7. \A p \in 1..Len(f) : f[p].kind \in {"approval", "started", "result"}
    BY <1>5, <2>2, <2>5, <2>6
  <2>8. Before(f, r)
    <3> SUFFICES ASSUME NEW p \in 1..(n + 1), NEW s \in 1..Len(r), f[p].slot = r[s].slot
                 PROVE  Rank(f[p].kind) < Rank(r[s].kind)
      BY <2>5 DEF Before
    <3>1. CASE p \in 1..n
      BY <1>7, <2>5, <3>1 DEF Before
    <3>2. CASE p = n + 1
      BY <1>6, <2>5, <3>2
    <3> QED
      BY <2>6, <3>1, <3>2
  <2>9. ASSUME NEW i \in Slots PROVE Known(t, i)' = Known(t, i)
    <3>1. Known(t, i)' = Kinds(f, i) \cup Kinds(r, i)
                           \cup (IF results[t][i] # Unfilled THEN {"done"} ELSE {})
      BY <1>3, <2>1 DEF Known
    <3>2. Known(t, i) = Kinds(e, i) \cup Kinds(q, i)
                           \cup (IF results[t][i] # Unfilled THEN {"done"} ELSE {})
      BY DEF Known, e, q
    <3> QED
      BY <1>6, <2>4, <3>1, <3>2
  <2>10. EventsInOrder(t)'
    BY <1>3, <1>6, <2>1, <2>4, <2>7, <2>8 DEF EventsInOrder
  <2>11. (\A i \in Active(t) : CallFollows(t, i))'
    BY <1>11, <2>1, <2>9
  <2> QED
    BY <1>10, <2>10, <2>11 DEF EventsOk
<1> QED
  BY <1>12, <1>13

\* What a worker puts on the queue follows what it has put there before.
LEMMA ArcProgress ==
  ASSUME NEW t, NEW i, NEW s, NEW items, NEW K,
         Arc(t, i, s, items), Progress(t, i, worker[t][i], K)
  PROVE  /\ Progress(t, i, s, K \cup Kinds(items, i))
         /\ \A k : k # i => Kinds(items, k) = {}
         /\ Ordered(items)
         /\ \A p \in 1..Len(items) :
              /\ items[p].slot = i
              /\ \A k \in K : Rank(k) < Rank(items[p].kind)
              /\ items[p].kind = "done" /\ items[p].outcome = "refused"
                   => "started" \notin K \cup Kinds(items, i)
<1> DEFINE N == Kinds(items, i)
           Goal == /\ Progress(t, i, s, K \cup N)
                   /\ \A k : k # i => Kinds(items, k) = {}
                   /\ Ordered(items)
                   /\ \A p \in 1..Len(items) :
                        /\ items[p].slot = i
                        /\ \A k \in K : Rank(k) < Rank(items[p].kind)
                        /\ items[p].kind = "done" /\ items[p].outcome = "refused"
                             => "started" \notin K \cup N
<1>1. ASSUME NEW k \in {"approval", "started"}, items = <<Event(k, i)>>
      PROVE  /\ N = {k} /\ \A j : j # i => Kinds(items, j) = {}
             /\ Ordered(items)
             /\ \A p \in 1..Len(items) : items[p].slot = i /\ items[p].kind = k
  <2>1. /\ Len(items) = 1 /\ items[1] = Event(k, i)
        /\ Event(k, i).slot = i /\ Event(k, i).kind = k
    BY <1>1 DEF Event
  <2>2. \A j : Kinds(items, j) = IF i = j THEN {k} ELSE {}
    BY <1>1, <2>1, KindsFew, ZenonT(30)
  <2>3. \A p \in 1..Len(items) : items[p].slot = i /\ items[p].kind = k /\ p = 1
    BY <2>1
  <2>4. Ordered(items)
    BY <2>3 DEF Ordered
  <2> QED
    BY <2>2, <2>3, <2>4
<1>2. ASSUME NEW o, items = <<Event("result", i), Done(i, o)>>
      PROVE  /\ N = {"result", "done"} /\ \A j : j # i => Kinds(items, j) = {}
             /\ Ordered(items)
             /\ \A p \in 1..Len(items) :
                  /\ items[p].slot = i /\ items[p].kind \in {"result", "done"}
                  /\ items[p].kind = "done" => items[p].outcome = o
  <2>1. /\ Len(items) = 2 /\ items[1] = Event("result", i) /\ items[2] = Done(i, o)
        /\ Event("result", i).slot = i /\ Event("result", i).kind = "result"
        /\ Done(i, o).slot = i /\ Done(i, o).kind = "done" /\ Done(i, o).outcome = o
    BY <1>2 DEF Event, Done
  <2>2. \A j : Kinds(items, j) = IF i = j THEN {"result", "done"} ELSE {}
    <3>1. \A j : Kinds(items, j) = (IF Event("result", i).slot = j THEN {Event("result", i).kind} ELSE {})
                                     \cup (IF Done(i, o).slot = j THEN {Done(i, o).kind} ELSE {})
      BY <1>2, KindsFew
    <3>2. \A j : Kinds(items, j) = (IF i = j THEN {"result"} ELSE {}) \cup (IF i = j THEN {"done"} ELSE {})
      BY <2>1, <3>1
    <3> QED
      BY <3>2
  <2>3. \A p \in 1..Len(items) : p = 1 \/ p = 2
    BY <2>1
  <2>4. Ordered(items)
    BY <2>1, <2>3, Ranks DEF Ordered
  <2> QED
    BY <2>1, <2>2, <2>3, <2>4
<1>3. ASSUME items = <<>>
      PROVE  /\ \A j : Kinds(items, j) = {} /\ Ordered(items)
             /\ \A p \in 1..Len(items) : FALSE
  <2>1. Len(items) = 0
    BY <1>3
  <2>2. \A j : Kinds(items, j) = {}
    BY <1>3, KindsFew
  <2> QED
    BY <2>1, <2>2 DEF Ordered
<1> SUFFICES Goal
  OBVIOUS
<1> HIDE DEF N
<1>4. CASE /\ worker[t][i] = "created" /\ s = "waiting" /\ Name(t, i) \in Gated
           /\ items = <<Event("approval", i)>>
  <2>1. K = {}
    BY <1>4 DEF Progress, AtGate, InRegistry
  <2>2. Progress(t, i, s, K \cup N)
    BY <1>1, <1>4, <2>1 DEF Progress, AtGate, InRegistry
  <2>3. /\ N = {"approval"} /\ \A j : j # i => Kinds(items, j) = {}
        /\ Ordered(items)
        /\ \A p \in 1..Len(items) : items[p].slot = i /\ items[p].kind = "approval"
    BY <1>1, <1>4
  <2> QED
    BY <2>1, <2>2, <2>3
<1>5. CASE /\ worker[t][i] = "created" /\ s = "checking" /\ Name(t, i) \notin Gated
           /\ items = <<Event("started", i)>>
  <2>1. K = {}
    BY <1>5 DEF Progress, AtGate, InRegistry
  <2>2. Progress(t, i, s, K \cup N)
    BY <1>1, <1>5, <2>1 DEF Progress, AtGate, InRegistry
  <2>3. /\ N = {"started"} /\ \A j : j # i => Kinds(items, j) = {}
        /\ Ordered(items)
        /\ \A p \in 1..Len(items) : items[p].slot = i /\ items[p].kind = "started"
    BY <1>1, <1>5
  <2> QED
    BY <2>1, <2>2, <2>3
<1>6. CASE /\ worker[t][i] = "waiting" /\ s = "checking" /\ items = <<Event("started", i)>>
  <2>1. K = {"approval"} /\ Name(t, i) \in Gated
    BY <1>6 DEF Progress, AtGate, InRegistry
  <2>2. N = {"started"}
    BY <1>1, <1>6
  <2>3. K \cup N = {"approval", "started"}
    BY <2>1, <2>2
  <2>4. Progress(t, i, s, K \cup N)
    BY <1>6, <2>1, <2>3 DEF Progress, AtGate, InRegistry
  <2>5. /\ N = {"started"} /\ \A j : j # i => Kinds(items, j) = {}
        /\ Ordered(items)
        /\ \A p \in 1..Len(items) : items[p].slot = i /\ items[p].kind = "started"
    BY <1>1, <1>6
  <2> QED
    BY <2>1, <2>4, <2>5, Ranks
<1>7. CASE /\ worker[t][i] \in AtGate /\ s = "finished"
           /\ items = <<Event("result", i), Done(i, "refused")>>
  <2>1. K = {"approval"} /\ Name(t, i) \in Gated
    BY <1>7 DEF Progress, AtGate, InRegistry
  <2>2. N = {"result", "done"}
    BY <1>2, <1>7
  <2>3. K \cup N = {"approval", "result"} \cup {"done"}
    BY <2>1, <2>2
  <2>4. Progress(t, i, s, K \cup N)
    BY <1>7, <2>1, <2>3 DEF Progress, AtGate, InRegistry, Courses
  <2>5. \A p \in 1..Len(items) : \A k \in K : Rank(k) < Rank(items[p].kind)
    BY <1>2, <1>7, <2>1, Ranks
  <2>6. /\ N = {"result", "done"} /\ \A j : j # i => Kinds(items, j) = {}
        /\ Ordered(items)
        /\ \A p \in 1..Len(items) :
             /\ items[p].slot = i /\ items[p].kind \in {"result", "done"}
             /\ items[p].kind = "done" => items[p].outcome = "refused"
    BY <1>2, <1>7
  <2> QED
    BY <2>3, <2>4, <2>5, <2>6
<1>8. ASSUME worker[t][i] \in InRegistry, s = "finished",
             NEW o \in {"answered", "crashed"},
             items = <<Event("result", i), Done(i, o)>>
      PROVE  Goal
  <2>1. K = IF Name(t, i) \in Gated THEN {"approval", "started"} ELSE {"started"}
    BY <1>8 DEF Progress, AtGate, InRegistry
  <2>2. N = {"result", "done"}
    BY <1>2, <1>8
  <2>3. K \cup N = (IF Name(t, i) \in Gated THEN {"approval", "started", "result"}
                                            ELSE {"started", "result"}) \cup {"done"}
    BY <2>1, <2>2
  <2>4. Progress(t, i, s, K \cup N)
    BY <1>8, <2>3 DEF Progress, AtGate, InRegistry, Courses
  <2>5. \A p \in 1..Len(items) : \A k \in K : Rank(k) < Rank(items[p].kind)
    BY <1>2, <1>8, <2>1, Ranks
  <2>6. \A p \in 1..Len(items) : items[p].kind = "done" => items[p].outcome # "refused"
    BY <1>2, <1>8
  <2> QED
    BY <1>2, <1>8, <2>4, <2>5, <2>6
<1>9. CASE <<worker[t][i], s>> \in QuietArcs /\ items = <<>>
  <2>1. K \cup N = K
    BY <1>3, <1>9 DEF N
  <2>2. Progress(t, i, s, K \cup N)
    BY <1>9, <2>1 DEF Progress, AtGate, InRegistry, QuietArcs
  <2> QED
    BY <1>3, <1>9, <2>2 DEF N
<1>10. CASE worker[t][i] \in Live /\ s = "cancelled" /\ items = <<>>
  <2>1. K \cup N = K
    BY <1>3, <1>10 DEF N
  <2>2. Progress(t, i, s, K \cup N)
    BY <1>10, <2>1 DEF Progress, AtGate, InRegistry, Live
  <2> QED
    BY <1>3, <1>10, <2>2 DEF N
<1> QED
  BY <1>4, <1>5, <1>6, <1>7, <1>8, <1>9, <1>10 DEF Arc

\* The events after a worker moved.
LEMMA EventsMove ==
  ASSUME BatchInv, NEW t \in Turns, EventsOk(t), NEW i \in Slots, NEW s \in WorkerStates \ {"none"},
         NEW items \in Seq(QueueItems), WorkerMoves(t, i, s, items)
  PROVE  EventsOk(t)'
<1> DEFINE e == events[t]
           q == queue[t]
           r == q \o items
           K == Known(t, i)
<1>1. /\ TypeOK /\ HistoryType /\ BatchOk(t) /\ LiveInBatch
      /\ q \in Seq(QueueItems) /\ e \in Seq(ClientEvents)
  BY DEF BatchInv, GateInv, TypeOK, BatchType, HistoryType
<1>2. /\ i \in Active(t) /\ worker[t][i] \in Live /\ Arc(t, i, s, items)
      /\ worker' = [worker EXCEPT ![t][i] = s]
      /\ queue'[t] = r /\ events'[t] = e /\ UNCHANGED <<phase, calls, results>>
  BY <1>1 DEF WorkerMoves, Arc, QuietArcs, AtGate, InRegistry, Live, TypeOK, BatchType
<1>3. phase[t] \in Batched
  BY <1>1, <1>2 DEF LiveInBatch, Batched
<1>4. results[t][i] = Unfilled
  BY <1>1, <1>2 DEF BatchOk, Live
<1>5. /\ worker'[t][i] = s
      /\ \A k \in Slots : k # i => worker'[t][k] = worker[t][k]
  BY <1>1, <1>2 DEF TypeOK, BatchType
<1>6. /\ Active(t)' = Active(t) /\ \A k : Name(t, k)' = Name(t, k)
      /\ \A k : Courses(t, k)' = Courses(t, k)
  BY <1>2 DEF Active, Name, Courses
<1>7. /\ \A k \in Active(t) : k \in Slots /\ CallFollows(t, k)
      /\ \A p \in 1..Len(q) : q[p].kind = "done" => worker[t][q[p].slot] = "finished"
      /\ \A p \in 1..Len(e) : e[p].kind \in {"approval", "started", "result"}
      /\ Ordered(e) /\ Ordered(q) /\ Before(e, q)
  BY <1>1, <1>3 DEF EventsOk, EventsInOrder, BatchOk, Active
<1>8. Progress(t, i, worker[t][i], K)
  BY <1>2, <1>7 DEF CallFollows
<1>9. /\ Kinds(e, i) \subseteq K /\ Kinds(q, i) \subseteq K
  BY DEF Known
<1> HIDE DEF K
<1>10. /\ Progress(t, i, s, K \cup Kinds(items, i))
       /\ \A k : k # i => Kinds(items, k) = {}
       /\ Ordered(items)
       /\ \A p \in 1..Len(items) :
            /\ items[p].slot = i
            /\ \A k \in K : Rank(k) < Rank(items[p].kind)
            /\ items[p].kind = "done" /\ items[p].outcome = "refused"
                 => "started" \notin K \cup Kinds(items, i)
  BY <1>2, <1>8, ArcProgress
<1> HIDE DEF e, q
<1>11. Before(e, items) /\ Before(q, items)
  <2>1. ASSUME NEW p \in 1..Len(e), NEW m \in 1..Len(items), e[p].slot = items[m].slot
        PROVE  Rank(e[p].kind) < Rank(items[m].kind)
    <3>1. e[p].kind \in Kinds(e, i)
      BY <1>10, <2>1 DEF Kinds
    <3> QED
      BY <1>9, <1>10, <3>1
  <2>2. ASSUME NEW p \in 1..Len(q), NEW m \in 1..Len(items), q[p].slot = items[m].slot
        PROVE  Rank(q[p].kind) < Rank(items[m].kind)
    <3>1. q[p].kind \in Kinds(q, i)
      BY <1>10, <2>2 DEF Kinds
    <3> QED
      BY <1>9, <1>10, <3>1
  <2> QED
    BY <2>1, <2>2 DEF Before
<1>12. Ordered(r)
  BY <1>1, <1>7, <1>10, <1>11, OrderedConcat
<1>13. Before(e, r)
  BY <1>1, <1>7, <1>11, BeforeConcat
<1>14. \A k : Kinds(r, k) = Kinds(q, k) \cup Kinds(items, k)
  BY <1>1, KindsConcat
<1>15. ASSUME NEW p \in 1..Len(r)
       PROVE  \/ p \in 1..Len(q) /\ r[p] = q[p]
              \/ \E m \in 1..Len(items) : r[p] = items[m]
  <2>1. /\ Len(q) \in Nat /\ Len(items) \in Nat /\ p \in 1..(Len(q) + Len(items))
        /\ r[p] = IF p <= Len(q) THEN q[p] ELSE items[p - Len(q)]
    BY <1>1, ConcatProperties
  <2> HIDE DEF r
  <2>2. CASE p <= Len(q)
    BY <2>1, <2>2
  <2>3. CASE ~(p <= Len(q))
    <3>1. p - Len(q) \in 1..Len(items) /\ r[p] = items[p - Len(q)]
      BY <2>1, <2>3
    <3> QED
      BY <3>1
  <2> QED
    BY <2>2, <2>3
<1> HIDE DEF r
<1>16. \A k : Known(t, k)' = Known(t, k) \cup Kinds(items, k)
  <2> SUFFICES ASSUME NEW k PROVE Known(t, k)' = Known(t, k) \cup Kinds(items, k)
    OBVIOUS
  <2>1. Known(t, k)' = Kinds(e, k) \cup Kinds(r, k)
                         \cup (IF results[t][k] # Unfilled THEN {"done"} ELSE {})
    BY <1>2 DEF Known
  <2>2. Known(t, k) = Kinds(e, k) \cup Kinds(q, k)
                         \cup (IF results[t][k] # Unfilled THEN {"done"} ELSE {})
    BY DEF Known, e, q
  <2> QED
    BY <1>14, <2>1, <2>2
<1>17. QuietEvents(t)'
  BY <1>2, <1>3 DEF QuietEvents
<1>18. EventsInOrder(t)'
  BY <1>2, <1>7, <1>12, <1>13 DEF EventsInOrder
<1>19. ASSUME NEW k \in Active(t), k # i PROVE CallFollows(t, k)'
  <2>1. k \in Slots /\ Known(t, k)' = Known(t, k) /\ CallFollows(t, k)
    BY <1>7, <1>10, <1>16, <1>19
  <2>2. worker'[t][k] = worker[t][k]
    BY <1>5, <1>19, <2>1
  <2>3. Progress(t, k, worker[t][k], Known(t, k))'
    BY <1>6, <2>1, <2>2 DEF Progress, CallFollows
  <2>4. \A p \in 1..Len(r) : r[p].slot = k => p \in 1..Len(q) /\ r[p] = q[p]
    BY <1>10, <1>15, <1>19
  <2>5. /\ results[t][k] # Unfilled => \A p \in 1..Len(q) : q[p].slot # k
        /\ \A p \in 1..Len(q) : q[p].slot = k /\ q[p].kind = "done" /\ q[p].outcome = "refused"
             => "started" \notin Known(t, k)
    BY <2>1 DEF CallFollows, q
  <2> QED
    BY <1>2, <2>1, <2>2, <2>3, <2>4, <2>5 DEF CallFollows
<1>20. CallFollows(t, i)'
  <2>1. Known(t, i)' = K \cup Kinds(items, i)
    BY <1>16 DEF K
  <2>2. Progress(t, i, worker[t][i], Known(t, i))'
    BY <1>5, <1>6, <1>10, <2>1 DEF Progress
  <2>3. \A p \in 1..Len(r) : r[p].slot = i /\ r[p].kind = "done"
          => \E m \in 1..Len(items) : r[p] = items[m]
    BY <1>2, <1>7, <1>15 DEF Live
  <2> QED
    BY <1>2, <1>4, <1>5, <1>10, <2>1, <2>2, <2>3 DEF CallFollows
<1>21. (\A k \in Active(t) : CallFollows(t, k))'
  BY <1>6, <1>19, <1>20
<1> QED
  BY <1>17, <1>18, <1>21 DEF EventsOk

\* Initially no client has seen anything.
LEMMA EventsInit == Init => \A t \in Turns : EventsOk(t)
<1> SUFFICES ASSUME Init, NEW t \in Turns PROVE EventsOk(t)
  OBVIOUS
<1>1. events[t] = <<>> /\ phase[t] \notin Batched /\ calls[t] = <<>>
  BY DEF Init, Batched
<1>2. Active(t) = {}
  BY <1>1, TurnLoopAssumption DEF Active, Slots
<1> QED
  BY <1>1, <1>2 DEF EventsOk, QuietEvents, EventsInOrder

\* A step that leaves the batch and its events alone.
LEMMA EventsKept ==
  ASSUME NEW t \in Turns, EventsOk(t), calls'[t] = calls[t], worker'[t] = worker[t],
         queue'[t] = queue[t], results'[t] = results[t], events'[t] = events[t],
         QuietEvents(t)', EventsInOrder(t)'
  PROVE  EventsOk(t)'
<1>1. /\ Active(t)' = Active(t)
      /\ \A i : Name(t, i)' = Name(t, i)
      /\ \A i : Courses(t, i)' = Courses(t, i)
      /\ \A i : Known(t, i)' = Known(t, i)
  BY DEF Active, Name, Courses, Known
<1>2. ASSUME NEW i \in Active(t) PROVE CallFollows(t, i)'
  <2>1. CallFollows(t, i)
    BY DEF EventsOk
  <2>2. Progress(t, i, worker[t][i], Known(t, i))'
    BY <1>1, <2>1 DEF Progress, CallFollows
  <2> QED
    BY <1>1, <2>1, <2>2 DEF CallFollows
<1> QED
  BY <1>1, <1>2 DEF EventsOk

\* A batch begun or thrown away.
LEMMA EventsSetBatch ==
  ASSUME TypeOK, HistoryType, NEW t \in Turns, NEW cs \in Seq([id : CallIds, name : Tools]),
         NEW s \in {"created", "none"}, SetBatch(t, cs, s), s = "created" \/ cs = <<>>
  PROVE  EventsOk(t)'
<1>1. /\ calls'[t] = cs /\ queue'[t] = <<>> /\ events'[t] = <<>>
      /\ worker'[t] = [i \in Slots |-> IF i <= Len(cs) THEN s ELSE "none"]
      /\ results'[t] = [i \in Slots |-> Unfilled]
  BY DEF SetBatch, TypeOK, BatchType, HistoryType
<1>2. Active(t)' = {i \in Slots : i <= Len(cs)}
  BY <1>1 DEF Active
<1>3. QuietEvents(t)' /\ EventsInOrder(t)'
  BY <1>1 DEF QuietEvents, EventsInOrder, Ordered, Before
<1>4. ASSUME NEW i \in Slots, i <= Len(cs) PROVE CallFollows(t, i)'
  <2>1. Known(t, i)' = {}
    <3>1. Known(t, i)' = Kinds(events'[t], i) \cup Kinds(queue'[t], i)
                           \cup (IF results'[t][i] # Unfilled THEN {"done"} ELSE {})
      BY DEF Known
    <3>2. Kinds(<<>>, i) = {}
      BY KindsFew
    <3> QED
      BY <1>1, <3>1, <3>2
  <2>2. worker'[t][i] = "created"
    <3>1. s = "created"
      BY <1>4, TurnLoopAssumption DEF Slots
    <3> QED
      BY <1>1, <1>4, <3>1
  <2>3. Progress(t, i, worker[t][i], Known(t, i))'
    BY <2>1, <2>2 DEF Progress, AtGate, InRegistry
  <2> QED
    BY <1>1, <2>1, <2>2, <2>3 DEF CallFollows, WorkerStates
<1>5. (\A i \in Active(t) : CallFollows(t, i))'
  BY <1>2, <1>4
<1> QED
  BY <1>3, <1>5 DEF EventsOk

\* Every step shows each client only what it may.
LEMMA StepEventsOk ==
  ASSUME BatchInv, \A t \in Turns : EventsOk(t), [Next]_vars
  PROVE  \A t \in Turns : EventsOk(t)'
<1> SUFFICES ASSUME NEW t \in Turns PROVE EventsOk(t)'
  OBVIOUS
<1>1. EventsOk(t) /\ TypeOK /\ HistoryType /\ BatchOk(t)
  BY DEF BatchInv, GateInv
<1>2. CASE Still(t)
  <2>1. /\ calls'[t] = calls[t] /\ worker'[t] = worker[t] /\ phase'[t] = phase[t]
        /\ queue'[t] = queue[t] /\ results'[t] = results[t] /\ events'[t] = events[t]
    BY <1>2 DEF Still
  <2>2. QuietEvents(t)' /\ EventsInOrder(t)'
    BY <1>1, <2>1 DEF EventsOk, QuietEvents, EventsInOrder
  <2> QED
    BY <1>1, <2>1, <2>2, EventsKept
<1>3. CASE Quiet(t) /\ phase[t] \in Batched
  <2>1. /\ calls'[t] = calls[t] /\ worker'[t] = worker[t]
        /\ queue'[t] = queue[t] /\ results'[t] = results[t] /\ events'[t] = events[t]
        /\ phase'[t] \in Batched
    BY <1>3 DEF Quiet, Batched
  <2>2. QuietEvents(t)' /\ EventsInOrder(t)'
    BY <1>1, <1>3, <2>1 DEF EventsOk, QuietEvents, EventsInOrder
  <2> QED
    BY <1>1, <2>1, <2>2, EventsKept
<1>4. CASE Quiet(t) /\ phase[t] \notin Batched
  <2>1. /\ calls[t] = <<>> /\ queue[t] = <<>> /\ events[t] = <<>>
    BY <1>1, <1>4 DEF EventsOk, QuietEvents, BatchOk, Quiet, Over
  <2>2. calls'[t] = <<>> /\ queue'[t] = <<>>
    BY <1>4, <2>1 DEF Quiet
  <2>3. Active(t)' = {}
    BY <2>2, TurnLoopAssumption DEF Active, Slots
  <2>4. CASE events'[t] = events[t]
    <3>1. QuietEvents(t)' /\ EventsInOrder(t)'
      BY <2>1, <2>2, <2>4 DEF QuietEvents, EventsInOrder, Ordered, Before
    <3> QED
      BY <2>3, <3>1 DEF EventsOk
  <2>5. CASE /\ phase'[t] \in {"completed", "failed"}
             /\ \E k \in {"complete", "failed"} : events'[t] = Append(events[t], Event(k, 0))
    <3>1. PICK k \in {"complete", "failed"} : events'[t] = Append(events[t], Event(k, 0))
      BY <2>5
    <3>2. events'[t] = <<Event(k, 0)>>
      BY <2>1, <3>1
    <3>3. QuietEvents(t)' /\ EventsInOrder(t)'
      BY <2>5, <3>2 DEF QuietEvents, EventsInOrder, Batched
    <3> QED
      BY <2>3, <3>3 DEF EventsOk
  <2> QED
    BY <1>4, <2>4, <2>5 DEF Quiet
<1>5. CASE ModelCallsTools(t)
  <2>1. PICK cs \in Batches : CallTools(t, cs)
    BY <1>5 DEF ModelCallsTools
  <2>2. SetBatch(t, cs, "created")
    BY <2>1 DEF CallTools
  <2>3. cs \in Seq([id : CallIds, name : Tools])
    BY BatchesType
  <2> QED
    BY <1>1, <2>2, <2>3, EventsSetBatch
<1>6. CASE FanIn(t)
  BY <1>1, <1>6, EventsFanIn
<1>7. CASE CollectBatch(t)
  <2>1. SetBatch(t, <<>>, "none")
    BY <1>7 DEF CollectBatch
  <2>2. <<>> \in Seq([id : CallIds, name : Tools])
    OBVIOUS
  <2> QED
    BY <1>1, <2>1, <2>2, EventsSetBatch
<1>8. ASSUME NEW i \in Slots, WorkerStep(t, i) PROVE EventsOk(t)'
  <2>1. PICK s \in WorkerStates, items \in Seq(QueueItems) : WorkerMoves(t, i, s, items)
    BY <1>1, <1>8, WorkerShape
  <2>2. s \in WorkerStates \ {"none"}
    BY <2>1 DEF WorkerMoves, Arc, QuietArcs
  <2> QED
    BY <1>1, <2>1, <2>2, EventsMove
<1> QED
  BY <1>1, <1>2, <1>3, <1>4, <1>5, <1>6, <1>7, <1>8, StepShape, TurnShape

\* What the client of a turn in a batch has seen of one call is the beginning of
\* a course, and all of it when the call's result is in.
LEMMA CourseSeen ==
  ASSUME BatchInv, NEW t \in Turns, EventsOk(t), NEW i \in Active(t)
  PROVE  \E course \in Courses(t, i) :
           LET seen == Kinds(events[t], i)
           IN  /\ seen \subseteq course
               /\ \A k \in seen, j \in course : Rank(j) < Rank(k) => j \in seen
               /\ results[t][i] # Unfilled =>
                    /\ seen = course
                    /\ results[t][i].outcome = "refused" => "started" \notin course
<1> DEFINE seen == Kinds(events[t], i)
           coming == Kinds(queue[t], i)
           K == Known(t, i)
           Full == IF Name(t, i) \in Gated THEN {"approval", "started", "result"}
                                           ELSE {"started", "result"}
<1>1. /\ i \in Slots /\ worker[t][i] \in WorkerStates \ {"none"}
      /\ Progress(t, i, worker[t][i], K) /\ BatchOk(t)
      /\ results[t][i] # Unfilled => \A p \in 1..Len(queue[t]) : queue[t][p].slot # i
      /\ results[t][i] # Unfilled /\ results[t][i].outcome = "refused" => "started" \notin K
  BY DEF Active, EventsOk, CallFollows, BatchInv
<1>2. phase[t] \in Batched
  <2>1. calls[t] # <<>>
    BY TurnLoopAssumption DEF Active, Slots
  <2> QED
    BY <1>1, <2>1 DEF BatchOk
<1>3. /\ \A p \in 1..Len(events[t]) : events[t][p].kind \in {"approval", "started", "result"}
      /\ Before(events[t], queue[t])
  BY <1>2 DEF EventsOk, EventsInOrder
<1>4. seen \subseteq {"approval", "started", "result"}
  BY <1>3 DEF Kinds
<1>5. ASSUME NEW k \in seen, NEW j \in coming PROVE Rank(k) < Rank(j)
  <2>1. PICK p \in 1..Len(events[t]) : events[t][p].slot = i /\ events[t][p].kind = k
    BY DEF Kinds
  <2>2. PICK m \in 1..Len(queue[t]) : queue[t][m].slot = i /\ queue[t][m].kind = j
    BY DEF Kinds
  <2> QED
    BY <1>3, <2>1, <2>2 DEF Before
<1>6. K = seen \cup coming \cup (IF results[t][i] # Unfilled THEN {"done"} ELSE {})
  BY DEF Known
<1>7. results[t][i] # Unfilled => coming = {} /\ worker[t][i] = "finished"
  BY <1>1 DEF Kinds, BatchOk
<1>8. Full \in Courses(t, i) /\ \A c \in Courses(t, i) : "done" \notin c /\ c \subseteq Full
  BY DEF Courses
<1> HIDE DEF seen, coming, K
<1>9. CASE worker[t][i] = "finished"
  <2>1. PICK c \in Courses(t, i) : K = c \cup {"done"}
    BY <1>1, <1>9 DEF Progress
  <2>2. "done" \notin c /\ "done" \notin seen
    BY <1>4, <1>8
  <2>3. seen \subseteq c
    BY <1>6, <2>1, <2>2
  <2>4. ASSUME NEW k \in seen, NEW j \in c, Rank(j) < Rank(k) PROVE j \in seen
    <3>1. j \in seen \/ j \in coming
      BY <1>6, <2>1, <2>2
    <3>2. Rank(j) \in 1..4 /\ Rank(k) \in 1..4
      BY Ranks
    <3> QED
      BY <1>5, <2>4, <3>1, <3>2
  <2>5. ASSUME results[t][i] # Unfilled
        PROVE  seen = c /\ (results[t][i].outcome = "refused" => "started" \notin c)
    <3>1. K = seen \cup {"done"}
      BY <1>6, <1>7, <2>5
    <3>2. seen = c
      BY <2>1, <2>2, <3>1
    <3> QED
      BY <1>1, <2>1, <2>5, <3>2
  <2> QED
    BY <2>3, <2>4, <2>5 DEF seen
<1>10. CASE worker[t][i] # "finished"
  <2>1. results[t][i] = Unfilled
    BY <1>7, <1>10
  <2>2. K \in IF Name(t, i) \in Gated THEN {{}, {"approval"}, {"approval", "started"}}
                                      ELSE {{}, {"started"}}
    BY <1>1, <1>10 DEF Progress, AtGate, InRegistry, WorkerStates
  <2>3. K = seen \cup coming
    BY <1>6, <2>1
  <2>4. seen \subseteq Full
    BY <2>2, <2>3
  <2>5. ASSUME NEW k \in seen, NEW j \in Full, Rank(j) < Rank(k) PROVE j \in seen
    <3>1. k \in K /\ k # "result"
      BY <2>2, <2>3
    <3>2. j \in K
      BY <2>2, <2>5, <3>1, Ranks
    <3>3. Rank(j) \in 1..4 /\ Rank(k) \in 1..4
      BY Ranks
    <3> QED
      BY <1>5, <2>3, <2>5, <3>2, <3>3
  <2> QED
    BY <1>8, <2>1, <2>4, <2>5 DEF seen
<1> QED
  BY <1>9, <1>10

\* What a client sees of each call is one of the courses the protocol has, in
\* its order and without gaps, complete when the call's result is in; nothing
\* follows the terminal event (loop.py:195-312, events.py).
THEOREM ClientsSeeTheProtocol == Spec => []EventProtocol
<1> DEFINE EventsInv == BatchInv /\ \A t \in Turns : EventsOk(t)
<1>1. Init => EventsInv
  BY InitGateInv, InitHistoryType, BatchInit, EventsInit DEF BatchInv
<1>2. EventsInv /\ BatchInv' /\ [Next]_vars => EventsInv'
  BY StepEventsOk
<1>3. EventsInv => EventProtocol
  <2> SUFFICES ASSUME EventsInv, NEW t \in Turns
               PROVE  /\ \A p, q \in 1..Len(events[t]) :
                           p < q /\ events[t][p].slot = events[t][q].slot
                             => Rank(events[t][p].kind) < Rank(events[t][q].kind)
                      /\ \A p \in 1..Len(events[t]) :
                           events[t][p].kind \in {"complete", "failed"} =>
                             p = Len(events[t]) /\ phase[t] \in {"completed", "failed"}
    BY CourseSeen DEF EventProtocol
  <2>1. EventsOk(t)
    OBVIOUS
  <2>2. CASE phase[t] \in Batched
    BY <2>1, <2>2 DEF EventsOk, EventsInOrder, Ordered
  <2>3. CASE events[t] = <<>>
    BY <2>3
  <2>4. ASSUME phase[t] \in {"completed", "failed"}, NEW k, events[t] = <<Event(k, 0)>>
        PROVE  /\ \A p, q \in 1..Len(events[t]) : ~(p < q)
               /\ \A p \in 1..Len(events[t]) : p = Len(events[t])
    BY <2>4
  <2> QED
    BY <2>1, <2>2, <2>3, <2>4 DEF EventsOk, QuietEvents
<1> HIDE DEF EventsInv
<1> QED
  BY <1>1, <1>2, <1>3, BatchInvariant, PTL DEF Spec

(***************************************************************************)
(* What the session store holds of a turn.                                 *)
(***************************************************************************)

\* The tool turns to persist are the pairs of the recorded results.
PairsOk(t) ==
  /\ toolTurns[t] \in Seq(ToolItems(t))
  /\ Paired(t, toolTurns[t], Only(messages[t], Recordable))

\* Initially there are neither.
LEMMA PairsInit == Init => \A t \in Turns : PairsOk(t)
<1> SUFFICES ASSUME Init, NEW t \in Turns PROVE PairsOk(t)
  OBVIOUS
<1>1. toolTurns[t] = <<>> /\ messages[t] = <<>>
  BY DEF Init
<1>2. Only(<<>>, Recordable) = <<>>
  BY OnlyEmpty
<1> QED
  BY <1>1, <1>2 DEF PairsOk, Paired

\* Every step keeps the two together.
LEMMA StepPairsOk ==
  ASSUME TypeOK, HistoryType, \A t \in Turns : PairsOk(t), [Next]_vars
  PROVE  \A t \in Turns : PairsOk(t)'
<1> SUFFICES ASSUME NEW t \in Turns PROVE PairsOk(t)'
  OBVIOUS
<1>1. PairsOk(t) /\ messages[t] \in Seq(Messages)
  BY DEF HistoryType
<1>2. ASSUME messages'[t] = messages[t], toolTurns'[t] = toolTurns[t] PROVE PairsOk(t)'
  BY <1>1, <1>2 DEF PairsOk
<1>3. CASE Still(t) \/ Quiet(t)
  BY <1>2, <1>3 DEF Still, Quiet
<1>4. CASE FanIn(t)
  BY <1>2, <1>4 DEF FanIn
<1>5. ASSUME NEW i \in Slots, WorkerStep(t, i) PROVE PairsOk(t)'
  <2>1. PICK s \in WorkerStates, items \in Seq(QueueItems) : WorkerMoves(t, i, s, items)
    BY <1>5, WorkerShape
  <2> QED
    BY <1>2, <2>1 DEF WorkerMoves
<1>6. CASE ModelCallsTools(t)
  <2>1. PICK cs \in Batches : CallTools(t, cs)
    BY <1>6 DEF ModelCallsTools
  <2> DEFINE m == [kind |-> "calls", iter |-> iter'[t], slot |-> Len(cs), outcome |-> "none"]
  <2>2. messages'[t] = Append(messages[t], m) /\ toolTurns'[t] = toolTurns[t]
    BY <2>1 DEF CallTools, HistoryType
  <2>3. m \in Messages
    <3>1. iter'[t] = iter[t] + 1 /\ iter[t] \in Nat
      BY <2>1, TurnLoopAssumption DEF CallTools, BeginIteration, TypeOK, ControlType
    <3>2. iter'[t] \in Nat /\ Len(cs) \in Nat
      BY <3>1, BatchesType, TurnLoopAssumption DEF Slots
    <3> QED
      BY <3>2 DEF Messages
  <2>4. m \notin Recordable
    BY DEF Recordable
  <2> HIDE DEF m
  <2>5. Only(Append(messages[t], m), Recordable) = Only(messages[t], Recordable)
    BY <1>1, <2>3, <2>4, OnlyAppend
  <2> QED
    BY <1>1, <2>2, <2>5 DEF PairsOk
<1>7. CASE CollectBatch(t)
  <2> DEFINE a == toolTurns[t]
             b == ResultTurns(t)
             m == messages[t]
             r == ResultMessages(t)
             d == Only(m, Recordable)
             e == Only(r, Recordable)
  <2>1. messages'[t] = m \o r /\ toolTurns'[t] = a \o b /\ Remaining(t) = {}
    BY <1>7 DEF CollectBatch, HistoryType
  <2>2. r \in Seq(Messages) /\ b \in Seq(ToolItems(t)) /\ Paired(t, b, e)
    BY <2>1, BatchHistory
  <2>3. a \in Seq(ToolItems(t)) /\ Paired(t, a, d) /\ m \in Seq(Messages)
    BY <1>1 DEF PairsOk
  <2> HIDE DEF a, b, m, r
  <2>4. d \in Seq(Recordable) /\ e \in Seq(Recordable)
    BY <2>2, <2>3, OnlyType
  <2>5. Only(m \o r, Recordable) = d \o e
    BY <2>2, <2>3, OnlyConcat
  <2> HIDE DEF d, e
  <2>6. Paired(t, a \o b, d \o e)
    BY <2>2, <2>3, <2>4, PairedConcat
  <2>7. a \o b \in Seq(ToolItems(t))
    BY <2>2, <2>3, ConcatProperties
  <2> QED
    BY <2>1, <2>5, <2>6, <2>7 DEF PairsOk
<1> QED
  BY <1>3, <1>4, <1>5, <1>6, <1>7, StepShape, TurnShape

\* What _persist appends for one turn.
Own(t) == Items(t, {"user", "assistant", "call", "tool"})

\* What a second attempt does: s is as much of the turn as a first attempt wrote,
\* then what a second wrote, which still has d to write.
Attempts(T, s, d, P) ==
  \E a, b, c \in Seq(T) :
    s = a \o b /\ a \o c = P /\ b \o d = P /\ (~StoreMayFail => a = <<>>)

\* Where a turn's writes stand in each of its phases.
StoredOk(t) ==
  /\ todo[t] \in Seq(Own(t))
  /\ phase[t] \in {"idle", "loop", "fanin", "rejected"} => StoredOf(t) = <<>> /\ bg[t] = {}
  /\ phase[t] = "persist" =>
       StoredOf(t) \o todo[t] = PersistItems(t, hasText[t]) /\ bg[t] = {}
  /\ phase[t] = "recover" =>
       Attempts(Own(t), StoredOf(t), todo[t], PersistItems(t, hasText[t])) /\ bg[t] = {}
  /\ phase[t] = "completed" =>
       StoredOf(t) = PersistItems(t, hasText[t]) /\ bg[t] = Enqueued(t)
  /\ phase[t] = "failed" => \E d \in Seq(Own(t)) :
       /\ Attempts(Own(t), StoredOf(t), d, PersistItems(t, hasText[t]))
       /\ ~StoreMayFail => d = <<>> /\ bg[t] = Enqueued(t)

\* The first element moved from one sequence to the end of another.
LEMMA MoveHead ==
  ASSUME NEW T, NEW s \in Seq(T), NEW d \in Seq(T), d # <<>>
  PROVE  /\ Append(s, Head(d)) \in Seq(T) /\ Tail(d) \in Seq(T) /\ Head(d) \in T
         /\ Append(s, Head(d)) \o Tail(d) = s \o d
<1> DEFINE h == Head(d)
           r == Tail(d)
           o == <<h>>
<1>1. h \in T /\ r \in Seq(T) /\ o \in Seq(T) /\ d = o \o r
  OBVIOUS
<1>2. Append(s, h) \in Seq(T) /\ Append(s, h) = s \o o
  BY <1>1
<1> HIDE DEF h, r, o
<1>3. (s \o o) \o r = s \o (o \o r)
  BY <1>1, ConcatAssociative
<1> QED
  BY <1>1, <1>2, <1>3 DEF h, r

\* A second attempt writes one more of the turn's items.
LEMMA AttemptsMove ==
  ASSUME NEW T, NEW s \in Seq(T), NEW d \in Seq(T), d # <<>>, NEW P, Attempts(T, s, d, P)
  PROVE  Attempts(T, Append(s, Head(d)), Tail(d), P)
<1>1. PICK a, b, c \in Seq(T) :
        s = a \o b /\ a \o c = P /\ b \o d = P /\ (~StoreMayFail => a = <<>>)
  BY DEF Attempts
<1> DEFINE h == Head(d)
           r == Tail(d)
           f == Append(b, h)
<1>2. h \in T /\ r \in Seq(T) /\ f \in Seq(T) /\ f \o r = b \o d
  BY MoveHead
<1> HIDE DEF h, r
<1> DEFINE o == <<h>>
           w == a \o b
<1>3. a \in Seq(T) /\ b \in Seq(T) /\ s = w
  BY <1>1
<1>4. o \in Seq(T) /\ f = b \o o
  BY <1>2, <1>3, AppendIsConcat
<1>5. Append(s, h) = a \o f
  <2> HIDE DEF o
  <2>1. (a \o b) \o o = a \o (b \o o)
    BY <1>3, <1>4, ConcatAssociative, SMTT(30)
  <2> HIDE DEF f, w
  <2>2. Append(w, h) = w \o o
    <3>1. w \in Seq(T)
      BY <1>3
    <3> QED
      BY <1>2, <3>1, AppendIsConcat DEF o
  <2> QED
    BY <1>3, <1>4, <2>1, <2>2 DEF w
<1> HIDE DEF f
<1>6. Attempts(T, Append(s, h), r, P)
  BY <1>1, <1>2, <1>5 DEF Attempts
<1> QED
  BY <1>6 DEF h, r

\* What _persist has to write is the turn's own.
LEMMA OwnItems ==
  ASSUME NEW t \in Turns, PairsOk(t), NEW txt
  PROVE  /\ PersistItems(t, txt) \in Seq(Own(t))
         /\ Len(PersistItems(t, txt)) = 1 + (IF txt THEN 1 ELSE 0) + Len(toolTurns[t])
         /\ PersistItems(t, txt)[1].kind = "user"
         /\ Only(PersistItems(t, txt), ToolItems(t)) = toolTurns[t]
<1> DEFINE u == <<Item(t, "user", 0, 0)>>
           a == IF txt THEN <<Item(t, "assistant", 0, 0)>> ELSE <<>>
           w == toolTurns[t]
           S == ToolItems(t)
           T == Own(t)
<1>1. u \in Seq(T) /\ Len(u) = 1 /\ u[1].kind = "user"
  BY DEF Item, Own, Items
<1>2. a \in Seq(T) /\ Len(a) = IF txt THEN 1 ELSE 0
  <2>1. Item(t, "assistant", 0, 0) \in T
    BY DEF Item, Own, Items
  <2> HIDE DEF T
  <2>2. CASE txt
    BY <2>1, <2>2
  <2>3. CASE ~txt
    BY <2>3
  <2> QED
    BY <2>2, <2>3
<1>3. w \in Seq(S) /\ w \in Seq(T)
  <2>1. w \in Seq(S)
    BY DEF PairsOk
  <2>2. S \subseteq T
    BY DEF ToolItems, Own, Items
  <2> HIDE DEF w, S, T
  <2> QED
    BY <2>1, <2>2, SeqMonotone
<1>4. Only(u, S) = <<>>
  <2>1. <<>> \in Seq(T) /\ Item(t, "user", 0, 0) \in T /\ Item(t, "user", 0, 0) \notin S
    BY DEF Item, Own, Items, ToolItems
  <2>2. u = Append(<<>>, Item(t, "user", 0, 0))
    OBVIOUS
  <2> HIDE DEF T, S, u
  <2>3. Only(Append(<<>>, Item(t, "user", 0, 0)), S) = Only(<<>>, S)
    BY <2>1, OnlyAppend
  <2> QED
    BY <2>2, <2>3, OnlyEmpty
<1>5. Only(a, S) = <<>>
  <2>1. CASE txt
    <3>1. <<>> \in Seq(T) /\ Item(t, "assistant", 0, 0) \in T /\ Item(t, "assistant", 0, 0) \notin S
      BY DEF Item, Own, Items, ToolItems
    <3>2. a = Append(<<>>, Item(t, "assistant", 0, 0))
      BY <2>1
    <3> HIDE DEF T, S, a
    <3>3. Only(Append(<<>>, Item(t, "assistant", 0, 0)), S) = Only(<<>>, S)
      BY <3>1, OnlyAppend
    <3> QED
      BY <3>2, <3>3, OnlyEmpty
  <2>2. CASE ~txt
    BY <2>2, OnlyEmpty
  <2> QED
    BY <2>1, <2>2
<1>6. PersistItems(t, txt) = u \o a \o w
  BY DEF PersistItems
<1> HIDE DEF u, a, w, S, T
<1>7. /\ u \o a \in Seq(T) /\ Len(u \o a) = Len(u) + Len(a)
      /\ (u \o a)[1] = u[1]
  <2>1. /\ u \o a \in Seq(T) /\ Len(u \o a) = Len(u) + Len(a)
        /\ \A i \in 1..(Len(u) + Len(a)) : (u \o a)[i] = IF i <= Len(u) THEN u[i] ELSE a[i - Len(u)]
    BY <1>1, <1>2, ConcatProperties
  <2>2. 1 \in 1..(Len(u) + Len(a)) /\ 1 <= Len(u)
    BY <1>1, <1>2
  <2> QED
    BY <2>1, <2>2
<1> DEFINE v == u \o a
<1> HIDE DEF v
<1>8. /\ v \o w \in Seq(T) /\ Len(v \o w) = Len(v) + Len(w)
      /\ (v \o w)[1] = v[1]
  <2>1. /\ v \o w \in Seq(T) /\ Len(v \o w) = Len(v) + Len(w)
        /\ \A i \in 1..(Len(v) + Len(w)) : (v \o w)[i] = IF i <= Len(v) THEN v[i] ELSE w[i - Len(v)]
    BY <1>3, <1>7, ConcatProperties DEF v
  <2>2. Len(w) \in Nat
    BY <1>3
  <2>3. 1 \in 1..(Len(v) + Len(w)) /\ 1 <= Len(v)
    BY <1>1, <1>2, <1>7, <2>2 DEF v
  <2> QED
    BY <2>1, <2>3
<1>9. Only(v, S) = <<>> \o <<>>
  BY <1>1, <1>2, <1>4, <1>5, OnlyConcat DEF v
<1>10. Only(v \o w, S) = Only(v, S) \o Only(w, S)
  <2>1. v \in Seq(T)
    BY <1>7 DEF v
  <2> QED
    BY <1>3, <2>1, OnlyConcat
<1>11. Only(w, S) = w
  BY <1>3, OnlyAll
<1>12. Only(v \o w, S) = w
  BY <1>3, <1>9, <1>10, <1>11
<1> QED
  BY <1>1, <1>2, <1>6, <1>7, <1>8, <1>12 DEF v, w, S, T

\* Only an append of a turn changes what is stored.
LEMMA StoredShape ==
  ASSUME [Next]_vars
  PROVE  stored' = stored \/ \E u \in Turns : AppendTurn(u)
<1>1. ASSUME NEW t \in Turns, TurnStep(t), ~AppendTurn(t) PROVE stored' = stored
  <2>1. CASE ModelStep(t)
    BY <2>1 DEF ModelStep, HitIterationCap, EndLoop, ModelFails, ModelCallsTools, CallTools,
                BeginPersist, persistVars
  <2>2. CASE PersistStep(t)
    BY <1>1, <2>2 DEF PersistStep, CompleteTurn, FailTurn, AppendFails, PersistFrame
  <2> QED
    BY <1>1, <2>1, <2>2
    DEF TurnStep, StartTurn, RejectTurn, FanIn, CollectBatch, TurnClosed, persistVars
<1>2. ASSUME NEW t \in Turns, NEW i \in Slots, WorkerStep(t, i) PROVE stored' = stored
  BY <1>2 DEF WorkerStep, WorkerBegins, WorkerApproved, WorkerDenied, ApprovalTimerFires,
              ApprovalTimesOut, PermissionRead, RegistryRefuses, HandlerStarts, HandlerEnds, HandlerCancelled, CancelWorker,
              WorkerFrame, persistVars
<1>3. ASSUME NEW t \in Turns, CloseTurn(t) PROVE stored' = stored
  BY <1>3 DEF CloseTurn, persistVars
<1>4. ASSUME ClientAnswers PROVE stored' = stored
  BY <1>4 DEF ClientAnswers, Resolve, persistVars
<1>5. ASSUME ChangePermissions PROVE stored' = stored
  BY <1>5 DEF ChangePermissions, persistVars
<1>6. ASSUME UNCHANGED vars PROVE stored' = stored
  BY <1>6 DEF vars
<1> QED
  BY <1>1, <1>2, <1>3, <1>4, <1>5, <1>6 DEF Next, Finished

\* What one turn appends is stored for it and for no other turn.
LEMMA StoredAfterAppend ==
  ASSUME HistoryType, NEW u \in Turns, todo[u] \in Seq(Own(u)), AppendTurn(u), NEW t \in Turns
  PROVE  StoredOf(t)' = IF t = u THEN Append(StoredOf(t), Head(todo[u])) ELSE StoredOf(t)
<1> DEFINE c == ConvOf[u]
           s == stored[c]
           h == Head(todo[u])
<1>1. /\ c \in Convs /\ s \in Seq(TurnItems) /\ todo[u] \in Seq(TurnItems) /\ todo[u] # <<>>
      /\ stored' = [stored EXCEPT ![c] = Append(s, h)]
  BY TurnLoopAssumption DEF HistoryType, AppendTurn
<1>2. h \in TurnItems /\ h \in Own(u)
  BY <1>1, HeadTail
<1>3. h \in Own(t) <=> t = u
  BY <1>2 DEF Own, Items
<1>4. StoredOf(t) = Only(stored[ConvOf[t]], Own(t)) /\ StoredOf(t)' = Only(stored'[ConvOf[t]], Own(t))
  BY DEF StoredOf, Own
<1> HIDE DEF s, h
<1>5. CASE ConvOf[t] = c
  <2>1. stored'[ConvOf[t]] = Append(s, h) /\ stored[ConvOf[t]] = s
    BY <1>1, <1>5 DEF HistoryType, s
  <2>2. Only(Append(s, h), Own(t)) = IF h \in Own(t) THEN Append(Only(s, Own(t)), h) ELSE Only(s, Own(t))
    BY <1>1, <1>2, OnlyAppend
  <2> QED
    BY <1>3, <1>4, <2>1, <2>2 DEF h
<1>6. CASE ConvOf[t] # c
  <2>1. stored'[ConvOf[t]] = stored[ConvOf[t]]
    BY <1>1, <1>6, TurnLoopAssumption DEF HistoryType
  <2> QED
    BY <1>4, <1>6, <2>1
<1> QED
  BY <1>5, <1>6

\* What is stored of a turn is its own.
LEMMA StoredType ==
  ASSUME HistoryType, NEW t \in Turns
  PROVE  StoredOf(t) \in Seq(Own(t))
<1>1. stored[ConvOf[t]] \in Seq(TurnItems)
  BY TurnLoopAssumption DEF HistoryType
<1> QED
  BY <1>1, OnlyType DEF StoredOf, Own

\* A turn's own step that stores nothing.
LEMMA StoredTurn ==
  ASSUME TypeOK, HistoryType, NEW t \in Turns, PairsOk(t), StoredOk(t),
         TurnStep(t) \/ CloseTurn(t), ~AppendTurn(t), StoredOf(t)' = StoredOf(t)
  PROVE  StoredOk(t)'
<1> DEFINE S == StoredOf(t)
           T == Own(t)
           P(txt) == PersistItems(t, txt)
<1>1. S \in Seq(T) /\ todo[t] \in Seq(T) /\ <<>> \in Seq(T)
      /\ \A txt \in BOOLEAN : P(txt) \in Seq(T)
  <2>1. S \in Seq(T)
    BY StoredType
  <2>2. todo[t] \in Seq(T) /\ <<>> \in Seq(T)
    BY DEF StoredOk
  <2>3. ASSUME NEW txt \in BOOLEAN PROVE PersistItems(t, txt) \in Seq(Own(t))
    BY OwnItems
  <2> QED
    BY <2>1, <2>2, <2>3
<1>2. ASSUME toolTurns' = toolTurns PROVE \A txt \in BOOLEAN : PersistItems(t, txt)' = P(txt)
  BY <1>2 DEF PersistItems
<1>3. ASSUME StartTurn(t) \/ RejectTurn(t) \/ ModelCallsTools(t) \/ FanIn(t) \/ CollectBatch(t)
      PROVE  StoredOk(t)'
  <2>1. /\ phase[t] \in {"idle", "loop", "fanin"} /\ phase'[t] \in {"loop", "fanin", "rejected"}
        /\ todo' = todo /\ bg' = bg
    BY <1>3 DEF StartTurn, RejectTurn, ModelCallsTools, CallTools, BeginIteration, FanIn,
                CollectBatch, persistVars, TypeOK, ControlType
  <2> QED
    BY <2>1 DEF StoredOk
<1>4. ASSUME NEW ph \in {"persist", "recover"}, NEW txts \in SUBSET BOOLEAN,
             phase[t] = "loop", BeginPersist(t, ph, txts)
      PROVE  StoredOk(t)'
  <2>1. PICK txt \in txts : /\ hasText' = [hasText EXCEPT ![t] = txt]
                            /\ todo' = [todo EXCEPT ![t] = PersistItems(t, txt)]
    BY <1>4 DEF BeginPersist
  <2>2. /\ phase'[t] = ph /\ hasText'[t] = txt /\ todo'[t] = P(txt) /\ toolTurns' = toolTurns
        /\ bg' = bg /\ txt \in BOOLEAN
    BY <1>4, <2>1 DEF BeginPersist, TypeOK, ControlType, HistoryType
  <2>3. PersistItems(t, txt)' = P(txt)
    BY <1>2, <2>2
  <2>4. PersistItems(t, hasText[t])' = P(txt)
    <3>1. PersistItems(t, hasText[t])' = PersistItems(t, txt)'
      BY <2>2 DEF PersistItems
    <3> QED
      BY <2>3, <3>1
  <2>5. S = <<>> /\ bg[t] = {}
    BY <1>4 DEF StoredOk
  <2>6. P(txt) \in Seq(T)
    BY <1>1, <2>2
  <2> HIDE DEF T, P
  <2>7. <<>> \o P(txt) = P(txt) /\ <<>> \o <<>> = <<>>
    BY <2>6
  <2>8. Attempts(T, <<>>, P(txt), P(txt))
    BY <1>1, <2>6, <2>7 DEF Attempts
  <2> QED
    BY <2>2, <2>4, <2>5, <2>6, <2>7, <2>8 DEF StoredOk, T
<1>5. CASE HitIterationCap(t) \/ EndLoop(t) \/ ModelFails(t)
  <2>1. /\ phase[t] = "loop"
        /\ \E ph \in {"persist", "recover"}, txts \in SUBSET BOOLEAN : BeginPersist(t, ph, txts)
    BY <1>5 DEF HitIterationCap, EndLoop, ModelFails, BeginIteration, EarlierText
  <2> QED
    BY <1>4, <2>1
<1>6. ASSUME toolTurns' = toolTurns, hasText' = hasText
      PROVE  PersistItems(t, hasText[t])' = P(hasText[t]) /\ Enqueued(t)' = Enqueued(t)
  BY <1>6 DEF PersistItems, Enqueued
<1>7. CASE CompleteTurn(t)
  <2>1. /\ phase[t] = "persist" /\ todo[t] = <<>> /\ phase'[t] = "completed"
        /\ bg'[t] = bg[t] \cup Enqueued(t) /\ todo' = todo
        /\ toolTurns' = toolTurns /\ hasText' = hasText
    BY <1>7 DEF CompleteTurn, Terminate, PersistFrame, TypeOK, ControlType
  <2>2. S \o <<>> = P(hasText[t]) /\ bg[t] = {}
    BY <2>1 DEF StoredOk
  <2>3. S \o <<>> = S
    BY <1>1
  <2> HIDE DEF S
  <2> QED
    BY <1>6, <2>1, <2>2, <2>3 DEF StoredOk, S
<1>8. CASE FailTurn(t)
  <2>1. /\ phase[t] = "recover" /\ todo[t] = <<>> /\ phase'[t] = "failed"
        /\ bg'[t] = bg[t] \cup Enqueued(t) /\ todo' = todo
        /\ toolTurns' = toolTurns /\ hasText' = hasText
    BY <1>8 DEF FailTurn, Terminate, PersistFrame, TypeOK, ControlType
  <2>2. Attempts(T, S, <<>>, P(hasText[t])) /\ bg[t] = {}
    BY <2>1 DEF StoredOk
  <2> QED
    BY <1>1, <1>6, <2>1, <2>2 DEF StoredOk
<1>9. CASE AppendFails(t)
  <2>1. /\ StoreMayFail /\ bg' = bg /\ toolTurns' = toolTurns /\ hasText' = hasText
    BY <1>9 DEF AppendFails, PersistFrame
  <2> DEFINE Q == P(hasText[t])
  <2>2. hasText[t] \in BOOLEAN /\ Q \in Seq(T)
    BY <1>1 DEF TypeOK, ControlType
  <2>3. CASE /\ phase[t] = "persist" /\ phase'[t] = "recover" /\ todo'[t] = Q
    <3>1. S \o todo[t] = Q /\ bg[t] = {}
      BY <2>3 DEF StoredOk
    <3> HIDE DEF S, T, Q
    <3>2. S \o <<>> = S /\ <<>> \o Q = Q
      BY <1>1, <2>2
    <3>3. Attempts(T, S, Q, Q)
      BY <1>1, <2>1, <3>1, <3>2 DEF Attempts
    <3> QED
      BY <1>6, <2>1, <2>2, <2>3, <3>1, <3>3 DEF StoredOk, S, T, Q
  <2>4. CASE phase[t] = "recover" /\ phase'[t] = "failed" /\ todo'[t] = todo[t]
    <3>1. Attempts(T, S, todo[t], Q)
      BY <2>4 DEF StoredOk
    <3> QED
      BY <1>1, <1>6, <2>1, <2>4, <3>1 DEF StoredOk
  <2> QED
    BY <1>9, <2>3, <2>4 DEF AppendFails, Terminate, TypeOK, ControlType, HistoryType
<1>10. CASE TurnClosed(t) \/ CloseTurn(t)
  <2>1. phase'[t] \in {"closing", "closed"} /\ todo' = todo
    BY <1>10 DEF TurnClosed, CloseTurn, persistVars, TypeOK, ControlType
  <2> QED
    BY <1>1, <2>1 DEF StoredOk
<1> QED
  BY <1>3, <1>5, <1>7, <1>8, <1>9, <1>10 DEF TurnStep, ModelStep, PersistStep

\* A turn's append.
LEMMA StoredAppend ==
  ASSUME TypeOK, HistoryType, NEW t \in Turns, StoredOk(t), AppendTurn(t)
  PROVE  StoredOk(t)'
<1> DEFINE S == StoredOf(t)
           T == Own(t)
           d == todo[t]
           Q == PersistItems(t, hasText[t])
<1>1. S \in Seq(T) /\ d \in Seq(T) /\ d # <<>>
  BY StoredType DEF StoredOk, AppendTurn
<1>2. StoredOf(t)' = Append(S, Head(d))
  BY <1>1, StoredAfterAppend
<1>3. /\ phase' = phase /\ todo'[t] = Tail(d) /\ bg' = bg /\ phase[t] \in {"persist", "recover"}
  BY DEF AppendTurn, HistoryType
<1>4. PersistItems(t, hasText[t])' = Q
  BY DEF AppendTurn, PersistItems
<1> HIDE DEF S, T, d, Q
<1>5. Tail(d) \in Seq(T) /\ Append(S, Head(d)) \o Tail(d) = S \o d
  BY <1>1, MoveHead
<1>6. CASE phase[t] = "persist"
  <2>1. S \o d = Q /\ bg[t] = {}
    BY <1>6 DEF StoredOk, S, d, Q
  <2> DEFINE f == Append(S, Head(d))
             r == Tail(d)
  <2>2. f \o r = Q /\ r \in Seq(T) /\ StoredOf(t)' = f /\ todo'[t] = r
    BY <1>2, <1>3, <1>5, <2>1
  <2> HIDE DEF f, r
  <2> QED
    BY <1>3, <1>4, <1>6, <2>1, <2>2 DEF StoredOk, T
<1>7. CASE phase[t] = "recover"
  <2>1. Attempts(T, S, d, Q) /\ bg[t] = {}
    BY <1>7 DEF StoredOk, S, T, d, Q
  <2>2. Attempts(T, Append(S, Head(d)), Tail(d), Q)
    BY <1>1, <2>1, AttemptsMove
  <2> DEFINE f == Append(S, Head(d))
             r == Tail(d)
  <2>3. Attempts(T, f, r, Q) /\ r \in Seq(T) /\ StoredOf(t)' = f /\ todo'[t] = r
    BY <1>2, <1>3, <1>5, <2>2
  <2> HIDE DEF f, r
  <2> QED
    BY <1>3, <1>4, <1>7, <2>1, <2>3 DEF StoredOk, T
<1> QED
  BY <1>3, <1>6, <1>7

\* Every step keeps every turn's writes in order.
LEMMA StepStoredOk ==
  ASSUME TypeOK, HistoryType, \A t \in Turns : PairsOk(t), \A t \in Turns : StoredOk(t),
         [Next]_vars
  PROVE  \A t \in Turns : StoredOk(t)'
<1> SUFFICES ASSUME NEW t \in Turns PROVE StoredOk(t)'
  OBVIOUS
<1>1. CASE AppendTurn(t)
  BY <1>1, StoredAppend
<1>2. CASE ~AppendTurn(t)
  <2>1. StoredOf(t)' = StoredOf(t)
    <3>1. CASE stored' = stored
      BY <3>1 DEF StoredOf
    <3>2. ASSUME NEW u \in Turns, AppendTurn(u) PROVE StoredOf(t)' = StoredOf(t)
      <4>1. todo[u] \in Seq(Own(u)) /\ t # u
        BY <1>2, <3>2 DEF StoredOk
      <4> QED
        BY <3>2, <4>1, StoredAfterAppend
    <3> QED
      BY <3>1, <3>2, StoredShape
  <2>2. ASSUME /\ phase'[t] = phase[t] /\ todo'[t] = todo[t] /\ bg'[t] = bg[t]
               /\ hasText'[t] = hasText[t] /\ toolTurns'[t] = toolTurns[t]
        PROVE  StoredOk(t)'
    <3>1. PersistItems(t, hasText[t])' = PersistItems(t, hasText[t]) /\ Enqueued(t)' = Enqueued(t)
      BY <2>2 DEF PersistItems, Enqueued
    <3>2. StoredOk(t)
      OBVIOUS
    <3> QED
      BY <2>1, <2>2, <3>1, <3>2 DEF StoredOk
  <2>3. CASE Still(t)
    BY <2>2, <2>3 DEF Still
  <2>4. ASSUME NEW i \in Slots, WorkerStep(t, i) PROVE StoredOk(t)'
    <3>1. PICK s \in WorkerStates, items \in Seq(QueueItems) : WorkerMoves(t, i, s, items)
      BY <2>4, WorkerShape
    <3> QED
      BY <2>2, <3>1 DEF WorkerMoves
  <2>5. CASE TurnStep(t) \/ CloseTurn(t)
    BY <1>2, <2>1, <2>5, StoredTurn
  <2> QED
    BY <2>3, <2>4, <2>5, StepShape
<1> QED
  BY <1>1, <1>2

\* The parts of two sequences put together.
LEMMA ConcatParts ==
  ASSUME NEW T, NEW a \in Seq(T), NEW b \in Seq(T)
  PROVE  /\ Len(a) \in 0..Len(a \o b)
         /\ SubSeq(a \o b, 1, Len(a)) = a
         /\ SubSeq(a \o b, Len(a) + 1, Len(a \o b)) = b
         /\ IsPrefix(a, a \o b)
<1> DEFINE w == a \o b
           n == Len(a)
           m == Len(b)
<1>1. /\ w \in Seq(T) /\ Len(w) = n + m /\ n \in Nat /\ m \in Nat
      /\ \A i \in 1..(n + m) : w[i] = IF i <= n THEN a[i] ELSE b[i - n]
  BY ConcatProperties
<1> HIDE DEF w
<1>2. SubSeq(w, 1, n) = a
  <2> DEFINE x == SubSeq(w, 1, n)
  <2>1. \A i \in 1..n : w[i] \in T
    BY <1>1
  <2>2. /\ x \in Seq(T) /\ Len(x) = IF 1 <= n THEN n - 1 + 1 ELSE 0
        /\ \A i \in 1..(n - 1 + 1) : x[i] = w[1 + i - 1]
    BY <1>1, <2>1, SubSeqProperties
  <2> HIDE DEF x
  <2>3. Len(x) = n /\ \A i \in 1..n : x[i] = a[i]
    BY <1>1, <2>2, SMTT(30)
  <2> QED
    BY <2>2, <2>3, SeqEqual DEF x
<1>3. SubSeq(w, n + 1, n + m) = b
  <2> DEFINE x == SubSeq(w, n + 1, n + m)
  <2>1. \A i \in (n + 1)..(n + m) : w[i] \in T
    <3> SUFFICES ASSUME NEW i \in (n + 1)..(n + m) PROVE w[i] \in T
      OBVIOUS
    <3>1. i \in 1..(n + m)
      BY <1>1
    <3> QED
      BY <1>1, <3>1
  <2>2. /\ x \in Seq(T) /\ Len(x) = IF n + 1 <= n + m THEN n + m - (n + 1) + 1 ELSE 0
        /\ \A i \in 1..(n + m - (n + 1) + 1) : x[i] = w[n + 1 + i - 1]
    BY <1>1, <2>1, SubSeqProperties
  <2> HIDE DEF x
  <2>3. Len(x) = m
    BY <1>1, <2>2
  <2>4. ASSUME NEW i \in 1..m PROVE x[i] = b[i]
    <3>1. n + i \in 1..(n + m) /\ ~(n + i <= n) /\ n + i - n = i /\ n + 1 + i - 1 = n + i
          /\ n + m - (n + 1) + 1 = m
      BY <1>1
    <3>2. x[i] = w[n + 1 + i - 1]
      BY <2>2, <3>1
    <3>3. w[n + i] = b[n + i - n]
      BY <1>1, <3>1
    <3> QED
      BY <3>1, <3>2, <3>3
  <2> QED
    BY <2>2, <2>3, <2>4, SeqEqual DEF x
<1>4. SubSeq(a, 1, n) = a
  BY SubSeqFull
<1> QED
  BY <1>1, <1>2, <1>3, <1>4 DEF w, IsPrefix

\* A turn that completed, or failed for another reason than the store, is stored
\* exactly once: the user's turn and, for every recorded call of the model's
\* history in its order, the call and its result.  Of a turn that failed with the
\* store there is a first attempt as far as it came and then a second; a turn that
\* never reached _persist left nothing (loop.py:171-182, 314-349).
THEOREM TurnsStoredOnce == Spec => []StoredMatchesHistory
<1> DEFINE StoredInv == /\ BatchInv
                        /\ \A t \in Turns : PairsOk(t)
                        /\ \A t \in Turns : StoredOk(t)
<1>1. Init => StoredInv
  <2> SUFFICES ASSUME Init, NEW t \in Turns PROVE StoredOk(t)
    BY InitGateInv, InitHistoryType, BatchInit, PairsInit DEF BatchInv
  <2>1. /\ phase[t] = "idle" /\ todo[t] = <<>> /\ bg[t] = {} /\ stored[ConvOf[t]] = <<>>
    BY TurnLoopAssumption DEF Init
  <2>2. StoredOf(t) = <<>>
    BY <2>1, OnlyEmpty DEF StoredOf
  <2> QED
    BY <2>1, <2>2 DEF StoredOk
<1>2. StoredInv /\ BatchInv' /\ [Next]_vars => StoredInv'
  BY StepPairsOk, StepStoredOk DEF BatchInv, GateInv
<1>3. StoredInv => StoredMatchesHistory
  <2> SUFFICES ASSUME StoredInv, NEW t \in Turns
               PROVE  /\ phase[t] = "completed" \/ (phase[t] = "failed" /\ ~StoreMayFail) =>
                           LET tools == Only(StoredOf(t), Items(t, {"call", "tool"}))
                           IN  /\ StoredOf(t)[1].kind = "user"
                               /\ Len(StoredOf(t)) = 1 + (IF hasText[t] THEN 1 ELSE 0) + Len(tools)
                               /\ Paired(t, tools, RecordedResults(t))
                               /\ bg[t] = Enqueued(t)
                      /\ phase[t] = "failed" =>
                           \E k \in 0..Len(StoredOf(t)) :
                             /\ IsPrefix(SubSeq(StoredOf(t), 1, k), PersistItems(t, hasText[t]))
                             /\ IsPrefix(SubSeq(StoredOf(t), k + 1, Len(StoredOf(t))),
                                         PersistItems(t, hasText[t]))
                      /\ phase[t] \in {"idle", "loop", "fanin", "rejected"} =>
                           StoredOf(t) = <<>> /\ bg[t] = {}
    BY DEF StoredMatchesHistory
  <2> DEFINE S == StoredOf(t)
             T == Own(t)
             Q == PersistItems(t, hasText[t])
  <2>1. PairsOk(t) /\ StoredOk(t)
    OBVIOUS
  <2>2. /\ Q \in Seq(T)
        /\ Len(Q) = 1 + (IF hasText[t] THEN 1 ELSE 0) + Len(toolTurns[t])
        /\ Q[1].kind = "user"
        /\ Only(Q, Items(t, {"call", "tool"})) = toolTurns[t]
    BY <2>1, OwnItems DEF ToolItems
  <2>3. Paired(t, toolTurns[t], RecordedResults(t))
    BY <2>1 DEF PairsOk, RecordedResults, Recordable
  <2> HIDE DEF Q
  <2>4. CASE phase[t] = "completed"
    <3>1. S = Q /\ bg[t] = Enqueued(t)
      BY <2>1, <2>4 DEF StoredOk, Q
    <3> QED
      BY <2>2, <2>3, <2>4, <3>1
  <2>5. CASE phase[t] = "failed"
    <3>1. PICK d \in Seq(T) : /\ Attempts(T, S, d, Q)
                              /\ ~StoreMayFail => d = <<>> /\ bg[t] = Enqueued(t)
      BY <2>1, <2>5 DEF StoredOk, Q
    <3>2. PICK a, b, c \in Seq(T) :
            S = a \o b /\ a \o c = Q /\ b \o d = Q /\ (~StoreMayFail => a = <<>>)
      BY <3>1 DEF Attempts
    <3>3. a \in Seq(T) /\ b \in Seq(T) /\ c \in Seq(T) /\ d \in Seq(T)
      BY <3>1, <3>2
    <3>4. \E k \in 0..Len(S) : IsPrefix(SubSeq(S, 1, k), Q) /\ IsPrefix(SubSeq(S, k + 1, Len(S)), Q)
      <4> HIDE DEF T, S
      <4>1. /\ Len(a) \in 0..Len(a \o b) /\ SubSeq(a \o b, 1, Len(a)) = a
            /\ SubSeq(a \o b, Len(a) + 1, Len(a \o b)) = b
        BY <3>3, ConcatParts
      <4>2. IsPrefix(a, a \o c)
        BY <3>3, ConcatParts
      <4>3. IsPrefix(b, b \o d)
        BY <3>1, <3>3, ConcatParts
      <4> QED
        BY <3>2, <4>1, <4>2, <4>3
    <3>5. ASSUME ~StoreMayFail PROVE S = Q /\ bg[t] = Enqueued(t)
      <4>1. a = <<>> /\ d = <<>> /\ bg[t] = Enqueued(t)
        BY <3>1, <3>2, <3>5
      <4> HIDE DEF T, S
      <4>2. <<>> \o b = b /\ b \o <<>> = b
        BY <3>3
      <4> QED
        BY <3>2, <4>1, <4>2
    <3> QED
      BY <2>2, <2>3, <2>5, <3>4, <3>5 DEF Q
  <2>6. CASE phase[t] \in {"idle", "loop", "fanin", "rejected"}
    BY <2>1, <2>6 DEF StoredOk
  <2> QED
    BY <2>4, <2>5, <2>6
<1> HIDE DEF StoredInv
<1> QED
  BY <1>1, <1>2, <1>3, BatchInvariant, PTL DEF Spec

(***************************************************************************)
(* The safety half of TurnEnds: a batch always has something to wait for,  *)
(* and every step takes its turn nearer to its end.                        *)
(***************************************************************************)

\* The fan-in can still hear of call i, or has: its worker is alive, its sentinel
\* is on the queue, or its slot is filled.
Heard(t, i) ==
  \/ worker[t][i] \in Live
  \/ \E p \in 1..Len(queue[t]) : queue[t][p].kind = "done" /\ queue[t][p].slot = i
  \/ results[t][i] # Unfilled

HeardOk(t) == phase[t] = "fanin" => \A i \in Active(t) : Heard(t, i)

\* The fan-in never waits on an empty queue for workers that are gone.
FanInIsFed ==
  \A t \in Turns :
    phase[t] = "fanin" /\ queue[t] = <<>>
      /\ (\A i \in Active(t) : worker[t][i] \notin Live)
      => Remaining(t) = {}

\* Only closing the turn cancels a worker when no handler raises CancelledError.
LEMMA CancelledByClosing ==
  ASSUME ~HandlerMayCancel, TypeOK, NEW t \in Turns, NEW i \in Slots,
         WorkerStep(t, i), phase[t] # "closing"
  PROVE  worker'[t][i] # "cancelled"
<1>1. ASSUME NEW s \in WorkerStates, SetWorker(t, i, s)
      PROVE  worker'[t][i] = s
  BY <1>1 DEF SetWorker, TypeOK, BatchType
<1>2. \E s \in WorkerStates \ {"cancelled"} : SetWorker(t, i, s)
  <2>1. ASSUME NEW o, Finish(t, i, o) PROVE SetWorker(t, i, "finished")
    BY <2>1 DEF Finish
  <2>2. \/ SetWorker(t, i, "waiting") \/ SetWorker(t, i, "checking")
        \/ SetWorker(t, i, "running") \/ SetWorker(t, i, "finished")
        \/ SetWorker(t, i, "expiring") \/ SetWorker(t, i, "admitted")
    <3>1. CASE WorkerBegins(t, i)
      BY <3>1 DEF WorkerBegins, EnterRegistry
    <3>2. CASE WorkerApproved(t, i)
      BY <3>2 DEF WorkerApproved, EnterRegistry
    <3>3. CASE WorkerDenied(t, i)
      BY <2>1, <3>3 DEF WorkerDenied
    <3>4. CASE ApprovalTimesOut(t, i)
      BY <2>1, <3>4 DEF ApprovalTimesOut
    <3>5. CASE RegistryRefuses(t, i)
      BY <2>1, <3>5 DEF RegistryRefuses
    <3>6. CASE HandlerStarts(t, i)
      BY <3>6 DEF HandlerStarts
    <3>7. CASE HandlerEnds(t, i)
      BY <2>1, <3>7 DEF HandlerEnds
    <3>8. CASE ApprovalTimerFires(t, i) \/ PermissionRead(t, i)
      BY <3>8 DEF ApprovalTimerFires, PermissionRead
    <3> QED
      BY <3>1, <3>2, <3>3, <3>4, <3>5, <3>6, <3>7, <3>8
      DEF WorkerStep, HandlerCancelled, CancelWorker
  <2> QED
    BY <2>2 DEF WorkerStates
<1> QED
  BY <1>1, <1>2

\* Taking an item off the queue loses no sentinel.
LEMMA HeardFanIn ==
  ASSUME TypeOK, NEW t \in Turns, FanIn(t), NEW i \in Slots, Heard(t, i)
  PROVE  Heard(t, i)'
<1> DEFINE q == queue[t]
           item == Head(q)
<1>1. q \in Seq(QueueItems) /\ q # <<>>
  BY DEF FanIn, TypeOK, BatchType
<1>2. /\ item = q[1] /\ item \in QueueItems
      /\ Len(q) \in Nat /\ Len(Tail(q)) = Len(q) - 1
      /\ \A p \in 1..(Len(q) - 1) : p + 1 \in 1..Len(q) /\ Tail(q)[p] = q[p + 1]
  BY <1>1, HeadTail
<1>3. queue'[t] = Tail(q) /\ worker' = worker
  BY DEF FanIn, TypeOK, BatchType
<1>4. \/ item.kind = "done" /\ results' = [results EXCEPT ![t][item.slot] = item]
      \/ item.kind # "done" /\ results' = results
  BY DEF FanIn
<1> HIDE DEF item, q
<1>5. item.kind = "done" => item # Unfilled
  BY DEF Unfilled
<1>6. CASE worker[t][i] \in Live
  BY <1>3, <1>6 DEF Heard
<1>7. CASE results[t][i] # Unfilled
  <2>1. results'[t][i] # Unfilled
    BY <1>4, <1>5, <1>7 DEF TypeOK, BatchType
  <2> QED
    BY <2>1 DEF Heard
<1>8. ASSUME NEW p \in 1..Len(q), q[p].kind = "done", q[p].slot = i
      PROVE  Heard(t, i)'
  <2>1. CASE p = 1
    <3>1. results'[t][i] = item
      BY <1>2, <1>4, <1>8, <2>1 DEF TypeOK, BatchType
    <3> QED
      BY <1>2, <1>5, <1>8, <2>1, <3>1 DEF Heard
  <2>2. CASE p # 1
    <3>1. p - 1 \in 1..(Len(q) - 1) /\ (p - 1) + 1 = p
      BY <1>2, <2>2
    <3>2. Tail(q)[p - 1] = q[p]
      BY <1>2, <3>1
    <3>3. p - 1 \in 1..Len(queue'[t]) /\ queue'[t][p - 1] = q[p]
      BY <1>2, <1>3, <3>1, <3>2
    <3> QED
      BY <1>8, <3>3 DEF Heard
  <2> QED
    BY <2>1, <2>2
<1> QED
  BY <1>6, <1>7, <1>8 DEF Heard, q

\* A worker that ends puts its sentinel on the queue, and takes none away.
LEMMA HeardMoves ==
  ASSUME TypeOK, NEW t \in Turns, NEW i \in Slots, NEW s \in WorkerStates \ {"cancelled"},
         NEW items \in Seq(QueueItems), WorkerMoves(t, i, s, items),
         NEW k \in Slots, Heard(t, k)
  PROVE  Heard(t, k)'
<1> DEFINE q == queue[t]
<1>1. /\ worker' = [worker EXCEPT ![t][i] = s] /\ results' = results
      /\ queue'[t] = q \o items /\ q \in Seq(QueueItems)
  BY DEF WorkerMoves, TypeOK, BatchType
<1>2. /\ worker'[t][i] = s
      /\ k # i => worker'[t][k] = worker[t][k]
  BY <1>1 DEF TypeOK, BatchType
<1>3. /\ Len(q) \in Nat /\ Len(items) \in Nat /\ Len(q \o items) = Len(q) + Len(items)
      /\ \A p \in 1..(Len(q) + Len(items)) :
           (q \o items)[p] = IF p <= Len(q) THEN q[p] ELSE items[p - Len(q)]
  BY <1>1, ConcatProperties
<1> HIDE DEF q
<1>4. ASSUME NEW p \in 1..Len(q), q[p].kind = "done", q[p].slot = k
      PROVE  Heard(t, k)'
  <2>1. p \in 1..(Len(q) + Len(items)) /\ p <= Len(q)
    BY <1>3
  <2>2. p \in 1..Len(queue'[t]) /\ queue'[t][p] = q[p]
    BY <1>1, <1>3, <2>1
  <2> QED
    BY <1>4, <2>2 DEF Heard
<1>5. CASE results[t][k] # Unfilled
  BY <1>1, <1>5 DEF Heard
<1>6. CASE worker[t][k] \in Live /\ k # i
  BY <1>2, <1>6 DEF Heard
<1>7. CASE k = i /\ s \in Live
  BY <1>2, <1>7 DEF Heard
<1>8. CASE k = i /\ s \notin Live
  <2>1. PICK o \in Outcomes : items = <<Event("result", i), Done(i, o)>>
    BY <1>8 DEF WorkerMoves, Arc, QuietArcs, Live, Outcomes
  <2>2. Len(items) = 2 /\ items[2].kind = "done" /\ items[2].slot = i
    BY <2>1 DEF Event, Done
  <2>3. Len(q) + 2 \in 1..(Len(q) + Len(items)) /\ (q \o items)[Len(q) + 2] = items[2]
    BY <1>3, <2>2
  <2>4. Len(q) + 2 \in 1..Len(queue'[t]) /\ queue'[t][Len(q) + 2] = items[2]
    BY <1>1, <1>3, <2>3
  <2> QED
    BY <1>8, <2>2, <2>4 DEF Heard
<1> QED
  BY <1>4, <1>5, <1>6, <1>7, <1>8 DEF Heard, q

\* Every step keeps every call heard of.
LEMMA StepHeardOk ==
  ASSUME ~HandlerMayCancel, TypeOK, HistoryType, NEW t \in Turns, HeardOk(t), [Next]_vars
  PROVE  HeardOk(t)'
<1> SUFFICES ASSUME phase'[t] = "fanin", NEW k \in Slots, k \in Active(t)'
             PROVE  Heard(t, k)'
  BY DEF HeardOk, Active
<1>1. CASE Still(t)
  <2>1. Heard(t, k)
    BY <1>1 DEF HeardOk, Active, Still
  <2> QED
    BY <1>1, <2>1 DEF Heard, Still
<1>2. ~Quiet(t)
  BY DEF Quiet
<1>3. CASE ModelCallsTools(t)
  <2>1. PICK cs \in Batches : CallTools(t, cs)
    BY <1>3 DEF ModelCallsTools
  <2>2. /\ calls'[t] = cs
        /\ worker'[t] = [j \in Slots |-> IF j <= Len(cs) THEN "created" ELSE "none"]
    BY <2>1 DEF CallTools, SetBatch, TypeOK, BatchType
  <2>3. worker'[t][k] = "created"
    BY <2>2 DEF Active
  <2> QED
    BY <2>3 DEF Heard, Live
<1>4. CASE FanIn(t)
  <2>1. phase[t] = "fanin" /\ k \in Active(t)
    BY <1>4 DEF FanIn, Active
  <2> QED
    BY <1>4, <2>1, HeardFanIn DEF HeardOk
<1>5. ~CollectBatch(t)
  BY DEF CollectBatch, TypeOK, ControlType
<1>6. ASSUME NEW i \in Slots, WorkerStep(t, i) PROVE Heard(t, k)'
  <2>1. PICK s \in WorkerStates, items \in Seq(QueueItems) : WorkerMoves(t, i, s, items)
    BY <1>6, WorkerShape
  <2>2. phase[t] = "fanin" /\ k \in Active(t) /\ worker' = [worker EXCEPT ![t][i] = s]
    BY <2>1 DEF WorkerMoves, Active
  <2>3. worker'[t][i] = s
    BY <2>2 DEF TypeOK, BatchType
  <2>4. s # "cancelled"
    BY <1>6, <2>2, <2>3, CancelledByClosing
  <2> QED
    BY <2>1, <2>2, <2>4, HeardMoves DEF HeardOk
<1> QED
  BY <1>1, <1>2, <1>3, <1>4, <1>5, <1>6, StepShape, TurnShape

\* Unless a handler raises CancelledError, the loop that counts sentinels never
\* blocks on a queue nobody will write to (loop.py:233-291): with the queue empty
\* and no worker alive, every sentinel of the batch has been counted.
THEOREM NoSentinelLost == ASSUME ~HandlerMayCancel PROVE Spec => []FanInIsFed
<1> DEFINE HeardInv == BatchInv /\ \A t \in Turns : HeardOk(t)
<1>1. Init => HeardInv
  BY InitGateInv, InitHistoryType, BatchInit DEF BatchInv, Init, HeardOk
<1>2. HeardInv /\ BatchInv' /\ [Next]_vars => HeardInv'
  BY StepHeardOk DEF BatchInv, GateInv
<1>3. HeardInv => FanInIsFed
  BY DEF FanInIsFed, HeardOk, Heard, Remaining, Active
<1> HIDE DEF HeardInv
<1> QED
  BY <1>1, <1>2, <1>3, BatchInvariant, PTL DEF Spec

\* How far a turn is from its end, and how far it is within its model loop.
Stage(t) == CASE phase[t] = "idle" -> 5
              [] phase[t] \in {"loop", "fanin"} -> 4
              [] phase[t] = "persist" -> 3
              [] phase[t] = "recover" -> 2
              [] phase[t] = "closing" -> 1
              [] OTHER -> 0
RoundsLeft(t) ==
  2 * (MaxIterations - iter[t]) + (IF phase[t] = "fanin" THEN 1 ELSE 0)

\* How far a worker is from its end.
Effort(t, i) == CASE worker[t][i] = "created" -> 6
                  [] worker[t][i] = "waiting" -> 5
                  [] worker[t][i] = "expiring" -> 4
                  [] worker[t][i] = "checking" -> 3
                  [] worker[t][i] = "admitted" -> 2
                  [] worker[t][i] = "running" -> 1
                  [] OTHER -> 0
WorkersAdvance(t) ==
  /\ \A i \in Slots : Effort(t, i)' <= Effort(t, i)
  /\ \E i \in Slots : Effort(t, i)' < Effort(t, i)

\* What there is to take off: items for the fan-in, appends for the store.
Backlog(t) == Len(queue[t]) + Len(todo[t])

\* A step nearer to the end, in lexicographic order.
Advances(t) ==
  \/ Stage(t)' < Stage(t)
  \/ /\ Stage(t)' = Stage(t)
     /\ \/ RoundsLeft(t)' < RoundsLeft(t)
        \/ /\ RoundsLeft(t)' = RoundsLeft(t)
           /\ \/ WorkersAdvance(t)
              \/ worker'[t] = worker[t] /\ Backlog(t)' < Backlog(t)

\* The measures are natural numbers, so no turn advances for ever.
Measured(t) ==
  /\ Stage(t) \in Nat /\ RoundsLeft(t) \in Nat /\ Backlog(t) \in Nat
  /\ \A i \in Slots : Effort(t, i) \in Nat

\* What the measures look at.
Unmoved(t) ==
  /\ phase'[t] = phase[t] /\ iter'[t] = iter[t] /\ worker'[t] = worker[t]
  /\ queue'[t] = queue[t] /\ todo'[t] = todo[t]

TurnsOnlyAdvance == [][\A t \in Turns : Unmoved(t) \/ Advances(t)]_vars

\* Sums of lengths.
LEMMA Sums ==
  \A a, b \in Nat : /\ a + b \in Nat
                    /\ a > 0 => (a - 1) + b < a + b /\ b + (a - 1) < b + a
OBVIOUS

\* The measures are natural numbers in every typed state.
LEMMA MeasuresAreNatural ==
  ASSUME TypeOK, HistoryType, NEW t \in Turns
  PROVE  Measured(t)
<1>1. iter[t] \in 0..MaxIterations /\ MaxIterations \in Nat
  BY TurnLoopAssumption DEF TypeOK, ControlType
<1>2. RoundsLeft(t) \in Nat
  BY <1>1 DEF RoundsLeft
<1>3. Stage(t) \in Nat
  BY DEF Stage
<1>4. \A i \in Slots : Effort(t, i) \in Nat
  BY DEF Effort
<1>5. Len(queue[t]) \in Nat /\ Len(todo[t]) \in Nat
  BY LenProperties DEF TypeOK, BatchType, HistoryType
<1>6. Backlog(t) \in Nat
  BY <1>5, Sums, Zenon DEF Backlog
<1> QED
  BY <1>2, <1>3, <1>4, <1>6 DEF Measured

\* A step of the turn itself takes it nearer to its end.
LEMMA TurnAdvances ==
  ASSUME TypeOK, HistoryType, NEW t \in Turns, TurnStep(t) \/ CloseTurn(t)
  PROVE  Advances(t)
<1> USE DEF TypeOK, ControlType
<1>1. /\ phase \in [Turns -> Phases] /\ iter \in [Turns -> 0..MaxIterations]
      /\ MaxIterations \in Nat
  BY TurnLoopAssumption
<1>2. ASSUME Stage(t)' < Stage(t) PROVE Advances(t)
  BY <1>2 DEF Advances
<1>3. CASE StartTurn(t)
  BY <1>1, <1>2, <1>3 DEF StartTurn, Stage
<1>4. CASE RejectTurn(t)
  BY <1>1, <1>2, <1>4 DEF RejectTurn, Stage
<1>5. CASE HitIterationCap(t)
  BY <1>1, <1>2, <1>5 DEF HitIterationCap, BeginPersist, Stage
<1>6. CASE EndLoop(t)
  BY <1>1, <1>2, <1>6 DEF EndLoop, BeginIteration, BeginPersist, Stage
<1>7. CASE ModelFails(t)
  BY <1>1, <1>2, <1>7 DEF ModelFails, BeginIteration, BeginPersist, Stage
<1>8. CASE ModelCallsTools(t)
  <2>1. phase[t] = "loop" /\ phase'[t] = "fanin" /\ iter'[t] = iter[t] + 1
    BY <1>1, <1>8 DEF ModelCallsTools, CallTools, BeginIteration
  <2>2. Stage(t)' = Stage(t)
    BY <2>1 DEF Stage
  <2>3. RoundsLeft(t)' < RoundsLeft(t)
    BY <1>1, <2>1 DEF RoundsLeft
  <2> QED
    BY <2>2, <2>3 DEF Advances
<1>9. CASE FanIn(t)
  <2>1. /\ queue[t] \in Seq(QueueItems) /\ queue[t] # <<>> /\ queue'[t] = Tail(queue[t])
        /\ UNCHANGED <<phase, iter, worker, todo>>
    BY <1>9 DEF FanIn, persistVars, BatchType
  <2>2. Len(queue'[t]) = Len(queue[t]) - 1 /\ Len(queue[t]) \in Nat /\ Len(queue[t]) > 0
    BY <2>1, HeadTail
  <2>3. Len(todo[t]) \in Nat /\ todo'[t] = todo[t]
    BY <2>1, LenProperties DEF HistoryType
  <2>4. Backlog(t)' < Backlog(t)
    BY <2>2, <2>3, Sums, Zenon DEF Backlog
  <2> QED
    BY <2>1, <2>4 DEF Advances, Stage, RoundsLeft
<1>10. CASE CollectBatch(t)
  <2>1. phase[t] = "fanin" /\ phase'[t] = "loop" /\ iter'[t] = iter[t]
    BY <1>1, <1>10 DEF CollectBatch
  <2>2. Stage(t)' = Stage(t)
    BY <2>1 DEF Stage
  <2>3. RoundsLeft(t)' < RoundsLeft(t)
    BY <1>1, <2>1 DEF RoundsLeft
  <2> QED
    BY <2>2, <2>3 DEF Advances
<1>11. CASE AppendTurn(t)
  <2>1. /\ todo[t] \in Seq(TurnItems) /\ todo[t] # <<>> /\ todo'[t] = Tail(todo[t])
        /\ UNCHANGED <<phase, iter, worker, queue>>
    BY <1>11 DEF AppendTurn, batchVars, HistoryType
  <2>2. Len(todo'[t]) = Len(todo[t]) - 1 /\ Len(todo[t]) \in Nat /\ Len(todo[t]) > 0
    BY <2>1, HeadTail
  <2>3. Len(queue[t]) \in Nat /\ queue'[t] = queue[t]
    BY <2>1, LenProperties DEF BatchType
  <2>4. Backlog(t)' < Backlog(t)
    BY <2>2, <2>3, Sums, Zenon DEF Backlog
  <2> QED
    BY <2>1, <2>4 DEF Advances, Stage, RoundsLeft
<1>12. CASE CompleteTurn(t)
  BY <1>1, <1>2, <1>12 DEF CompleteTurn, Terminate, Stage
<1>13. CASE FailTurn(t)
  BY <1>1, <1>2, <1>13 DEF FailTurn, Terminate, Stage
<1>14. CASE AppendFails(t)
  BY <1>1, <1>2, <1>14 DEF AppendFails, Terminate, Stage
<1>15. CASE TurnClosed(t)
  BY <1>1, <1>2, <1>15 DEF TurnClosed, Stage
<1>16. CASE CloseTurn(t)
  BY <1>1, <1>2, <1>16 DEF CloseTurn, Stage
<1> QED
  BY <1>3, <1>4, <1>5, <1>6, <1>7, <1>8, <1>9, <1>10, <1>11, <1>12, <1>13, <1>14, <1>15, <1>16
  DEF TurnStep, ModelStep, PersistStep

\* So does a step of one of its workers.
LEMMA WorkerAdvances ==
  ASSUME TypeOK, NEW t \in Turns, NEW i \in Slots, WorkerStep(t, i)
  PROVE  Advances(t)
<1>1. PICK s \in WorkerStates, items \in Seq(QueueItems) : WorkerMoves(t, i, s, items)
  BY WorkerShape
<1>2. /\ worker'[t][i] = s /\ \A k \in Slots : k # i => worker'[t][k] = worker[t][k]
      /\ UNCHANGED <<phase, iter>>
  BY <1>1 DEF WorkerMoves, TypeOK, BatchType
<1>3. Effort(t, i)' < Effort(t, i)
  BY <1>1, <1>2 DEF WorkerMoves, Arc, Effort, Live, AtGate, InRegistry, QuietArcs
<1>4. ASSUME NEW k \in Slots PROVE Effort(t, k)' <= Effort(t, k)
  <2>1. CASE k = i
    BY <1>3, <2>1 DEF Effort
  <2>2. CASE k # i
    BY <1>2, <2>2 DEF Effort
  <2> QED
    BY <2>1, <2>2
<1> QED
  BY <1>2, <1>3, <1>4 DEF Advances, WorkersAdvance, Stage, RoundsLeft

\* Every step that touches a turn takes it nearer to its end, whatever clients,
\* administrators and other turns do in between: nothing restarts a turn, re-opens
\* a batch, revives a worker or enqueues behind the fan-in without a worker having
\* gone on.  The measures being natural numbers, no turn runs for ever
\* (loop.py:119-182, 265-312).
THEOREM TurnsRunDown == Spec => [](\A t \in Turns : Measured(t)) /\ TurnsOnlyAdvance
<1>1. BatchInv => \A t \in Turns : Measured(t)
  BY MeasuresAreNatural DEF BatchInv, GateInv
<1>2. BatchInv /\ [Next]_vars => [\A t \in Turns : Unmoved(t) \/ Advances(t)]_vars
  <2> SUFFICES ASSUME BatchInv, [Next]_vars, NEW t \in Turns
               PROVE  Unmoved(t) \/ Advances(t)
    OBVIOUS
  <2>1. TypeOK /\ HistoryType
    BY DEF BatchInv, GateInv
  <2>2. CASE Still(t)
    BY <2>2 DEF Still, Unmoved
  <2> QED
    BY <2>1, <2>2, StepShape, TurnAdvances, WorkerAdvances
<1> QED
  BY <1>1, <1>2, BatchInvariant, PTL DEF Spec, TurnsOnlyAdvance
=============================================================================
