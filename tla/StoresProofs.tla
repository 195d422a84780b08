---------------------------- MODULE StoresProofs ----------------------------
(***************************************************************************)
(* What holds of the stores for any tasks, users, keys and retries.  Each of *)
(* them reads a whole value, changes the copy and writes it back, and all the *)
(* invariants are of one form: what was written while nobody held a copy is in *)
(* every copy read since, so that whoever writes such a copy back writes it *)
(* too.                                                                    *)
(***************************************************************************)
EXTENDS RedisSession, SqlPermissions, Profile, TLAPS

-----------------------------------------------------------------------------
(* The Redis session store.                                                *)

OpKinds == Kinds \cup {"none"}
Ops == [kind : OpKinds, conv : RConvs \cup {"none"}, read : SessionsOf, tries : Nat]

\* What the operation of a task may be.
OpInv(o) ==
  o.kind # "none" =>
    /\ o.conv \in RConvs
    /\ quiet[o.conv] \subseteq o.read.turns
    /\ o.kind = "mark" => o.conv \in listed

KeysInv ==
  /\ key \in [RConvs -> SessionsOf]
  /\ score \in [RConvs -> {"none", "fresh", "idle"}]
  /\ said \in [RConvs -> 0..Turns]
  /\ quiet \in [RConvs -> SUBSET RTurnIds]
  /\ op \in [Tasks -> Ops]

RedisInv == KeysInv /\ (\A w \in Tasks : OpInv(op[w])) /\ QuietAppendsKept /\ DueIsIndexed

-----------------------------------------------------------------------------
(* Shapes.                                                                 *)

LEMMA SessionTypes ==
  /\ Store!Absent \in SessionsOf /\ Store!Absent.turns = {} /\ Store!Absent.live = FALSE
  /\ \A ts \in SUBSET RTurnIds, marked \in BOOLEAN :
       /\ ToJson(ts, marked) \in SessionsOf
       /\ ToJson(ts, marked).turns = ts
       /\ ToJson(ts, marked).live = TRUE
       /\ ToJson(ts, marked).marked = marked
BY DEF Store!Absent, SessionsOf, ToJson

LEMMA OpTypes ==
  ASSUME NEW kind \in OpKinds, NEW conv \in RConvs \cup {"none"}, NEW read \in SessionsOf,
         NEW tries \in Nat
  PROVE  /\ Op(kind, conv, read, tries) \in Ops
         /\ Op(kind, conv, read, tries).kind = kind
         /\ Op(kind, conv, read, tries).conv = conv
         /\ Op(kind, conv, read, tries).read = read
BY DEF Op, Ops

LEMMA NoOpType == NoOp \in Ops /\ NoOp.kind = "none"
BY SessionTypes, OpTypes DEF NoOp, OpKinds

-----------------------------------------------------------------------------
(* The write of an operation, which Done and Breaks share.                 *)


\* The strings after the write: those of other conversations are as before.
LEMMA SetsInv ==
  ASSUME RedisInv, NEW w \in Tasks, op[w].kind # "none", Sets(w)
  PROVE  /\ key' \in [RConvs -> SessionsOf]
         /\ score' \in [RConvs -> {"none", "fresh", "idle"}]
         /\ said' \in [RConvs -> 0..Turns]
         /\ quiet' \in [RConvs -> SUBSET RTurnIds]
         /\ QuietAppendsKept' /\ DueIsIndexed'
         /\ listed \subseteq listed'
         /\ \A j \in Tasks : j # w /\ op[j].kind # "none"
              => quiet'[op[j].conv] = quiet[op[j].conv]
         /\ op[w].kind # "append" => quiet' = quiet
<1> DEFINE c == op[w].conv
           ts == op[w].read.turns
<1>1. op[w] \in Ops /\ c \in RConvs /\ op[w].read \in SessionsOf /\ ts \in SUBSET RTurnIds
  <2>1. op[w] \in Ops /\ c \in RConvs
    BY DEF RedisInv, KeysInv, OpInv
  <2>2. op[w].read \in SessionsOf
    BY <2>1 DEF Ops
  <2> QED
    BY <2>1, <2>2 DEF SessionsOf
<1>2. quiet[c] \subseteq ts
  BY DEF RedisInv, OpInv
<1>3. ASSUME NEW n \in SUBSET RTurnIds, NEW marked \in BOOLEAN,
             key' = [key EXCEPT ![c] = ToJson(n, marked)]
      PROVE  /\ key' \in [RConvs -> SessionsOf]
             /\ key'[c].turns = n /\ key'[c].live = TRUE /\ key'[c].marked = marked
             /\ \A d \in RConvs : d # c => key'[d] = key[d]
  BY <1>1, <1>3, SessionTypes DEF RedisInv, KeysInv
<1>4. ASSUME NEW n \in SUBSET RTurnIds, SetActive(c, n)
      PROVE  /\ key' \in [RConvs -> SessionsOf]
             /\ score' \in [RConvs -> {"none", "fresh", "idle"}]
             /\ key'[c].turns = n
             /\ \A d \in RConvs : d # c => key'[d] = key[d]
             /\ DueIsIndexed'
             /\ listed \subseteq listed'
  <2>1. /\ key' = [key EXCEPT ![c] = ToJson(n, FALSE)]
        /\ score' = [score EXCEPT ![c] = "fresh"]
        /\ listed' = listed \cup {c}
        /\ dropped' = dropped \ {c}
    BY <1>4 DEF SetActive
  <2>2. /\ key' \in [RConvs -> SessionsOf] /\ key'[c].turns = n
        /\ \A d \in RConvs : d # c => key'[d] = key[d]
    BY <1>3, <2>1
  <2>3. /\ score' \in [RConvs -> {"none", "fresh", "idle"}] /\ score'[c] = "fresh"
        /\ \A d \in RConvs : d # c => score'[d] = score[d]
    BY <1>1, <2>1 DEF RedisInv, KeysInv
  <2>4. DueIsIndexed'
    BY <2>1, <2>2, <2>3 DEF RedisInv, DueIsIndexed, ListOf
  <2> QED
    BY <2>1, <2>2, <2>3, <2>4
<1>5. CASE op[w].kind = "mark"
  <2>1. /\ key' = [key EXCEPT ![c] = ToJson(ts, TRUE)]
        /\ score' = [score EXCEPT ![c] = "none"]
        /\ dropped' = dropped \ {c}
        /\ UNCHANGED <<listed, said, quiet>>
    BY <1>5 DEF Sets, SetMarked
  <2>2. /\ key' \in [RConvs -> SessionsOf] /\ key'[c].turns = ts /\ key'[c].marked = TRUE
        /\ \A d \in RConvs : d # c => key'[d] = key[d]
    BY <1>1, <1>3, <2>1
  <2>3. /\ score' \in [RConvs -> {"none", "fresh", "idle"}]
        /\ \A d \in RConvs : d # c => score'[d] = score[d]
    BY <1>1, <2>1 DEF RedisInv, KeysInv
  <2>4. c \in listed
    BY <1>5 DEF RedisInv, OpInv
  <2>5. DueIsIndexed'
    BY <2>1, <2>2, <2>3, <2>4 DEF RedisInv, DueIsIndexed, ListOf
  <2>6. QuietAppendsKept'
    BY <1>2, <2>1, <2>2 DEF RedisInv, QuietAppendsKept
  <2> QED
    BY <2>1, <2>2, <2>3, <2>5, <2>6 DEF RedisInv, KeysInv
<1>6. CASE op[w].kind = "append"
  <2> DEFINE t == said[c] + 1
  <2>1. /\ said[c] < Turns /\ SetActive(c, ts \cup {t})
        /\ said' = [said EXCEPT ![c] = t]
        /\ quiet' = IF Holders(c) = {w} THEN [quiet EXCEPT ![c] = @ \cup {t}] ELSE quiet
    BY <1>6 DEF Sets, Appended
  <2>2. t \in RTurnIds /\ t \in 0..Turns /\ ts \cup {t} \in SUBSET RTurnIds
    BY <1>1, <2>1, RedisAssumption DEF RedisInv, KeysInv, RTurnIds
  <2>3. /\ key' \in [RConvs -> SessionsOf]
        /\ score' \in [RConvs -> {"none", "fresh", "idle"}]
        /\ key'[c].turns = ts \cup {t}
        /\ \A d \in RConvs : d # c => key'[d] = key[d]
        /\ DueIsIndexed'
        /\ listed \subseteq listed'
    BY <1>4, <2>1, <2>2
  <2>4. /\ quiet' \in [RConvs -> SUBSET RTurnIds] /\ quiet'[c] \subseteq quiet[c] \cup {t}
        /\ \A d \in RConvs : d # c => quiet'[d] = quiet[d]
        /\ quiet' # quiet => Holders(c) = {w}
    BY <1>1, <2>1, <2>2 DEF RedisInv, KeysInv
  <2>5. QuietAppendsKept'
    BY <1>2, <2>3, <2>4 DEF RedisInv, QuietAppendsKept
  <2>6. ASSUME NEW j \in Tasks, j # w, op[j].kind # "none"
        PROVE  quiet'[op[j].conv] = quiet[op[j].conv]
    <3>1. CASE op[j].conv = c
      BY <2>4, <2>6, <3>1 DEF Holders
    <3>2. CASE op[j].conv # c
      BY <2>4, <2>6, <3>2 DEF RedisInv, OpInv
    <3> QED
      BY <3>1, <3>2
  <2>7. said' \in [RConvs -> 0..Turns]
    BY <2>1, <2>2 DEF RedisInv, KeysInv
  <2> QED
    BY <1>6, <2>3, <2>4, <2>5, <2>6, <2>7
<1>7. CASE op[w].kind \notin {"mark", "append"}
  <2>1. SetActive(c, ts) /\ UNCHANGED <<said, quiet>>
    BY <1>7 DEF Sets
  <2>2. /\ key' \in [RConvs -> SessionsOf]
        /\ score' \in [RConvs -> {"none", "fresh", "idle"}]
        /\ key'[c].turns = ts
        /\ \A d \in RConvs : d # c => key'[d] = key[d]
        /\ DueIsIndexed'
        /\ listed \subseteq listed'
    BY <1>1, <1>4, <2>1
  <2>3. QuietAppendsKept'
    BY <1>2, <2>1, <2>2 DEF RedisInv, QuietAppendsKept
  <2> QED
    BY <2>1, <2>2, <2>3 DEF RedisInv, KeysInv
<1> QED
  BY <1>5, <1>6, <1>7

-----------------------------------------------------------------------------
(* The operations.                                                         *)

\* All that happens to the operations is that w's becomes o.
LEMMA OpsStep ==
  ASSUME RedisInv, NEW w \in Tasks, NEW o \in Ops, op' = [op EXCEPT ![w] = o], OpInv(o)',
         listed \subseteq listed',
         \A j \in Tasks : j # w /\ op[j].kind # "none"
           => quiet'[op[j].conv] = quiet[op[j].conv]
  PROVE  op' \in [Tasks -> Ops] /\ \A j \in Tasks : OpInv(op[j])'
<1>1. op' \in [Tasks -> Ops] /\ op'[w] = o /\ \A j \in Tasks : j # w => op'[j] = op[j]
  BY DEF RedisInv, KeysInv
<1>2. ASSUME NEW j \in Tasks, j # w PROVE OpInv(op[j])'
  BY <1>1, <1>2 DEF RedisInv, OpInv
<1> QED
  BY <1>1, <1>2 DEF OpInv

LEMMA GetsInv ==
  ASSUME RedisInv, NEW w \in Tasks, NEW c \in RConvs, NEW kind \in Kinds, Gets(w, c, kind)
  PROVE  RedisInv'
<1>1. UNCHANGED <<key, score, listed, said, quiet, dropped>>
  BY DEF Gets
<1>2. key[c] \in SessionsOf /\ kind \in OpKinds
  BY DEF RedisInv, KeysInv, OpKinds
<1>3. PICK o : o = IF GoesOn(kind, key[c]) THEN Op(kind, c, key[c], 0) ELSE NoOp
  OBVIOUS
<1>4. CASE GoesOn(kind, key[c])
  <2>1. o \in Ops /\ o.kind = kind /\ o.conv = c /\ o.read = key[c]
    BY <1>2, <1>3, <1>4, OpTypes
  <2>2. kind = "mark" => key[c].live
    BY <1>4 DEF GoesOn
  <2>3. OpInv(o)'
    BY <1>1, <2>1, <2>2 DEF OpInv, RedisInv, QuietAppendsKept, DueIsIndexed, ListOf
  <2>4. op' \in [Tasks -> Ops] /\ \A j \in Tasks : OpInv(op[j])'
    BY <1>1, <1>3, <2>1, <2>3, OpsStep DEF Gets
  <2> QED
    BY <1>1, <2>4 DEF RedisInv, KeysInv, QuietAppendsKept, DueIsIndexed, ListOf
<1>5. CASE ~GoesOn(kind, key[c])
  <2>1. o \in Ops /\ OpInv(o)'
    BY <1>3, <1>5, NoOpType DEF OpInv
  <2>2. op' \in [Tasks -> Ops] /\ \A j \in Tasks : OpInv(op[j])'
    BY <1>1, <1>3, <2>1, OpsStep DEF Gets
  <2> QED
    BY <1>1, <2>2 DEF RedisInv, KeysInv, QuietAppendsKept, DueIsIndexed, ListOf
<1> QED
  BY <1>4, <1>5

LEMMA DoneInv == ASSUME RedisInv, NEW w \in Tasks, Done(w) PROVE RedisInv'
<1>1. op[w].kind # "none" /\ Sets(w) /\ op' = [op EXCEPT ![w] = NoOp]
  BY DEF Done
<1>2. /\ key' \in [RConvs -> SessionsOf]
      /\ score' \in [RConvs -> {"none", "fresh", "idle"}]
      /\ said' \in [RConvs -> 0..Turns]
      /\ quiet' \in [RConvs -> SUBSET RTurnIds]
      /\ QuietAppendsKept' /\ DueIsIndexed'
      /\ listed \subseteq listed'
      /\ \A j \in Tasks : j # w /\ op[j].kind # "none"
           => quiet'[op[j].conv] = quiet[op[j].conv]
  BY <1>1, SetsInv
<1>3. OpInv(NoOp)'
  BY NoOpType DEF OpInv, NoOp, Op
<1>4. op' \in [Tasks -> Ops] /\ \A j \in Tasks : OpInv(op[j])'
  <2>1. PICK o : o = NoOp
    OBVIOUS
  <2>2. o \in Ops /\ OpInv(o)'
    BY <2>1, NoOpType DEF OpInv
  <2> QED
    BY <1>1, <1>2, <2>1, <2>2, OpsStep
<1> QED
  BY <1>2, <1>4 DEF RedisInv, KeysInv

\* A retry goes on with the copy it has, or with the string as it is now.
LEMMA BreaksInv == ASSUME RedisInv, NEW w \in Tasks, Breaks(w) PROVE RedisInv'
<1> DEFINE c == op[w].conv
<1>1. /\ key' \in [RConvs -> SessionsOf]
      /\ score' \in [RConvs -> {"none", "fresh", "idle"}]
      /\ said' \in [RConvs -> 0..Turns]
      /\ quiet' \in [RConvs -> SUBSET RTurnIds]
      /\ QuietAppendsKept' /\ DueIsIndexed'
      /\ listed \subseteq listed'
      /\ \A j \in Tasks : j # w /\ op[j].kind # "none"
           => quiet'[op[j].conv] = quiet[op[j].conv]
      /\ op[w].kind # "append" => quiet' = quiet
  <2>1. CASE Sets(w)
    BY <2>1, SetsInv DEF Breaks
  <2>2. CASE UNCHANGED <<key, score, listed, said, quiet, dropped>>
    BY <2>2 DEF RedisInv, KeysInv, QuietAppendsKept, DueIsIndexed, ListOf
  <2> QED
    BY <2>1, <2>2 DEF Breaks
<1>2. /\ op[w].kind # "none" /\ op[w].kind \in OpKinds /\ c \in RConvs
      /\ op[w].read \in SessionsOf /\ op[w].tries \in Nat
      /\ quiet[c] \subseteq op[w].read.turns
      /\ op[w].kind = "mark" => c \in listed
  <2>1. op[w] \in Ops /\ op[w].kind # "none"
    BY DEF Breaks, RedisInv, KeysInv
  <2> QED
    BY <2>1 DEF Ops, RedisInv, OpInv
<1>3. PICK o : o = op'[w]
  OBVIOUS
<1>4. op' = [op EXCEPT ![w] = o]
  BY <1>3 DEF Breaks, RedisInv, KeysInv
<1>5. o \in Ops /\ OpInv(o)'
  <2>1. CASE op[w].kind = "rollover" /\ o = Op("rollover", c, op[w].read, op[w].tries + 1)
    <3>1. o \in Ops /\ o.kind = "rollover" /\ o.conv = c /\ o.read = op[w].read
      BY <1>2, <2>1, OpTypes DEF OpKinds, Kinds
    <3> QED
      BY <1>1, <1>2, <2>1, <3>1 DEF OpInv
  <2>2. CASE op[w].kind = "mark" /\ o = Op("mark", c, key'[c], op[w].tries + 1)
    <3>1. o \in Ops /\ o.kind = "mark" /\ o.conv = c /\ o.read = key'[c]
      BY <1>1, <1>2, <2>2, OpTypes DEF OpKinds, Kinds
    <3>2. quiet'[c] \subseteq key'[c].turns
      BY <1>1, <1>2 DEF QuietAppendsKept
    <3> QED
      BY <1>1, <1>2, <2>2, <3>1, <3>2 DEF OpInv
  <2>3. CASE o = NoOp
    BY <2>3, NoOpType DEF OpInv
  <2>4. op \in [Tasks -> Ops]
    BY DEF RedisInv, KeysInv
  <2> QED
    BY <1>3, <2>1, <2>2, <2>3, <2>4 DEF Breaks
<1>6. op' \in [Tasks -> Ops] /\ \A j \in Tasks : OpInv(op[j])'
  BY <1>1, <1>4, <1>5, OpsStep
<1> QED
  BY <1>1, <1>6 DEF RedisInv, KeysInv

-----------------------------------------------------------------------------
(* The sweep and time.                                                     *)

LEMMA ZremInv == ASSUME RedisInv, NEW c \in RConvs, Zrem(c) PROVE RedisInv'
<1>1. /\ score' = [score EXCEPT ![c] = "none"] /\ UNCHANGED <<key, listed, op, said, quiet>>
      /\ dropped' = IF key[c].live /\ ~key[c].marked THEN dropped \cup {c} ELSE dropped
  BY DEF Zrem
<1>2. /\ score' \in [RConvs -> {"none", "fresh", "idle"}]
      /\ \A d \in RConvs : d # c => score'[d] = score[d]
  BY <1>1 DEF RedisInv, KeysInv
<1> QED
  BY <1>1, <1>2 DEF RedisInv, KeysInv, OpInv, QuietAppendsKept, DueIsIndexed, ListOf

LEMMA AgeInv == ASSUME RedisInv, NEW c \in RConvs, Age(c) PROVE RedisInv'
<1>1. /\ score' = [score EXCEPT ![c] = "idle"]
      /\ UNCHANGED <<key, listed, op, said, quiet, dropped>>
  BY DEF Age
<1>2. /\ score' \in [RConvs -> {"none", "fresh", "idle"}] /\ score'[c] = "idle"
      /\ \A d \in RConvs : d # c => score'[d] = score[d]
  BY <1>1 DEF RedisInv, KeysInv
<1> QED
  BY <1>1, <1>2 DEF RedisInv, KeysInv, OpInv, QuietAppendsKept, DueIsIndexed, ListOf

LEMMA ExpireInv == ASSUME RedisInv, NEW c \in RConvs, Expire(c) PROVE RedisInv'
<1>1. /\ key' = [key EXCEPT ![c] = Store!Absent] /\ quiet' = [quiet EXCEPT ![c] = {}]
      /\ dropped' = dropped \ {c} /\ UNCHANGED <<score, listed, op, said>>
  BY DEF Expire
<1>2. /\ key' \in [RConvs -> SessionsOf] /\ key'[c] = Store!Absent
      /\ \A d \in RConvs : d # c => key'[d] = key[d]
  BY <1>1, SessionTypes DEF RedisInv, KeysInv
<1>3. /\ quiet' \in [RConvs -> SUBSET RTurnIds] /\ quiet'[c] = {}
      /\ \A d \in RConvs : d # c => quiet'[d] = quiet[d]
  BY <1>1 DEF RedisInv, KeysInv
<1>4. QuietAppendsKept' /\ DueIsIndexed'
  BY <1>1, <1>2, <1>3, SessionTypes DEF RedisInv, QuietAppendsKept, DueIsIndexed, ListOf
<1>5. \A w \in Tasks : OpInv(op[w])'
  BY <1>1, <1>3 DEF RedisInv, OpInv
<1> QED
  BY <1>1, <1>2, <1>3, <1>4, <1>5 DEF RedisInv, KeysInv

-----------------------------------------------------------------------------
(* The theorems.                                                           *)

LEMMA RedisInvHolds == RedisSpec => []RedisInv
<1>1. RedisInit => RedisInv
  <2> SUFFICES ASSUME RedisInit PROVE RedisInv
    OBVIOUS
  <2>1. KeysInv
    BY SessionTypes, NoOpType, RedisAssumption DEF RedisInit, KeysInv
  <2>2. \A w \in Tasks : OpInv(op[w])
    BY NoOpType DEF RedisInit, OpInv
  <2>3. QuietAppendsKept /\ DueIsIndexed
    BY SessionTypes DEF RedisInit, QuietAppendsKept, DueIsIndexed
  <2> QED
    BY <2>1, <2>2, <2>3 DEF RedisInv
<1>2. RedisInv /\ [RedisNext]_redisVars => RedisInv'
  <2> SUFFICES ASSUME RedisInv, [RedisNext]_redisVars PROVE RedisInv'
    OBVIOUS
  <2>1. CASE UNCHANGED <<key, score, listed, op, said, quiet, dropped>>
    BY <2>1 DEF RedisInv, KeysInv, OpInv, QuietAppendsKept, DueIsIndexed, ListOf
  <2>2. CASE UNCHANGED redisVars \/ RangeDue \/ GetAll \/ SweepEnds
    BY <2>1, <2>2 DEF redisVars, RangeDue, GetAll, SweepEnds
  <2> QED
    BY <2>2, GetsInv, DoneInv, BreaksInv, ZremInv, AgeInv, ExpireInv DEF RedisNext
<1> QED
  BY <1>1, <1>2, PTL DEF RedisSpec

\* append_turn: a turn that was appended while nobody held a copy of the session is
\* never written over.
THEOREM QuietAppendsStay == RedisSpec => []QuietAppendsKept
<1>1. RedisInv => QuietAppendsKept
  BY DEF RedisInv
<1> QED
  BY <1>1, RedisInvHolds, PTL

\* save, append_turn and mark_finalized write the indices with the string, so that
\* due_for_finalize and list find the session.
THEOREM IndicesFollow == RedisSpec => []DueIsIndexed
<1>1. RedisInv => DueIsIndexed
  BY DEF RedisInv
<1> QED
  BY <1>1, RedisInvHolds, PTL

-----------------------------------------------------------------------------
(* The Redis store as a SessionStore.                                      *)

BoundedOps == [kind : Kinds \cup {"none"}, conv : RConvs \cup {"none"}, read : SessionsOf,
               tries : 0..Retries]

\* The copy that an operation holds: on a conversation where nothing else runs, it
\* is the string, which may have expired, or which a rollover has written before
\* the connection broke.
ReadInv(o) ==
  o.kind # "none" =>
    /\ o.read.turns \subseteq 1..said[o.conv]
    /\ ~o.read.live => o.read = Store!Absent
    /\ o.kind \in {"rollover", "append", "mark"} => o.read.live
    /\ o.conv \in Serial /\ o.read.live =>
         \/ key[o.conv] = o.read \/ key[o.conv] = Store!Absent
         \/ o.kind = "rollover" /\ key[o.conv] = Store!Live(o.read.turns)

AloneInv ==
  \A v, w \in Tasks :
    op[v].kind # "none" /\ op[w].kind # "none" /\ op[v].conv = op[w].conv
      /\ op[v].conv \in Serial => v = w

TurnsInv == \A c \in RConvs : key[c].turns \subseteq 1..said[c]

SerialInv == RedisTypeOK /\ TurnsInv /\ AloneInv /\ \A w \in Tasks : ReadInv(op[w])

LEMMA BoundedOpTypes ==
  /\ NoOp \in BoundedOps /\ NoOp.kind = "none"
  /\ \A kind \in Kinds, c \in RConvs, read \in SessionsOf, tries \in 0..Retries :
       LET o == Op(kind, c, read, tries)
       IN  o \in BoundedOps /\ o.kind = kind /\ o.conv = c /\ o.read = read
BY SessionTypes, RedisAssumption DEF NoOp, Op, BoundedOps

LEMMA StoreWords ==
  \A ts \in SUBSET RTurnIds :
    /\ ToJson(ts, FALSE) = Store!Live(ts) /\ ToJson(ts, TRUE) = Store!Finalized(ts)
    /\ Store!Live(ts).turns = ts /\ Store!Live(ts).live
BY DEF ToJson, Store!Live, Store!Finalized

\* What the call of a task is, by the type invariant.
LEMMA OpShape ==
  ASSUME SerialInv, NEW w \in Tasks
  PROVE  /\ op[w] \in BoundedOps /\ op[w].read \in SessionsOf /\ op[w].read.turns \in SUBSET RTurnIds
         /\ op[w].kind # "none" => op[w].kind \in Kinds /\ op[w].conv \in RConvs
<1>1. op[w] \in BoundedOps /\ (op[w].kind # "none" => op[w].conv \in RConvs)
  BY DEF SerialInv, RedisTypeOK, BoundedOps
<1>2. op[w].read \in SessionsOf
  BY <1>1 DEF BoundedOps
<1> QED
  BY <1>1, <1>2 DEF BoundedOps, SessionsOf

\* What a write that takes effect does to the string of its conversation.
Written(w, n, marked) ==
  LET c == op[w].conv
  IN  /\ key' = [key EXCEPT ![c] = ToJson(n, marked)]
      /\ score' = [score EXCEPT ![c] = IF marked THEN "none" ELSE "fresh"]
      /\ listed' \subseteq listed \cup {c} /\ dropped' \subseteq dropped

LEMMA SetsShape ==
  ASSUME SerialInv, NEW w \in Tasks, op[w].kind # "none", Sets(w)
  PROVE  LET c == op[w].conv
             ts == op[w].read.turns
         IN  \/ op[w].kind = "mark" /\ Written(w, ts, TRUE) /\ UNCHANGED <<said, quiet>>
             \/ /\ op[w].kind = "append" /\ said[c] < Turns
                /\ Written(w, ts \cup {said[c] + 1}, FALSE)
                /\ said' = [said EXCEPT ![c] = said[c] + 1]
                /\ quiet' \in {quiet, [quiet EXCEPT ![c] = @ \cup {said[c] + 1}]}
             \/ /\ op[w].kind \in {"load", "save", "rollover"} /\ Written(w, ts, FALSE)
                /\ UNCHANGED <<said, quiet>>
<1>1. op[w].kind \in Kinds
  BY OpShape
<1>2. CASE op[w].kind = "mark"
  BY <1>2 DEF Sets, SetMarked, Written
<1>3. CASE op[w].kind = "append"
  BY <1>3 DEF Sets, SetActive, Appended, Written
<1>4. CASE op[w].kind \in {"load", "save", "rollover"}
  BY <1>4 DEF Sets, SetActive, Written
<1> QED
  BY <1>1, <1>2, <1>3, <1>4 DEF Kinds

\* The strings, and who said what, after the write.
LEMMA SetsKeeps ==
  ASSUME SerialInv, NEW w \in Tasks, op[w].kind # "none", Sets(w)
  PROVE  /\ key' \in [RConvs -> SessionsOf]
         /\ key'[op[w].conv].live
         /\ \A d \in RConvs : d # op[w].conv => key'[d] = key[d] /\ said'[d] = said[d]
         /\ score' \in [RConvs -> {"none", "fresh", "idle"}]
         /\ listed' \subseteq RConvs /\ dropped' \subseteq RConvs
         /\ said' \in [RConvs -> 0..Turns] /\ quiet' \in [RConvs -> SUBSET RTurnIds]
         /\ \A d \in RConvs : said[d] <= said'[d]
         /\ TurnsInv'
<1> DEFINE c == op[w].conv
           ts == op[w].read.turns
<1>1. /\ c \in RConvs /\ ts \in SUBSET RTurnIds /\ ts \subseteq 1..said[c]
      /\ said \in [RConvs -> 0..Turns] /\ quiet \in [RConvs -> SUBSET RTurnIds]
      /\ key \in [RConvs -> SessionsOf] /\ TurnsInv
      /\ score \in [RConvs -> {"none", "fresh", "idle"}]
      /\ listed \subseteq RConvs /\ dropped \subseteq RConvs /\ Turns \in Nat
  BY OpShape, RedisAssumption DEF SerialInv, RedisTypeOK, ReadInv
<1>2. ASSUME NEW n \in SUBSET RTurnIds, NEW m \in BOOLEAN, Written(w, n, m)
      PROVE  /\ key' \in [RConvs -> SessionsOf]
             /\ key'[c].live /\ key'[c].turns = n
             /\ \A d \in RConvs : d # c => key'[d] = key[d]
             /\ score' \in [RConvs -> {"none", "fresh", "idle"}]
             /\ listed' \subseteq RConvs /\ dropped' \subseteq RConvs
  <2>1. ToJson(n, m) \in SessionsOf /\ ToJson(n, m).turns = n /\ ToJson(n, m).live
    BY SessionTypes
  <2>2. /\ key' = [key EXCEPT ![c] = ToJson(n, m)]
        /\ score' = [score EXCEPT ![c] = IF m THEN "none" ELSE "fresh"]
        /\ listed' \subseteq listed \cup {c} /\ dropped' \subseteq dropped
    BY <1>2 DEF Written
  <2> QED
    BY <1>1, <2>1, <2>2
<1>3. ASSUME NEW m \in BOOLEAN, Written(w, ts, m), UNCHANGED <<said, quiet>>
      PROVE  /\ key' \in [RConvs -> SessionsOf]
             /\ key'[c].live
             /\ \A d \in RConvs : d # c => key'[d] = key[d]
             /\ score' \in [RConvs -> {"none", "fresh", "idle"}]
             /\ listed' \subseteq RConvs /\ dropped' \subseteq RConvs
             /\ TurnsInv'
  <2>1. /\ key' \in [RConvs -> SessionsOf]
        /\ key'[c].live /\ key'[c].turns = ts
        /\ \A d \in RConvs : d # c => key'[d] = key[d]
        /\ score' \in [RConvs -> {"none", "fresh", "idle"}]
        /\ listed' \subseteq RConvs /\ dropped' \subseteq RConvs
    BY <1>1, <1>2, <1>3
  <2>2. TurnsInv'
    BY <1>1, <1>3, <2>1 DEF TurnsInv
  <2> QED
    BY <2>1, <2>2
<1>4. CASE op[w].kind = "append"
  <2> DEFINE t == said[c] + 1
  <2>1. /\ said[c] < Turns /\ Written(w, ts \cup {t}, FALSE)
        /\ said' = [said EXCEPT ![c] = t] /\ quiet' \in {quiet, [quiet EXCEPT ![c] = @ \cup {t}]}
    BY <1>4, SetsShape
  <2>2. t \in RTurnIds /\ t \in 0..Turns /\ ts \cup {t} \in SUBSET RTurnIds
    BY <1>1, <2>1 DEF RTurnIds
  <2>3. /\ said' \in [RConvs -> 0..Turns] /\ said'[c] = said[c] + 1
        /\ \A d \in RConvs : d # c => said'[d] = said[d]
    BY <1>1, <2>1, <2>2
  <2>4. quiet' \in [RConvs -> SUBSET RTurnIds]
    BY <1>1, <2>1, <2>2
  <2>5. /\ key' \in [RConvs -> SessionsOf]
        /\ key'[c].live /\ key'[c].turns = ts \cup {t}
        /\ \A d \in RConvs : d # c => key'[d] = key[d]
        /\ score' \in [RConvs -> {"none", "fresh", "idle"}]
        /\ listed' \subseteq RConvs /\ dropped' \subseteq RConvs
    BY <1>2, <2>1, <2>2
  <2>6. TurnsInv'
    BY <1>1, <2>3, <2>5 DEF TurnsInv
  <2>7. \A d \in RConvs : said[d] <= said'[d]
    BY <1>1, <2>3
  <2> QED
    BY <2>3, <2>4, <2>5, <2>6, <2>7
<1>5. CASE op[w].kind # "append"
  <2>1. /\ UNCHANGED <<said, quiet>>
        /\ Written(w, ts, TRUE) \/ Written(w, ts, FALSE)
    BY <1>5, SetsShape
  <2>2. /\ key' \in [RConvs -> SessionsOf]
        /\ key'[c].live
        /\ \A d \in RConvs : d # c => key'[d] = key[d]
        /\ score' \in [RConvs -> {"none", "fresh", "idle"}]
        /\ listed' \subseteq RConvs /\ dropped' \subseteq RConvs
        /\ TurnsInv'
    <3>1. CASE Written(w, ts, TRUE)
      BY <1>3, <2>1, <3>1
    <3>2. CASE Written(w, ts, FALSE)
      BY <1>3, <2>1, <3>2
    <3> QED
      BY <2>1, <3>1, <3>2
  <2>3. \A d \in RConvs : said[d] <= said'[d] /\ said'[d] = said[d]
    BY <1>1, <2>1
  <2> QED
    BY <1>1, <2>1, <2>2, <2>3
<1> QED
  BY <1>4, <1>5

\* All that happens to the calls is that w's becomes o, in a conversation where it is
\* alone.
LEMMA OneOpStep ==
  ASSUME SerialInv, NEW w \in Tasks, NEW o \in BoundedOps, op' = [op EXCEPT ![w] = o],
         o.kind # "none" => o.conv \in RConvs,
         o.kind # "none" /\ o.conv \in Serial
           => \A j \in Tasks : j # w /\ op[j].kind # "none" => op[j].conv # o.conv,
         ReadInv(o)',
         \A j \in Tasks : \A x \in BoundedOps : j # w /\ x = op[j] => ReadInv(x)',
         key' \in [RConvs -> SessionsOf],
         \A c \in RConvs : ~key'[c].live => key'[c] = Store!Absent,
         score' \in [RConvs -> {"none", "fresh", "idle"}],
         listed' \subseteq RConvs, dropped' \subseteq RConvs,
         said' \in [RConvs -> 0..Turns], quiet' \in [RConvs -> SUBSET RTurnIds],
         sweep' = sweep, TurnsInv'
  PROVE  SerialInv'
<1>1. op \in [Tasks -> BoundedOps] /\ \A j \in Tasks : op[j].kind # "none" => op[j].conv \in RConvs
  BY DEF SerialInv, RedisTypeOK, BoundedOps
<1>2. op' \in [Tasks -> BoundedOps] /\ op'[w] = o /\ \A j \in Tasks : j # w => op'[j] = op[j]
  BY <1>1
<1>3. \A j \in Tasks : op'[j].kind # "none" => op'[j].conv \in RConvs
  BY <1>1, <1>2
<1>4. RedisTypeOK'
  BY <1>2, <1>3 DEF SerialInv, RedisTypeOK, BoundedOps
<1>5. AloneInv'
  BY <1>2 DEF SerialInv, AloneInv
<1>6. ASSUME NEW j \in Tasks PROVE ReadInv(op[j])'
  <2>1. CASE j = w
    BY <1>2, <2>1 DEF ReadInv
  <2>2. CASE j # w
    <3>1. op[j] \in BoundedOps /\ op'[j] = op[j]
      BY <1>1, <1>2, <2>2
    <3> QED
      BY <2>2, <3>1 DEF ReadInv
  <2> QED
    BY <2>1, <2>2
<1> QED
  BY <1>4, <1>5, <1>6 DEF SerialInv

LEMMA SerialGets ==
  ASSUME SerialInv, NEW w \in Tasks, NEW c \in RConvs, NEW kind \in Kinds, Gets(w, c, kind)
  PROVE  SerialInv'
<1>1. UNCHANGED <<key, score, listed, said, sweep, quiet, dropped>>
  BY DEF Gets
<1>2. /\ key[c] \in SessionsOf /\ key[c].turns \subseteq 1..said[c]
      /\ ~key[c].live => key[c] = Store!Absent
  BY DEF SerialInv, RedisTypeOK, TurnsInv
<1>3. PICK o : o = IF GoesOn(kind, key[c]) THEN Op(kind, c, key[c], 0) ELSE NoOp
  OBVIOUS
<1>4. op' = [op EXCEPT ![w] = o]
  BY <1>3 DEF Gets
<1>5. \A x \in BoundedOps : ReadInv(x) => ReadInv(x)'
  BY <1>1 DEF ReadInv
<1>6. \A j \in Tasks : \A x \in BoundedOps : j # w /\ x = op[j] => ReadInv(x)'
  BY <1>5 DEF SerialInv
<1>7. o \in BoundedOps /\ (o.kind # "none" => o.conv = c /\ o.kind = kind /\ o.read = key[c]
        /\ GoesOn(kind, key[c]))
  BY <1>2, <1>3, BoundedOpTypes, RedisAssumption
<1>8. ReadInv(o)
  BY <1>2, <1>7 DEF ReadInv, GoesOn
<1>9. ReadInv(o)'
  BY <1>5, <1>7, <1>8
<1>10. o.kind # "none" /\ o.conv \in Serial
         => \A j \in Tasks : j # w /\ op[j].kind # "none" => op[j].conv # o.conv
  BY <1>7 DEF Gets, Holders
<1>11. /\ key' \in [RConvs -> SessionsOf]
       /\ \A d \in RConvs : ~key'[d].live => key'[d] = Store!Absent
       /\ score' \in [RConvs -> {"none", "fresh", "idle"}]
       /\ listed' \subseteq RConvs /\ dropped' \subseteq RConvs
       /\ said' \in [RConvs -> 0..Turns] /\ quiet' \in [RConvs -> SUBSET RTurnIds]
       /\ TurnsInv'
  BY <1>1 DEF SerialInv, RedisTypeOK, TurnsInv
<1> QED
  BY <1>1, <1>4, <1>6, <1>7, <1>9, <1>10, <1>11, OneOpStep

\* What the end of a call, done or broken, leaves of the call.
After(w, o) ==
  LET c == op[w].conv
  IN  \/ o = NoOp
      \/ /\ op[w].kind = "rollover" /\ op[w].tries < Retries
         /\ o = Op("rollover", c, op[w].read, op[w].tries + 1)
      \/ /\ op[w].kind = "mark" /\ op[w].tries < Retries /\ key'[c].live
         /\ o = Op("mark", c, key'[c], op[w].tries + 1)

LEMMA SerialEnds ==
  ASSUME SerialInv, NEW w \in Tasks, op[w].kind # "none", NEW o, op' = [op EXCEPT ![w] = o],
         After(w, o), UNCHANGED sweep,
         Sets(w) \/ UNCHANGED <<key, score, listed, said, quiet, dropped>>
  PROVE  SerialInv'
<1> DEFINE c == op[w].conv
           ts == op[w].read.turns
<1>1. /\ c \in RConvs /\ op[w].kind \in Kinds /\ op[w] \in BoundedOps /\ op[w].read \in SessionsOf
      /\ ts \in SUBSET RTurnIds /\ ts \subseteq 1..said[c]
      /\ said \in [RConvs -> 0..Turns] /\ key \in [RConvs -> SessionsOf]
      /\ op[w].tries \in 0..Retries
  BY OpShape DEF SerialInv, RedisTypeOK, ReadInv
<1>2. /\ key' \in [RConvs -> SessionsOf]
      /\ \A d \in RConvs : d # c => key'[d] = key[d] /\ said'[d] = said[d]
      /\ \A d \in RConvs : ~key'[d].live => key'[d] = Store!Absent
      /\ score' \in [RConvs -> {"none", "fresh", "idle"}]
      /\ listed' \subseteq RConvs /\ dropped' \subseteq RConvs
      /\ said' \in [RConvs -> 0..Turns] /\ quiet' \in [RConvs -> SUBSET RTurnIds]
      /\ \A d \in RConvs : said[d] <= said'[d]
      /\ TurnsInv'
  <2>1. \A d \in RConvs : ~key[d].live => key[d] = Store!Absent
    BY DEF SerialInv, RedisTypeOK
  <2>2. CASE Sets(w)
    BY <1>1, <2>1, <2>2, SetsKeeps
  <2>3. CASE UNCHANGED <<key, score, listed, said, quiet, dropped>>
    BY <2>3 DEF SerialInv, RedisTypeOK, TurnsInv
  <2> QED
    BY <2>2, <2>3
<1>3. o \in BoundedOps /\ (o.kind # "none" => o.conv = c)
  <2>1. CASE o = NoOp
    BY <2>1, BoundedOpTypes
  <2>2. CASE op[w].tries < Retries /\ o = Op("rollover", c, op[w].read, op[w].tries + 1)
    BY <1>1, <2>2, BoundedOpTypes, RedisAssumption, SMTT(30) DEF Kinds
  <2>3. CASE op[w].tries < Retries /\ o = Op("mark", c, key'[c], op[w].tries + 1)
    BY <1>1, <1>2, <2>3, BoundedOpTypes, RedisAssumption DEF Kinds
  <2> QED
    BY <2>1, <2>2, <2>3 DEF After
<1>4. o.kind # "none" /\ o.conv \in Serial
        => \A j \in Tasks : j # w /\ op[j].kind # "none" => op[j].conv # o.conv
  BY <1>3 DEF SerialInv, AloneInv
<1>5. \A j \in Tasks : \A x \in BoundedOps : j # w /\ x = op[j] => ReadInv(x)'
  <2> SUFFICES ASSUME NEW j \in Tasks, NEW x \in BoundedOps, j # w, x = op[j], x.kind # "none"
               PROVE  ReadInv(x)'
    BY DEF ReadInv
  <2>1. ReadInv(x) /\ x.conv \in RConvs
    BY OpShape DEF SerialInv
  <2>2. said[x.conv] \in Nat /\ said'[x.conv] \in Nat /\ said[x.conv] <= said'[x.conv]
    BY <1>1, <1>2, <2>1, RedisAssumption
  <2>3. x.read.turns \subseteq 1..said'[x.conv]
    BY <2>1, <2>2 DEF ReadInv
  <2>4. x.conv \in Serial => key'[x.conv] = key[x.conv]
    BY <1>2, <2>1 DEF SerialInv, AloneInv
  <2> QED
    BY <2>1, <2>3, <2>4 DEF ReadInv
<1>6. ReadInv(o)'
  <2>1. CASE o = NoOp
    BY <2>1, BoundedOpTypes DEF ReadInv
  <2>2. CASE op[w].kind = "rollover" /\ op[w].tries < Retries
             /\ o = Op("rollover", c, op[w].read, op[w].tries + 1)
    <3>1. o.kind = "rollover" /\ o.conv = c /\ o.read = op[w].read
      BY <2>2 DEF Op
    <3>2. ReadInv(op[w])
      BY DEF SerialInv
    <3>3. CASE Sets(w)
      <4>1. Written(w, ts, FALSE) /\ UNCHANGED said
        BY <2>2, <3>3, SetsShape
      <4>2. key'[c] = Store!Live(ts)
        BY <1>1, <4>1, StoreWords DEF Written
      <4> QED
        BY <2>2, <3>1, <3>2, <4>1, <4>2 DEF ReadInv
    <3>4. CASE UNCHANGED <<key, said>>
      BY <2>2, <3>1, <3>2, <3>4 DEF ReadInv
    <3> QED
      BY <3>3, <3>4
  <2>3. CASE op[w].kind = "mark" /\ op[w].tries < Retries /\ key'[c].live
             /\ o = Op("mark", c, key'[c], op[w].tries + 1)
    <3>1. o.kind = "mark" /\ o.conv = c /\ o.read = key'[c]
      BY <2>3 DEF Op
    <3>2. key'[c].turns \subseteq 1..said'[c]
      BY <1>1, <1>2 DEF TurnsInv
    <3> QED
      BY <2>3, <3>1, <3>2 DEF ReadInv
  <2> QED
    BY <2>1, <2>2, <2>3 DEF After
<1> QED
  BY <1>1, <1>2, <1>3, <1>4, <1>5, <1>6, OneOpStep

LEMMA SerialOther ==
  ASSUME SerialInv
  PROVE  /\ RangeDue \/ GetAll \/ SweepEnds => SerialInv'
         /\ \A c \in RConvs : Zrem(c) \/ Age(c) => SerialInv'
         /\ UNCHANGED redisVars => SerialInv'
<1>1. ASSUME UNCHANGED <<key, op, said>> PROVE TurnsInv' /\ AloneInv' /\ \A w \in Tasks : ReadInv(op[w])'
  BY <1>1 DEF SerialInv, TurnsInv, AloneInv, ReadInv
<1>2. ASSUME RangeDue \/ GetAll \/ SweepEnds PROVE SerialInv'
  <2>1. UNCHANGED <<key, score, listed, op, said, quiet, dropped>>
    BY <1>2 DEF RangeDue, GetAll, SweepEnds
  <2>2. sweep' \in [stage : {"asleep", "get", "zrem"}, convs : SUBSET RConvs]
    BY <1>2 DEF RangeDue, GetAll, SweepEnds, NoSweep, SerialInv, RedisTypeOK
  <2> QED
    BY <1>1, <2>1, <2>2 DEF SerialInv, RedisTypeOK
<1>3. ASSUME NEW c \in RConvs, Zrem(c) \/ Age(c) PROVE SerialInv'
  <2>1. UNCHANGED <<key, listed, op, said, quiet>>
    BY <1>3 DEF Zrem, Age
  <2>2. /\ score' \in [RConvs -> {"none", "fresh", "idle"}] /\ dropped' \subseteq RConvs
        /\ sweep' \in [stage : {"asleep", "get", "zrem"}, convs : SUBSET RConvs]
    BY <1>3 DEF Zrem, Age, SerialInv, RedisTypeOK
  <2> QED
    BY <1>1, <2>1, <2>2 DEF SerialInv, RedisTypeOK
<1>4. ASSUME UNCHANGED redisVars PROVE SerialInv'
  BY <1>1, <1>4 DEF redisVars, SerialInv, RedisTypeOK
<1> QED
  BY <1>2, <1>3, <1>4

LEMMA SerialExpire == ASSUME SerialInv, NEW c \in RConvs, Expire(c) PROVE SerialInv'
<1>1. /\ key' = [key EXCEPT ![c] = Store!Absent] /\ quiet' = [quiet EXCEPT ![c] = {}]
      /\ dropped' \subseteq dropped /\ UNCHANGED <<score, listed, op, said, sweep>>
  BY DEF Expire
<1>2. /\ key' \in [RConvs -> SessionsOf] /\ key'[c] = Store!Absent
      /\ \A d \in RConvs : d # c => key'[d] = key[d]
      /\ quiet' \in [RConvs -> SUBSET RTurnIds]
  BY <1>1, SessionTypes DEF SerialInv, RedisTypeOK
<1>3. RedisTypeOK'
  BY <1>1, <1>2 DEF SerialInv, RedisTypeOK
<1>4. TurnsInv' /\ AloneInv'
  BY <1>1, <1>2, SessionTypes DEF SerialInv, TurnsInv, AloneInv
<1>5. ASSUME NEW w \in Tasks PROVE ReadInv(op[w])'
  BY <1>1, <1>2, OpShape DEF SerialInv, ReadInv
<1> QED
  BY <1>3, <1>4, <1>5 DEF SerialInv

LEMMA EndsAfter ==
  ASSUME NEW w \in Tasks, SerialInv, Done(w) \/ Breaks(w)
  PROVE  /\ op[w].kind # "none" /\ UNCHANGED sweep
         /\ \E o : op' = [op EXCEPT ![w] = o] /\ After(w, o) /\ (Done(w) => o = NoOp)
         /\ Sets(w) \/ (Breaks(w) /\ UNCHANGED <<key, score, listed, said, quiet, dropped>>)
<1>1. CASE Done(w)
  BY <1>1 DEF Done, After
<1>2. CASE Breaks(w) /\ ~Done(w)
  <2> DEFINE o == IF op[w].kind = "rollover" /\ op[w].tries < Retries
                    THEN Op("rollover", op[w].conv, op[w].read, op[w].tries + 1)
                  ELSE IF op[w].kind = "mark" /\ op[w].tries < Retries /\ key'[op[w].conv].live
                    THEN Op("mark", op[w].conv, key'[op[w].conv], op[w].tries + 1)
                  ELSE NoOp
  <2>1. op \in [Tasks -> BoundedOps]
    BY DEF SerialInv, RedisTypeOK, BoundedOps
  <2>2. op' = [op EXCEPT ![w] = o]
    BY <1>2, <2>1 DEF Breaks
  <2>3. After(w, o)
    BY DEF After
  <2> QED
    BY <1>2, <2>2, <2>3 DEF Breaks
<1> QED
  BY <1>1, <1>2

LEMMA SerialInvariant == RedisSpec => []SerialInv
<1>1. RedisInit => SerialInv
  <2> SUFFICES ASSUME RedisInit PROVE SerialInv
    OBVIOUS
  <2>1. RedisTypeOK
    <3>1. op \in [Tasks -> BoundedOps] /\ \A w \in Tasks : op[w].kind = "none"
      BY BoundedOpTypes DEF RedisInit
    <3>2. sweep \in [stage : {"asleep", "get", "zrem"}, convs : SUBSET RConvs]
      BY DEF RedisInit, NoSweep
    <3> QED
      BY <3>1, <3>2, SessionTypes, RedisAssumption DEF RedisInit, RedisTypeOK, BoundedOps
  <2>2. TurnsInv
    BY SessionTypes DEF RedisInit, TurnsInv
  <2>3. AloneInv /\ \A w \in Tasks : ReadInv(op[w])
    BY BoundedOpTypes DEF RedisInit, AloneInv, ReadInv
  <2> QED
    BY <2>1, <2>2, <2>3 DEF SerialInv
<1>2. SerialInv /\ [RedisNext]_redisVars => SerialInv'
  <2> SUFFICES ASSUME SerialInv, [RedisNext]_redisVars PROVE SerialInv'
    OBVIOUS
  <2>1. ASSUME NEW w \in Tasks, Done(w) \/ Breaks(w) PROVE SerialInv'
    <3>1. PICK o : op' = [op EXCEPT ![w] = o] /\ After(w, o)
      BY <2>1, EndsAfter
    <3> QED
      BY <2>1, <3>1, EndsAfter, SerialEnds
  <2> QED
    BY <2>1, SerialGets, SerialOther, SerialExpire DEF RedisNext
<1> QED
  BY <1>1, <1>2, PTL DEF RedisSpec

\* The session as callers may take it to be, told without a choice.
SeenFacts ==
  \A c \in Serial :
    /\ (\A w \in Tasks : op[w].kind # "none" => op[w].conv # c) => Seen(c) = key[c]
    /\ \A w \in Tasks :
         op[w].kind # "none" /\ op[w].conv = c
           => Seen(c) = IF op[w].read.live THEN op[w].read ELSE key[c]

LEMMA SeenIs == SerialInv => SeenFacts
<1> SUFFICES ASSUME SerialInv, NEW c \in Serial
             PROVE  /\ (\A w \in Tasks : op[w].kind # "none" => op[w].conv # c) => Seen(c) = key[c]
                    /\ \A w \in Tasks :
                         op[w].kind # "none" /\ op[w].conv = c
                           => Seen(c) = IF op[w].read.live THEN op[w].read ELSE key[c]
  BY DEF SeenFacts
<1>1. ASSUME \A w \in Tasks : op[w].kind # "none" => op[w].conv # c PROVE Seen(c) = key[c]
  BY <1>1 DEF Seen, Holders
<1>2. ASSUME NEW w \in Tasks, op[w].kind # "none", op[w].conv = c
      PROVE  Seen(c) = IF op[w].read.live THEN op[w].read ELSE key[c]
  <2>1. Holders(c) = {w}
    BY <1>2 DEF SerialInv, AloneInv, Holders
  <2>2. CASE op[w].read.live
    <3> DEFINE v == CHOOSE x \in Holders(c) : op[x].read.live
    <3>1. v \in Holders(c)
      BY <2>1, <2>2
    <3>2. Seen(c) = op[v].read
      BY <2>1, <2>2 DEF Seen
    <3>3. v = w
      BY <2>1, <3>1
    <3> HIDE DEF v
    <3> QED
      BY <2>2, <3>2, <3>3
  <2>3. CASE ~op[w].read.live
    BY <2>1, <2>3 DEF Seen
  <2> QED
    BY <2>2, <2>3
<1> QED
  BY <1>1, <1>2

LEMMA SeenIsNext == SerialInv' => SeenFacts'
BY SeenIs, PTL

Shown == [c \in Serial |-> Seen(c)]

\* One conversation's session changes as the store's operations change it.
LEMMA ShownStep ==
  ASSUME NEW c \in Serial, \A d \in Serial : d # c => Seen(d)' = Seen(d),
         \/ Seen(c)' = Seen(c) \/ Seen(c)' = Store!Absent \/ Seen(c)' = Store!Live({})
         \/ Seen(c).live /\ Seen(c)' = Store!Live(Seen(c).turns)
         \/ Seen(c).live /\ Seen(c)' = Store!Finalized(Seen(c).turns)
         \/ /\ Seen(c).live
            /\ \E t \in RTurnIds \ Seen(c).turns : Seen(c)' = Store!Live(Seen(c).turns \cup {t})
  PROVE  [Store!Next]_Shown
<1>1. Shown' = [Shown EXCEPT ![c] = Seen(c)']
  BY DEF Shown
<1>2. Shown[c] = Seen(c)
  BY DEF Shown
<1>3. CASE Seen(c)' = Seen(c)
  <2>1. UNCHANGED Shown
    BY <1>3 DEF Shown
  <2> QED
    BY <2>1
<1>4. CASE Seen(c)' = Store!Absent
  BY <1>1, <1>4 DEF Store!Next, Store!Evict, Shown
<1>5. CASE Seen(c)' = Store!Live({})
  BY <1>1, <1>5 DEF Store!Next, Store!Open, Shown
<1>6. CASE Seen(c).live /\ Seen(c)' = Store!Live(Seen(c).turns)
  BY <1>1, <1>2, <1>6 DEF Store!Next, Store!Touch, Shown
<1>7. CASE Seen(c).live /\ Seen(c)' = Store!Finalized(Seen(c).turns)
  BY <1>1, <1>2, <1>7 DEF Store!Next, Store!Mark, Shown
<1>8. ASSUME NEW t \in RTurnIds \ Seen(c).turns, Seen(c).live,
             Seen(c)' = Store!Live(Seen(c).turns \cup {t})
      PROVE  Store!Next
  <2>1. Store!AppendTurn(c, t)
    BY <1>1, <1>2, <1>8 DEF Store!AppendTurn, Shown
  <2> QED
    BY <2>1 DEF Store!Next
<1> QED
  BY <1>3, <1>4, <1>5, <1>6, <1>7, <1>8

\* Where no call of w is about d, before or after, d looks as before.
LEMMA SeenElsewhere ==
  ASSUME SerialInv, SerialInv', NEW d \in Serial, key'[d] = key[d],
         \A w \in Tasks : (op[w].kind # "none" /\ op[w].conv = d)
                            \/ (op'[w].kind # "none" /\ op'[w].conv = d) => op'[w] = op[w]
  PROVE  Seen(d)' = Seen(d)
<1>1. SeenFacts /\ SeenFacts'
  BY SeenIs, SeenIsNext
<1>2. CASE \A w \in Tasks : op[w].kind # "none" => op[w].conv # d
  <2>1. \A w \in Tasks : op'[w].kind # "none" => op'[w].conv # d
    BY <1>2
  <2> QED
    BY <1>1, <1>2, <2>1 DEF SeenFacts
<1>3. ASSUME NEW w \in Tasks, op[w].kind # "none", op[w].conv = d PROVE Seen(d)' = Seen(d)
  <2>1. op'[w] = op[w]
    BY <1>3
  <2>2. Seen(d) = IF op[w].read.live THEN op[w].read ELSE key[d]
    BY <1>1, <1>3 DEF SeenFacts
  <2>3. Seen(d)' = IF op'[w].read.live THEN op'[w].read ELSE key'[d]
    BY <1>1, <1>3, <2>1 DEF SeenFacts
  <2> QED
    BY <2>1, <2>2, <2>3
<1> QED
  BY <1>2, <1>3

LEMMA GetsShown ==
  ASSUME SerialInv, SerialInv', NEW w \in Tasks, NEW c \in RConvs, NEW kind \in Kinds, Gets(w, c, kind)
  PROVE  UNCHANGED Shown
<1>1. /\ UNCHANGED key /\ op[w].kind = "none"
      /\ \A j \in Tasks : j # w => op'[j] = op[j]
      /\ op'[w] = NoOp \/ op'[w] = Op(kind, c, key[c], 0)
  <2>1. op \in [Tasks -> BoundedOps]
    BY DEF SerialInv, RedisTypeOK, BoundedOps
  <2> QED
    BY <2>1, BoundedOpTypes DEF Gets
<1>2. ASSUME NEW d \in Serial PROVE Seen(d)' = Seen(d)
  <2>1. CASE op'[w].kind # "none" /\ op'[w].conv = d
    <3>1. op'[w] = Op(kind, c, key[c], 0) /\ c = d /\ op'[w].read = key[d]
      BY <1>1, <2>1, BoundedOpTypes DEF Op
    <3>2. \A j \in Tasks : op[j].kind # "none" => op[j].conv # d
      BY <3>1 DEF Gets, Holders
    <3>3. SeenFacts /\ SeenFacts'
      BY SeenIs, SeenIsNext
    <3>4. Seen(d) = key[d]
      BY <3>2, <3>3 DEF SeenFacts
    <3>5. Seen(d)' = IF op'[w].read.live THEN op'[w].read ELSE key'[d]
      BY <2>1, <3>3 DEF SeenFacts
    <3> QED
      BY <1>1, <3>1, <3>4, <3>5
  <2>2. CASE ~(op'[w].kind # "none" /\ op'[w].conv = d)
    BY <1>1, <2>2, SeenElsewhere
  <2> QED
    BY <2>1, <2>2
<1> QED
  BY <1>2 DEF Shown

LEMMA ExpireShown ==
  ASSUME SerialInv, SerialInv', NEW c \in RConvs, Expire(c)
  PROVE  [Store!Next]_Shown
<1>1. /\ key' = [key EXCEPT ![c] = Store!Absent] /\ UNCHANGED op
      /\ key \in [RConvs -> SessionsOf]
  BY DEF Expire, SerialInv, RedisTypeOK
<1>2. \A d \in Serial : d # c => Seen(d)' = Seen(d)
  BY <1>1, SeenElsewhere, RedisAssumption
<1>3. CASE c \in Serial
  <2>1. SeenFacts /\ SeenFacts'
    BY SeenIs, SeenIsNext
  <2>2. Seen(c)' = Seen(c) \/ Seen(c)' = Store!Absent
    <3>1. CASE \A w \in Tasks : op[w].kind # "none" => op[w].conv # c
      BY <1>1, <1>3, <2>1, <3>1 DEF SeenFacts
    <3>2. ASSUME NEW w \in Tasks, op[w].kind # "none", op[w].conv = c
          PROVE  Seen(c)' = Seen(c) \/ Seen(c)' = Store!Absent
      <4>1. Seen(c) = IF op[w].read.live THEN op[w].read ELSE key[c]
        BY <1>3, <2>1, <3>2 DEF SeenFacts
      <4>2. Seen(c)' = IF op[w].read.live THEN op[w].read ELSE Store!Absent
        BY <1>1, <1>3, <2>1, <3>2 DEF SeenFacts
      <4> QED
        BY <4>1, <4>2
    <3> QED
      BY <3>1, <3>2
  <2> QED
    BY <1>2, <1>3, <2>2, ShownStep
<1>4. CASE c \notin Serial
  <2>1. UNCHANGED Shown
    BY <1>2, <1>4 DEF Shown
  <2> QED
    BY <2>1
<1> QED
  BY <1>3, <1>4

\* A call ends, done or broken, and may start again.
LEMMA EndsShown ==
  ASSUME SerialInv, SerialInv', NEW w \in Tasks, Done(w) \/ Breaks(w)
  PROVE  [Store!Next]_Shown
<1> DEFINE ts == op[w].read.turns
<1>0. PICK c : c = op[w].conv
  OBVIOUS
<1>1. PICK o : op' = [op EXCEPT ![w] = o] /\ After(w, o)
  BY EndsAfter
<1>2. /\ op[w].kind # "none"
      /\ Sets(w) \/ UNCHANGED <<key, score, listed, said, quiet, dropped>>
  BY EndsAfter
<1>3. /\ c \in RConvs /\ op[w].kind \in Kinds /\ op[w].read \in SessionsOf
      /\ ts \in SUBSET RTurnIds /\ ts \subseteq 1..said[c]
      /\ said \in [RConvs -> 0..Turns] /\ key \in [RConvs -> SessionsOf]
      /\ op \in [Tasks -> BoundedOps] /\ Turns \in Nat
  BY <1>0, <1>2, OpShape, RedisAssumption DEF SerialInv, RedisTypeOK, ReadInv, BoundedOps
<1>4. op'[w] = o /\ \A j \in Tasks : j # w => op'[j] = op[j]
  BY <1>1, <1>3
<1>5. \A d \in RConvs : d # c => key'[d] = key[d]
  BY <1>0, <1>2, SetsKeeps
<1>6. o.kind # "none" => o.conv = c
  BY <1>0, <1>1, BoundedOpTypes DEF After, Op
<1>7. \A d \in Serial : d # c => Seen(d)' = Seen(d)
  BY <1>0, <1>4, <1>5, <1>6, SeenElsewhere, RedisAssumption
<1>8. CASE c \notin Serial
  <2>1. UNCHANGED Shown
    BY <1>7, <1>8 DEF Shown
  <2> QED
    BY <2>1
<1>9. CASE c \in Serial
  <2>1. SeenFacts /\ SeenFacts'
    BY SeenIs, SeenIsNext
  <2>2. Seen(c) = IF op[w].read.live THEN op[w].read ELSE key[c]
    BY <1>0, <1>2, <1>9, <2>1 DEF SeenFacts
  <2>3. Seen(c)' = IF o.kind # "none" /\ o.read.live THEN o.read ELSE key'[c]
    <3>1. CASE o.kind # "none"
      BY <1>4, <1>6, <1>9, <2>1, <3>1 DEF SeenFacts
    <3>2. CASE o.kind = "none"
      <4>1. \A j \in Tasks : op'[j].kind # "none" => op'[j].conv # c
        BY <1>0, <1>2, <1>4, <1>9, <3>2 DEF SerialInv, AloneInv
      <4> QED
        BY <1>9, <2>1, <3>2, <4>1 DEF SeenFacts
    <3> QED
      BY <3>1, <3>2
  <2>4. ReadInv(op[w])
    BY DEF SerialInv
  <2>5. \/ o = NoOp
        \/ op[w].kind = "rollover" /\ o.kind = "rollover" /\ o.read = op[w].read
        \/ op[w].kind = "mark" /\ o.kind = "mark" /\ o.read = key'[c]
    <3>1. \/ o = NoOp
          \/ op[w].kind = "rollover" /\ o = Op("rollover", c, op[w].read, op[w].tries + 1)
          \/ op[w].kind = "mark" /\ o = Op("mark", c, key'[c], op[w].tries + 1)
      BY <1>0, <1>1 DEF After
    <3>2. o = Op("rollover", c, op[w].read, op[w].tries + 1) => o.kind = "rollover" /\ o.read = op[w].read
      BY DEF Op
    <3>3. o = Op("mark", c, key'[c], op[w].tries + 1) => o.kind = "mark" /\ o.read = key'[c]
      BY DEF Op
    <3> QED
      BY <3>1, <3>2, <3>3
  <2>6. CASE UNCHANGED key
    <3>1. \/ Seen(c)' = op[w].read /\ op[w].read.live
          \/ Seen(c)' = key[c]
      BY <1>0, <1>2, <2>3, <2>4, <2>5, <2>6, BoundedOpTypes DEF ReadInv
    <3>2. \/ Seen(c)' = Seen(c) \/ Seen(c)' = Store!Absent
          \/ Seen(c).live /\ Seen(c)' = Store!Live(Seen(c).turns)
      BY <1>0, <1>2, <1>9, <2>2, <2>4, <3>1 DEF ReadInv
    <3> QED
      BY <1>7, <1>9, <3>2, ShownStep
  <2>7. CASE Sets(w)
    <3>1. CASE op[w].kind = "append"
      <4> DEFINE t == said[c] + 1
      <4>1. Written(w, ts \cup {t}, FALSE) /\ said[c] < Turns
        BY <1>2, <2>7, <3>1, <1>0, SetsShape
      <4>2. t \in RTurnIds \ ts /\ ts \cup {t} \in SUBSET RTurnIds
        BY <1>3, <4>1 DEF RTurnIds
      <4>3. key'[c] = Store!Live(ts \cup {t})
        BY <1>0, <1>3, <4>1, <4>2, StoreWords DEF Written
      <4>4. Seen(c)' = key'[c] /\ Seen(c) = op[w].read /\ op[w].read.live
        BY <1>0, <1>2, <2>2, <2>3, <2>4, <2>5, <3>1, BoundedOpTypes DEF ReadInv
      <4>5. /\ Seen(c).live /\ Seen(c).turns = ts
            /\ \E x \in RTurnIds \ Seen(c).turns : Seen(c)' = Store!Live(Seen(c).turns \cup {x})
        BY <4>2, <4>3, <4>4
      <4> QED
        BY <1>7, <1>9, <4>5, ShownStep
    <3>2. CASE op[w].kind = "mark"
      <4>1. key'[c] = Store!Finalized(ts)
        BY <1>2, <1>3, <2>7, <3>2, <1>0, SetsShape, StoreWords DEF Written
      <4>2. Seen(c)' = key'[c] /\ Seen(c) = op[w].read /\ op[w].read.live
        BY <1>0, <1>2, <2>2, <2>3, <2>4, <2>5, <3>2, BoundedOpTypes DEF ReadInv
      <4>3. Seen(c).live /\ Seen(c)' = Store!Finalized(Seen(c).turns)
        BY <4>1, <4>2
      <4> QED
        BY <1>7, <1>9, <4>3, ShownStep
    <3>3. CASE op[w].kind \in {"load", "save", "rollover"}
      <4>1. key'[c] = Store!Live(ts)
        BY <1>2, <1>3, <2>7, <3>3, <1>0, SetsShape, StoreWords DEF Written
      <4>2. CASE op[w].read.live
        <5>1. Seen(c) = op[w].read /\ (Seen(c)' = op[w].read \/ Seen(c)' = key'[c])
          BY <2>2, <2>3, <2>5, <3>3, <4>2, BoundedOpTypes
        <5> QED
          BY <1>7, <1>9, <4>1, <4>2, <5>1, ShownStep
      <4>3. CASE ~op[w].read.live
        <5>1. ts = {} /\ Seen(c)' = key'[c]
          BY <1>0, <1>2, <2>3, <2>4, <2>5, <3>3, <4>3, BoundedOpTypes, SessionTypes DEF ReadInv
        <5> QED
          BY <1>7, <1>9, <4>1, <5>1, ShownStep
      <4> QED
        BY <4>2, <4>3
    <3> QED
      BY <1>3, <3>1, <3>2, <3>3 DEF Kinds
  <2> QED
    BY <1>2, <2>6, <2>7
<1> QED
  BY <1>8, <1>9

LEMMA StoreStep == SerialInv /\ SerialInv' /\ [RedisNext]_redisVars => [Store!Next]_Shown
<1> SUFFICES ASSUME SerialInv, SerialInv', [RedisNext]_redisVars PROVE [Store!Next]_Shown
  OBVIOUS
<1>1. ASSUME UNCHANGED <<key, op>> PROVE [Store!Next]_Shown
  <2>1. \A d \in Serial : Seen(d)' = Seen(d)
    BY <1>1, SeenElsewhere, RedisAssumption
  <2>2. UNCHANGED Shown
    BY <2>1 DEF Shown
  <2> QED
    BY <2>2
<1>2. ASSUME NEW w \in Tasks, NEW c \in RConvs, NEW kind \in Kinds, Gets(w, c, kind)
      PROVE  [Store!Next]_Shown
  <2>1. UNCHANGED Shown
    BY <1>2, GetsShown
  <2> QED
    BY <2>1
<1>3. ASSUME NEW w \in Tasks, Done(w) \/ Breaks(w) PROVE [Store!Next]_Shown
  BY <1>3, EndsShown
<1>4. ASSUME RangeDue \/ GetAll \/ SweepEnds \/ UNCHANGED redisVars PROVE UNCHANGED <<key, op>>
  BY <1>4 DEF RangeDue, GetAll, SweepEnds, redisVars
<1>5. ASSUME NEW c \in RConvs, Zrem(c) \/ Age(c) PROVE UNCHANGED <<key, op>>
  BY <1>5 DEF Zrem, Age
<1> QED
  BY <1>1, <1>2, <1>3, <1>4, <1>5, ExpireShown DEF RedisNext

\* The keys, their indices, and what every task holds keep their shape
\* (redis_session.py).
THEOREM RedisTypes == RedisSpec => []RedisTypeOK
<1>1. SerialInv => RedisTypeOK
  BY DEF SerialInv
<1> QED
  BY <1>1, SerialInvariant, PTL

\* Where the operations on a conversation do not overlap, GET, MULTI, failed calls,
\* retries and expiry together look like one step of the abstract store, or none
\* (redis_session.py:86-158).
THEOREM RedisIsStore == RedisSpec => SerialIsStore
<1>1. RedisInit => Store!Init
  <2> SUFFICES ASSUME RedisInit PROVE Store!Init
    OBVIOUS
  <2>1. \A c \in Serial : Seen(c) = Store!Absent
    BY BoundedOpTypes, RedisAssumption DEF RedisInit, Seen, Holders
  <2> QED
    BY <2>1 DEF Store!Init
<1>2. SerialInv /\ SerialInv' /\ [RedisNext]_redisVars => [Store!Next]_[c \in Serial |-> Seen(c)]
  BY StoreStep DEF Shown
<1> QED
  BY <1>1, <1>2, SerialInvariant, PTL DEF RedisSpec, SerialIsStore, Store!Spec

-----------------------------------------------------------------------------
(* The permission store.                                                   *)

Kind == {"none", "init", "grant", "revoke", "extend"}
Stages == {"idle", "upsert", "write"}
CallsOf == [kind : Kind, on : PUsers \cup {Default, "none"}, tool : PTools \cup {"none"},
            stage : Stages, read : RowsOf, exists : BOOLEAN]

\* Which rows a call is about, and how far a call of its kind may be.
CallInv(c) ==
  /\ c.kind \in {"grant", "revoke"} => c.on \in PUsers /\ c.tool \in PTools
  /\ c.kind = "extend" => c.on = Default /\ c.tool \in PTools /\ ready # {}
  /\ c.kind = "init" => c.on = Default /\ c.stage = "write"
  /\ c.kind = "none" => c.on = "none" /\ c.stage = "idle"
  /\ c.stage = "upsert" => c.kind \in {"grant", "revoke"}
  /\ c.exists /\ c.on = Default => row[Default].exists

\* A copy of a row honours a ruling on one of its tools.
Upheld(r, d) ==
  /\ r[3] = "grant" => r[2] \in d.granted /\ r[2] \notin d.revoked
  /\ r[3] = "revoke" => r[2] \in d.revoked

RulingInv ==
  \A r \in ruled :
    /\ Upheld(r, row[r[1]])
    /\ \A k \in Callers : call[k].on = r[1] /\ call[k].tool # r[2] => Upheld(r, call[k].read)

OfferInv ==
  \A t \in offered :
    /\ row[Default].exists /\ t \in row[Default].granted
    /\ \A k \in Callers : call[k].kind = "extend" => t \in call[k].read.granted

PermInv == PermTypeOK /\ (\A k \in Callers : CallInv(call[k])) /\ RulingInv /\ OfferInv

-----------------------------------------------------------------------------
\* What a call makes of its row.
Granted(k) ==
  IF call[k].kind = "revoke" THEN call[k].read.granted \ {call[k].tool}
                             ELSE call[k].read.granted \cup {call[k].tool}
Revoked(k) ==
  CASE call[k].kind = "grant"  -> call[k].read.revoked \ {call[k].tool}
    [] call[k].kind = "revoke" -> call[k].read.revoked \cup {call[k].tool}
    [] call[k].kind = "extend" -> call[k].read.revoked

LEMMA DeltaIsRow ==
  ASSUME NEW k \in Callers, call[k] \in CallsOf, call[k].tool \in PTools,
         call[k].kind \in {"grant", "revoke", "extend"}
  PROVE  /\ Delta(k) \in RowsOf
         /\ Delta(k).exists = TRUE
         /\ Delta(k).granted = Granted(k)
         /\ Delta(k).revoked = Revoked(k)
<1>1. Granted(k) \in SUBSET PTools
  BY DEF Granted, CallsOf, RowsOf
<1>2. Revoked(k) \in SUBSET PTools
  BY DEF Revoked, CallsOf, RowsOf
<1>3. Delta(k) = Row(Granted(k), Revoked(k))
  BY DEF Delta, Granted, Revoked, Row
<1> QED
  BY <1>1, <1>2, <1>3 DEF Row, RowsOf

-----------------------------------------------------------------------------
(* Type correctness and what calls are about.                              *)

LEMMA CallType ==
  ASSUME NEW kind \in Kind, NEW on \in PUsers \cup {Default, "none"},
         NEW tool \in PTools \cup {"none"}, NEW stage \in Stages, NEW read \in RowsOf,
         NEW there \in BOOLEAN
  PROVE  /\ Call(kind, on, tool, stage, read, there) \in CallsOf
         /\ Call(kind, on, tool, stage, read, there).kind = kind
         /\ Call(kind, on, tool, stage, read, there).on = on
         /\ Call(kind, on, tool, stage, read, there).tool = tool
         /\ Call(kind, on, tool, stage, read, there).stage = stage
         /\ Call(kind, on, tool, stage, read, there).read = read
         /\ Call(kind, on, tool, stage, read, there).exists = there
BY DEF Call, CallsOf

LEMMA NoCallType ==
  NoCall \in CallsOf /\ NoCall.kind = "none" /\ NoCall.on = "none" /\ NoCall.stage = "idle"
    /\ NoCall.exists = FALSE
BY DEF NoCall, Call, CallsOf, NoRow, RowsOf, Kind, Stages

\* All that happens to the calls is that k's becomes c, and rows do not go away.
LEMMA CallsStep ==
  ASSUME PermTypeOK, \A j \in Callers : CallInv(call[j]),
         NEW k \in Callers, NEW c \in CallsOf, call' = [call EXCEPT ![k] = c],
         CallInv(c)', row[Default].exists => row'[Default].exists, ready \subseteq ready'
  PROVE  /\ call' \in [Callers -> CallsOf]
         /\ \A j \in Callers : CallInv(call[j])'
<1>1. call \in [Callers -> CallsOf]
  BY DEF PermTypeOK, CallsOf, Kind, Stages
<1>2. call' \in [Callers -> CallsOf]
  BY <1>1
<1>3. ASSUME NEW j \in Callers PROVE CallInv(call[j])'
  <2>1. CASE j = k
    BY <1>1, <2>1 DEF CallInv
  <2>2. CASE j # k
    BY <1>1, <2>2 DEF CallInv
  <2> QED
    BY <2>1, <2>2
<1> QED
  BY <1>2, <1>3

LEMMA PermInitInv == PermInit => PermInv
<1> SUFFICES ASSUME PermInit PROVE PermInv
  OBVIOUS
<1>1. call \in [Callers -> CallsOf] /\ \A k \in Callers : call[k] = NoCall
  BY NoCallType DEF PermInit
<1>2. \A k \in Callers : CallInv(call[k])
  BY <1>1, NoCallType, PermissionsAssumption DEF CallInv, Default
<1>3. row \in [PUsers \cup {Default} -> RowsOf]
  BY DEF PermInit, NoRow, RowsOf
<1>4. PermTypeOK
  BY <1>1, <1>3 DEF PermInit, PermTypeOK, CallsOf, Kind, Stages
<1> QED
  BY <1>2, <1>4 DEF PermInit, PermInv, RulingInv, OfferInv

\* What calls hold and rows are, for any step in which a call becomes c.
LEMMA RowsStep ==
  ASSUME PermTypeOK, NEW on \in PUsers \cup {Default}, NEW d \in RowsOf, d.exists = TRUE,
         row' = [row EXCEPT ![on] = d]
  PROVE  /\ row' \in [PUsers \cup {Default} -> RowsOf]
         /\ \A o \in PUsers \cup {Default} : ~row'[o].exists => row'[o] = NoRow
         /\ row'[on] = d
         /\ \A o \in PUsers \cup {Default} : o # on => row'[o] = row[o]
         /\ \A o \in PUsers \cup {Default} : row[o].exists => row'[o].exists
<1>1. row \in [PUsers \cup {Default} -> RowsOf]
  BY DEF PermTypeOK
<1>2. row'[on] = d /\ \A o \in PUsers \cup {Default} : o # on => row'[o] = row[o]
  BY <1>1
<1>3. row' \in [PUsers \cup {Default} -> RowsOf]
  BY <1>1
<1>4. \A o \in PUsers \cup {Default} : ~row'[o].exists => row'[o] = NoRow
  BY <1>2 DEF PermTypeOK
<1>5. \A o \in PUsers \cup {Default} : row[o].exists => row'[o].exists
  BY <1>2
<1> QED
  BY <1>2, <1>3, <1>4, <1>5

-----------------------------------------------------------------------------
(* One lemma for each action.                                              *)

\* Where rows, rulings and offers stay as they are, it is enough that the new
\* copy honours them.
LEMMA CopyStep ==
  ASSUME PermInv, NEW k \in Callers, NEW c \in CallsOf, call' = [call EXCEPT ![k] = c],
         UNCHANGED <<row, ready, ruled, offered>>, CallInv(c)',
         \A r \in ruled : c.on = r[1] /\ c.tool # r[2] => Upheld(r, c.read),
         \A t \in offered : c.kind = "extend" => t \in c.read.granted
  PROVE  PermInv'
<1>1. call' \in [Callers -> CallsOf] /\ \A j \in Callers : CallInv(call[j])'
  BY CallsStep DEF PermInv
<1>2. PermTypeOK'
  BY <1>1 DEF PermInv, PermTypeOK, CallsOf, Kind, Stages
<1>3. call \in [Callers -> CallsOf]
  BY DEF PermInv, PermTypeOK, CallsOf, Kind, Stages
<1>4. call'[k] = c /\ \A j \in Callers : j # k => call'[j] = call[j]
  BY <1>3
<1>5. RulingInv'
  BY <1>4 DEF PermInv, RulingInv, Upheld
<1>6. OfferInv'
  BY <1>4 DEF PermInv, OfferInv
<1> QED
  BY <1>1, <1>2, <1>5, <1>6 DEF PermInv

LEMMA CallFailsInv ==
  ASSUME PermInv, NEW k \in Callers, CallFails(k) PROVE PermInv'
<1>1. CallInv(NoCall)'
  BY NoCallType, PermissionsAssumption DEF CallInv, Default
<1>2. \A r \in ruled : r[1] \in PUsers
  BY DEF PermInv, PermTypeOK
<1> QED
  BY <1>1, <1>2, CopyStep, NoCallType, PermissionsAssumption DEF CallFails

LEMMA InitLooksInv ==
  ASSUME PermInv, NEW k \in Callers, InitLooks(k) PROVE PermInv'
<1>0. PICK c : c = Call("init", Default, "none", "write", NoRow, row[Default].exists)
  OBVIOUS
<1>1. row \in [PUsers \cup {Default} -> RowsOf]
  BY DEF PermInv, PermTypeOK
<1>2. row[Default].exists \in BOOLEAN
  BY <1>1 DEF RowsOf
<1>3. NoRow \in RowsOf
  BY DEF NoRow, RowsOf
<1>4. /\ c \in CallsOf /\ c.kind = "init" /\ c.on = Default /\ c.stage = "write"
      /\ c.exists = row[Default].exists
  <2>1. /\ "init" \in Kind /\ "write" \in Stages
        /\ Default \in PUsers \cup {Default, "none"} /\ "none" \in PTools \cup {"none"}
    BY DEF Kind, Stages
  <2> QED
    BY <1>0, <1>2, <1>3, <2>1, CallType
<1>5. UNCHANGED <<row, ready, ruled, offered>> /\ call' = [call EXCEPT ![k] = c]
  BY <1>0 DEF InitLooks
<1>6. CallInv(c)'
  BY <1>4, <1>5 DEF CallInv
<1>7. \A r \in ruled : r[1] # Default
  BY PermissionsAssumption DEF PermInv, PermTypeOK, Default
<1> QED
  BY <1>4, <1>5, <1>6, <1>7, CopyStep

LEMMA UpsertLooksInv ==
  ASSUME PermInv, NEW k \in Callers, UpsertLooks(k) PROVE PermInv'
<1> DEFINE p == call[k]
<1>0. PICK c : c = Call(p.kind, p.on, p.tool, "write", p.read, row[p.on].exists)
  OBVIOUS
<1>1. row \in [PUsers \cup {Default} -> RowsOf]
  BY DEF PermInv, PermTypeOK
<1>2. p \in CallsOf
  BY DEF PermInv, PermTypeOK, CallsOf, Kind, Stages
<1>3. p.kind \in {"grant", "revoke"} /\ p.on \in PUsers /\ p.tool \in PTools
  BY DEF PermInv, CallInv, UpsertLooks
<1>4. row[p.on].exists \in BOOLEAN
  BY <1>1, <1>3 DEF RowsOf
<1>5. /\ c \in CallsOf /\ c.kind = p.kind /\ c.on = p.on /\ c.tool = p.tool
      /\ c.stage = "write" /\ c.read = p.read
  <2>1. /\ p.kind \in Kind /\ p.on \in PUsers \cup {Default, "none"} /\ p.tool \in PTools \cup {"none"}
        /\ p.read \in RowsOf /\ "write" \in Stages
    BY <1>2 DEF CallsOf, Stages
  <2> QED
    BY <1>0, <1>4, <2>1, CallType
<1>6. UNCHANGED <<row, ready, ruled, offered>> /\ call' = [call EXCEPT ![k] = c]
  BY <1>0 DEF UpsertLooks, PermInv, PermTypeOK
<1>7. CallInv(c)'
  BY <1>3, <1>5, PermissionsAssumption DEF CallInv, Default
<1>8. \A r \in ruled : c.on = r[1] /\ c.tool # r[2] => Upheld(r, c.read)
  BY <1>5 DEF PermInv, RulingInv
<1> QED
  BY <1>3, <1>5, <1>6, <1>7, <1>8, CopyStep

LEMMA PermReadsInv ==
  ASSUME PermInv, NEW k \in Callers, NEW kind \in {"grant", "revoke", "extend"},
         NEW on \in PUsers \cup {Default}, NEW t \in PTools, PermReads(k, kind, on, t)
  PROVE  PermInv'
<1> DEFINE stage == IF kind = "extend" THEN "write" ELSE "upsert"
<1>0. PICK c : c = Call(kind, on, t, stage, row[on], row[on].exists)
  OBVIOUS
<1>1. row \in [PUsers \cup {Default} -> RowsOf]
  BY DEF PermInv, PermTypeOK
<1>2. row[on] \in RowsOf /\ row[on].exists \in BOOLEAN
  BY <1>1 DEF RowsOf
<1>3. /\ c \in CallsOf /\ c.kind = kind /\ c.on = on /\ c.tool = t /\ c.stage = stage
      /\ c.read = row[on] /\ c.exists = row[on].exists
  <2>1. /\ kind \in Kind /\ on \in PUsers \cup {Default, "none"}
        /\ t \in PTools \cup {"none"} /\ stage \in Stages
    BY DEF Kind, Stages
  <2> HIDE DEF stage
  <2> QED
    BY <1>0, <1>2, <2>1, CallType
<1>4. UNCHANGED <<row, ready, ruled, offered>> /\ call' = [call EXCEPT ![k] = c]
  BY <1>0 DEF PermReads
<1>5. (kind = "extend" <=> on = Default) /\ k \in ready
  BY DEF PermReads
<1>6. CallInv(c)'
  BY <1>3, <1>4, <1>5 DEF CallInv
<1>7. \A r \in ruled : c.on = r[1] /\ c.tool # r[2] => Upheld(r, c.read)
  BY <1>3 DEF PermInv, RulingInv
<1>8. \A u \in offered : c.kind = "extend" => u \in c.read.granted
  BY <1>3, <1>5 DEF PermInv, OfferInv
<1> QED
  BY <1>3, <1>4, <1>6, <1>7, <1>8, CopyStep

LEMMA InitSeedsInv ==
  ASSUME PermInv, NEW k \in Callers, InitSeeds(k) PROVE PermInv'
<1>1. call \in [Callers -> CallsOf]
  BY DEF PermInv, PermTypeOK, CallsOf, Kind, Stages
<1>2. call' = [call EXCEPT ![k] = NoCall] /\ ruled' = ruled /\ offered' = offered
  BY DEF InitSeeds
<1>3. call'[k] = NoCall /\ \A j \in Callers : j # k => call'[j] = call[j]
  BY <1>1, <1>2
<1>4. call[k].exists => row[Default].exists
  BY DEF PermInv, CallInv, InitSeeds
<1>5. Row(Configured, {}) \in RowsOf /\ Row(Configured, {}).exists = TRUE
  BY PermissionsAssumption DEF Row, RowsOf
<1>6. /\ row' \in [PUsers \cup {Default} -> RowsOf]
      /\ \A o \in PUsers \cup {Default} : ~row'[o].exists => row'[o] = NoRow
      /\ row[Default].exists => row' = row
      /\ \A u \in PUsers : row'[u] = row[u]
      /\ ready' \subseteq Callers /\ ready \subseteq ready'
      /\ ready' # {} => row'[Default].exists
  <2>1. CASE row' = row
    <3>1. ready' # {} => row[Default].exists
      BY <1>4, <2>1, <1>5 DEF InitSeeds, PermInv, PermTypeOK
    <3> QED
      BY <2>1, <3>1 DEF InitSeeds, PermInv, PermTypeOK
  <2>2. CASE ~row[Default].exists /\ row' = [row EXCEPT ![Default] = Row(Configured, {})]
    <3>1. /\ row' \in [PUsers \cup {Default} -> RowsOf]
          /\ \A o \in PUsers \cup {Default} : ~row'[o].exists => row'[o] = NoRow
          /\ row'[Default] = Row(Configured, {})
          /\ \A o \in PUsers \cup {Default} : o # Default => row'[o] = row[o]
      BY <1>5, <2>2, RowsStep DEF PermInv
    <3>2. \A u \in PUsers : u # Default
      BY PermissionsAssumption DEF Default
    <3>3. ready' \subseteq Callers /\ ready \subseteq ready'
      BY DEF InitSeeds, PermInv, PermTypeOK
    <3> QED
      BY <1>5, <2>2, <3>1, <3>2, <3>3
  <2> QED
    BY <1>4, <2>1, <2>2 DEF InitSeeds
<1>7. CallInv(NoCall)'
  BY NoCallType, PermissionsAssumption DEF CallInv, Default
<1>8. call' \in [Callers -> CallsOf] /\ \A j \in Callers : CallInv(call[j])'
  BY <1>2, <1>6, <1>7, NoCallType, CallsStep DEF PermInv
<1>9. PermTypeOK'
  BY <1>2, <1>6, <1>8 DEF PermInv, PermTypeOK, CallsOf, Kind, Stages
<1>10. RulingInv'
  <2>1. \A r \in ruled : r[1] \in PUsers /\ r[1] # "none"
    BY PermissionsAssumption DEF PermInv, PermTypeOK
  <2> QED
    BY <1>2, <1>3, <1>6, <2>1, NoCallType DEF PermInv, RulingInv, Upheld
<1>11. OfferInv'
  BY <1>2, <1>3, <1>6, NoCallType DEF PermInv, OfferInv
<1> QED
  BY <1>8, <1>9, <1>10, <1>11 DEF PermInv

\* The copy that is written back carries what was ruled and offered before.
LEMMA PermWritesInv ==
  ASSUME PermInv, NEW k \in Callers, PermWrites(k) PROVE PermInv'
<1> DEFINE c == call[k]
           on == call[k].on
<1>1. call \in [Callers -> CallsOf]
  BY DEF PermInv, PermTypeOK, CallsOf, Kind, Stages
<1>2. CASE UNCHANGED <<row, ruled, offered>>
  <2>1. CallFails(k)
    BY <1>2, NoCallType DEF PermWrites, CallFails
  <2> QED
    BY <2>1, CallFailsInv
<1>3. CASE /\ row' = [row EXCEPT ![on] = Delta(k)]
           /\ ruled' = Ruled(k)
           /\ offered' = IF c.kind = "extend" /\ Alone(k) THEN offered \cup {c.tool} ELSE offered
  <2>1. call' = [call EXCEPT ![k] = NoCall] /\ ready' = ready
    BY DEF PermWrites
  <2>2. call'[k] = NoCall /\ \A j \in Callers : j # k => call'[j] = call[j]
    BY <1>1, <2>1
  <2>3. c.kind \in {"grant", "revoke", "extend"} /\ c.tool \in PTools /\ c \in CallsOf
    <3>1. c \in CallsOf /\ c.kind \in Kind /\ c.stage = "write" /\ c.kind # "init"
      BY <1>1 DEF PermWrites, CallsOf
    <3>2. CallInv(c)
      BY DEF PermInv
    <3> QED
      BY <3>1, <3>2 DEF CallInv, Kind
  <2>4. on \in PUsers \cup {Default} /\ (c.kind # "extend" => on \in PUsers)
    BY <2>3 DEF PermInv, CallInv
  <2>5. /\ Delta(k) \in RowsOf /\ Delta(k).exists = TRUE
        /\ Delta(k).granted = Granted(k) /\ Delta(k).revoked = Revoked(k)
    BY <2>3, DeltaIsRow
  <2>6. /\ row' \in [PUsers \cup {Default} -> RowsOf]
        /\ \A o \in PUsers \cup {Default} : ~row'[o].exists => row'[o] = NoRow
        /\ row'[on] = Delta(k)
        /\ \A o \in PUsers \cup {Default} : o # on => row'[o] = row[o]
        /\ \A o \in PUsers \cup {Default} : row[o].exists => row'[o].exists
    BY <1>3, <2>4, <2>5, RowsStep DEF PermInv
  <2>7. CallInv(NoCall)'
    BY NoCallType, PermissionsAssumption DEF CallInv, Default
  <2>8. call' \in [Callers -> CallsOf] /\ \A j \in Callers : CallInv(call[j])'
    BY <2>1, <2>6, <2>7, NoCallType, CallsStep DEF PermInv
  <2>9. /\ ruled' \subseteq PUsers \X PTools \X {"grant", "revoke"}
        /\ offered' \subseteq PTools
    BY <1>3, <2>3, <2>4 DEF Ruled, PermInv, PermTypeOK
  <2>10. PermTypeOK'
    BY <2>1, <2>6, <2>8, <2>9 DEF PermInv, PermTypeOK, CallsOf, Kind, Stages
  <2>11. RulingInv'
    <3> SUFFICES ASSUME NEW r \in ruled'
                 PROVE  /\ Upheld(r, row'[r[1]])
                        /\ \A j \in Callers : call'[j].on = r[1] /\ call'[j].tool # r[2]
                                               => Upheld(r, call'[j].read)
      BY DEF RulingInv, Upheld
    <3>1. r[1] \in PUsers /\ r[1] # "none" /\ r[3] \in {"grant", "revoke"}
      BY <2>9, PermissionsAssumption
    <3>2. CASE r \in ruled /\ (r[1] # on \/ r[2] # c.tool)
      <4>1. Upheld(r, row[r[1]]) /\ \A j \in Callers :
              call[j].on = r[1] /\ call[j].tool # r[2] => Upheld(r, call[j].read)
        BY <3>2 DEF PermInv, RulingInv
      <4>2. \A j \in Callers : call'[j].on = r[1] /\ call'[j].tool # r[2]
                                => Upheld(r, call'[j].read)
        BY <2>2, <3>1, <4>1, NoCallType
      <4>3. CASE r[1] # on
        BY <2>6, <3>1, <4>1, <4>2, <4>3
      <4>4. CASE r[1] = on /\ r[2] # c.tool
        <5>1. Upheld(r, c.read)
          BY <4>1, <4>4
        <5>2. Upheld(r, Delta(k))
          BY <2>3, <2>5, <4>4, <5>1 DEF Upheld, Granted, Revoked
        <5> QED
          BY <2>6, <4>2, <4>4, <5>2
      <4> QED
        BY <3>2, <4>3, <4>4
    <3>3. CASE c.kind # "extend" /\ Alone(k) /\ r = <<on, c.tool, c.kind>>
      <4>1. Upheld(r, Delta(k))
        BY <2>3, <2>5, <3>3 DEF Upheld, Granted, Revoked
      <4>2. \A j \in Callers : call'[j].on # r[1]
        BY <2>2, <3>1, <3>3, NoCallType DEF Alone
      <4> QED
        BY <2>6, <3>3, <4>1, <4>2
    <3> QED
      BY <1>3, <3>2, <3>3 DEF Ruled
  <2>12. OfferInv'
    <3> SUFFICES ASSUME NEW t \in offered'
                 PROVE  /\ row'[Default].exists /\ t \in row'[Default].granted
                        /\ \A j \in Callers : call'[j].kind = "extend" => t \in call'[j].read.granted
      BY DEF OfferInv
    <3>1. c.kind = "extend" <=> on = Default
      BY <2>3, PermissionsAssumption DEF PermInv, CallInv, Default
    <3>2. CASE t \in offered
      <4>1. /\ row[Default].exists /\ t \in row[Default].granted
            /\ \A j \in Callers : call[j].kind = "extend" => t \in call[j].read.granted
        BY <3>2 DEF PermInv, OfferInv
      <4>2. row'[Default].exists /\ t \in row'[Default].granted
        BY <2>5, <2>6, <3>1, <4>1 DEF Granted
      <4> QED
        BY <2>2, <4>1, <4>2, NoCallType
    <3>3. CASE c.kind = "extend" /\ Alone(k) /\ t = c.tool
      <4>1. row'[Default].exists /\ t \in row'[Default].granted
        BY <2>5, <2>6, <3>1, <3>3 DEF Granted
      <4>2. \A j \in Callers : j # k => call[j].kind # "extend"
        BY <3>1, <3>3 DEF Alone, PermInv, CallInv
      <4> QED
        BY <2>2, <4>1, <4>2, NoCallType
    <3> QED
      BY <1>3, <3>2, <3>3
  <2> QED
    BY <2>8, <2>10, <2>11, <2>12 DEF PermInv
<1> QED
  BY <1>2, <1>3 DEF PermWrites

-----------------------------------------------------------------------------
(* The theorems.                                                           *)

LEMMA PermInvHolds == PermSpec => []PermInv
<1>1. PermInit => PermInv
  BY PermInitInv
<1>2. PermInv /\ [PermNext]_permVars => PermInv'
  <2> SUFFICES ASSUME PermInv, [PermNext]_permVars PROVE PermInv'
    OBVIOUS
  <2>1. CASE UNCHANGED permVars
    BY <2>1 DEF permVars, PermInv, PermTypeOK, CallInv, RulingInv, OfferInv
  <2>2. CASE PermNext
    BY <2>2, InitLooksInv, InitSeedsInv, PermReadsInv, UpsertLooksInv, PermWritesInv,
       CallFailsInv DEF PermNext
  <2> QED
    BY <2>1, <2>2
<1> QED
  BY <1>1, <1>2, PTL DEF PermSpec

\* A store that reports ready has its defaults, and rows and calls keep their shape.
THEOREM PermissionTypes == PermSpec => []PermTypeOK
<1>1. PermInv => PermTypeOK
  BY DEF PermInv
<1> QED
  BY <1>1, PermInvHolds, PTL

\* grant, revoke and allowed_tools: the last ruling that no other call overlapped
\* decides, however many processes rule on other tools of the user meanwhile.
THEOREM RulingsAlwaysHold == PermSpec => []RulingsHold
<1>1. PermInv => RulingsHold
  <2> SUFFICES ASSUME PermInv, NEW r \in ruled
               PROVE  r[2] \in AllowedTools(r[1]) <=> r[3] = "grant"
    BY DEF RulingsHold
  <2>1. r[3] \in {"grant", "revoke"} /\ Upheld(r, row[r[1]])
    BY DEF PermInv, PermTypeOK, RulingInv
  <2> QED
    BY <2>1 DEF Upheld, AllowedTools
<1> QED
  BY <1>1, PermInvHolds, PTL

\* extend_default_allowed and _ensure_init: a default is never seeded away.
THEOREM OffersAlwaysReach == PermSpec => []OfferedReaches
<1>1. PermInv => OfferedReaches
  BY DEF PermInv, OfferInv, OfferedReaches, AllowedTools, Defaults
<1> QED
  BY <1>1, PermInvHolds, PTL

-----------------------------------------------------------------------------
(* The profile store.                                                      *)

Acts == [kind : {"none", "remember", "extract", "forget"}, new : SomeFacts,
         keys : SUBSET Facts, stage : {"idle", "select", "write"},
         found : BOOLEAN, read : SomeFacts]

\* A call that forgets brings nothing, and a copy about to be written back holds
\* the facts that are known.
ActInv(c) ==
  /\ c.kind = "forget" => c.new = NoFacts
  /\ c.stage = "write" => \A k \in DOMAIN known : k \in DOMAIN c.read /\ c.read[k] = known[k]

ProfileInv == ProfileTypeOK /\ KnownFactsKept /\ \A a \in Actors : ActInv(act[a])

LEMMA MapsAre ==
  ASSUME NEW f
  PROVE  f \in SomeFacts <=> DOMAIN f \subseteq Facts /\ f \in [DOMAIN f -> Values]
BY DEF SomeFacts

LEMMA NoFactsIs == NoFacts \in SomeFacts /\ DOMAIN NoFacts = {}
<1>1. DOMAIN NoFacts = {}
  BY DEF NoFacts
<1>2. NoFacts \in [{} -> Values]
  BY DEF NoFacts
<1> QED
  BY <1>1, <1>2, MapsAre

LEMMA OverIs ==
  ASSUME NEW f \in SomeFacts, NEW g \in SomeFacts
  PROVE  /\ Over(f, g) \in SomeFacts
         /\ DOMAIN Over(f, g) = DOMAIN f \cup DOMAIN g
         /\ \A k \in DOMAIN f : Over(f, g)[k] = f[k]
         /\ \A k \in DOMAIN g \ DOMAIN f : Over(f, g)[k] = g[k]
BY MapsAre DEF Over

LEMMA WithoutIs ==
  ASSUME NEW f \in SomeFacts, NEW keys \in SUBSET Facts
  PROVE  /\ Without(f, keys) \in SomeFacts
         /\ DOMAIN Without(f, keys) = DOMAIN f \ keys
         /\ \A k \in DOMAIN f \ keys : Without(f, keys)[k] = f[k]
BY MapsAre DEF Without

LEMMA OneFactType ==
  ASSUME NEW k \in Facts, NEW v \in Values
  PROVE  [x \in {k} |-> v] \in SomeFacts
BY MapsAre

LEMMA RestingType == Resting \in Acts /\ Resting.stage = "idle" /\ Resting.kind = "none"
BY NoFactsIs DEF Resting, Acts

\* What an actor's write leaves, as long as the calls keep to the invariant.
LEMMA WriteBackKeeps ==
  ASSUME ProfileInv, NEW a \in Actors, act[a].stage = "write", WriteBack(a)
  PROVE  /\ exists' \in BOOLEAN /\ facts' \in SomeFacts /\ known' \in SomeFacts
         /\ exists' \/ facts' = NoFacts
         /\ KnownFactsKept'
         /\ \A x \in Acts : ActInv(x) /\ (x.stage = "write" => ~Undisturbed(a)) => ActInv(x)'
<1> DEFINE c == act[a]
<1>1. /\ c \in Acts /\ facts \in SomeFacts /\ known \in SomeFacts /\ exists \in BOOLEAN
      /\ c.new \in SomeFacts /\ c.read \in SomeFacts /\ c.keys \in SUBSET Facts
      /\ DOMAIN c.new \subseteq Facts
  BY MapsAre DEF ProfileInv, ProfileTypeOK, Acts
<1>2. CASE UNCHANGED <<exists, facts, known>>
  BY <1>2 DEF ProfileInv, ProfileTypeOK, KnownFactsKept, ActInv
<1>3. CASE /\ exists' = TRUE /\ facts' = MergedFacts(a)
           /\ known' = IF Undisturbed(a) THEN Over(c.new, Without(known, Touched(a)))
                       ELSE Without(known, Touched(a))
  <2> DEFINE rest == Without(known, Touched(a))
             merged == MergedFacts(a)
  <2>1. Touched(a) \in SUBSET Facts
    BY <1>1 DEF Touched
  <2>2. /\ rest \in SomeFacts /\ DOMAIN rest = DOMAIN known \ Touched(a)
        /\ \A k \in DOMAIN rest : rest[k] = known[k]
    <3>1. rest \in SomeFacts
      BY <1>1, <2>1, WithoutIs
    <3>2. DOMAIN rest = DOMAIN known \ Touched(a)
      BY <1>1, <2>1, WithoutIs
    <3>3. \A k \in DOMAIN known \ Touched(a) : rest[k] = known[k]
      BY <1>1, <2>1, WithoutIs
    <3> QED
      BY <3>1, <3>2, <3>3
  <2>3. merged \in SomeFacts
    BY <1>1, WithoutIs, OverIs DEF MergedFacts
  <2>4. ASSUME NEW k \in DOMAIN rest PROVE k \in DOMAIN merged /\ merged[k] = rest[k]
    <3>1. /\ k \in DOMAIN c.read /\ c.read[k] = known[k] /\ rest[k] = known[k]
          /\ k \notin c.keys /\ k \notin DOMAIN c.new
      BY <2>2, <2>4 DEF ProfileInv, ActInv, Touched
    <3>2. CASE c.kind = "forget"
      <4>1. merged = Without(c.read, c.keys)
        BY <3>2 DEF MergedFacts
      <4> QED
        <5>1. DOMAIN Without(c.read, c.keys) = DOMAIN c.read \ c.keys
          BY <1>1, WithoutIs
        <5>2. \A x \in DOMAIN c.read \ c.keys : Without(c.read, c.keys)[x] = c.read[x]
          BY <1>1, WithoutIs
        <5> QED
          BY <3>1, <4>1, <5>1, <5>2
    <3>3. CASE c.kind # "forget"
      <4>1. merged = Over(c.new, c.read)
        BY <3>3 DEF MergedFacts
      <4> QED
        <5>1. DOMAIN Over(c.new, c.read) = DOMAIN c.new \cup DOMAIN c.read
          BY <1>1, OverIs
        <5>2. \A x \in DOMAIN c.read \ DOMAIN c.new : Over(c.new, c.read)[x] = c.read[x]
          BY <1>1, OverIs
        <5> QED
          BY <3>1, <4>1, <5>1, <5>2
    <3> QED
      BY <3>2, <3>3
  <2>5. ASSUME NEW k \in DOMAIN c.new PROVE k \in DOMAIN merged /\ merged[k] = c.new[k]
    <3>1. c.kind # "forget"
      BY <2>5, NoFactsIs DEF ProfileInv, ActInv
    <3>2. merged = Over(c.new, c.read)
      BY <3>1 DEF MergedFacts
    <3> QED
      <4>1. DOMAIN Over(c.new, c.read) = DOMAIN c.new \cup DOMAIN c.read
        BY <1>1, OverIs
      <4>2. \A x \in DOMAIN c.new : Over(c.new, c.read)[x] = c.new[x]
        BY <1>1, OverIs
      <4> QED
        BY <2>5, <3>2, <4>1, <4>2
  <2>6. CASE Undisturbed(a)
    <3>1. /\ known' = Over(c.new, rest) /\ known' \in SomeFacts
          /\ DOMAIN known' = DOMAIN c.new \cup DOMAIN rest
          /\ \A k \in DOMAIN c.new : known'[k] = c.new[k]
          /\ \A k \in DOMAIN rest \ DOMAIN c.new : known'[k] = rest[k]
      <4>1. known' = Over(c.new, rest)
        BY <1>3, <2>6
      <4>2. c.new \in SomeFacts /\ rest \in SomeFacts
        BY <1>1, <2>2
      <4> HIDE DEF rest
      <4>3. /\ Over(c.new, rest) \in SomeFacts
            /\ DOMAIN Over(c.new, rest) = DOMAIN c.new \cup DOMAIN rest
            /\ \A k \in DOMAIN c.new : Over(c.new, rest)[k] = c.new[k]
            /\ \A k \in DOMAIN rest \ DOMAIN c.new : Over(c.new, rest)[k] = rest[k]
        BY <4>2, OverIs
      <4> QED
        BY <4>1, <4>3
    <3>2. \A k \in DOMAIN known' : k \in DOMAIN merged /\ known'[k] = merged[k]
      <4> HIDE DEF rest, merged
      <4> QED
        BY <2>4, <2>5, <3>1
    <3>3. \A x \in Acts : ActInv(x) /\ x.stage # "write" => ActInv(x)'
      BY DEF ActInv
    <3> QED
      BY <1>3, <2>3, <2>6, <3>1, <3>2, <3>3 DEF KnownFactsKept
  <2>7. CASE ~Undisturbed(a)
    <3>1. known' = rest
      BY <1>3, <2>7
    <3>2. \A x \in Acts : ActInv(x) => ActInv(x)'
      BY <2>2, <3>1 DEF ActInv, ProfileInv
    <3> QED
      BY <1>3, <2>2, <2>3, <2>4, <3>1, <3>2 DEF KnownFactsKept
  <2> QED
    BY <2>6, <2>7
<1> QED
  BY <1>2, <1>3 DEF WriteBack

\* All that happens to the calls is that a's becomes c.
LEMMA ActsStep ==
  ASSUME ProfileInv, NEW a \in Actors, NEW c \in Acts, act' = [act EXCEPT ![a] = c],
         exists' \in BOOLEAN, facts' \in SomeFacts, known' \in SomeFacts,
         exists' \/ facts' = NoFacts, KnownFactsKept', ActInv(c)',
         \A b \in Actors \ {a} : \A x \in Acts : x = act[b] => ActInv(x)'
  PROVE  ProfileInv'
<1>1. act \in [Actors -> Acts]
  BY DEF ProfileInv, ProfileTypeOK, Acts
<1>2. act' \in [Actors -> Acts] /\ act'[a] = c /\ \A b \in Actors \ {a} : act'[b] = act[b]
  BY <1>1
<1>3. ProfileTypeOK'
  BY <1>2 DEF ProfileTypeOK, Acts
<1>4. ASSUME NEW b \in Actors PROVE ActInv(act[b])'
  <2>1. CASE b = a
    BY <1>2, <2>1 DEF ActInv
  <2>2. CASE b # a
    <3>1. act[b] \in Acts /\ act'[b] = act[b]
      BY <1>1, <1>2, <2>2
    <3> QED
      BY <2>2, <3>1 DEF ActInv
  <2> QED
    BY <2>1, <2>2
<1> QED
  BY <1>3, <1>4 DEF ProfileInv

\* The write of a was its last deed for now.
LEMMA WriteBackEnds ==
  ASSUME ProfileInv, NEW a \in Actors, act[a].stage = "write", WriteBack(a),
         NEW d \in Acts, d.stage # "write", d.kind = "forget" => d.new = NoFacts,
         act' = [act EXCEPT ![a] = d]
  PROVE  ProfileInv'
<1>1. /\ exists' \in BOOLEAN /\ facts' \in SomeFacts /\ known' \in SomeFacts
      /\ exists' \/ facts' = NoFacts
      /\ KnownFactsKept'
      /\ \A x \in Acts : ActInv(x) /\ (x.stage = "write" => ~Undisturbed(a)) => ActInv(x)'
  BY WriteBackKeeps
<1>2. ActInv(d)'
  BY DEF ActInv
<1>3. \A b \in Actors \ {a} : \A x \in Acts : x = act[b] => ActInv(x)'
  BY <1>1 DEF ProfileInv, Undisturbed
<1> QED
  BY <1>1, <1>2, <1>3, ActsStep

\* A call comes, goes or goes on, and the facts stay as they are.
LEMMA FactsUntouched ==
  ASSUME ProfileInv, NEW a \in Actors, NEW c \in Acts, act' = [act EXCEPT ![a] = c],
         UNCHANGED <<facts, known>>, exists' \in BOOLEAN, exists => exists', ActInv(c)
  PROVE  ProfileInv'
<1>1. /\ facts' \in SomeFacts /\ known' \in SomeFacts
      /\ exists' \/ facts' = NoFacts
      /\ KnownFactsKept' /\ \A x \in Acts : ActInv(x) => ActInv(x)'
  BY DEF ProfileInv, ProfileTypeOK, KnownFactsKept, ActInv
<1>2. ActInv(c)'
  BY <1>1
<1>3. \A b \in Actors \ {a} : \A x \in Acts : x = act[b] => ActInv(x)'
  BY <1>1 DEF ProfileInv
<1> QED
  BY <1>1, <1>2, <1>3, ActsStep

LEMMA ProfileStep ==
  ASSUME ProfileInv, [ProfileNext]_profileVars
  PROVE  ProfileInv'
<1>1. act \in [Actors -> Acts] /\ exists \in BOOLEAN /\ facts \in SomeFacts
  BY DEF ProfileInv, ProfileTypeOK, Acts
<1>2. ActInv(Resting)
  BY RestingType DEF ActInv, Resting
<1>3. CASE UNCHANGED profileVars
  BY <1>3 DEF profileVars, ProfileInv, ProfileTypeOK, KnownFactsKept, ActInv
<1>4. CASE ListFacts
  BY <1>4 DEF ListFacts, GetRow, ProfileInv, ProfileTypeOK, KnownFactsKept, ActInv
<1>5. ASSUME NEW a \in Actors, NEW new \in SomeFacts, NEW kind \in {"remember", "extract"},
             Brings(a, kind, new)
      PROVE  ProfileInv'
  <2> DEFINE c == [Resting EXCEPT !.kind = kind, !.new = new, !.stage = "select"]
  <2>1. c \in Acts /\ ActInv(c)
    BY NoFactsIs DEF Resting, Acts, ActInv
  <2>2. act' = [act EXCEPT ![a] = c] /\ UNCHANGED <<exists, facts, known>>
    BY <1>5 DEF Brings
  <2> HIDE DEF c
  <2> QED
    BY <1>1, <2>1, <2>2, FactsUntouched
<1>6. ASSUME NEW a \in Actors, NEW k \in Facts, AsksToForget(a, k) PROVE ProfileInv'
  <2> DEFINE c == [Resting EXCEPT !.kind = "forget", !.keys = {k}, !.stage = "select"]
             d == IF k \in DOMAIN facts THEN c ELSE act[a]
  <2>1. c \in Acts /\ ActInv(c)
    BY NoFactsIs DEF Resting, Acts, ActInv
  <2>2. d \in Acts /\ ActInv(d)
    BY <1>1, <2>1 DEF ProfileInv
  <2>3. act' = [act EXCEPT ![a] = d]
    BY <1>1, <1>6 DEF AsksToForget
  <2>4. exists' = TRUE /\ UNCHANGED <<facts, known>>
    BY <1>6 DEF AsksToForget, GetRow
  <2> HIDE DEF d
  <2> QED
    BY <2>2, <2>3, <2>4, FactsUntouched
<1>7. ASSUME NEW a \in Actors, Selects(a) PROVE ProfileInv'
  <2> DEFINE c == [act[a] EXCEPT !.stage = "write", !.found = exists, !.read = facts]
  <2>1. c \in Acts
    BY <1>1 DEF Acts
  <2>2. ActInv(c)
    BY <1>1 DEF ProfileInv, ActInv, KnownFactsKept, Acts
  <2>3. act' = [act EXCEPT ![a] = c] /\ UNCHANGED <<exists, facts, known>>
    BY <1>1, <1>7 DEF Selects, Acts
  <2> HIDE DEF c
  <2> QED
    BY <1>1, <2>1, <2>2, <2>3, FactsUntouched
<1>8. ASSUME NEW a \in Actors, Commits(a) PROVE ProfileInv'
  <2>1. act[a].stage = "write" /\ WriteBack(a) /\ act' = [act EXCEPT ![a] = Resting]
    BY <1>8 DEF Commits
  <2> QED
    BY <1>1, <2>1, RestingType, WriteBackEnds
<1>9. ASSUME NEW a \in Actors, ProfileWriteFails(a) PROVE ProfileInv'
  <2> DEFINE c == [act[a] EXCEPT !.stage = "select", !.found = FALSE, !.read = NoFacts]
  <2>1. c \in Acts /\ c.stage = "select" /\ c.kind = act[a].kind /\ c.new = act[a].new
    BY <1>1, NoFactsIs DEF Acts
  <2>2. PICK d \in {Resting, c} : act' = [act EXCEPT ![a] = d]
    BY <1>1, <1>9 DEF ProfileWriteFails, Acts
  <2>3. d \in Acts /\ d.stage # "write" /\ (d.kind = "forget" => d.new = NoFacts)
    BY <2>1, RestingType DEF ProfileInv, ActInv
  <2>4. ActInv(d)
    BY <2>3 DEF ActInv
  <2>5. CASE UNCHANGED <<exists, facts, known>>
    BY <1>1, <2>2, <2>3, <2>4, <2>5, FactsUntouched
  <2>6. CASE WriteBack(a)
    <3>1. act[a].stage = "write"
      BY <1>9 DEF ProfileWriteFails
    <3> QED
      BY <2>2, <2>3, <2>6, <3>1, WriteBackEnds
  <2> QED
    BY <1>9, <2>5, <2>6 DEF ProfileWriteFails
<1> QED
  <2>1. ASSUME NEW a \in Actors, NEW k \in Facts, NEW v \in Values, Remembers(a, k, v)
        PROVE  ProfileInv'
    BY <1>5, <2>1, OneFactType DEF Remembers
  <2>2. ASSUME NEW a \in Actors, NEW new \in SomeFacts, Extracts(a, new) PROVE ProfileInv'
    BY <1>5, <2>2 DEF Extracts
  <2> QED
    BY <1>3, <1>4, <1>6, <1>7, <1>8, <1>9, <2>1, <2>2 DEF ProfileNext

LEMMA ProfileStart == ASSUME ProfileInit PROVE ProfileInv
<1>1. act = [a \in Actors |-> Resting] /\ exists = FALSE /\ facts = NoFacts /\ known = NoFacts
  BY DEF ProfileInit
<1>2. ActInv(Resting)
  BY <1>1, RestingType, NoFactsIs DEF ActInv
<1>3. ProfileTypeOK
  BY <1>1, RestingType, NoFactsIs DEF ProfileTypeOK, Acts
<1>4. KnownFactsKept
  BY <1>1, NoFactsIs DEF KnownFactsKept
<1> QED
  BY <1>1, <1>2, <1>3, <1>4 DEF ProfileInv

LEMMA ProfileInvariant == ProfileSpec => []ProfileInv
<1>1. ProfileInit => ProfileInv
  BY ProfileStart
<1>2. ProfileInv /\ [ProfileNext]_profileVars => ProfileInv'
  BY ProfileStep
<1> QED
  BY <1>1, <1>2, PTL DEF ProfileSpec

\* There are no facts without a row, and rows and calls keep their shape
\* (sqlite_profile.py:85-131).
THEOREM ProfileTypeCorrect == ProfileSpec => []ProfileTypeOK
BY ProfileInvariant, PTL DEF ProfileInv

\* Whatever is remembered, extracted, retried or forgotten, by any number of calls in
\* any order, a fact that was written while no other call held a copy of the row
\* keeps its value until somebody writes or forgets that very fact
\* (sqlite_profile.py:85-131).
THEOREM KnownFactsStay == ProfileSpec => []KnownFactsKept
BY ProfileInvariant, PTL DEF ProfileInv
=============================================================================
