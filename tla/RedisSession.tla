--------------------------- MODULE RedisSession ---------------------------
(***************************************************************************)
(* The Redis session store (stores/redis_session.py): one JSON string per  *)
(* conversation under a TTL, and two sorted sets beside it, the owner's    *)
(* conversations and the sessions still to finalize.  Every operation      *)
(* reads the whole string, and writes it back later, in one MULTI with the *)
(* indices, so that operations of several tasks and workers interleave     *)
(* between the two, and expiry, failed calls and retries with them.        *)
(* One user owns every conversation: a foreign load raises and changes     *)
(* nothing.  A session is the set of its turns, in buffer or summary,      *)
(* which to_json and from_dict carry over; no other field matters here.    *)
(***************************************************************************)
EXTENDS Naturals

CONSTANTS
  RConvs,    \* conversations
  Serial,    \* environment: those on which no two operations overlap
  Tasks,     \* the tasks of all workers that call the store
  Turns,     \* bound: the turns of a conversation, 1..Turns
  Retries    \* RetryPolicy.max_retries

RTurnIds == 1..Turns

ASSUME RedisAssumption == Serial \subseteq RConvs /\ Turns \in Nat /\ Retries \in Nat

VARIABLES
  key,      \* session:{conv}: the stored session, or none
  score,    \* its entry in sessions:pending_finalize: "none", "fresh", or
            \* "idle" once it is idle_finalize_s old
  listed,   \* members of user:{user}:convs
  op,       \* what each task is doing
  said,     \* turns appended so far, numbered from 1
  sweep,    \* due_for_finalize under way: its stage and conversations
  quiet,    \* turns appended while nobody held an earlier copy of the session
  dropped   \* sessions a sweep took off the index after they had come back

redisVars == <<key, score, listed, op, said, sweep, quiet, dropped>>

Holders(c) == {w \in Tasks : op[w].kind # "none" /\ op[w].conv = c}

\* The session as callers may take it to be: the one an operation under way has
\* read, although its key may have expired since, or the stored one.
Seen(c) ==
  IF \E w \in Holders(c) : op[w].read.live
    THEN op[CHOOSE w \in Holders(c) : op[w].read.live].read
    ELSE key[c]

Store == INSTANCE SessionStore WITH
           Convs <- Serial, TurnIds <- RTurnIds,
           session <- [c \in Serial |-> Seen(c)]

Op(kind, conv, read, tries) == [kind |-> kind, conv |-> conv, read |-> read, tries |-> tries]
NoOp == Op("none", "none", Store!Absent, 0)
NoSweep == [stage |-> "asleep", convs |-> {}]

\* to_json: whatever is written has every turn of the buffer and the summary.
ToJson(ts, marked) == [live |-> TRUE, turns |-> ts, marked |-> marked]

Kinds == {"load", "save", "rollover", "append", "mark"}

-----------------------------------------------------------------------------
(* One operation: GET, and a write of what was read.                       *)

\* Whether the operation goes on to write: load makes a session only where it
\* found none, set_conversation_model saves in any case, a rollover, append_turn
\* and mark_finalized need one.
GoesOn(kind, found) ==
  CASE kind = "load" -> ~found.live
    [] kind = "save" -> TRUE
    [] OTHER         -> found.live

\* load, or the GET of append_turn and mark_finalized.
Gets(w, c, kind) ==
  /\ op[w] = NoOp
  /\ c \in Serial => Holders(c) = {}
  /\ op' = [op EXCEPT ![w] =
              IF GoesOn(kind, key[c]) THEN Op(kind, c, key[c], 0) ELSE NoOp]
  /\ UNCHANGED <<key, score, listed, said, sweep, quiet, dropped>>

\* A bug to catch: the session is written back without its index entry.
SetUnindexed(c, ts) ==
  /\ key' = [key EXCEPT ![c] = ToJson(ts, FALSE)]
  /\ UNCHANGED <<score, listed, dropped>>

\* A bug to catch: the mark of an earlier finalization is written back.
SetKeepingMark(c, ts) ==
  /\ key' = [key EXCEPT ![c] = ToJson(ts, key[c].marked)]
  /\ score' = [score EXCEPT ![c] = "fresh"]
  /\ listed' = listed \cup {c}
  /\ dropped' = dropped \ {c}

\* The MULTI of save and append_turn: the string, its TTL and both indices.
SetActive(c, ts) ==
  /\ key' = [key EXCEPT ![c] = ToJson(ts, FALSE)]
  /\ score' = [score EXCEPT ![c] = "fresh"]
  /\ listed' = listed \cup {c}
  /\ dropped' = dropped \ {c}

\* The MULTI of mark_finalized.
SetMarked(c, read) ==
  /\ key' = [key EXCEPT ![c] = ToJson(read.turns, TRUE)]
  /\ score' = [score EXCEPT ![c] = "none"]
  /\ dropped' = dropped \ {c}
  /\ UNCHANGED listed

\* A bug to catch: the new turn replaces the buffer.
AppendedAlone(w) == {said[op[w].conv] + 1}

\* The buffer append_turn writes: the one it read, and its turn.
Appended(w) == op[w].read.turns \cup {said[op[w].conv] + 1}

\* The write of operation w takes effect.
Sets(w) ==
  LET c == op[w].conv
  IN  CASE op[w].kind = "mark" ->
             SetMarked(c, op[w].read) /\ UNCHANGED <<said, quiet>>
        [] op[w].kind = "append" ->
             /\ said[c] < Turns
             /\ SetActive(c, Appended(w))
             /\ said' = [said EXCEPT ![c] = @ + 1]
             /\ quiet' = IF Holders(c) = {w}
                           THEN [quiet EXCEPT ![c] = @ \cup {said[c] + 1}] ELSE quiet
        [] OTHER ->
             SetActive(c, op[w].read.turns) /\ UNCHANGED <<said, quiet>>

\* Redis answers, and the operation is over.
Done(w) ==
  /\ op[w].kind # "none"
  /\ Sets(w)
  /\ op' = [op EXCEPT ![w] = NoOp]
  /\ UNCHANGED sweep

\* The connection breaks, before or after the MULTI ran.  store_write calls a
\* rollover's save again, with the state it has, and the whole of mark_finalized;
\* the others raise.
Breaks(w) ==
  /\ op[w].kind # "none"
  /\ Sets(w) \/ UNCHANGED <<key, score, listed, said, quiet, dropped>>
  /\ op' = [op EXCEPT ![w] =
              IF op[w].kind = "rollover" /\ op[w].tries < Retries
                THEN Op("rollover", @.conv, @.read, @.tries + 1)
              ELSE IF op[w].kind = "mark" /\ op[w].tries < Retries /\ key'[op[w].conv].live
                THEN Op("mark", @.conv, key'[@.conv], @.tries + 1)
              ELSE NoOp]
  /\ UNCHANGED sweep

-----------------------------------------------------------------------------
(* due_for_finalize.                                                       *)

\* ZRANGEBYSCORE up to the cutoff.
RangeDue ==
  /\ sweep.stage = "asleep"
  /\ sweep' = [stage |-> "get", convs |-> {c \in RConvs : score[c] = "idle"}]
  /\ UNCHANGED <<key, score, listed, op, said, quiet, dropped>>

\* The GETs; the sweep goes on with those whose session has expired.
GetAll ==
  /\ sweep.stage = "get"
  /\ sweep' = [stage |-> "zrem", convs |-> {c \in sweep.convs : ~key[c].live}]
  /\ UNCHANGED <<key, score, listed, op, said, quiet, dropped>>

\* One ZREM after the other, whatever has become of the session meanwhile.
Zrem(c) ==
  /\ sweep.stage = "zrem" /\ c \in sweep.convs
  /\ score' = [score EXCEPT ![c] = "none"]
  /\ dropped' = IF key[c].live /\ ~key[c].marked THEN dropped \cup {c} ELSE dropped
  /\ sweep' = [sweep EXCEPT !.convs = @ \ {c}]
  /\ UNCHANGED <<key, listed, op, said, quiet>>

SweepEnds ==
  /\ sweep.stage = "zrem" /\ sweep.convs = {}
  /\ sweep' = NoSweep
  /\ UNCHANGED <<key, score, listed, op, said, quiet, dropped>>

\* list: the owner's conversations, those that have expired left out.
ListOf == {c \in listed : key[c].live}

-----------------------------------------------------------------------------
(* Time.                                                                   *)

Age(c) ==
  /\ score[c] = "fresh"
  /\ score' = [score EXCEPT ![c] = "idle"]
  /\ UNCHANGED <<key, listed, op, said, sweep, quiet, dropped>>

\* EXPIRE.  The TTL is longer than idle_finalize_s, and runs from the last SET.
Expire(c) ==
  /\ key[c].live /\ score[c] # "fresh"
  /\ key' = [key EXCEPT ![c] = Store!Absent]
  /\ quiet' = [quiet EXCEPT ![c] = {}]
  /\ dropped' = dropped \ {c}
  /\ UNCHANGED <<score, listed, op, said, sweep>>

RedisInit ==
  /\ key = [c \in RConvs |-> Store!Absent]
  /\ score = [c \in RConvs |-> "none"]
  /\ listed = {}
  /\ op = [w \in Tasks |-> NoOp]
  /\ said = [c \in RConvs |-> 0]
  /\ sweep = NoSweep
  /\ quiet = [c \in RConvs |-> {}]
  /\ dropped = {}

RedisNext ==
  \/ \E w \in Tasks : \/ \E c \in RConvs, k \in Kinds : Gets(w, c, k)
                      \/ Done(w)
                      \/ Breaks(w)
  \/ RangeDue \/ GetAll \/ SweepEnds
  \/ \E c \in RConvs : Zrem(c) \/ Age(c) \/ Expire(c)

RedisSpec == RedisInit /\ [][RedisNext]_redisVars

-----------------------------------------------------------------------------
(* Properties.                                                             *)

SessionsOf == [live : BOOLEAN, turns : SUBSET RTurnIds, marked : BOOLEAN]

\* The keys and indices of Redis, and the calls under way, keep their shape; a
\* key that is not there has no turns and no mark.
RedisTypeOK ==
  /\ key \in [RConvs -> SessionsOf]
  /\ \A c \in RConvs : ~key[c].live => key[c] = Store!Absent
  /\ score \in [RConvs -> {"none", "fresh", "idle"}]
  /\ listed \subseteq RConvs /\ dropped \subseteq RConvs
  /\ op \in [Tasks -> [kind : Kinds \cup {"none"}, conv : RConvs \cup {"none"},
                       read : SessionsOf, tries : 0..Retries]]
  /\ \A w \in Tasks : op[w].kind # "none" => op[w].conv \in RConvs
  /\ said \in [RConvs -> 0..Turns]
  /\ sweep \in [stage : {"asleep", "get", "zrem"}, convs : SUBSET RConvs]
  /\ quiet \in [RConvs -> SUBSET RTurnIds]

\* A turn appended while no other task held a copy of the session (the GET and
\* SET of redis_session.py:142-158) stays in the session as long as the key does,
\* whichever loads, saves, marks, appends and retries overlap afterwards.
QuietAppendsKept == \A c \in RConvs : quiet[c] \subseteq key[c].turns

\* due_for_finalize looks only at sessions:pending_finalize: a session that is
\* not finalized is in it, so that the idle sweep finds it before the TTL, and
\* list shows every session to its owner (redis_session.py:6-14).  The one way out
\* is a session that came back between the sweep's GETs and its ZREM.
DueIsIndexed ==
  \A c \in RConvs : key[c].live =>
    /\ c \in ListOf
    /\ ~key[c].marked => score[c] # "none" \/ c \in dropped

\* Where operations do not overlap, each takes effect at once, failed calls,
\* retries and expiry included: the store implements SessionStore.
SerialIsStore == Store!Spec
=============================================================================
