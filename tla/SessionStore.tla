--------------------------- MODULE SessionStore ---------------------------
(***************************************************************************)
(* What the memory layer relies on in a SessionStore (stores/base.py): a   *)
(* map from conversations to sessions, in which each operation takes       *)
(* effect at once.  The in-memory store implements it under any            *)
(* interleaving (SessionLifecycle), until a rollover saves what it read    *)
(* before other writes of the conversation; the Redis store where the      *)
(* operations on a conversation do not overlap (RedisSession).             *)
(***************************************************************************)
CONSTANTS
  Convs,   \* conversation ids
  TurnIds  \* the turns of a conversation

VARIABLE session \* the turns of each conversation, in buffer or summary, and its mark

Absent == [live |-> FALSE, turns |-> {}, marked |-> FALSE]
Live(ts) == [live |-> TRUE, turns |-> ts, marked |-> FALSE]
Finalized(ts) == [live |-> TRUE, turns |-> ts, marked |-> TRUE]

Init == session = [c \in Convs |-> Absent]

\* save of a session that was not there, or had expired: a new one, without turns.
Open(c) == session' = [session EXCEPT ![c] = Live({})]

\* save of the session that was loaded: new activity clears the mark.
Touch(c) ==
  /\ session[c].live
  /\ session' = [session EXCEPT ![c] = Live(session[c].turns)]

\* append_turn adds one turn, to a session that exists.
AppendTurn(c, t) ==
  /\ session[c].live /\ t \notin session[c].turns
  /\ session' = [session EXCEPT ![c] = Live(session[c].turns \cup {t})]

\* mark_finalized changes nothing but the mark.
Mark(c) ==
  /\ session[c].live
  /\ session' = [session EXCEPT ![c] = Finalized(session[c].turns)]

\* The idle TTL: the session goes with everything in it.
Evict(c) == session' = [session EXCEPT ![c] = Absent]

Next ==
  \E c \in Convs :
    \/ Open(c) \/ Touch(c) \/ Mark(c) \/ Evict(c)
    \/ \E t \in TurnIds : AppendTurn(c, t)

Spec == Init /\ [][Next]_session
=============================================================================
