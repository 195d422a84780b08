---------------------------- MODULE RateLimiter ----------------------------
(***************************************************************************)
(* The per-user tool rate limit (tools/ratelimit.py): a token bucket for   *)
(* each (user, tool), refilled as time passes when it is next asked, in a  *)
(* dictionary that forgets the least recently used (util.py).  A check is  *)
(* synchronous, so that it is one step.  Tokens are counted in parts, of   *)
(* which a second brings PerMinute and a call costs Minute: the fractions  *)
(* of tokens of the code are exact here, and rounded floats there.         *)
(***************************************************************************)
EXTENDS Integers, Sequences, FiniteSets, SequencesExt

CONSTANTS
  Keys,       \* pairs of a user and a limited tool
  PerMinute,  \* ToolPolicy.rate_limit_per_minute of each: the rate and the burst
  MaxBuckets, \* ToolsConfig.max_rate_limit_buckets
  Minute,     \* seconds in a minute
  MaxClock    \* bound: time.monotonic()

ASSUME LimiterAssumption ==
  /\ PerMinute \in [Keys -> Int]
  /\ MaxBuckets \in Nat /\ Minute \in Nat \ {0} /\ MaxClock \in Nat

VARIABLES
  clock,  \* time.monotonic()
  lru,    \* the keys of the dictionary, the least recently used first
  tokens, \* parts in each bucket, as of its last check
  last,   \* when that was
  uses,   \* every key ever checked, in the order of its last check
  window  \* an observer's count of the calls let through by one bucket

limiterVars == <<clock, lru, tokens, last, uses, window>>

NoWindow == [key |-> "none", from |-> 0, calls |-> 0]
Capacity(k) == PerMinute[k] * Minute

Place(s, k) == CHOOSE i \in DOMAIN s : s[i] = k

\* Moves k to the end, or puts it there (BoundedLRUDict.get and __setitem__).
Used(s, k) == Append(IF k \in ToSet(s) THEN RemoveAt(s, Place(s, k)) ELSE s, k)

\* A bug to catch: a lookup that does not count as a use.
KeepsPlace(s, k) ==
  IF k \in ToSet(s) THEN s
  ELSE IF Len(s) < MaxBuckets THEN Append(s, k) ELSE Append(Tail(s), k)

\* __setitem__ drops the first entry once there are too many.
Touched(s, k) ==
  LET t == Used(s, k) IN IF Len(t) > MaxBuckets THEN Tail(t) ELSE t

\* A bug to catch: tokens pile up beyond the burst.
RefilledFreely(k) == tokens[k] + PerMinute[k] * (clock - last[k])

\* What try_consume finds in the bucket.
Refilled(k) ==
  LET t == tokens[k] + PerMinute[k] * (clock - last[k])
  IN  IF t > Capacity(k) THEN Capacity(k) ELSE t

Found(k) == IF k \in ToSet(lru) THEN Refilled(k) ELSE Capacity(k)

-----------------------------------------------------------------------------
\* try_acquire.  A limit of zero or less refuses before it looks for a bucket.
TryAcquire(k) ==
  /\ PerMinute[k] > 0
  /\ lru' = Touched(lru, k)
  /\ uses' = Used(uses, k)
  /\ last' = [last EXCEPT ![k] = clock]
  /\ tokens' = [tokens EXCEPT ![k] = IF Found(k) >= Minute THEN Found(k) - Minute ELSE Found(k)]
  /\ window' =
       IF window.key # "none" /\ window.key \notin ToSet(lru')
         THEN NoWindow
       ELSE IF window.key = k /\ Found(k) >= Minute
         THEN [window EXCEPT !.calls = @ + 1]
       ELSE window
  /\ UNCHANGED clock

Passes ==
  /\ clock < MaxClock
  /\ clock' = clock + 1
  /\ UNCHANGED <<lru, tokens, last, uses, window>>

\* The observer may look at any bucket from any time on; it counts until the bucket
\* is evicted.
Observe(k) ==
  /\ PerMinute[k] > 0 /\ k \in ToSet(lru)
  /\ window' = [key |-> k, from |-> clock, calls |-> 0]
  /\ UNCHANGED <<clock, lru, tokens, last, uses>>

LimiterInit ==
  /\ clock = 0
  /\ lru = <<>>
  /\ tokens = [k \in Keys |-> 0]
  /\ last = [k \in Keys |-> 0]
  /\ uses = <<>>
  /\ window = NoWindow

LimiterNext == Passes \/ \E k \in Keys : TryAcquire(k) \/ Observe(k)

LimiterSpec == LimiterInit /\ [][LimiterNext]_limiterVars

-----------------------------------------------------------------------------
(* Properties.                                                             *)

\* Buckets hold between nothing and the burst, and were checked in the past.
LimiterTypeOK ==
  /\ clock \in Nat
  /\ lru \in Seq(Keys) /\ uses \in Seq(Keys)
  /\ tokens \in [Keys -> Int] /\ last \in [Keys -> Nat]
  /\ \A k \in Keys : last[k] <= clock
  /\ \A k \in ToSet(lru) : 0 <= tokens[k] /\ tokens[k] <= Capacity(k)
  /\ window \in [key : Keys \cup {"none"}, from : Nat, calls : Nat]
  /\ window.key # "none" => window.key \in ToSet(lru) /\ window.from <= clock

\* "per_minute is both the steady rate and the burst capacity"
\* (ratelimit.py:66-68): over any time, wherever it starts, a bucket lets through no
\* more calls than one burst and what that time brings, until it is evicted.
RateHolds ==
  window.key # "none" =>
    window.calls * Minute
      <= Capacity(window.key) + PerMinute[window.key] * (clock - window.from)

\* Memory is bounded by forgetting the buckets unused for longest (util.py:15-49):
\* those there are the last MaxBuckets keys that were checked, in that order, so
\* that a user who keeps calling never gets a fresh burst while others come and go.
KeepsRecent ==
  LET gone == IF Len(uses) > MaxBuckets THEN Len(uses) - MaxBuckets ELSE 0
  IN  lru = SubSeq(uses, gone + 1, Len(uses))
=============================================================================
