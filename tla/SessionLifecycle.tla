-------------------------- MODULE SessionLifecycle --------------------------
(***************************************************************************)
(* The two-stage idle lifecycle of a conversation: a session in the        *)
(* in-memory store (stores/memory_session.py) is finalized, i.e. embedded  *)
(* as one episodic point, after idle_finalize_s without activity or when   *)
(* its WebSocket closes, and evicted after ttl_s.  Finalizing reads the    *)
(* session, awaits the embedder and the vector store, and only then marks  *)
(* the session; the rollover a turn leaves behind (memory/working.py) reads *)
(* it, awaits the summarizer, and only then saves what it read.  So turns, *)
(* rollovers, finalizations and time interleave.                           *)
(***************************************************************************)
EXTENDS Integers

CONSTANTS
  Convs,         \* conversation ids
  Sweeper,       \* the background idle sweep; the other finalizers are the
                 \* WebSocket handlers, one per conversation
  IdleFinalize,  \* WorkingMemoryConfig.idle_finalize_s
  Ttl,           \* WorkingMemoryConfig.ttl_s
  SweepInterval, \* WorkingMemoryConfig.sweep_interval_s
  SweepTime,     \* environment: the longest one sweep takes
  MaxFailures,   \* environment: finalizations of one conversation the sweeper
                 \* fails in a row
  QuietFinalize, \* environment: no turn is persisted while its conversation is
                 \* being finalized
  HasSummarizer, \* WorkingMemory has an LLM to summarize with
  MaxTurns,      \* bound: turns per conversation
  MaxTime        \* bound: the clock

\* schema.py:71-77 refuses any other configuration.
ASSUME LifecycleAssumption ==
  /\ IdleFinalize \in Nat /\ Ttl \in Nat /\ IdleFinalize < Ttl
  /\ SweepInterval \in Nat /\ SweepTime \in Nat /\ MaxFailures \in Nat
  /\ MaxTurns \in Nat /\ MaxTime \in Nat
  /\ Sweeper \notin Convs

VARIABLES
  now,       \* time.time()
  open,      \* conversations with a SessionState in the store
  turns,     \* the turns in that state, buffer and summary together
  updated,   \* its updated_at
  finalized, \* conversations whose finalized_at is set
  stale,     \* history: conversations whose session lost or regained turns when
             \* a rollover saved what it had read
  inTurn,    \* conversations a running turn has loaded
  sent,      \* turns persisted so far, numbered from 1
  roll,      \* the rollover each persisted turn leaves behind
  embedded,  \* the turns in the conversation's episodic point
  exposed,   \* history: turns that came into the session while it was being
             \* finalized, and that no finalization has embedded alone since
  sweeping,  \* whether the sweeper is awake
  wakeAt,    \* when it wakes up
  sweepStart,\* when the last sweep listed the due conversations
  due,       \* conversations this sweep has still to finalize
  fin,       \* each finalizer: its stage, conversation and snapshot
  failed     \* failed sweeper attempts since the conversation's last activity

storeVars == <<open, turns, updated, finalized, stale>>
turnVars  == <<inTurn, sent, roll>>
pointVars == <<embedded, exposed>>
sweepVars == <<sweeping, wakeAt, sweepStart, due>>
vars == <<now, storeVars, turnVars, pointVars, sweepVars, fin, failed>>

Finalizers == Convs \cup {Sweeper}
Idle == [stage |-> "idle", conv |-> "none", snapshot |-> {}]
Busy(c) == \E f \in Finalizers : fin[f].stage # "idle" /\ fin[f].conv = c

TurnIds == 1..MaxTurns

\* No rollover: none was left behind, or it is over.
NoRollover == [stage |-> "none", snapshot |-> {}, overtaken |-> FALSE]

\* The in-memory store as its callers may take it to be, while no rollover has
\* saved other turns than the session had.
Sessions == [c \in Convs |->
  IF c \in stale THEN [live |-> FALSE, turns |-> {}, marked |-> FALSE]
  ELSE [live |-> c \in open, turns |-> turns[c], marked |-> c \in finalized]]
Store == INSTANCE SessionStore WITH session <- Sessions

Expired(c) == c \in open /\ now - updated[c] > Ttl
Period == SweepInterval + SweepTime

-----------------------------------------------------------------------------
(* The in-memory session store.                                            *)

\* State of the store once load(c) evicted an expired session.
Loaded(c) == IF Expired(c) THEN open \ {c} ELSE open

\* A bug to catch: activity that leaves the mark of an earlier finalize.
ActivityKeepingMark(c) ==
  /\ updated' = [updated EXCEPT ![c] = now]
  /\ UNCHANGED finalized
  /\ failed' = [failed EXCEPT ![c] = 0]

\* Any write of a session restarts its idle time and clears its mark.
Activity(c) ==
  /\ updated' = [updated EXCEPT ![c] = now]
  /\ finalized' = finalized \ {c}
  /\ failed' = [failed EXCEPT ![c] = 0]

\* save(c): the loaded session, or an empty one, is written back.
Saved(c) ==
  /\ open' = Loaded(c) \cup {c}
  /\ turns' = [turns EXCEPT ![c] = IF c \in Loaded(c) THEN @ ELSE {}]
  /\ stale' = IF c \in Loaded(c) THEN stale ELSE stale \ {c}
  /\ Activity(c)

\* A bug to catch: the mark outlives the session.
EvictKeepingMark(c) ==
  /\ open' = open \ {c}
  /\ turns' = [turns EXCEPT ![c] = {}]
  /\ stale' = stale \ {c}
  /\ UNCHANGED <<updated, finalized>>

Evict(c) ==
  /\ open' = open \ {c}
  /\ turns' = [turns EXCEPT ![c] = {}]
  /\ finalized' = finalized \ {c}
  /\ stale' = stale \ {c}
  /\ UNCHANGED updated

\* load(c) finds no session, or one that has expired and goes.
Missed(c) ==
  /\ c \notin Loaded(c)
  /\ IF c \in open THEN Evict(c) ELSE UNCHANGED storeVars

-----------------------------------------------------------------------------
Init ==
  /\ now = 0
  /\ open = {}
  /\ turns = [c \in Convs |-> {}]
  /\ updated = [c \in Convs |-> 0]
  /\ finalized = {}
  /\ stale = {}
  /\ inTurn = {}
  /\ sent = [c \in Convs |-> 0]
  /\ roll = [c \in Convs |-> [n \in TurnIds |-> NoRollover]]
  /\ embedded = [c \in Convs |-> {}]
  /\ exposed = [c \in Convs |-> {}]
  /\ sweeping = FALSE
  /\ wakeAt = SweepInterval
  /\ sweepStart = 0
  /\ due = {}
  /\ fin = [f \in Finalizers |-> Idle]
  /\ failed = [c \in Convs |-> 0]

\* Time passes, but not past a sweeper that is ready to run, nor past the time
\* a sweep may take.
Tick ==
  /\ now < MaxTime
  /\ IF sweeping THEN now < sweepStart + SweepTime ELSE now < wakeAt
  /\ now' = now + 1
  /\ UNCHANGED <<storeVars, turnVars, pointVars, sweepVars, fin, failed>>

-----------------------------------------------------------------------------
(* Activity: a turn loads its session (WorkingMemory.load), and persists     *)
(* when the model is done; a model override is saved at any time.            *)

TurnLoads(c) ==
  /\ c \notin inTurn
  /\ inTurn' = inTurn \cup {c}
  /\ IF c \in Loaded(c) THEN UNCHANGED <<storeVars, failed>> ELSE Saved(c)
  /\ UNCHANGED <<now, sent, roll, pointVars, sweepVars, fin>>

\* append_turn looks neither at the owner nor at the TTL; without a session it
\* raises and the turn is lost.  A persisted turn leaves a rollover behind.
TurnPersists(c) ==
  /\ c \in inTurn
  /\ sent[c] < MaxTurns
  /\ QuietFinalize => ~Busy(c)
  /\ inTurn' = inTurn \ {c}
  /\ IF c \in open
       THEN LET n == sent[c] + 1 IN
            /\ sent' = [sent EXCEPT ![c] = n]
            /\ turns' = [turns EXCEPT ![c] = @ \cup {n}]
            /\ exposed' = IF Busy(c) THEN [exposed EXCEPT ![c] = @ \cup {n}]
                                     ELSE exposed
            /\ roll' = IF HasSummarizer
                         THEN [roll EXCEPT ![c][n] = [@ EXCEPT !.stage = "queued"]]
                         ELSE roll
            /\ Activity(c)
            /\ UNCHANGED <<open, stale>>
       ELSE UNCHANGED <<storeVars, sent, roll, exposed, failed>>
  /\ UNCHANGED <<now, embedded, sweepVars, fin>>

SetModel(c) ==
  /\ Saved(c)
  /\ UNCHANGED <<now, turnVars, pointVars, sweepVars, fin>>

-----------------------------------------------------------------------------
(* maybe_rollover, as left behind by turn n.                               *)

RolloverOver(c, n) == roll' = [roll EXCEPT ![c][n] = NoRollover]

\* The session is loaded.  With turns to evict from its buffer, the rollover
\* keeps what it split, and calls the summarizer.
RolloverStarts(c, n) ==
  /\ roll[c][n].stage = "queued"
  /\ \/ /\ c \in Loaded(c) /\ turns[c] # {}
        /\ roll' = [roll EXCEPT ![c][n] = [stage |-> "summarizing",
                                  snapshot |-> turns[c], overtaken |-> FALSE]]
        /\ UNCHANGED storeVars
     \/ c \in Loaded(c) /\ RolloverOver(c, n) /\ UNCHANGED storeVars
     \/ Missed(c) /\ RolloverOver(c, n)
  /\ UNCHANGED <<now, inTurn, sent, pointVars, sweepVars, fin, failed>>

\* Rollover n saves the session object it read, with the turns ts, over whatever
\* the conversation has by now, an object since evicted included.  A rollover
\* still waiting for its summarizer may hold that object as well.
WriteBack(c, n, ts) ==
  /\ open' = open \cup {c}
  /\ turns' = [turns EXCEPT ![c] = ts]
  /\ stale' = IF c \in open /\ turns[c] = ts THEN stale ELSE stale \cup {c}
  /\ exposed' = IF Busy(c) THEN [exposed EXCEPT ![c] = @ \cup (ts \ turns[c])]
                           ELSE exposed
  /\ roll' = [roll EXCEPT ![c] =
       [m \in TurnIds |->
          IF m = n THEN NoRollover
          ELSE [roll[c][m] EXCEPT !.overtaken = @ \/ roll[c][m].stage = "summarizing"]]]
  /\ Activity(c)
  /\ UNCHANGED <<now, inTurn, sent, embedded, sweepVars, fin>>

\* The summarizer answers: everything the rollover read is in the new summary or
\* in the turns it kept.
RolloverSaves(c, n) ==
  /\ roll[c][n].stage = "summarizing"
  /\ WriteBack(c, n, roll[c][n].snapshot)

\* No usable answer: the summary that was read counts as the new one.  It makes
\* no difference, unless another rollover has changed that of the object by now;
\* then it is saved with the turns that were kept, the newest at least.  Whether
\* there was a summary to read, and which object the other saved, is left open.
RolloverReverts(c, n) ==
  /\ roll[c][n].stage = "summarizing" /\ roll[c][n].overtaken
  /\ \E kept \in SUBSET roll[c][n].snapshot :
       /\ \E newest \in kept : \A m \in roll[c][n].snapshot : m <= newest
       /\ WriteBack(c, n, kept)

\* The summarizer raises, or what it says makes no difference.
RolloverGivesUp(c, n) ==
  /\ roll[c][n].stage = "summarizing"
  /\ RolloverOver(c, n)
  /\ UNCHANGED <<now, storeVars, inTurn, sent, pointVars, sweepVars, fin, failed>>

-----------------------------------------------------------------------------
(* end_conversation, as run by finalizer f.                                *)

\* A bug to catch: the session is marked before its turns are embedded.
PeekMarking(f, c) ==
  \/ /\ c \in Loaded(c)
     /\ finalized' = finalized \cup {c}
     /\ fin' = [fin EXCEPT ![f] =
                  [stage |-> "embed", conv |-> c, snapshot |-> turns[c]]]
     /\ UNCHANGED <<open, turns, updated, stale>>
  \/ Missed(c) /\ UNCHANGED fin

\* peek: nothing to do without a live session.  A conversation without a turn is
\* not written, so that nothing is awaited before its session is marked.
Peek(f, c) ==
  \/ /\ c \in Loaded(c) /\ turns[c] # {}
     /\ fin' = [fin EXCEPT ![f] =
                  [stage |-> "embed", conv |-> c, snapshot |-> turns[c]]]
     /\ UNCHANGED storeVars
  \/ /\ c \in Loaded(c) /\ turns[c] = {}
     /\ finalized' = finalized \cup {c}
     /\ UNCHANGED <<open, turns, updated, stale, fin>>
  \/ Missed(c) /\ UNCHANGED fin

\* f is the only finalizer at work on its conversation.
Alone(f) ==
  \A g \in Finalizers \ {f} : fin[g].stage # "idle" => fin[g].conv # fin[f].conv

\* write_conversation.  The point's id is that of the conversation, so the
\* snapshot replaces what was there.
Embed(f) ==
  /\ fin[f].stage = "embed"
  /\ embedded' = [embedded EXCEPT ![fin[f].conv] = fin[f].snapshot]
  /\ exposed' = IF Alone(f)
                  THEN [exposed EXCEPT ![fin[f].conv] = @ \ fin[f].snapshot]
                  ELSE exposed
  /\ fin' = [fin EXCEPT ![f].stage = "mark"]
  /\ UNCHANGED <<now, storeVars, turnVars, sweepVars, failed>>

\* mark_finalized marks whatever session the conversation has by now.
MarkFinalized(f) ==
  /\ fin[f].stage = "mark"
  /\ finalized' = finalized \cup ({fin[f].conv} \cap open)
  /\ fin' = [fin EXCEPT ![f] = Idle]
  /\ UNCHANGED <<now, open, turns, updated, stale, turnVars, pointVars,
                 sweepVars, failed>>

\* The embedder, the vector store or the session store raises: logged, and left
\* to the sweeper's next pass.
FinalizeFails(f) ==
  /\ fin[f].stage \in {"embed", "mark"}
  /\ IF f = Sweeper
       THEN /\ failed[fin[f].conv] < MaxFailures
            /\ failed' = [failed EXCEPT ![fin[f].conv] = @ + 1]
       ELSE UNCHANGED failed
  /\ fin' = [fin EXCEPT ![f] = Idle]
  /\ UNCHANGED <<now, storeVars, turnVars, pointVars, sweepVars>>

-----------------------------------------------------------------------------
(* The idle sweeper and the WebSocket handlers.                            *)

\* A bug to catch: the sweep waits for the TTL instead of the idle time.
IsDueAtTtl(c) == c \in open /\ c \notin finalized /\ now - updated[c] >= Ttl

\* due_for_finalize, which lists expired sessions as well.
IsDue(c) == c \in open /\ c \notin finalized /\ now - updated[c] >= IdleFinalize

WakeUp ==
  /\ ~sweeping /\ now >= wakeAt
  /\ sweeping' = TRUE
  /\ sweepStart' = now
  /\ due' = {c \in Convs : IsDue(c)}
  /\ UNCHANGED <<now, storeVars, turnVars, pointVars, wakeAt, fin, failed>>

SweepNext(c) ==
  /\ sweeping /\ fin[Sweeper] = Idle
  /\ c \in due
  /\ due' = due \ {c}
  /\ Peek(Sweeper, c)
  /\ UNCHANGED <<now, turnVars, pointVars, sweeping, wakeAt, sweepStart, failed>>

FallAsleep ==
  /\ sweeping /\ fin[Sweeper] = Idle
  /\ due = {}
  /\ sweeping' = FALSE
  /\ wakeAt' = now + SweepInterval
  /\ UNCHANGED <<now, storeVars, turnVars, pointVars, sweepStart, due, fin, failed>>

\* A WebSocket of the conversation closes.
Disconnect(c) ==
  /\ fin[c] = Idle
  /\ Peek(c, c)
  /\ UNCHANGED <<now, turnVars, pointVars, sweepVars, failed>>

Next ==
  \/ Tick
  \/ WakeUp
  \/ FallAsleep
  \/ \E c \in Convs : \/ TurnLoads(c)
                      \/ TurnPersists(c)
                      \/ SetModel(c)
                      \/ SweepNext(c)
                      \/ Disconnect(c)
  \/ \E c \in Convs, n \in TurnIds : \/ RolloverStarts(c, n)
                                     \/ RolloverSaves(c, n)
                                     \/ RolloverReverts(c, n)
                                     \/ RolloverGivesUp(c, n)
  \/ \E f \in Finalizers : \/ Embed(f)
                           \/ MarkFinalized(f)
                           \/ FinalizeFails(f)

Spec == Init /\ [][Next]_vars

-----------------------------------------------------------------------------
(* Properties.                                                             *)

Rollovers == [stage : {"none", "queued", "summarizing"}, snapshot : SUBSET TurnIds,
              overtaken : BOOLEAN]

\* The session store, the rollovers, the finalizers and the sweeper keep their
\* shape; a session that is not there has no turns and no mark.
TypeOK ==
  /\ now \in 0..MaxTime
  /\ open \subseteq Convs /\ inTurn \subseteq Convs /\ due \subseteq Convs
  /\ finalized \subseteq open
  /\ turns \in [Convs -> SUBSET TurnIds]
  /\ \A c \in Convs \ open : turns[c] = {}
  /\ updated \in [Convs -> 0..MaxTime]
  /\ stale \subseteq open
  /\ sent \in [Convs -> 0..MaxTurns]
  /\ roll \in [Convs -> [TurnIds -> Rollovers]]
  /\ embedded \in [Convs -> SUBSET TurnIds]
  /\ exposed \in [Convs -> SUBSET TurnIds]
  /\ sweeping \in BOOLEAN
  /\ wakeAt \in Nat /\ sweepStart \in Nat
  /\ fin \in [Finalizers -> [stage : {"idle", "embed", "mark"},
                             conv : Convs \cup {"none"},
                             snapshot : SUBSET TurnIds]]
  /\ \A f \in Finalizers : fin[f].stage # "idle" => fin[f].conv \in Convs
  /\ failed \in [Convs -> 0..MaxFailures]

\* The longest a session stays unfinalized: it becomes due, the sweeper may be
\* busy or asleep for a whole period, each failure costs one period more, and
\* the last sweep has to get to it.  The configuration check (schema.py:71-77)
\* asks for less: IdleFinalize < Ttl.
TimingAssumption ==
  /\ IdleFinalize >= 1
  /\ IdleFinalize + (MaxFailures + 1) * Period + SweepTime <= Ttl

\* "By then it has already been finalized, so no memory is lost on eviction"
\* (schema.py:64-65): no session outlives its TTL without its mark, however
\* activity, failures, disconnects and sweeps interleave.
ExpiredIsFinalized == \A c \in Convs : Expired(c) => c \in finalized

\* A session carries the mark only when it was "embedded as an episodic point"
\* (types.py:41-44): every turn in it is then in the conversation's point, so
\* that the sweeper may pass over it and the TTL may evict it.
MarkedIsEmbedded == \A c \in finalized : turns[c] \subseteq embedded[c]

\* What a mark may be relied on for (types.py:41-44, loop.py:365-390), whatever
\* turns, saves of rollovers and other finalizations overlap with the one that
\* sets it: a turn of a marked session is in the conversation's point, unless it
\* came into the session, from a turn or back from a rollover, while a
\* finalization was at work, and none that ran alone has embedded it since.
QuietTurnsEmbedded ==
  \A c \in finalized : turns[c] \ exposed[c] \subseteq embedded[c]

\* Turns, sweeps, handlers and the TTL use the store as SessionStore promises it:
\* each operation of memory_session.py takes effect at once, a session that comes
\* back after its TTL has none of the old turns, and activity clears the mark.
\* A rollover that saves a session it read before another write breaks that
\* (working.py:114-131), and nothing is said of the session until it is evicted
\* or made anew; every other save of a rollover is one the promise allows.
IsStore == Store!Spec

\* "The earlier conversation is still recallable via episodic search"
\* (conversation_flow.md:160), also after the conversation went on and was
\* finalized again, with a "fuller" point (episodic.py:143-145): a turn that
\* was embedded stays embedded.
EmbeddedStays == [][\A c \in Convs : embedded[c] \subseteq embedded'[c]]_vars
=============================================================================
