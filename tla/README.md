# A TLA+ model of harness_kit

harness_kit is an async Python harness around an LLM agent: it streams a model's
turns to clients over WebSocket or SSE, runs the model's tool calls behind
permission, rate-limit and human-approval gates, and keeps a per-user memory in
pluggable stores. Everything runs on one asyncio event loop, so interleaving
happens at `await`s only, but nearly every operation has several of them.

This directory holds TLA+ specifications of its core, TLC configurations that
check them on small instances, and TLAPS proofs. Paths below are relative to
`src/src/harness_kit/` unless they start with `docs/`.

## 1. The system

| Component | State | Operations | Talks to |
|---|---|---|---|
| turn loop (`agent/loop.py`) | `_pending_approvals`, `_bg_tasks`; per turn: history, texts, tool turns, tasks, queue, results | `run_turn`, `_execute_tool_calls`, `_call_worker`, `_persist`, `resolve_approval`, `end_conversation`, `sweep_idle`, `drain` | all of the below |
| tool registry (`tools/registry.py`) | tool table, policies, rate limiter | `definitions`, `execute`, `register` | permission store, handlers |
| rate limiter (`tools/ratelimit.py`, `util.py`) | LRU of token buckets | `try_acquire` | clock |
| working memory (`memory/working.py`) | none of its own | `load`, `peek`, `append_turn`, `maybe_rollover`, `mark_finalized` | session store, LLM |
| session stores (`stores/memory_session.py`, `stores/redis_session.py`) | `SessionState` per conversation; in Redis a string with a TTL and two sorted sets | `load`, `save`, `append_turn`, `due_for_finalize`, `mark_finalized`, `list` | - |
| episodic memory (`memory/episodic.py`) | none | `write_conversation`, `retrieve`, `forget_conversation` | embedder, LLM, vector store |
| factual memory (`memory/factual.py`) | none | `get`, `remember`, `forget`, `extract` | LLM, profile store |
| context builder, budgeter (`agent/context.py`, `agent/budgeter.py`) | none | `build`, `allocate` | memories, registry |
| serving (`serving/app.py`) | per WebSocket: queue of turns, last user; the sweep task | `_receive`, `_run_turns`, SSE stream, `_idle_sweep_loop`, lifespan | agent, service |
| permission, skill, profile, vector stores (`stores/`) | rows or points per user | grants, upserts, deletes, searches | - |
| retry (`retry.py`) | none | `retry_async`, `store_write` | any store write |
| jobs (`jobs/dedup.py`, `jobs/resummarize.py`) | none | one pass over a user's points | vector store, LLM, embedder |
| MCP client (`tools/mcp.py`) | connected clients and their exit stacks | `start`, `aclose`, tool handlers | registry, permission store |
| service (`service.py`) | the wiring, the conversations' models | `astart`, `aclose`, `set_conversation_model` | MCP, registry, agent |
| factory, config, skills, telemetry | wiring and lookups | - | - |

What is hard: concurrent tool workers that share one approval table keyed by ids
the model chose; clients that answer late, twice, for a different conversation,
or never; teardown at any `await`; background rollovers and finalizations that
read a session, await an LLM or an embedder for seconds, and then write; a TTL
that evicts meanwhile; the Redis store's read-modify-write; maintenance jobs that
write from a stale scan. `PROJECT.json` lists each hazard with its line and the
properties that cover it, or why none does yet.

What makes it correct: no gated tool without its own client's consent, and none
on a permission that was revoked before the call came through its gate; a message
history the model API accepts; persisted turns that match it; nothing left behind
by a closed turn; every turn ends, unless a handler raises `CancelledError`; no
turn lost by rollover but under a summarizer at work; every session embedded before
it is evicted, and marked only if what came into it quietly is embedded.

## 2. The modules

| Module | Models | Checked by (runs) | Proved in |
|---|---|---|---|
| `TurnLoop` | `run_turn`, the workers, the approval gate, the registry's gates, `_persist`, teardown | `MCTurnLoop` (`batches`, `pairs`, `foreign`, `cancelled`) | `TurnLoopProofs`, `TurnHistoryProofs` |
| `SessionStore` | what the memory layer relies on in any session store: an abstract specification | implemented by the next two | - |
| `SessionLifecycle` | the in-memory session store, sweeper, disconnects, finalize, TTL | `MCSessionLifecycle` (`timed`, `late`, `race`, `recall`) | `SessionLifecycleProofs` |
| `RedisSession` | the Redis session store, its two indices, retries, expiry | `MCStores` (`stores`) | `StoresProofs` |
| `WorkingMemory` | buffer, summary and rollovers of one conversation as live session objects | `MCWorkingMemory` (`rollover`, `overlap`) | `WorkingMemoryProofs` |
| `SqlPermissions` | the SQLite permission store of several processes | `MCStores` (`stores`) | `StoresProofs` |
| `Profile` | factual memory over the SQLite profile store | `MCStores` (`stores`) | `StoresProofs` |
| `Episodic` | points, moments, forgetting, and the two maintenance jobs | `MCStores` (`stores`) | `EpisodicProofs` |
| `Components` | the groups dedup is to merge, by definition; `Episodic` and `Clusters` extend it | `MCStores` (`stores`) | `EpisodicProofs` |
| `Clusters` | dedup's union-find, a round of a loop per step | `MCStores` (`stores`) | `EpisodicProofs` |
| `Serving` | a WebSocket connection, an SSE request, the lifespan | `MCServing` (`serving`) | `ServingProofs` |
| `McpManager` | start-up, registration and close of MCP servers | `MCServing` (`serving`) | `ServingProofs` |
| `RateLimiter` | token buckets and their eviction | `MCServing` (`serving`) | `ServingProofs` |
| `Context` | one build: the budgeter and the builder's assembly | `MCServing` (`serving`) | `ContextProofs` |

Operators whose comment begins "A bug to catch" are variants of the definition
that follows them; no specification uses them. They are the mutations that
`PROJECT.json` pairs with the properties that detect them.

### TurnLoop

What the code does between two suspension points is one action. A run_turn is
in a `phase`: `loop` (between model calls), `fanin` (`_execute_tool_calls`),
`persist` and `recover` (`_persist`, on the way out and in the `except` clause),
`closing` (the `finally` that cancels the workers and gathers them), and four
ways to be over. A `worker` is `created`, `waiting` for its approval future or
`expiring`, `checking` (suspended on the permission store), `admitted`, `running`
(its handler), then `finished` or `cancelled`. `pending` is the dict `_pending_approvals` as a set of
entries with distinct ids; `Put` overwrites and `Pop` removes by id, which is
what lets duplicate ids clobber each other, as the code does. `fut` is each
worker's own future. The queue is FIFO and unbounded; `FanIn` takes one item.

Ending a wait takes two rounds of the event loop. `asyncio.wait_for` (Python 3.13)
is built on `asyncio.timeout`: its timer cancels the future (`ApprovalTimerFires`,
worker `expiring`), and the task runs its `finally` later (`ApprovalTimesOut`); a
teardown cancels all futures (`CloseTurn`) and the tasks run after that
(`CancelWorker`). In between the entry is there with a future that is done, which
is what `not fut.done()` guards in `resolve_approval`. The timer may also fire
after the future was set and before the task ran: that answer is lost.

The permission store is read (`PermissionRead`, worker `admitted`) some awaits
before the handler starts (`HandlerStarts`), so a revocation may land between them.
`barred` records the workers whose tool was at no moment allowed since they came
through the gate.

Abstracted: message texts, arguments, usage, stop reasons and metrics; the text
of a response is only "some or none". Calls are an id and a tool name. Text
deltas are left out of the events. Tool definitions offered to the model are not
modelled: the model may call any tool, which is what the registry defends
against. The rate limiter is a refusal that may happen for a limited tool.

### SessionLifecycle

An explicit clock, `Tick` bounded so that the sweeper wakes on time and a sweep
ends within `SweepTime`; both are environment assumptions the code does not
state. Each finalizer (the sweeper, one handler per conversation) runs
`end_conversation` in stages: peek and snapshot, embed, mark, and may fail at
either await. A session without turns is marked at once (`Peek`), since
`write_conversation` awaits nothing then. `embedded[c]` is the content of the point
`conv:<c>`, which an upsert replaces. The session's buffer and summary are one set
of turns here, since no property of this module tells them apart.

Turns load and persist at any time in between, unless the environment constant
`QuietFinalize` holds (it does in `late` and `recall`, which need no overlap).
Each persisted turn leaves a rollover behind (`roll`), if `HasSummarizer`: it reads
the session, awaits the summarizer, and saves what it read over whatever is there by
then, an evicted session included (`RolloverSaves`, `RolloverReverts`, `WriteBack`).
Which turns it keeps and which it folds is left to `WorkingMemory`. `exposed` are
the turns that came into a session, from a turn or back from a rollover, while a
finalization was at work, and that no finalization running alone has embedded since.
`stale` are the sessions a rollover has saved with other turns than they had.

### SessionStore and RedisSession

`SessionStore` is one variable, the sessions, and six operations that take effect
at once. `SessionLifecycle` instantiates it with its own store (`IsStore`), the
session object being the state whoever interleaves. A late save of a rollover is no
operation that `SessionStore` promises: the refinement mapping shows a session in
`stale` as absent, until it is evicted or made anew.

In `RedisSession` an operation is two steps, as in the code: `Gets` is the GET,
`Done` the MULTI that writes back what was read, with the owner's index and
`sessions:pending_finalize`. `op[w]` is what a task holds in between. `Breaks` is
a connection that fails before or after the MULTI ran: `store_write` repeats a
rollover's save with the state in hand and `mark_finalized` from its GET, while the
others raise. `due_for_finalize` is a range, the GETs in one pipeline
(a transaction, redis-py's default), and one ZREM each for the sessions that have
expired. `Seen` is the refinement mapping: the session an operation under
way has read, or the stored one. On conversations in `Serial` operations do not
overlap and the store implements `SessionStore` (`SerialIsStore`); on the others it
does not, since read-modify-write loses updates, and `QuietAppendsKept` and
`DueIsIndexed` say what remains true.

### WorkingMemory

The in-memory store returns its live objects, so sessions are objects on a heap
(`state`), and `stored` says which one the store holds. A rollover keeps the
object it read across the summarizer call and writes to it afterwards, also when
it has been evicted and replaced. Without a usable answer `_summarize` returns the
summary that was read, and line 121 compares it with the object's present one: if
another rollover has saved the object meanwhile (`overtaken`), the old summary and
the kept turns are written over it (`RolloverReverts`), else nothing is
(`RolloverGivesUp`). `_persist` is one action, because none of the
awaits in it suspends over this store. `Split` is the loop of
`_split_for_rollover` in one definition, the suffix all of whose shorter ones fit;
`KeepsWhatFits` compares it with "longest suffix within the budget". A summary is the set of turns it
was told: a faithful summarizer. Ownership is left out (one user), since a
foreign load raises before anything is changed, apart from the eviction that
`Peek` covers.

### SqlPermissions and Profile

`aiosqlite` begins a transaction at the first write, so a SELECT and the write
that depends on it are two steps, and `_upsert` of the permission store even
selects twice (`PermReads`, `UpsertLooks`, `PermWrites`). Several processes share
the file; each seeds the default row if it finds none (`InitLooks`, `InitSeeds`).
An INSERT raises when the row has come up meanwhile. Since overlapping calls do
lose updates, the properties are about the rulings and facts that were written
while nobody else held a copy (`ruled`, `offered`, `known` are history variables
that record them). No user is called like the row of the defaults
(`__default__`), an assumption the store makes too.

In `Profile` the actors are tool calls of one batch and the extraction after an
earlier turn; `extract` goes through `store_write` and may be repeated after it
took effect. The in-memory stores are the behaviours without overlap.

### Episodic and Clusters

One user's collection as a function from point ids to the turns they were made
from. `write_conversation` writes the conversation's point, then its moments;
`forget_conversation` and the jobs read the owners of the points and delete those
they saw. A job scans, thinks (`DedupMerges` takes any similarities, and leaves
out the groups whose merge failed), then writes group by group: the merged point,
then the deletion of its sources and their moments. Each write may fail done or
undone and be repeated; a job may die anywhere. Texts are sets of turns, so a
faithful model is assumed. Moments are counted, their texts are left out. Of a
scan over the limit any `MaxPoints` points are taken, as times are left out.
The groups of a merge are by `Components` the connected components of the
similar pairs. `Clusters` is how the code finds them: `NextEdge` takes the pairs
row by row, `FindX` and `FindY` are rounds of `find`, path halving included,
`Union` hangs one root below the other, and `NextPoint` and `Place` look up the
points afterwards. `rx` and `ry` are where the two finds are; `roots` stands for
the dictionary of clusters. What it has found at the end is compared with
`Components`. Nothing awaits in it, so `DedupMerges` takes the result in one step.

### Serving

`_receive`, `_run_turns` and the handler of one connection, each in the state its
next `await` leaves it in. Frames are a kind and a user: a turn, an approval, a
model override (awaits the session store), or something that makes `_receive`
raise. Turns are numbered, 0 is the sentinel. `gather` returns when both tasks
have, or raises and leaves `_run_turns` going; the ASGI server may cancel the
handler. What a turn does is in `TurnLoop`: here it ends, by itself, or by a send
that fails. Then its generator is abandoned (`orphans`), with the workers it may
have and the background writes it may have enqueued (`Enqueues`); a task that
the event loop makes for it and nobody awaits tears it down (`OrphanCloses`), at any
time, also beside the finalization. An SSE request is one turn. The lifespan stops
the sweeper, drains the background writes and closes the clients of MCP, model,
embedder, HTTP and telemetry, but no store; `writes` are the tasks the agent's
`_bg_tasks` holds. uvicorn shuts down after the handlers, as `ShutsDown` has it.

### McpManager, RateLimiter, Context

`McpManager` takes the configured servers in order: transport entered,
`initialize`, `list_tools`; at any of them the server may be skipped, which closes
what its client's exit stack holds. Names are given by the constant `Namespaced`,
so that two tools may come out with one name, as `server__tool` lets them.

`RateLimiter` counts in parts of a token, exact where the code has floats
(`PerMinute` parts a second, `Minute` parts a call). `uses` and `window` are an
observer's: the order of last checks, and the calls one bucket let through since
some moment.

`Context` has one step, `Build`, from the sources the builder has gathered to what
the budgeter makes of them: `Allocate` (profile, summary, newest turns, best hits,
each in the room left), and `Assembled`, what the builder then sends. `Take` is
both of allocate's loops: a part is kept if it and every part considered before it
fitted, in the order `Newer` or `Better`. What is kept of a list is the set of its
positions.

## 3. What the runs check

| Run | Bounds | Shows |
|---|---|---|
| `batches` | 1 turn, 2 iterations of up to 2 calls, 2 ids the model may repeat, a gated and a plain tool (407,589 states) | well-formed history, event protocol per call, no orphaned worker or approval, stored turns equal to the history; with fairness, the turn ends |
| `pairs` | 2 turns of one conversation, 1 call each, shared ids, answers from two conversations, revocation, failing store, cancelling handlers, teardown (1,591,746 states) | consent, a revocation before the gate is honoured, pending entries belong to workers at their gate, what a failed store leaves |
| `foreign` (violation) | 1 turn, 1 call, an answer from another conversation | the answer removes the request |
| `cancelled` (violation, fair) | 1 turn, 1 call, a handler raising `CancelledError` | the turn never ends |
| `timed` | 1 conversation, 2 turns and their rollovers, clock to 8, a sweep that may take 1, at most 1 failure in a row (916,053 states) | finalized before the TTL; a mark means that quiet turns are embedded; the in-memory store implements `SessionStore`, up to a late save |
| `late` (violation) | a configuration the schema accepts, sweep interval above the TTL | evicted without having been finalized |
| `race` (violation) | a turn persisted during a finalization | marked, not embedded |
| `recall` (violation) | a conversation resumed after its TTL | the earlier point is overwritten |
| `rollover` | 6 turns of different length, one without text, 3 rollovers, 3 session objects (1,030,900 states) | only turns persisted while a summarizer runs, or overtaken, can be lost; summary and buffer keep their order; the split is right |
| `overlap` (violation) | the same | such a turn is lost |
| `stores` | 2 tasks or processes; Redis: 2 turns, 1 retry; permissions: 1 user, 2 tools; profile: 2 facts, 2 values; points: 2 conversations, 2 finalizers, 1 moment, 2 points per scan, 3 events; all similarities of 5 points | what survives overlapping calls, retries, broken connections, expiry, killed jobs; that Redis implements `SessionStore` without overlap; that dedup's groups are the components |
| `serving` | 3 frames; 3 MCP servers, two of whose names collide; 3 buckets of which 2 fit, clock to 5; budgets to 5 over parts of cost 0 to 2 (939,703 states) | order of turns, finalization and shutdown after the work, ownership of transports, rates, eviction, budgets; with fairness, that a handler ends once its client has left, unless a turn does not |

Two calls are enough for every order of two workers, for clobbered ids inside a
batch, and for a result list with a gap; two iterations, for history across
batches; two turns, for ids shared between turns and interleaved appends. In
`timed` the clock passes the TTL after the last activity, with a failed and a
repeated sweep before it; conversations share only the sweeper, which takes them one
after the other, and what a second one costs is in `SweepTime`. Two turns are two
rollovers: one may save what it read over what the other, or a turn, has written. In
`race` the turn that is missed comes while a session with a turn is being embedded. In `rollover` three overlapping rollovers and three
session objects allow two stale writers and a session brought back.

The components in `stores` and in `serving` share no state, so each behaviour is of
one of them (`part`), and the orders among them are left out. Two tasks are
enough for every overlap of two read-modify-writes and for a write between a GET
and a ZREM; a third adds no new kind of copy. Three events in `Episodic` are
two turns and a job, or one turn, a job and a turn that makes what it read stale,
with finalizations and forgets beside it, which are not counted. A merge on top of
a merge takes five, two merged groups in one job four conversations: neither is in
these bounds. In `serving` three frames fill the queue with two turns behind a running one, and a
bucket is evicted, recreated and refilled to its burst before the clock ends.
Tasks and conversations that are interchangeable in `stores` are a symmetry set;
nothing there depends on liveness.

Deadlock is not checked in `stores` and `serving`: there the bounds on events, the
end of a connection or a server, and the clock's last tick stop the system. It is
in the others.

Fairness of `TurnLoop` (`FairSpec`): every turn and every worker takes a step it
can take. The code justifies it: the event loop runs every ready task, handlers
are cut off by `per_tool_timeout_s`, approvals by `approval_timeout_s`, the model
client and the stores answer or raise. Nothing is assumed of clients, who need
not answer or close. `batches` checks `TurnEnds` under it. Fairness of `Serving`
(`ServingFairness`) is the same for `_receive`, `_run_turns` between turns, the
handler, the background writes and the shutdown once begun. No turn has to end: a
handler that raises `CancelledError` keeps its turn waiting for ever, as run
`cancelled` shows, and with it `_run_turns`, `gather` and the connection's handler.
`GoneEnds` therefore says that a client which leaves is outlived by its handler only
while one turn goes on for ever. No client has to send or leave, no send has to fail,
the ASGI server has to cancel or shut down nothing. In both modules stores are taken
to answer or to raise. The Redis client is made without a timeout
(`stores/factory.py:55`), so with a Redis that accepts a connection and never answers
neither `TurnEnds` nor `GoneEnds` is to be relied on.

The violation runs each show that the code does not do what one of its comments
or documents says; `PROJECT.json` quotes the line under "findings".

## 4. What the properties leave out

Some properties hold with an exception, which is named in their statement and is
what the code does:

* `RevocationHonoured`: a permission revoked between the read of its row and the
  start of the handler (`tools/registry.py:94-122`,
  `stores/sqlite_permissions.py:118-127`) comes too late.
* `QuietTurnsEmbedded`: turns that came into a session while it was being
  finalized, from a turn (run `race`) or back from a rollover's save
  (`memory/working.py:114-131`).
* `IsStore`: from a rollover's save that changes which turns the session had to its
  eviction nothing is said of that session, for the same lines.
* `QuietTurnsKept`: turns persisted while a summarizer is at work, and turns a rollover
  was to summarize when another saved the same session. The second is the write that
  follows an unusable answer (`memory/working.py:121-131, 165-167`): the docstring has
  the buffer "left intact so no turns are silently lost" in that case
  (`memory/working.py:108-110`), but if another rollover has changed the summary
  meanwhile, the summary that was read and the kept turns replace it.
* `BudgetHolds`: a profile the budgeter dropped for its size is sent all the same,
  because the builder formats it again (`agent/context.py:117`). Only the first
  prompt of a turn is budgeted; what its tools return is added to it as it comes.
* `EvictionIsLeast` follows the code: profile, summary, newest turns, best hits. The
  numbers of the tiers put the buffer (2) above the summary (3)
  (`agent/budgeter.py:8-12, 36-42`); `allocate` gives the summary its room first.
* `RecallKept` (`Replaced`): a merge of the same conversations takes the id of the
  earlier merged point and so overwrites it, if that is not among its sources
  (`jobs/dedup.py:233`). It takes five events, two more than `stores` has.
* `ForgottenStays`: what a merge has taken over cannot be forgotten by its
  conversation (`tools/native.py:140-150`); a later finalization embeds the session
  again (`memory/episodic.py:115`); and nothing is said of a forgetting that was not
  alone.
* `RateHolds` and `KeepsRecent`: with more active users than `max_buckets` an evicted
  user starts again with a full burst (`tools/ratelimit.py:73`). The rate is that of a
  bucket until it is evicted; that it is the least recently used one is all
  `KeepsRecent` adds.
* `OpenIsOwned`: a client whose `initialize` fails has entered a transport that it
  does not yet hold and nobody leaves (`tools/mcp.py:94-97`).
* `NamesReachTheirServer`: tools whose names come out the same
  (`tools/mcp.py:34-35`).
* `DueIsIndexed`: a session that came back between a sweep's GET and its ZREM is off
  the index until its next write (`stores/redis_session.py:177`).
* `QuietAppendsKept`, `RulingsHold`, `OfferedReaches`, `KnownFactsKept`: what was
  written while another call held a copy of the same row or key may be written
  over.
* `FinalizedAfterTurns`, `NothingAfterClose`: after `_receive` raised, the turns
  that were queued go on beside the finalization (`serving/app.py:164`).
* `FinalizedAfterTurns` is about turns that start, go on or persist. The workers of a
  turn abandoned by a failed send are cancelled by a task of the event loop
  (`agent/loop.py:298-308`; `serving/app.py:148` closes no generator), which may come
  after the finalization has begun and even after the clients are closed. Until then a
  tool handler of that turn may still be at work; what it has done is not persisted.
* `GoneEnds`: a turn that never ends keeps the handler.

Two simplifications are the model's. `Merged` tells any two groups of sources apart,
as the ids do unless a name has the ":" in it that joins them (`jobs/dedup.py:235`).
`JobScans` is one step, where the code awaits a page of 256 points at a time
(`jobs/_base.py:18-23`): a point written between two pages may be seen or not, and a
collection of one page has no such moment.

## 5. What is proved

TLC checks the instances above; the theorems hold for all values of the
constants that satisfy the modules' assumptions. An invariant of a run is seldom
inductive; what each proof adds to it is named here.

**Turn loop** (`TurnLoopProofs`, `TurnHistoryProofs`)

* `TurnLoopTypeCorrect`, `NoRunWithoutConsent`, `NoApprovalLeaks`. Consent is not
  inductive: a worker that wakes up on a future relies on what `resolve_approval`
  did earlier, possibly through an entry that another worker has clobbered since.
  `GateInv` adds that a future that says yes comes from a consent to that very
  call (`YesIsConsent`), that a pending entry is that of a worker still at its gate
  under its own id, and its future unset exactly while that worker waits
  (`PendingIsWaiting`), and that tasks live only while their batch does
  (`LiveInBatch`). Between the end of a wait and the task's `finally` an entry has a
  cancelled future, and no answer can set it.
* `NothingLeftBehind` follows from it.
* `RevocationIsHonoured`: a worker that is barred has a tool which is not allowed now
  (`BarredAreNotAllowed`), so that the read of the row refuses it; one that was
  admitted before a revocation is not barred by it.
* `HistoriesAccepted`, by `BatchInv` and `HistoryOk`: a result slot is filled, and a
  sentinel queued, only for a worker that has finished (`BatchOk`), and during a
  fan-in the history is a well-formed one and the message being executed.
* `ClientsSeeTheProtocol`, by `EventsOk`: what is on the queue for a call goes on
  where the events its client has seen stop, so that taking an item keeps the order.
* `TurnsStoredOnce`, by `StoredOk`: in each phase the turns written and those still to
  write are what is to be persisted; in the `except` clause the first attempt as far
  as it came, then the second. `PairsOk` ties the tool turns to the messages.
* `NoSentinelLost`: unless handlers may raise `CancelledError`, every call of a batch
  is alive, has its sentinel on the queue or its slot filled (`HeardOk`), so the
  fan-in never waits on an empty queue for workers that are gone. Run `cancelled`
  shows that the hypothesis is needed.
* `TurnsRunDown`: every step that touches a turn lowers, lexicographically, the
  stage of the turn, the rounds of its model loop that are left, the efforts of its
  workers (none rises, one falls), or what the fan-in and the store have still to
  take. With fairness, this and `NoSentinelLost` are why `TurnEnds` holds.

**Sessions** (`SessionLifecycleProofs`)

* `NoExpiryBeforeFinalize`: under `TimingAssumption`,
  `IdleFinalize + (MaxFailures + 1) * (SweepInterval + SweepTime) + SweepTime <=
  Ttl`, every expired session is marked. The invariant `InTime` bounds, for each
  unmarked session, when the last sweep started: before the session was due plus
  one period per failure, or one period later while the session is on the list
  of the sweep in progress. The condition the schema checks (`IdleFinalize <
  Ttl`) is necessary and far from sufficient; run `late` shows it.
* `MarkMeansEmbedded`, with no hypothesis: by `SnapshotInv` every finalizer's snapshot,
  and the point once it is written, has all turns of the session that are not
  exposed, whatever turns, rollovers and other finalizers do meanwhile. Run
  `race` shows that the exposed ones may be missing.
* `LifecycleTypeCorrect`, and `InMemoryIsStore`: every step of the lifecycle is an
  operation of `SessionStore` on one session, or a stutter; a save of a rollover that
  changes the session's turns hides it, which the abstract store sees as an eviction.

**Working memory** (`WorkingMemoryProofs`)

* `MemoryShapes`, `QuietTurnsStay`, `SummaryComesFirst`. What the summarizer will
  return, followed by the turns a rollover keeps, is a session in its own right:
  it keeps the order, and what it lacks of the turns persisted is exposed. With
  that said of every task (`CopyInv`), writing it to any session object preserves both
  properties, in whichever order rollovers finish. A rollover that was overtaken may
  also write the summary it read, without the turns it was to fold: those have been
  exposed since it was overtaken.
* `RolloversKeepWhatFits`: the split is made once, of the buffer a rollover reads
  (`SplitStays`), and keeps the longest suffix that fits (`SplitFits`), since costs are
  not negative and so the cost of a suffix grows with it (`TokensGrow`).

**Stores** (`StoresProofs`)

* `RedisTypes`, `QuietAppendsStay`, `IndicesFollow`. A task may hold a copy older than
  the store. `OpInv` adds that every copy of a session has the turns appended
  quietly since: such an append had no copy beside it, and a later GET reads it;
  and that a `mark_finalized` under way is of a listed conversation.
* `RedisIsStore`, the refinement: by `SerialInv`, a call on a conversation in `Serial`
  is the only one, and what it has read is what is stored, so that its MULTI is the
  operation of `SessionStore`, and every other step a stutter or an expiry.
* `PermissionTypes`, `RulingsAlwaysHold`, `OffersAlwaysReach`. The same idea:
  `RulingInv` says that a ruling is upheld by the row and by every copy held for a
  call on another tool; `OfferInv` that an offered default is in the row, which a
  seed therefore finds and leaves alone, and in every copy held by another
  `extend_default_allowed`.
* `ProfileTypeCorrect`, `KnownFactsStay`: `ProfileInv` says that every copy about to be
  merged and written has the known facts.

**Episodic memory and the jobs** (`EpisodicProofs`)

* `EpisodicTypes`: `ShapeInv` says of every point, also of a scan's, what kind it is
  and which turns it may tell.
* `MomentsStayWithParent`: `ParentInv` adds that, unless the conversation is crossed,
  no write of it is under way beside a job or a forget, so that what a delete has
  looked up is all there is (`ForgetSeesAll`, `JobSeesAll`), and that the point is
  written before its moments.
* `ForgottenStaysForgotten`: `ForgottenInv` adds that a forgetting that is alone has
  found every point of the conversation, and that later no write and, but in a merge,
  no job has read it.
* `JobsCostNothing`: `RecallInv` says that the merged point, from its write to the
  deletion of its sources, tells all that they told and is none of them.
* `GroupsAreComponents`, `FindsReachARoot`: by `ClustersInv` there are, for the parents
  of any moment, a root above every point and a bound on the steps to it that falls
  towards the root (`AreTrees`). Both are witnesses, not state: halving keeps them,
  a union gives the hung tree the other's root and adds to its bounds. Every edge
  taken is within one tree (`EdgesJoined`), no tree crosses a set that the edges do
  not leave (`TreesInside`), so at the end trees and components are the same. The
  falling bound excludes cycles, which is why `find` ends.
* `StoresRunTheirParts`, `StoresTypes`: the run of the stores behaves, seen from each
  part, as the part's specification, so the theorems about the parts are about it.

**Prompt** (`ContextProofs`)

* `ContextTypes`, `BudgetAlwaysHolds`, `OnlyTheLeastIsEvicted`. Both orders are strict
  and total (`NewerOrders`, `BetterOrders`), so what is taken has a last part and what
  is left a first one (`LastPart`, `FirstPart`), and the cost of all parts up to
  either was tested (`TakeIs`). `EvictionIsLeast` is an equivalence for each part: what
  is left out does not fit beside what precedes it, and what is kept does. That
  costs are natural numbers is the assumption.

**Serving** (`ServingProofs`)

* `ServingTypes`, `TurnsRunInOrder`, `FinalizationIsLast`, `ClientsCloseLast`.
  `QueueInv`: the turns in the queue continue where those that ran stop, and nothing
  follows the sentinel. `DownInv`: the server passes `up` only after handler and
  stream, and what is being drained includes every write.
* `McpTypes`, `TransportsAreOwned`: `ClientsInv` adds that a client holding its stack is
  connected or current, and that the connected ones are behind `at`.
  `NamesAreRight`: `RegistryInv` adds that the tools found are of connected servers,
  and that a registered name calls a tool found under it, or a native one if none was.
* `LimiterTypes`, `RateIsKept`: calls let through and tokens left together never exceed
  the burst and what the time brought (`WindowInv`). `RecentAreKept`: the dictionary is
  the end of the list of all users in the order of their last checks (`OrderInv`).
* `RunOfTheParts`, `PartsTypes`: the same as `StoresRunTheirParts` for this run and the
  budgeter.

What the theorems assume of the constants is in the modules' `ASSUME`s: bounds,
costs and times are natural numbers, `IdleFinalize` is below `Ttl`, as the schema
checks, servers are distinct and offer finitely many tools, and no user is called
like the row of the defaults. Only `NoExpiryBeforeFinalize` and `NoSentinelLost` have a hypothesis of their own, and the two theorems on the run `serving`, that 0 is
among the budgets and costs: it is the input of the budgeter where it is idle.

Every invariant and action property that a passing run checks is proved. Only
model-checked: `TurnEnds` and `GoneEnds`, which are liveness under fairness; what of
`TurnEnds` needs no fairness is in `NoSentinelLost` and `TurnsRunDown`. The
violation runs' properties do not hold. Recursive functions (`Tokens`, `Spent`) are
reasoned about with an induction over the members of a set (`UpTo`), from least
elements; the library's own induction takes an operator as parameter, which the
provers here cannot instantiate.

## 6. Plan

1. The roles of messages from working memory to the prompt: a rollover or the
   budgeter may cut between a tool call and its result.
2. `definitions` of the registry with skills and permissions that change between
   the offer and the call.

## 7. Not modelled

Telemetry and metrics (nothing reads them back), configuration declarations,
skills and the skill store (files parsed once, lookups in a fixed index), wiring
(`build`, `stores/factory.py`), the wire format and read-only endpoints,
similarity search, retrieval and decay (they only read), the delays and the
classification of exceptions in `retry.py`. A restart of the process empties the
in-memory session store altogether and leaves the Redis store as it is between
two steps, with `Breaks` for the operations it cuts off.
