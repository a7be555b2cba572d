# Formal model of the distributed job engine

TLA+ modules for the job engine and its remote workers, the TLC runs that check them on small
instances, and TLAPS proofs of the properties that matter most.

## 1. The system and its parts

One coordinator process, any number of remote worker processes.

| part | source | here |
|---|---|---|
| job states and transition table | `src/core/job.cpp` | `JobState` |
| job lifecycle: submit, cancel, begin/finish of an attempt, embedded workers | `src/engine/engine.cpp` | `JobEngine` |
| lease table and the remote calls register, heartbeat, claim, complete | `src/engine/engine.cpp` | `JobEngine` |
| watchdog (deadlines, lease expiry, dead workers) | `src/engine/engine.cpp:452` | `JobEngine` |
| shutdown | `src/engine/engine.cpp:567` | `JobEngine` |
| crash and recovery | `src/engine/engine.cpp:984` | `EngineRestart` |
| workflow DAG (submit, release, skip, finalise, cancel, recover) | `src/engine/engine.cpp:592-864` | `Workflow` |
| priority queue (two heaps, tombstones, live counters, waiting consumers) | `src/queue/queue.cpp` | `PriorityJobQueue`, which implements `JobQueue` |
| job store, direct writes | `src/store/store.cpp` | two tables of `JobEngine`; writes may fail |
| job store, group commit | `src/store/store.cpp` | `JobStore`, which implements `WriteBehindTable` |
| retry policy | `src/core/job.cpp:86` | the decision to retry; any delay |
| remote worker process, HTTP client, worker endpoints | `src/worker/`, `src/http/http_client.cpp`, `src/api/api.cpp` | `RemoteWorker` |
| HTTP server: request framing, growing thread pool | `src/http/http_server.cpp` | `HttpParser`, `HttpServer` |
| other REST endpoints, JSON, metrics, handlers, programs | | not modelled (section 6) |

An API call runs on an HTTP thread and calls the engine directly. Embedded workers pop the
queue, start an attempt under a lease, run the handler and finish the attempt. A remote worker
does the same through `claim` and `complete`. The watchdog takes leases back. The engine keeps
`running_` (the lease table), `queue_` and `outstanding_` in memory and rows and attempt
records in the store. What can go wrong is in what happens between two critical sections of
one function while the others run; `PROJECT.json` lists these hazards with their lines.

## 2. Modules

| module | content |
|---|---|
| `JobState` | the ten states, `is_terminal`, `is_valid_transition`, the startable states |
| `JobEngine` | the engine: one action per critical section; its properties, inductive invariant and fairness |
| `EngineRestart` | `JobEngine` with crashes at any point and `recover()` |
| `JobQueue` | what the queue promises: a bounded set of entries and the order they leave in |
| `PriorityJobQueue` | the queue of `queue.cpp` |
| `WriteBehindTable` | what the store promises under group commit |
| `JobStore` | the store of `store.cpp` with group commit |
| `Workflow` | one workflow, from submission to its final state |
| `RemoteWorker` | a worker process, its coordinator and the connection between them |
| `HttpParser` | the request parser, as operators |
| `HttpServer` | acceptor, pool and connections, composed with `HttpParser` |
| `JobEngineProofs` | proofs about `JobEngine`: types, attempts, calls, watchdog, `stop()` |
| `JobEngineMoves` | what a step does to slots, callbacks and queue, as a few effects |
| `JobEngineEffects` | proofs: which effect each action has, and what each effect keeps |
| `EngineRestartProofs` | proofs: restarts, slots and stranded jobs |
| `JobStoreProofs`, `JobStoreTable` | proofs about `JobStore`: types and durability; order of writes, reads and refinement |
| `PriorityJobQueueProofs` | proofs about `PriorityJobQueue` |
| `RemoteWorkerProofs` | proofs about `RemoteWorker` |
| `HttpServerProofs` | proofs about the connection pool of `HttpServer` |
| `MC...` | the instances TLC checks |

Operators named `Bug...` are mutations: each is a plausible mistake in the definition that
follows it, and some property of a run is violated when it takes that definition's place.

### `JobEngine` and `EngineRestart`

**State.** `row` and `attempts` are the two tables of the store, `queue` the ids in `queue_`, `running`
is `running_`, `outstanding`, `remote_workers`, `drain` the members of the same name, `expired`
and `dead` the local vectors of `watchdog_loop`, `main` the progress of `stop()`. `reason[j]` is
the `cancel_reason` cell that an attempt and its `RunningInfo` share. `th[t]` holds the locals
of thread `t`: `pc` names the critical section it enters next, `attempt`, `token` and
`cancel_requested` are those of the copy of the job it carries. `issued`, `completions`,
`acked` and `to_drain` are history: tokens issued, callbacks made, cancels answered `Ok`,
what was queued when `stop(true)` began.

**Actions.** `finish_attempt` shows the pattern. The code takes `run_mutex_`, compares the token, erases the
lease and unlocks (`finish_attempt_fence`); it reads the cancel reason, decides and appends
the attempt record (`finish_attempt_record`); it overwrites the row with its own copy of the
job (`finish_attempt_persist`); it pushes the retry (`enqueue`) or makes the callback and
releases the slot (`finish_terminal`). Each is an action, since other threads run between
them, and each includes everything its section does.

Reads and writes of a row by one function under `run_mutex_` are one action where nobody can
write the row in between. `finish_attempt` writes rows without that mutex, so `cancel()` of a
RUNNING job is two actions, `cancel_load` and `cancel_flag`, and `run_mutex_free` keeps every
other section of that mutex out meanwhile. For a row that may start, and for one whose lease
is in `running_`, no finisher exists (`FinisherAlone`, `LeaseMatchesRow`), so `begin_attempt`,
`cancel()` of a waiting job and `watchdog_expire` are one action.

**Abstractions.**

* Payloads, results, messages, timestamps and metrics are left out.
* Times are flags: a lease is valid or overdue, a worker alive, silent or dead, a timed attempt
  may be late at any scan. Any order of expiry, heartbeat and scan is possible.
* `queue` is the set of ids of the entries of `JobQueue`; they mature, and leave, in any order.
* Tokens are random 64-bit numbers in the code; here a counter per job, so all are different.
* `StoreMayFail = FALSE` is the store with group commit, whose `update_job` always returns true,
  or a healthy disk; `TRUE` lets any write be refused.
* `claim` asks for one job, as `RemoteWorker::poll_loop` does.
* `complete_check` is the accepted case; a refused report changes nothing but a counter. The copy of
  the row (`complete_load`) and the store of the reported reason (`complete_reason`) follow it as
  actions of their own, since `complete()` holds no lock by then.
* In `EngineRestart` a write is durable when it returns (the store without group commit).

### `PriorityJobQueue`

`ready`, `delayed`, `index`, `tombstones`, `live_ready`, `live_delayed`, `next_seq`, `closed` are
the members of the class; a heap is the set of its entries with its order. `now` is the clock,
`notify` the notification a producer owes after its unlock, `con` where a consumer is in `pop`,
`pop_for` or `pop_batch`. Each section of `mutex_` is one action: `push` (with the replacement of
the job's older entry), `remove`, `close`, and the body of the consumers' loop, which promotes what
has matured, drops tombstones, takes or waits. A wait ends by a notification, by its time or
spuriously. `RefinesJobQueue` maps the live entries of both heaps to the entries of `JobQueue`.
Bounds: `MaxPushes` on the sequence numbers, `MaxTime` on the clock, `BatchSize`.

### `JobStore`

`pending_inserts`, `pending_updates`, `pending_attempts`, `cache`, `version_counter`,
`insert_seq`, `committed_insert_seq`, `last_flush_error` are the members of the same name, `db`
and `db_attempts` the two tables, `flusher` the flusher thread with its batch, `th` the calls in
progress. A section of `wb_mutex_` and a transaction are one action each. The flusher takes a
prefix of each buffer, commits it or fails, then retires cache entries and moves the watermark;
inserts wait for the watermark, updates for room in the buffer (at most 50 ms, so a full buffer
may be passed), listings flush first, reads go from the cache to one of `Connections` readers.
`crash` loses everything but the tables; `close` flushes. A row is the version of the write that
made it and the attempt it reports. `late` is history: attempt records that a full batch left in
the buffer or whose transaction failed. `WriteBehindTable` has three variables, the table readers
see, the disk and the error flag; the refinement maps them to cache over database, database, and
`last_flush_error`. `insert_jobs` gets one row, as the engine calls it on this path.

### `Workflow`

`edges`, `row` and `wf` are in the database, `children`, `pending_deps`, `remaining`, `failures`,
`outstanding`, `queue` in memory. A submission (`request`) lists each dependency up to `MaxRepeat`
times; `Indegree` and `HasCycle`, Kahn's loop, count it as often as it is listed, and the primary
key of `job_dependencies` refuses the insert of a repeated one. Rows become visible, then the maps,
then the roots are pushed: three actions. Two workers execute nodes with any result. `on_terminal`
runs without `run_mutex_`: it counts the children down, then reads, writes and pushes each that is
ready (`release_load`, `release_write`, `release_push`), or takes the children of the node from the
map (`descend`) and skips the descendants one read and one write at a time (`skip_load`,
`skip_write`), then counts and finalises. A client cancels a node, or the
workflow node by node. `recover` is a crash at any point with the counters rebuilt from rows.
Nodes have one attempt, and writes are durable; `JobEngine` and `JobStore` cover the rest.

### `RemoteWorker`

`row`, `running`, `remote_workers` are the coordinator's, `worker_id`, `stopping`, `active` those
of `RemoteWorker`; `th` holds for each thread its call, its answer or its lease and cancel flag.
The coordinator serves a request in one step (`JobEngine` has its sections). `HttpClient::request`
resends once on a dead connection; a request it gave up on stays in `late` and may be served at
any later time, even after a restart. The coordinator restarts (its leases and worker ids are
gone), cancels, sets deadlines, expires leases; the worker process starts, stops, crashes and is
started again. `MaxTroubles` bounds failing connections, restarts and crashes together. Sleeps
between calls are left out: only the order of calls matters.

### `HttpParser` and `HttpServer`

A stream is a sequence of units: those of a header block, the four of the blank line (`\r\n\r\n`, so
that a read may end inside it), those of a body. The last unit of the blank line carries what
`parse_headers` finds in the block: `Checks` are its tests in their order with the status of each, and
`parse_headers` the status of the first that fails. `feed` is the parser on a chunk, with both of its
comparisons with the header limit. `HttpServer` has `pending`, `idle_threads`, `workers`, `stopping` of the
class and `conn`, the two ends of a connection. `mutex_` is held across the test of the wait
predicate and the decision to block, while `stopping_` is written without it, so `test` and
`block` are separate actions. The acceptor's look at `idle_threads_` and `grow_pool` are too.
`recv` brings any number of units; a write may fail. A request may be refused, close the
connection, or be followed by pipelined ones.

## 3. Runs

Passing runs. All bounds are in the `.cfg` files.

| run | instance | shows |
|---|---|---|
| `races` | 1 job, 2 attempts, 2 embedded workers, 2 API threads, 1 remote worker, watchdog | lease table and row agree, finishers are alone, no job is stranded, the callback is made once, no finished job changes but by a racing cancel, states change along the transition table (section 4), no record is replaced |
| `capacity` | 2 jobs, 1 slot, 2 attempts, 1 worker, 2 API threads | `outstanding_` is the number of slots owed |
| `store_faults` | 1 job, 2 attempts, every write may fail, shutdown at any time | the inductive invariant of the proofs; no attempt beyond `max_attempts`, and no job given up before its last |
| `liveness` | 1 job, 2 attempts, 2 workers, 1 API thread, shutdown at any time, fair | jobs finish, `stop()` returns, no attempt of a worker is left RUNNING when it has, a drain leaves only retries |
| `restart` | 1 job, 2 attempts, 2 crashes | nothing lost or counted wrong, old leases refused, finished jobs and records kept, one attempt more per crash at most, none fewer |
| `queue` | 2 ids, 2 priorities, capacity 2, 3 pushes, 1 producer, a `pop` and a `pop_batch` thread, 3 instants | heaps, index, tombstones and counters agree; the queue implements `JobQueue`; no consumer oversleeps an entry or a close |
| `store` | 2 ids, 2 threads, batch of 2, buffer of 2, 1 connection, 4 versions, failing transactions, 1 crash | acknowledged inserts are durable and no insert is forgotten; the store implements `WriteBehindTable`; queries are fresh; no row is ahead of its attempt record, except records in `late` |
| `workflow` | every graph on 3 nodes, each dependency listed up to twice, 2 workers, 1 cancel, 1 crash | Kahn's test is exact; dependencies are respected; SUCCEEDED means all; skips have a cause; the workflow settles |
| `remote` | 1 job, 2 attempts, 2 poll threads, 2 processes, 1 trouble | a lease is run once, executions are bounded, the last lease decides, cancel flags reach the right thread, no lease is kept by nobody |
| `http` | 2 connections, 4 scripts of requests, pool of 1 to 2, header limit 4, body limit 2 | the stream is framed exactly, a refusal has the status of the first failed check or of a header block at or over the limit, connections have one owner, `stop()` leaves no thread asleep |

Why the bounds are enough. Two attempts give a superseded attempt, its successor and a last one;
two API threads two calls in the windows of each other; two jobs on one slot every conflict of a
full queue; a second crash the recovery of a recovered job. In the queue the third push replaces
or follows a removed entry, and three instants separate past, due and later. In the store two
threads make a batch that holds one of two inserts, and four versions overwrite a row that is
buffered, in the batch and on disk. Three nodes have chains, forks, joins, triangles and both
kinds of cycle, and a dependency listed twice already separates degrees from sets. One trouble at each point of the remote protocol already gives a resent, a late and a
lost message, since a failing request may be served now, later or never. (The
same instance with two troubles, six million states, passes as well; it takes nine minutes.) Two connections on a
pool of two reach growth and its race with a thread becoming idle; a header limit of four units has
blocks within it, at it and over it, and reads that end at each unit of the blank line.

Types are checked with the invariant that leans on them most (`LifecycleInv`, `NoOversleep`,
`Settled`, `LeaseRunsOnce`, `OpenIsOwned` have `TypeOK` as a conjunct); those of `JobStore` are
proved.

`CHECK_DEADLOCK FALSE` stands where the system may stop: after `stop()`, when a workflow is
finished, when the bounds on pushes, versions or processes are used up.

Runs that end in a violation. Each states what a comment of the repository says, and TLC shows a
behaviour of the code that does not comply; `PROJECT.json` quotes the lines.

| run | what the code does |
|---|---|
| `cancel_race` | a cancel answered `Ok` between the fence and the persist of `finish_attempt` is overwritten, the job runs again |
| `workflow_recovery` | `recover()` restores `pending_deps` as submitted and repeats no interrupted release or finalisation: the workflow stays RUNNING |

### Fairness

`Fairness` of `JobEngine` is strong fairness of the steps of every embedded worker, every API call
already begun, and the watchdog. The operating system schedules every thread, so weak fairness
is justified for code that takes no lock; strong fairness is needed because most sections
start by taking `run_mutex_`, which an endless stream of cancels makes free and taken in turn,
and it says that a thread that waits for a `std::mutex` is not passed over for ever. It also
says that handlers return. Clients are never obliged to call. `FairSpec` adds the main thread
and the passing of the 30 s of a drain.

`liveness` has no remote workers: the lease of a worker that sends heartbeats and never
reports is extended for ever (section 4). The other modules state what would stall them as
invariants instead, which need no fairness: `NoOversleep`, `InsertsAreServed`,
`Settled`, `LeaseIsHeld`, `NoSleeperAfterStop`.

## 4. Known disagreements between code and documents

The two violation runs are the first of these. The others have a property and a `.cfg` of their
own, which TLC refutes in seconds (`tlc -config X.cfg M`), and the passing runs check the
strongest statement that does hold.

| config, module | property | what the code does | what holds |
|---|---|---|---|
| `EngineRevive`, `MCJobEngine` | `TerminalAbsorbing` | the persist of `finish_attempt` lands between read and write of `cancel()`, which puts a finished row back to RUNNING | `OnlyCancelRevives` |
| `EngineTable`, `MCJobEngine` | `TransitionsInTable` | `job.hpp:14`: "Every transition in the system goes through is_valid_transition()"; none does, and `begin_attempt` takes SCHEDULED and RETRYING jobs straight to RUNNING, which the table does not allow | `ValidTransitions`: every step but those into RUNNING |
| `EngineReport`, `MCJobEngine` | `UserReasonKept` | `engine.cpp:178`: the worker "will see the User cancel reason"; a TIMED_OUT report overwrites it and the cancelled job is retried | - |
| `EngineExpiry`, `MCJobEngine` | `LocalNeverExpired` | the watchdog expires an id it collected earlier, by then leased to an embedded worker | `LifecycleInv` |
| `EngineFullQueue`, `MCJobEngine` | `NoLostJob` | a stale entry of a cancelled job fills the queue; the push of the next admitted job is dropped | `NoLostJob` with one job |
| `EngineDrain`, `MCJobEngine` | `DrainFinishesAll` | an attempt on its way back to the queue is seen neither in `running_` nor in the queue, and the drain ends | `StopLeavesRecoverable` |
| `EngineLateResult`, `MCJobEngine` | `LateResultRejected` | `complete` accepts a result after the lease expired, until the next scan | `FinisherAlone`, `SucceededByLastLease` |
| `RestartAttempts`, `MCEngineRestart` | `AttemptsBounded` | each crash during a last attempt buys one more | `AttemptsPerRestart` |
| `StoreRecord`, `MCJobStore` | `RecordWithRow` | `docs/ARCHITECTURE.md:62` promises record and row "in one transaction"; more waiting records than one batch holds put a row on disk before its record | `RecordPrecedesRow` |
| `WorkflowSlots`, `MCWorkflow` | `SlotsOwned` | two failing parents both skip a common child and release its slot twice (`outstanding_` wraps) | `Settled`: no slot is kept |
| `WorkflowRevive`, `MCWorkflow` | `UnstartedStaysEnded` | `release_dependents` writes QUEUED over the CANCELLED that landed after its read, and the node runs | `Settled`: no node is left behind |
| `RemoteLost`, `MCRemoteWorker` | `LeaseNeverIdle` | when the answer to a `claim` or a completion report is lost, heartbeats keep extending a lease nobody executes | `LeaseIsHeld`, unless something was lost |
| `HttpHeaderLimit`, `MCHttpServer` | `HeaderLimitExact` | `http.hpp:15` and `docs/DESIGN_DECISIONS.md:45` allow headers up to `kMaxHeaderBytes`; a block of that size, or up to two bytes shorter, is refused when a read ends inside its blank line | `RefusalJustified`: refused with 431 only if longer than the limit, or if the part of the blank line that was read takes it over |
| `HttpStarvation`, `MCHttpServer` | `NoStarvation` | the acceptor sees a thread as idle that was already woken for another connection; the pool does not grow and the connection waits for a busy thread | `OpenIsOwned` |

Met while modelling, part of the models, without a config:

* a node cancelled between the insertion of its row and the setting of the maps is never counted,
  so its workflow is not finalised (`early` exempts it in `Settled`);
* a completion report whose answer was lost is resent, refused, and logged as revoked;
* a user's cancel of a remote attempt is reported as TIMED_OUT;
* a worker does not register again after a restart of the coordinator.

A job somebody tried to cancel (`acked`) is exempt where `TerminalAbsorbing` fails.

## 5. Proofs

| module | theorem | statement |
|---|---|---|
| `JobEngineProofs` | `Lifecycle` | `Spec => []LifecycleInv` |
| | `TypeCorrect` | `Spec => []TypeOK` |
| | `LeasesAgree` | `Spec => []LeaseMatchesRow`: entry of `running_` and row agree |
| | `FinishersAreAlone` | `Spec => []FinisherAlone` |
| | `AttemptsAreBounded` | `Spec => []AttemptsBounded` (without a crash): at most `max_attempts`, and all of them before FAILED or TIMED_OUT |
| | `HistoryIsKept` | `Spec => HistoryKept`: no attempt record is ever replaced |
| | `TerminalIsFinal` | `Spec => OnlyCancelRevives` |
| | `TransitionsAreValid` | `Spec => ValidTransitions` |
| `EngineRestartProofs` | `RestartLifecycle` | `RestartSpec => []RestartInv` |
| | `OldLeasesAreFenced` | `RestartSpec => []OldLeasesFenced` |
| | `RestartBuysOneAttempt` | `RestartSpec => []AttemptsPerRestart` |
| | `HistoryIsDurable` | `RestartSpec => HistorySurvives` |
| | `SlotsInvariant` | no write fails: `Spec => [](EngineInv /\ SlotInv)` |
| | `SlotsAreAccounted`, `CallbackRunsOnce` | no write fails: `Spec => []SlotAccounting`, `Spec => []CompletedOnce` |
| | `RestartSlots` | no write fails: `RestartSpec => [](SlotAccounting /\ CompletedOnce)` |
| | `NoJobIsLost`, `RestartLosesNoJob` | no write fails, room for all jobs: `[]NoLostJob` of `Spec` and of `RestartSpec` |
| `PriorityJobQueueProofs` | `QueueConsistent` | `Spec => []QueueInv` |
| | `QueueImplementsJobQueue` | `Spec => RefinesJobQueue` |
| | `NoWakeupIsMissed` | `Spec => []NoOversleep` |
| `JobStoreProofs` | `StoreInvariant` | `Spec => [](TypeOK /\ DurabilityInv)` |
| | `AcknowledgedIsDurable` | `Spec => []AckedDurable` |
| | `InsertsServed` | `Spec => []InsertsAreServed` |
| `JobStoreTable` | `StoreIsConsistent` | `Spec => []StoreInv` |
| | `RecordsComeFirst` | `Spec => []RecordPrecedesRow` |
| | `ReadsAreFresh` | `Spec => ReadsFresh` |
| | `StoreImplementsTable` | `Spec => RefinesTable` |
| `RemoteWorkerProofs` | `RemoteInvHolds` | `Spec => []RemoteInv` |
| | `LeaseRunsOnceHolds` | `Spec => []LeaseRunsOnce` |
| | `ExecutionsBoundedHolds` | `Spec => []ExecutionsBounded` |
| | `SucceededByLastLeaseHolds` | `Spec => []SucceededByLastLease` |
| | `LeaseIsHeldHolds` | `Spec => []LeaseIsHeld` |
| | `StopLeavesNoLeaseHolds` | `Spec => []StopLeavesNoLease` |
| `HttpServerProofs` | `ServerInvHolds` | `Spec => []ServerInv` |
| | `OpenIsOwnedHolds` | `Spec => []OpenIsOwned` |
| | `NoSleeperAfterStopHolds` | `Spec => []NoSleeperAfterStop` |

**Assumptions.** `JobEngineAssumption`: thread sets are disjoint, limits are positive; any jobs,
threads and limits, failing writes, a shutdown at any time. `QueueAssumption`: priorities and
bounds are natural numbers. `StoreAssumption`: bounds are natural numbers, and there are no more
calling threads than rows in a batch. The last is a fact about the deployment (256 connection
threads, batches of 1024): every blocked insert holds one row of the buffer, so a batch takes them
all. `RemoteAssumption`: the attempt limit is positive, the bounds are natural numbers, the threads
are different and `None` is none of the data; any jobs and poll threads. `ServerAssumption`: the
pool is finite and starts with at least one thread; any connections and requests. Two hypotheses stand in the theorems themselves. `~ StoreMayFail`: slots and callbacks go
wrong when writes fail (section 4 and the hazards say how). `Cardinality(Jobs) <= MaxOutstanding`:
`EngineFullQueue` shows `NoLostJob` false when entries of cancelled jobs fill the queue.

**The engine.** None of these properties is inductive alone. That a finisher is alone follows
from its having erased the lease with its own token, which needs that the table and the row
agree on the newest token (`TokensInv`, `LeaseMatchesRow`). That a retry stays below the
limit needs the number a thread carries to be the row's (`AttemptInv`): `complete()` loads the
row after its check, so this holds only while the lease is still held. That a record is not
replaced needs every recorded number to be below that of the running or undecided attempt
(`HistoryInv`). `CancelInv` says that what `cancel()` read still names the right attempt when it
is written back, and `CallsInv` which calls have a job. `LifecycleInv` is their conjunction;
`store_faults` checks it with TLC. Types come first, one lemma per group of actions; a frame
lemma, `SettleStep`, with its cases `QuietStep` and `RowStep`, and `CallStep` cover most actions;
`begin_attempt`, `finish_attempt` and `cancel_flag` have lemmas of their own. `StoreFrame` and
`RowSteps` say which actions write the tables, and how, from which the action properties follow.

**Restarts.** `LimitInv` takes the limit as a parameter, so that the same step lemmas serve
`max_attempts` and `max_attempts` plus the number of crashes. `RestartInv` adds
`OldLeasesFenced`: whoever passed the fence holds the newest token of its job, and a crash leaves
no thread past it.

**Slots and stranded jobs.** `SlotAccounting` equates a counter with two cardinalities. Most of
a step does not matter to it, so `JobEngineMoves` names the few effects that do (a slot is
reserved, handed to a job, released, a job starts, waits, ends, an entry leaves...).
`JobEngineEffects` proves that every action has one of these effects when no write fails, and
that each effect keeps `CallbackInv`, `OverInv` and `NoLostJob` and moves at most one job in or
out of the set that owes a slot; `EngineRestartProofs` counts. `OverInv` is what
`SlotAccounting` lacks: a job whose callback ran, or is about to, neither waits nor runs.

**The queue.** `QueueInv`, with types and the finiteness of the heaps (`HeapInv`), is inductive.
`Bury` (an entry gets a tombstone), `Promote` (matured entries change heaps) and `TakeStep`
(entries leave) each give both the invariant and the effect on the set of live entries; the
cardinality lemmas carry the counters. The refinement needs the invariant: that `pop` returns the
best matured live entry uses that the ready heap holds only matured entries and that, after
promotion, every matured live entry is in it. `NoOversleep` needs `WakeInv`: a sleeper's deadline is no
later than any delayed entry unless a `notify_all` is owed (`SleepInv`), and the live ready entries
are no more than the consumers about to look and the `notify_one`s owed, unless every wait is over
(`CountInv`).

**The store.** `DurabilityInv` is inductive with the types. An insert is acknowledged when the
watermark reaches its number, so `BufferInv` orders numbers: watermark, then batch, then buffer,
strictly increasing in each; and a batch whose transaction went through is in the database.
`InsertInv` says where a waiting insert's row is: in the buffer, in the batch, or below the
watermark and then in the database unless an error was recorded.

`StoreInv` adds three parts. `TableInv` orders the versions of one id: disk, batch, buffer,
strictly increasing, the cache holding the newest that is not yet retired; this gives the
refinement, since a row of the table changes only when a write enters the cache or a failed batch
is retired. `ReadInv` says that what a query must find is still visible while it flushes, and on
disk once it has flushed, unless a transaction failed. `RecordInv` says where the record
of each buffered row is. The attempt to prove that no row is ahead of its record failed for a
reason: it is false once more records wait than a batch holds, a case that needs more versions
than the `store` run has. `RecordPrecedesRow` states the exception (`late`) and `StoreRecord.cfg` shows it.

**The remote worker.** Several properties fail to be inductive because a lease has stages: granted
in an answer on its way, run, reported, applied. `HeldOf` collects the leases a thread has in an
answer or runs, and `HandInv` says that no lease is in two hands, that none held, executed or
reported is newer than its job's row, and that once a report was answered its lease is gone. `RowInv` bounds the
attempt of a row by the limit and the restarts, and ties a lease and a `SUCCEEDED` row to that
attempt. `IdInv` is what `StopLeavesNoLease` needs: ids are never used twice, so neither a late
claim nor a lease names a process that a registration is about to create or that has left, unless
something was lost. `ActiveInv` is half of `LeaseRunsOnce`.

**The HTTP server.** `ServerInv` says that `idle_threads_` is the number of threads inside
`next_connection` (`IdleInv`), that a connection is open exactly while it is queued or served and
is in one place (`OwnInv`), that a thread has a connection exactly while it serves (`ThreadInv`),
and, for `stop()`, that after the swap no thread is between its test and its wait, and after the
second `notify_all` none waits (`StopInv`): the swap needs `mutex_`, which such a thread holds, and
no thread gets there again since `stopping_` is set. What the parser computes does not matter here,
so one lemma, `MoveInv`, covers every step in which a thread keeps its connection.

**Checked by TLC only.**

* `JobsFinish`, `StopTerminates`: liveness under fairness, which the prover does not treat.
* `StopLeavesRecoverable`: holds for the instance; with several jobs the queue may fill up as in
  `EngineFullQueue`, so there is no general theorem.
* `Workflow`: `HasCycle` and the walk over descendants are recursive over the graph, and
  `KahnExact` is an induction over data; the other properties lean on what the walk visits.
* `FramingExact`, `RefusalJustified`: they speak of the concatenation of all requests of a
  connection (`Joined`, `Stream`), so that each is an induction over data.

## 6. Not modelled

* SQL, column conversion, the worker table and `checkpoint()` of the store: sequential translation
  between records and rows; `SQLite` provides atomicity, which `JobStore` assumes.
* `delay_after_attempt`: floating point and a random draw are outside TLC. `JobEngine` lets a
  retry mature at any time, so its results hold for every delay.
* JSON, `parse_headers` beyond what frames a request, the response side of the HTTP client,
  sockets: sequential text processing and I/O with no state that threads share.
* REST endpoints other than the workers': each translates a request into one engine call.
* Metrics, logging, ids: nothing decides on them. Handlers: any result at any time.
* The benchmark, load and command line programs: users of the system.
* The whole system in one model. The modules meet at interfaces instead: `JobEngine` uses the ids
  of `JobQueue`, which the queue implements; `JobStore` takes the engine's order of writes (record
  before row); `RemoteWorker` serves a call in one step where `JobEngine` has its sections.
  `EngineRestart` and `Workflow` assume durable writes; a restart on a store that loses its buffer
  is covered by `JobStore` for the tables only.
