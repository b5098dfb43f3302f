# DecisionGraph in TLA+

DecisionGraph keeps an append-only log of decision events and derives graph,
summary and precedent tables from it. This directory models the parts of it
where several processes meet or where a step can fail half-way: appending to the
log, projecting the log into tables, running replay jobs, the inbox of
reviewers, and the embedded Python implementation with its migrations and
queries. TLC checks the models on small instances; TLAPS proves most of the
safety properties, of either implementation, for every size and every overlap of
calls: of both stores, the projections, their digests and their workers, the
replay coordinator, the workflow runtime, the migrations, the embedded projector
and its queries. Liveness, and the few properties that hold only where calls do
not overlap, are left to TLC.

Where the code lets tables part from the log, a closed item reopen or a schema
lose a table, the property does not assume the case away: it names the steps that
can do so, and says that no other can.

## The system

Two implementations live in the repository: the Elixir umbrella under `beam/`
(the one that runs as a service) and the Python reference under
`src/decisiongraph`. All paths below are relative to `src/`.

| Component | State it keeps | Operations | Talks to |
|---|---|---|---|
| `DecisionGraph.Store` (`beam/apps/dg_store`) | `dg_event_log`, its `log_seq` sequence, one advisory lock per trace, cursors | `append_event`, reads in `log_seq` or `trace_seq` order, cursor upsert, `clear` | PostgreSQL |
| `DecisionGraph.Projector.Write` | the tables of three projections, their cursors, failures, digests; one advisory lock per tenant and projection | `catch_up`, `rebuild`, `record_failure!` | reads the log in batches |
| `ProjectionWorker` | retry count, status, timers | `sync` casts, polls, retries | `Write.catch_up` |
| `ReplayCoordinator` | maps of jobs and scopes; tasks; `dg_projection_runs` | `start_replay`, `start_rebuild`, `cancel`, `active_jobs`, progress and outcome messages | `Write`, `Admin` |
| `Api.Workflows` | inbox items, actions, notifications, a cursor over the log | refresh from the log, actions on items, SLA sweep | `Store.append_event` |
| `Api.Events` | none | append, then sync the workers | `Store`, workers |
| Python stores (`src/decisiongraph/storage`) | the same log in SQLite or PostgreSQL, no lock on the trace | `append_event`, reads in `log_seq` or `trace_seq` order, `clear` | the database |
| Python migrations | the schema, `schema_migrations` | opening a store migrates it | the database |
| Python `DecisionGraph` and projectors (`api.py`, `projections/`) | tables of three projections; cursor and next `trace_seq` of each trace in memory | append then project in one call, `sync_projections`, `replay_projections` | store |
| Python queries (`query/`) | none | subgraph, pages of edges, precedents, health, traces | tables |
| Web, console, auth, queries, observability | none that is read back by the above | | |

What is hard, and what makes each part correct:

* **Store.** Appends to one trace are serialised by a lock; an idempotency key
  is unique per producer, across traces. Between the lookup, the checks and the
  INSERT other transactions commit, wait in index entries, and fail; the caller
  may lose its answer and retry. Correct: traces are dense and closed by their
  finish, names are unique, an answer is true when it is given, callers do not
  block each other for ever.
* **Projections.** Cursor, tracker and batch are read before the lock of the
  scope is taken; `log_seq` is drawn before the row is visible. Correct: the
  tables are those of a replay of the log up to the cursor. With overlapping runs
  the code does not keep this; then only a batch that was read too early, or a row
  that became visible too late, may part them.
* **Digests.** Every batch and every clear of any projection writes the digest
  rows of all three and the full one, under the lock of its own projection only.
  Correct: the full digest has the minimum of the cursors, a commit leaves the
  digest of its own projection fresh, and the transactions do not block each other.
* **Workers.** An API call appends, starts the workers that are not there and
  tells each to sync, with casts that are dropped if the process has just died;
  a worker's messages and timers die with it, and one that failed terminally sets
  no timer. Correct: an event acknowledged with `projection_sync_triggered` is
  projected, given up knowingly, or still has a sync to come.
* **Replay jobs.** Tasks and coordinator are processes that die separately;
  messages arrive after a cancel. Correct: one job per scope, a run's status is
  true, scopes are released.
* **Workflow runtime.** Rows are read, merged and written whole, without a lock,
  while refreshes of other requests apply the log; an action is validated,
  written, recorded and notified in separate transactions. Correct: items, audit
  rows and cursor agree with the log, a closed item has its decision in the log,
  a decision is made once and seen by whoever made it, and a closed item is opened
  again by nothing but a write from an older read.
* **Python stores.** The checks of `append_event` and its INSERT are separate
  statements with nothing that keeps what was checked; the trigger and the unique
  indexes report what changed in between, in an order of the backend's own.
  Correct: the same promises as those of the Elixir store.
* **Python migrations.** SQLite's `executescript` commits each statement, several
  processes may open one database, and a constructor may die anywhere.
  Correct: who opened the store finds every migration recorded and, unless SQLite
  scripts ran into one another, the whole schema.
* **Python API.** An append and its projection are separate transactions, each
  batch is one, a rebuild another whose failure nobody handles, and what the process
  remembers has to be what it committed, also after a rollback, a replay, or a
  restart, while others append to the log.
  Correct: tables and memory are those of the log up to the cursor until a rebuild
  fails, a call that returns has projected what it appended, and no accepted event
  blocks the projections but one whose hash JSON does not preserve.
* **Python queries.** Limits cut a breadth-first search while it runs; pages are
  read while the graph grows. Correct: what is returned is in the graph, is
  connected, and is complete unless it says that it is not.

`PROJECT.json` lists every hazard at its line with the properties that watch it.

## The modules

```
EventLog            the log of one tenant and how it is read (no behaviour)
 |- DecisionLog     abstract: an append is one step, each answer is justified
 |- AppendFeed      abstract: rows are inserted, then committed or rolled back
 |- EventStore      append_event over PostgreSQL; implements both
 |    |- EventStoreProofs, MCEventStore
 |- Projection      EXTENDS AppendFeed: one scope, its runners, its tables
      |- ProjectionProofs, MCProjection
ProjectionDigests   the digest rows of the three scopes of one tenant
 |- ProjectionDigestsProofs, MCProjectionDigests
ProjectionWorker    workers, their supervisor, and the requests that tell them
 |- ProjectionWorkerProofs, MCProjectionWorker
ReplayCoordinator   jobs, tasks and run rows
 |- ReplayCoordinatorProofs, MCReplayCoordinator
WorkflowRuntime     the inbox over the log of one trace
 |- WorkflowRuntimeProofs, MCWorkflowRuntime
ReferenceStore      EXTENDS EventLog: the Python append_event; implements DecisionLog
 |- ReferenceStoreProofs, MCReferenceStore
Migrations          opening and migrating a Python store
 |- ReferenceStoreProofs (its last part), MCMigrations
ContextGraph        payloads, emitters and projection tables (no behaviour)
 |- ReferenceGraph  the embedded DecisionGraph: append, project, sync, replay
      |- ReferenceQueries   EXTENDS it with readers
           |- ReferenceGraphProofs, MCReferenceQueries
```

The store and the projections are composed through `AppendFeed`: `EventStore`
is shown (by TLC, and proved) to implement it, and `Projection` extends it, so
what is checked of a projection holds over the real append protocol. The two
guarantees it hands over are that a trace has at most one uncommitted row and
that a committed row fits its trace; it promises no order between traces.
`DecisionLog` has two implementations, `EventStore` with a lock on the trace and
`ReferenceStore` without one. `ReferenceGraph` takes its appends to be atomic,
which is what `ReferenceStore` is shown to provide.

### EventStore: `store.ex`, the migration of `dg_event_log`

A step is one SQL statement of one caller's transaction.

| Action | Code |
|---|---|
| `Begin` | `append_event`, `build_append_context`: a call with an envelope |
| `AcquireTraceLock` | `acquire_trace_lock!` |
| `Reuse`, `RejectReuse`, `KeyIsUnused` | `fetch_idempotent_event`, `validate_idempotent_reuse!`, `recover_idempotency_conflict` |
| `RejectFinished`, `RejectSequence`, `Validate` | `assert_trace_open!`, `next_trace_seq`, `validate_trace_sequence!`, one step since only the holder of the trace's lock adds the rows they read |
| `Insert` | `insert_event!`: the sequence, then the trigger `dg_validate_event_log_insert` |
| `EnterIndex`, `UniqueViolation` | the three unique indexes in the order the migration creates them; `recover_postgres_error` |
| `Commit`, `Lose` | the end of the transaction; the connection or the caller is lost, also after a commit |

An envelope is its trace, `trace_seq`, type, key (with the producer), id, and
one value for all else a retry must repeat. That an inserter waits for an
uncommitted row with an equal entry, and that the waiters of a lock are queued,
is PostgreSQL's and marked external in the map.

`DecisionLog` is what callers are promised. `Accept` is the commit; every other
answer is a `Respond`, which must be justified by the log in the same step.

### Projection: `write.ex`, `context_graph.ex`, worker and tables

One scope (a tenant and one of three projections). `run[r]` holds the local
variables of a process in `catch_up`. `Start`, `Clear` (`clear_projection`),
`ReadCursor`, `LoadTracker`, `ReadBatch` (`iter_event_batches`) run outside the
lock; `AcquireProjectionLock`, `ProjectEvent` for each event and `CommitBatch`
are the transaction of `project_batch`, whose rows are private until it commits.
`FailTerminally`, `FindFailedEvent`, `FindNone`, `RecordFailure` and `Poll` are the
worker's (`projection_worker.ex`). An error of `project_batch` names its event, or
carries the cursor the batch was read after; any other (of the cursor's, the
tracker's or the log's read) carries nothing, and `failed_event_for` takes the first
event after 0 (`Blamed`). `Crash` stands for an error that is retried, a killed
task, or the death of the process. The tables keep what tells projections apart:
which event first wrote a node or edge (`ON CONFLICT DO NOTHING`), how often and
up to where a summary was counted, which policy rows and precedents exist. A
`Step` is a `PolicyEvaluated`. `RowsOf(S)` is the reference: what the tables hold
after exactly the events S, stated without any order of processing.

### ProjectionDigests: `digests.ex`, `refresh_projection_digests!` of `write.ex`

The transactions of `project_batch` and `clear_projection`, of all three
projections, with what `Projection` leaves out: after `AcquireProjectionLock`
(and the writes to its tables and its cursor, which are private) come the four
queries of `compute_all` (`ComputeDigest`), for each projection `ReadCursor` and
`UpsertDigest`, then `ReadMinimum` for each cursor, `UpsertFull` and `Commit`.
Each statement sees what is committed by then (read committed) or its own writes
(`VisibleTables`, `VisibleCursor`), and an upsert waits for a transaction that
has written the row (`HasWritten`). Contents are numbered by the transaction that
wrote them, so that digests differ when tables may.

### ProjectionWorker: `projection_worker.ex`, `runtime.ex`, `events.ex`, `application.ex`

The workers of one tenant on one node, and requests of `Api.Events`. A request is
`AppendEvent`, then for each projection `EnsureWorker` (`ensure_worker_started`)
and `CastSync`, then `Answer`; `EnsureFails` is its rescue, `ClientDies` its death.
A worker is `HandleCast` (it sends itself the message), `StartSync`, any number of
`ProjectBatch`, and `SyncSucceeds`, `SyncFails` (the database, with a retry or, when
`MaxRetries` are used up, terminally) or `SyncRejects` (an event no projection
accepts); a terminal failure goes on to `RecordFailure`, `FailedEventUnknown` or
`RecordFails`. Messages are counted, `syncs` are those it has sent itself, timers
included, which may arrive in any order and after any delay. `WorkerDies` and
`ChildDied` are the end of a process under a `DynamicSupervisor` that restarts it
(`RestartWorker`: `init` sends the boot message) or, with too many restarts in its
window, dies itself with all workers; nothing starts these again before the next
append through the API. A sync moves the cursor here and nothing else: what it does
to the tables, and how it meets other runs of its scope, is `Projection`'s matter.

### ReplayCoordinator: `coordinator.ex`, `admin.ex`

The coordinator's two maps, its mailbox, the tasks and the status of the run
rows. A call is handled between any two messages; calls are therefore actions
and only messages of tasks are queued. An exit signal takes effect some time
after it was sent: a cancelled task may finish what it is at (`Die`). What a
task does to the tables is `Projection`'s matter; here it works off the
projections of its scope. Counters of processed events are left out. That
`handle_call` inserts the row and starts the task is one step: a coordinator
that dies in between leaves a row `queued` with no task.

### WorkflowRuntime: `workflows.ex`

A process per API call; `run[r]` holds its local variables and, while it
refreshes, the drafts of its transaction. A refresh is `LockRuntime` (the row
of `dg_workflow_runtime`, the cursor, the events), for each event `ReadItem`
and `WriteItem`, then `BeginSweep`, for each open item `WarnDeadline` or
`ReadOverdue` and `EscalateOverdue`, and `CommitRefresh`. Every call refreshes
first. A decision goes on with `Fetch` (which validates), `ReadSequence`,
`AppendOwn` or `RejectAppend`, another refresh, `Answer`; a manual action with
`Fetch`, `Reread`, `Upsert`, `Record`, `Notify`, each a transaction. `Upsert`
waits for a refresh that has written the row; reads wait for nobody.

An item keeps its status, `resolved_at` (set or not), `approval_event_id` and
`escalation_count`. The log is one trace, whose appends commit in the order of
their log_seq (proved of `EventStore`), so an append is one step. With several
traces the cursor has the gap that `MCProjectionGap.cfg` shows of the
projections (below); it is not repeated here.

### ReferenceStore: `storage/sqlite/backend.py`, `storage/postgres/backend.py`, their migrations

A step is one statement of `append_event`. `Begin` is the call, `Reuse`,
`RejectReuse` and `KeyIsUnused` are `_check_idempotency`, first and again in the
recovery; `CheckFinished` and `CheckSequence` are the two reads and the answers
that follow from them. Then the backends part. With SQLite, `InsertSqlite` takes
the database's write lock and holds it to the `Commit`, with the trigger and all
unique indexes looked at in that step; `IntegrityErrorSqlite` is what the handler
makes of each violation, and `BusyTimeout` the locked database. With PostgreSQL,
`InsertPostgres` draws a `log_seq` and runs the trigger, `EnterIndex` enters one
index after the other or waits for the uncommitted row of another, and
`UniqueViolationPostgres` is the handler. `Lose` is a dead process or a lost
connection, in any stage.

The trigger lets a `TraceFinished` pass, in either backend. A second finish is
kept out by the key alone, which `DecisionGraph.finish_trace` derives from the
trace, but a caller of the store may choose. `ImplementsDecisionLog` therefore
allows one step more than `DecisionLog`: `FinishesAgain`, a `TraceFinished` with the
next `trace_seq` of a finished trace. Every other step, before and after it, is one
of the atomic log.

### Migrations: `storage/migrations.py`, `postgres/backend.py`

A script is a sequence of CREATE and DROP IF EXISTS statements on tables and
indexes. `OpenStore`, `ReadPending` (`get_pending_migrations`), then for each
pending version `ApplySqlite` (`RunStatementSqlite`, one statement of
`executescript`, or `RecordSqlite`, the row of the version) or `ApplyPostgres`
(script and record in a transaction), `Opened`; `Interrupt` is an error or a death
anywhere in between, after which the constructor may be run again. Nothing keeps
two processes from opening one database at once, with either backend. `raced` is a
history variable: a SQLite statement was run while another process was inside a
script, or of a version already recorded.

`SchemaAt[v]` is the schema after a clean run of the first v scripts. `After`
computes a script statement by statement, `Effect` is one statement (a dropped
table takes its indexes with it) and `Runs` says whether it succeeds.

### ContextGraph, ReferenceGraph: `api.py`, `projections/`, `domain/`

`ContextGraph` holds the data: a payload is its type and the two references it
carries, `emit_*` are the emitters of `context_graph.py`, `insert_nodes`,
`ensure_nodes_exist`, `insert_edges`, `on_trace_started`, `on_policy_evaluated`
and `on_trace_finished` the writes of the projector, and the digests keep the
columns the code hashes. The code inserts the rows of one event in a loop; no two
of them differ and have the same id, so that their order makes no difference
(`EmitsPlaceholders`, a lemma), and the model inserts them as a set. In
`ReferenceGraph` a step is a transaction:

| Action | Code |
|---|---|
| `DoAppend`, `RetryAppend` | `DecisionGraph._append_event`: append (or the stored event of a repeated key), then project up to its `log_seq` |
| `AppendFails` | an insert that fails rolls back what was open |
| `OtherAppend` | another process appends to the same database |
| `sync_projections`, `replay_projections` | the two calls of `api.py`; a replay begins with `rebuild` |
| `RebuildFailsSqlite`, `RebuildFailsPostgres` | a `DELETE` of `rebuild`, or its commit, fails |
| `ProjectBatch`, `NoBatchIsLeft` | a round of `iter_event_batches`, `project_events` in a transaction |
| `BatchFails`, `BeginFails` | the database fails, or a transaction is open already; the projector rolls its memory back too |
| `Crash`, `Restart` | the process dies; `_load_cursor`, `_load_trace_seq_tracker` |

A rebuild on SQLite that fails at a `DELETE` leaves its transaction open (`undo`
holds the tables before it), since nobody rolls back: the next append commits the
deletions made so far, the next batch cannot BEGIN and rolls them back. One that
fails at its commit has reset the memory already, so that the following batches
count events again. On PostgreSQL the memory is reset after the commit, and a failed
statement makes every further one of the connection fail until it is closed (state
`aborted`). `json_round_trip` and `compute_payload_hash` are what the projector's
check of `payload_hash` depends on: keys that are numbers come back as strings and
sort in another order, so that the hash of what is read is not the stored one.

`TablesUpTo(n)` is the reference: the tables of the first n events, said with
sets and without an order of processing, where the handlers (`ProjectFrom`, event
after event) update what is there. `cmd_replay` is the command that copies
the log into a store in memory and projects it as one batch.

### ReferenceQueries: `query/`

`get_context_subgraph` with its loops as recursive functions (`walk_from_center`
over depths, `visit_edges` over the edges at a frontier, in each `visit_node` for
both ends), and its limits where the loops test them; `list_node_edges`, which
a reader calls page by page (`StartReading`, `ReadPage`) while the graph grows or
is replayed; `find_precedents` with its ranking. A query first asks
whether the projections are stale (`is_stale`).

`OrderBy` is SQL's ORDER BY: at position i stands the row with i - 1 before it.
(`SetToSortSeq` of the community modules says the same with Java's help in TLC,
but by an operator of `Sequences` that the prover does not know.)
The properties of the queries say what a reader gets while the tables are in step
with the memory (`InStep`): a rebuild that failed is `ProjectionMatchesLog`'s matter,
and `astray` notes that a page was read after one.
`QueryAssumption` says what the code checks or makes true: limits are positive
(`PrecedentQuery` and the filters raise otherwise), and edge_ids, of which
`EdgeIdBefore` is the order, are unique and compare like strings.

## The runs

| Run | Bounds | Shows |
|---|---|---|
| `store` | 2 writers, 2 traces, 6 envelopes that race for a key, a `trace_seq`, an id, or retry each other; 4 log_seq | the properties of the store: dense closed traces, order, checks that stay valid, every call ends, the two refinements |
| `projection` | one run at a time, 4 log_seq, 2 traces that share an entity, batches of 2, until 2 or none, 1 fault; all three projections | rows match the log, catch-up |
| `projection_overlap` | worker and a second catch-up at once, 3 log_seq, 1 fault; context_graph and precedent_index | nothing is skipped, tables and cursor part only by a stale batch, what is resolved is projected, and the tables converge |
| `double_apply` | the same for trace_summary | violated: an event is counted twice |
| `digests` | 2 processes, 3 transactions, a log of one event, 1 rollback | the full digest has the minimum cursor, a commit leaves its own digest fresh, transactions end |
| `replay_jobs` | 2 jobs, a scope for all of two projections and one for the second, both modes, 1 crash | maps agree, exclusion, true completion, liveness |
| `workflow` | one call at a time, 2 calls of any kind on an exception item and a trace review, 2 events of an agent, all deadlines, 1 crash | the audit matches the cursor, what is shown is swept |
| `workflow_overlap` | 2 calls at once on one item, exception requested up to twice | closed items are backed and reopen only by a stale write, answered decisions are applied, a retry decides once, notified escalations are recorded, every call ends |
| `worker` | 1 request at a time, the worker of one projection, 2 log_seq, each event rejected or not, 1 retry, 1 restart in the window, 2 deaths, 2 failures of the database | no wakeup is lost; an acknowledged event is projected or given up |
| `reference_store` | 2 processes, 2 traces, 8 envelopes that race for a `trace_seq`, a key or an id, retry each other, and finish a trace under either of two keys; 4 log_seq; either backend | rows appear in order, every call ends, the atomic log is implemented |
| `reference_graph` | 2 traces whose scripts cover all ten event types and a payload JSON changes, 6 log_seq, batches of 2 and 3, 1 failure or crash, in a rebuild at the first, the fourth `DELETE` or the commit; 6 subgraphs, a list of edges in pages of one, 4 precedent queries | tables and memory match the log until a rebuild fails, calls end caught up, only mismatching hashes stop the projector, answers are true and complete |
| `migrations` | 3 scripts, 3 processes, 2 interrupts; either backend | an opened store has every migration, and is whole unless SQLite scripts met; PostgreSQL never holds half a script |

The bounds are chosen so that each hazard happens: two traces are the least for
a commit out of order and for a key shared across locks; three rows of one
trace (start, step, finish) for each rule of the sequence; batches of 2 with 4
rows for a batch that starts after another's commit; two runners for every
overlap, and one more would only overlap pairwise again. `MaxLogSeq`,
`MaxActive`, `MaxInserted`, `MaxJobs`, `MaxFaults`, `MaxExternal`, `MaxCalls`,
`MaxCrashes`, `MaxFailures` and `MaxInterrupts` are bounds of the model, not of the code; `MaxRetries` is the
code's `projection_max_retries`, which is 5 by default, and `MaxRestarts` its supervisor's 3. All runs but `store` have `CHECK_DEADLOCK FALSE`:
when the bounded appends or jobs are used up, and nobody calls, the system
rests. Three migrations are the least with a script that drops what an earlier
one created, and a subgraph of depth 3 the least that leaves a trace, reaches
another through a shared entity, and goes on.

One run expects a violation, a disagreement with what the documents promise
that is described, with the quoted sentence, under `findings` in `PROJECT.json`:
two concurrent catch-ups count an event twice in `trace_summary`, because the
batch was read before the lock (`double_apply`).

Further configurations are kept beside these, for whoever works on the code in
question. `MCProjectionWorkerPair.cfg` is the run `worker` for a request that tells
two workers, with one event. `MCProjectionWild.cfg` checks `OnlyStaleBatchesDiverge`,
`OnlyGapsSkip` and `OnlyStaleRewinds` with a rebuild among two runs, rows that commit
out of order and all three projections; its properties are proved, too. In each of
the others TLC finds a violation:

| Configuration | Shows |
|---|---|
| `MCProjectionRebuild.cfg` | `CaughtUpEqualsReplay` fails: a batch read before a rebuild moves the cursor over cleared events |
| `MCProjectionGap.cfg` | `NothingSkipped` fails: a cursor passes a `log_seq` whose transaction commits later |
| `MCProjectionFailures.cfg` | `FailuresAhead` fails: an error outside `project_batch` opens a failure for the first event of the log, behind the cursor (`projection_worker.ex:191`), against `docs/operations/PROJECTION_RUNTIME.md:139-141` and `BEAM_PROJECTION_REPLAY_BEHAVIOR.md:118`; it stays open until another batch commits |
| `MCProjectionDigestsStale.cfg` | `DigestIsCheckpoint` fails: a transaction computes the digests of the other projections, waits for their rows, and writes the old digest with the cursor it reads afterwards, against the "durable digest checkpoints per projection" of `BEAM_PROJECTION_SCHEMA.md:162`; the next batch of that projection repairs it |
| `MCReplayTwice.cfg` | `OneJobPerProjection` fails: a late progress message plants a `nil` that crashes the coordinator at the next runtime snapshot, after which it admits a job beside one that still runs (`BEAM_PROJECTION_REPLAY_BEHAVIOR.md:62`: only one at a time). A job for all projections and one for a single projection are admitted side by side too: their scopes differ; the configuration leaves "all" out to show the longer way |
| `MCWorkflowReopen.cfg` | `TerminalIsFinal` fails: an action validated while the item was open is written after a decision closed it (`workflows.ex:1163`), and opens it again, against `WORKFLOW_STATE_MACHINE.md:50-52` (of a closed item "`comment` is still allowed", "all other actions are rejected") |
| `MCProjectionWorkerPolls.cfg` | `OnePoll` fails: every sync cast that succeeds starts another chain of polls, which ends only in an error or with the worker, where `BEAM_PROJECTION_RUNTIME.md:69` speaks of "the next poll" |
| `MCProjectionWorkerUnrecorded.cfg` | `FailedIsRecorded` fails: the database that used up the retries also hides the failed event, and the worker is `failed` without a row, against `BEAM_PROJECTION_RUNTIME.md:89` |
| `MCReplayCancel.cfg` | a late outcome overwrites `cancelled` |
| `MCReferenceFinish.cfg` | `OneFinish` fails: a second `TraceFinished` under another key passes the Python stores' trigger, if it was checked before the first was committed (`0004_trace_finished_lock.sql:3` announces the lock) |
| `MCMigrationsHalf.cfg` | `NoPartialState` fails: a SQLite migration that fails mid-way leaves the statements before it, against `specs/003-storage-sqlite/spec.md:122`; scripts that drop what they create can be run again, the others cannot |
| `MCMigrationsRace.cfg` | `OpenedHasSchema` fails: two processes read the same pending versions of a SQLite database, and the script of the second drops a table the first has opened with; its record is then refused, and the table is gone |
| `MCReferenceMismatch.cfg` | `NoEventIsRejected` fails: an accepted payload with nested keys that are numbers hashes differently when it is read back, and the projector rejects it for ever, against `specs/002-event-model/spec.md:190` ("Hash verification passes for all stored events") |

`double_apply` and the first two of the table are why the run `projection` checks
`RowsMatchLog` with one run at a time and one uncommitted row at a time: with more,
the code does not keep it. What is left of it without these bounds is
`OnlyStaleBatchesDiverge` (`projection_overlap`, `MCProjectionWild.cfg`, and the
theorem), and that the projections whose rows are written idempotently still
converge. In the same way `OverdueIsEscalated` is checked with one call at a time
(the run `workflow`), where a stale row cannot undo the sweep, and
`SweptUnlessWritten`, which is proved, says for any number that nothing but another
call's write of the item does; and `OnlyStaleWritesReopen` takes the place of
`TerminalIsFinal`, which the code breaks.

## Fairness

* Store: a caller whose next statement can run runs it (weak fairness of
  `Progress`), and a lock or an index entry that becomes free again and again is
  eventually given to each waiter (strong fairness: PostgreSQL queues waiters).
  Nothing makes callers call, or connections break.
* Projection: running processes go on, the scope's lock is given to each waiter,
  and the worker's timer fires unless the worker failed terminally
  (`Process.send_after` after a success or a retry; none after a terminal
  failure). Appends are not fair: they may pause.
* Workers: a request or a sync in progress goes on, a dead child is restarted (weak
  fairness), and a message in the mailbox has its turn although polls keep coming
  (strong fairness of `HandleCast`: the mailbox is a queue). A timer that was set
  fires. Appends, deaths, failures and the passing of the supervisor's window are
  not fair.
* Digests: a statement that can run does so, also one that waits for a lock or a
  row which is taken again and again (strong fairness of a process's steps:
  PostgreSQL queues waiters). Calls and rollbacks are not fair.
* Coordinator: tasks run, the coordinator handles its messages, an exit signal
  arrives. `Fail`, crashes and calls are not fair.
* Workflow runtime: a process whose next statement can run runs it, and row locks
  are given to each waiter (strong fairness of a process's steps, PostgreSQL
  queues waiters). Calls, time, agents and crashes are not fair.
* Python store: a process whose next statement can run runs it (weak fairness of
  `Progress`), and PostgreSQL's waiters for an index entry are queued (strong
  fairness of `EnterIndex`). SQLite's writers need none: they give up after the
  busy timeout, which is a step of theirs.
* The other Python modules have safety properties only; `CallsEndCaughtUp` says
  what holds when a call returns.

## The proofs

`EventStoreProofs` proves, for any number of writers, traces, keys and
envelopes, from the assumptions named in `EventLog` and `EventStore`
(envelopes are records of the right type; `NoWriter` is not a writer):
`TypeCorrect`, `TracesWellFormed`, `NamesUnique`, `LogOrdersTraces`,
`NoStaleChecks`, `Refinement` (`Spec => ImplementsDecisionLog`) and
`FeedRefinement` (`Spec => ImplementsAppendFeed`).

None of these invariants is inductive alone. The strengthening adds who holds
the trace's lock in which stage (so two transactions past the lock are on
different traces), that the log_seq of every committed row and of every
uncommitted one lies below the next value of the sequence and all differ, that
a row's trace has only smaller log_seq in the log while it is uncommitted, and
that what was checked still holds (`ChecksStayValid`). The lock gives the
last: a commit of another transaction concerns another trace
(`LogUnchanged` and its neighbours carry the facts about a trace across such a
commit). Dense traces need the argument that the maximum plus one is the only
number that extends `0 .. n` (`NextOfDense`, `DenseBelowNext`). The refinements
map every step to one abstract step or to a stutter, with the invariant.

`ReplayCoordinatorProofs` proves `TypeCorrect`, `MapsAgree`, `ScopesExclude` and
`CompletedRan` for any number of projections, jobs and crashes. The invariant
adds that ids not given out are unknown, that a governed task's job is listed,
and that the last message of a task tells the truth about it while it waits in
the mailbox; the last two are what late messages could break.

`ReferenceStoreProofs` proves, for either backend and any number of processes,
traces and envelopes, whatever their keys, `TypeCorrect`, `RowsAppearInOrder`
(`Spec => AppendsInOrder`) and `Refinement` (`Spec => ImplementsDecisionLog`). Here
nothing keeps a check valid, so the invariant says what is left of it. A row whose process has checked
`trace_seq` n has no gap below n (`CheckInv`), which later commits cannot undo;
if another commit made n stale, n is taken (`CommitTakesSeq`), and `RowInv` states
every other fact about the row as "or its `trace_seq` is taken". `EntryInv` says
that past an index a row has the only entry of its value, committed or not. At
the commit the row is past all indexes, so its `trace_seq` is free, so the checks
hold after all (`CommittedRow`).

`ProjectionProofs` proves `TypeCorrect`, `StaleBatchesDiverge` (`Spec =>
OnlyStaleBatchesDiverge`), `StaleBatchesRewind` (`OnlyStaleRewinds`) and `GapsSkip`
(`OnlyGapsSkip`) for any number of overlapping runs, rebuilds, traces, uncommitted
rows and faults, every batch size, `until_log_seq` and projection, and without a
hypothesis on who runs when. The argument has two halves. If S holds what precedes
an event in its trace and nothing later, `ProjectEvent` takes `RowsOf(S)` to
`RowsOf(S \cup {s})` (`ProjectNext`), and an event that is in S already changes
nothing where rows are idempotent (`ProjectAgain`). And the holder of the lock has
added its part of the batch to the rows of any such S, whatever the tables were
when it took the lock (`Adds`, in `HolderInv`), since nobody changes them under it.
So at a commit the tables are those of the log up to the new cursor unless they were
not before, or the batch is not what lies between cursor and new cursor: `IsStale`
or `HasGap`. With one run and one uncommitted row at a time neither occurs, which
is why TLC finds `RowsMatchLog` in the run `projection`.

`ProjectionDigestsProofs` proves `TypeCorrect`, `FullHasMinimum` and
`CommitIsFresh` for any number of processes, transactions and rollbacks. No lock
spans the three projections, so nothing says at first sight why the cursors read
for the minimum are still the cursors at the commit. The argument: every
transaction writes the row of context_graph first and keeps it, so one at a time
is past that row (`OnePastFirst`); only that one can commit; so no cursor moves
between its reads for the minimum and its commit (`MinimumInv`). That the three
cursors are read a second time, after the row was taken, is needed: the mutant
that takes the minimum from the rows just written fails.

`ProjectionWorkerProofs` proves `TypeCorrect` and `NoWakeupLost` for any number of
requests, projections, events, retries, restarts, deaths and faults. The invariant
follows an event from its cast on (`Followed`): it is projected, or the process is
gone, or a message waits, or the sync that runs began after the event was in the
log, or the last one did and failed terminally. That the worker notes the time at
which its sync begins, before it reads the cursor, is what carries this through a
failure. A request keeps the promise for the projections it has told (`Told`), so
that it holds for all of them when it answers.

`WorkflowRuntimeProofs` proves, for any number of overlapping calls, items, events
and crashes, `TypeCorrect`, `RefreshIsWhole`, `DecisionsAreBacked`,
`AnsweredDecisionIsApplied`, `RetryRecordsOnce` and `NoticesAreAudited`. The
invariant (`Inv`) says what one process may hold while others go on: the drafts
and rows of the one refresh in progress are those of the events between the cursor
and its position (`RefreshInv`), each row it may write back is backed by the log it
was read from, and the log only grows (`RunInvKeeps` carries this across the steps
of others). Two more theorems say which steps of overlapping calls can do harm:
`StaleWritesReopen` (`OnlyStaleWritesReopen`) that a closed item reopens only when a
call writes it from a row that has changed since, or when the refresh that closed
it is rolled back, and `SweepsAreWhole` (`SweptUnlessWritten`) that an answer shows
an overdue item its sweep did not list only if another call wrote it meanwhile. Both
are about the newest version of a row, which is the draft of the one refresh that
holds it or the committed row (`NewestIs`); each step is shown to keep it closed, or
swept, when what it writes was read from it (`StepKeeps`, `StepSweeps`).

The type invariants of `EventStore`, `Projection`, `ProjectionWorker`, `ProjectionDigests`, `ReplayCoordinator`,
`WorkflowRuntime` and `ReferenceStore` are proved, so no run repeats them.

The remaining theorems are about what loops compute: scripts run statement by
statement, batches are projected event by event, searches go depth by depth. The
library's induction theorems take an operator as a parameter, which none of the
provers can instantiate. `IntervalInduction` takes a set instead: if S holds 0
and, with n - 1, also n, then it holds all of `0 .. N`, for otherwise there were a
least number outside it (`WFMin`). A step of an argument by induction is then an
ordinary lemma about one statement, event or edge.

`ReferenceStoreProofs` proves of `Migrations`, for every list of scripts and any
number of processes and interruptions, `MigrationsInvariance`, `OpenedStores`
(`OpenedIsComplete`) and `WholePostgres` (`PostgresIsWhole`). A SQLite script that
was interrupted is run again from its first statement on what the earlier run
left. The invariant says that the recorded versions are the first c and, until two
scripts meet (`raced`), that one process at most is inside a script, number c + 1
(`RunsAlone`), and what earlier runs of it left (`InProgress`): statements up to some k have
run before, and an object that the present run touched, or that no run did, is as in
a clean run at this point (`Agrees`); of one that only an earlier run touched it says
nothing. Nothing needs to be said: the next statement that touches it either fails (a
CREATE of what is there), and the constructor raises, or leaves it as in a clean run.
So whoever gets to the end of the scripts has the whole schema. When scripts meet,
what remains is the record: a version is recorded once and in order, whoever is
second being refused.

`ReferenceGraphProofs` proves of the embedded projector, for any traces, scripts,
batch sizes and length of the log, wherever batches and rebuilds fail,
`GraphInvariance` and from it `ProjectionIsOfTheLog` (`ProjectionMatchesLog`),
`MismatchesAloneStop` (`OnlyMismatchesStop`) and `CallsReturnCaughtUp`
(`CallsEndCaughtUp`). The invariant `GraphInv` is that there is one m such that the
memory holds cursor m and the next `trace_seq` of every trace as of m, no event up
to m has a mismatching hash, and the call under way goes on from m; the cursor of
the tables is one of that kind, too, but perhaps another; with `LogInv`, what the
store guarantees (`trace_seq` without gaps, a trace starts first and ends with its
finish, policies have id and version). A rebuild that fails keeps all this, and
takes away no more than that the tables are `TablesUpTo` of the memory's cursor
(`InStep`), which every other step keeps. `ProjectNext` shows for each of the ten
event types that the handlers turn `TablesUpTo(n)` into `TablesUpTo(n + 1)`:
INSERT OR IGNORE adds the nodes nobody mentioned before (`EmissionInserted`,
`MentionedAreNodes`), a finish updates the one summary of its trace, and the
precedents it builds from all the trace's events are those of the log, since
nothing follows a finish.

Of the queries it proves, for any limits, filters and depths,
`PrecedentsAreOfTheLog` (`PrecedentsMatchLog`), `PagesMissNothing`
(`PagesAreComplete`) and `SubgraphsAreOfTheLog` (`SubgraphIsTruthful`). All rest
on what ORDER BY returns (`Ranks`, `Ordered`, `ListsOnce`: every row once, in the
order, and there is only one such list). For the pages the invariant `ReadingInv`
says that what was read is the list of the edges up to the cursor; an append adds
edges behind every cursor, because its log_seq is greater, and a replay brings
back the same edges before the next page is answered. For the subgraph `Visited`
says what a frontier's loop has added after each edge and `Knows` what the walk knows
after each depth: all that is as near, or, if it is truncated, some of it with something
missing, which no later depth brings back. Every end of an edge has a row, and no
node has two (`EndsAreNodes`, `OneRowPerNode`); this carries it over to the rows
returned.

Only model-checked: liveness (`EveryAppendEnds`, `CatchesUp`, `Converges`,
`AcknowledgedIsSynced`, `EveryBatchEnds`, `EveryRunEnds`, `ScopesAreReleased`,
`EveryCallEnds`), because the prover does not reason about `ENABLED`; and what
depends on the bounds of its run: `RowsMatchLog` and `OverdueIsEscalated` (one run,
one call at a time), `NothingSkipped` and `ResolvedIsProjected` (rows that become
visible in order, and no rebuild beside a catch-up). Of the first three a theorem
says what is left without the bounds (`StaleBatchesDiverge`, `SweepsAreWhole`,
`GapsSkip`). Every other property of a passing run is stated by a theorem.

## Not modelled, and why

* Digests: which rows a hash is computed from; contents are numbers.
* How long a worker's timers take (poll interval, exponential delay of retries):
  they fire some time. The status call, and workers of other nodes, whose casts and
  timers are their own; that they move the same cursor is in `Projection`.
* Of the workflow runtime: assignees, priorities, reasons, policies, listings and
  the review studio. A second tenant (items are keyed without it), and the
  notification that is lost when a repeated request restarts the count of
  escalations, are listed as hazards.
* `Store.clear`, and `clear` of the Python stores: a reset for demos and tests,
  one statement per table.
* Of the Python implementation: the guard against personal data; a second process
  that projects (the documents make the embedded mode a single-process one; its
  cursor lives in memory); the cursor of PostgreSQL passing a `log_seq` that
  commits later, which is the gap shown of the Elixir projections; a retry under
  the default key, which contains the `trace_seq` and so appends twice. The last
  two are listed as hazards.
* Benchmarks, the service client, test support and demos.
* Payload validation, canonical JSON and hashes: pure functions of a value; the
  model keeps "equal or different".
* Queries, console, web, authentication, rate limiting, observability: they read,
  format or count, and change nothing the rest reads.

## Plan

1. Done: `EventLog`, `DecisionLog`, `AppendFeed`, `EventStore`, with proofs.
2. Done: `Projection` and `ProjectionDigests`, with proofs.
3. Done: `ReplayCoordinator`, with proofs.
4. Done: `ProjectionWorker` with the append of `Api.Events`, with proofs.
5. Done: `WorkflowRuntime` with proofs.
6. Done: `ReferenceStore`, `Migrations`, `ContextGraph`, `ReferenceGraph`,
   `ReferenceQueries`, with proofs.
