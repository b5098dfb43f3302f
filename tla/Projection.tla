----------------------------- MODULE Projection -----------------------------
(***************************************************************************)
(* DecisionGraph.Projector.Write on one projection scope (a tenant and a   *)
(* projection name): catch_up, rebuild and the batch transaction, run by   *)
(* any number of processes (the steady-state worker, replay jobs) while    *)
(* events are appended.                                                    *)
(*                                                                         *)
(* A catch-up reads the cursor, the per-trace tracker and each batch       *)
(* outside a transaction.  Only the transaction that projects a batch, and *)
(* the one that clears the scope, hold the advisory lock of the scope.     *)
(***************************************************************************)
EXTENDS AppendFeed, FiniteSets

CONSTANTS
    Projection,  \* the projection names the scope may have
    Runner,      \* processes that run catch_up or rebuild
    Modes,       \* what each of them runs: "catch_up", "rebuild"
    Worker,      \* the runner that records its terminal failures
    NoRunner,    \* the holder of a free lock
    BatchSize,
    Until,       \* the until_log_seq a run may be given
    MaxActive,   \* at most so many runs at a time
    MaxInserted, \* at most so many uncommitted rows at a time
    MaxLogSeq,   \* bound on the log_seq given out
    MaxFaults    \* bound on crashes and storage errors

ASSUME ProjectionAssumption ==
    /\ Projection \subseteq {"context_graph", "trace_summary", "precedent_index"}
    /\ Modes \in [Runner -> SUBSET {"catch_up", "rebuild"}]
    /\ NoRunner \notin Runner
    /\ BatchSize \in Nat \ {0}
    /\ Worker \in Runner
    /\ MaxFaults \in Nat
    /\ Until \subseteq Nat /\ MaxLogSeq \in Until  \* which stands for no until_log_seq

VARIABLES
    projection,  \* the name of the projection
    tables,      \* the committed rows of its tables
    cursor,      \* its row in dg_projection_cursors
    failures,    \* the log_seq of its open rows in dg_projection_failures
    lock,        \* holder of the scope's advisory lock
    run,         \* how far each runner is, with its local variables
    faults       \* crashes and storage errors so far

scopeVars == <<projection, tables, cursor, failures, lock, run, faults>>

vars == <<feedVars, scopeVars>>

-----------------------------------------------------------------------------
(***************************************************************************)
(* The tables of the three projections.  "items" are the nodes and edges   *)
(* of the context graph with the log_seq of the event that first wrote     *)
(* them; policies are the rows of dg_policy_eval_index, precedents those   *)
(* of dg_precedent_index.  A Step stands for PolicyEvaluated, the type     *)
(* that concerns the graph and the precedents.                             *)
(***************************************************************************)
NoRows == [items |-> {}, summaries |-> {}, policies |-> {}, precedents |-> {}]

\* ContextGraph.emit, and the placeholder nodes of the edges.
Emitted(e) == IF e.type = "TraceFinished" THEN {} ELSE {e.trace, e.content, e.id}

\* Mutant: ON CONFLICT DO UPDATE.
GraphLastWriter(rows, s) ==
    [rows EXCEPT !.items = {i \in @ : i.item \notin Emitted(s.event)}
                              \cup {[item |-> i, log_seq |-> s.log_seq] : i \in Emitted(s.event)}]

\* INSERT ... ON CONFLICT DO NOTHING
ProjectGraph(rows, s) ==
    LET known == {i.item : i \in rows.items}
    IN  [rows EXCEPT !.items = @ \cup {[item |-> i, log_seq |-> s.log_seq] :
                                          i \in Emitted(s.event) \ known}]

\* on_trace_started! (an upsert) and on_trace_finished! (an update).
ProjectSummary(rows, s) ==
    LET t == s.event.trace
        mine == {r \in rows.summaries : r.trace = t}
        counted == {[r EXCEPT !.count = @ + 1, !.last = s.log_seq] : r \in mine}
    IN  CASE s.event.type = "TraceStarted" ->
                [rows EXCEPT !.summaries = (@ \ mine) \cup
                    IF mine = {} THEN {[trace |-> t, finished |-> FALSE, count |-> 1, last |-> s.log_seq]}
                    ELSE counted]
          [] s.event.type = "TraceFinished" ->
                [rows EXCEPT !.summaries = (@ \ mine) \cup {[r EXCEPT !.finished = TRUE] : r \in counted}]
          [] OTHER -> rows

\* on_policy_evaluated! and build_precedent_index!, which reads the log.
ProjectPrecedent(rows, s) ==
    CASE s.event.type = "Step" -> [rows EXCEPT !.policies = @ \cup {s}]
      [] s.event.type = "TraceFinished" ->
            [rows EXCEPT !.precedents =
                {r \in @ : r.event.trace # s.event.trace}
                    \cup {r \in EventsOf(s.event.trace) : r.event.type = "Step"}]
      [] OTHER -> rows

ProjectRow(rows, s) ==
    CASE projection = "context_graph" -> ProjectGraph(rows, s)
      [] projection = "trace_summary" -> ProjectSummary(rows, s)
      [] projection = "precedent_index" -> ProjectPrecedent(rows, s)

-----------------------------------------------------------------------------
(***************************************************************************)
(* Reads of the log.                                                       *)
(***************************************************************************)
UpTo(n) == {s \in log : s.log_seq <= n}

\* The order of list_events.
Earlier(s, B) == {r \in B : r.log_seq < s.log_seq}

\* Mutant: until_log_seq is exclusive.
BatchBeforeUntil(n, until) ==
    LET pending == {s \in UpTo(until) : s.log_seq > n /\ s.log_seq < until}
    IN  {s \in pending : Cardinality(Earlier(s, pending)) < BatchSize}

\* One batch of iter_event_batches.
BatchAfter(n, until) ==
    LET pending == {s \in UpTo(until) : s.log_seq > n}
    IN  {s \in pending : Cardinality(Earlier(s, pending)) < BatchSize}

\* load_trace_seq_tracker: the next trace_seq of each trace, as of the cursor.
TrackerAt(n) ==
    [t \in Trace |-> LET seqs == {s.event.trace_seq : s \in UpTo(n) \cap EventsOf(t)}
                     IN  IF seqs = {} THEN 0 ELSE MaxOf(seqs) + 1]

-----------------------------------------------------------------------------
Idle == [stage |-> "idle", since |-> 0, until |-> 0,
         tracker |-> [t \in Trace |-> 0], batch |-> {}, todo |-> {}, rows |-> NoRows]

Stage == {"idle", "clear", "cursor", "tracker", "fetch", "lock", "project",
          "find", "report", "stopped"}

Init ==
    /\ InitFeed
    /\ projection \in Projection
    /\ tables = NoRows
    /\ cursor = 0
    /\ failures = {}
    /\ lock = NoRunner
    /\ run = [r \in Runner |-> Idle]
    /\ faults = 0

Active == {r \in Runner : run[r].stage \notin {"idle", "stopped"}}

\* The runner's process goes on with other local variables.
Become(r, new) == run' = [run EXCEPT ![r] = new]

Move(r, from, new) ==
    /\ run[r].stage = from
    /\ Become(r, new)
    /\ UNCHANGED <<feedVars, projection, faults>>

(***************************************************************************)
(* Appends, with the bounds of the model.                                  *)
(***************************************************************************)
Append ==
    /\ \/ /\ Cardinality(inserted) < MaxInserted
          /\ nextLogSeq <= MaxLogSeq
          /\ \E e \in Envelope : InsertRow(e)
       \/ \E s \in inserted : CommitRow(s) \/ RollbackRow(s)
    /\ UNCHANGED scopeVars

(***************************************************************************)
(* A runner starts: the worker's timer, a sync cast, or a replay job.      *)
(***************************************************************************)
Start(r, mode, until) ==
    /\ r \notin Active
    /\ mode \in Modes[r]
    /\ Cardinality(Active) < MaxActive
    /\ Become(r, [Idle EXCEPT !.stage = IF mode = "rebuild" THEN "clear" ELSE "cursor",
                              !.until = until])
    /\ UNCHANGED <<feedVars, projection, tables, cursor, failures, lock, faults>>

\* clear_projection, one transaction.
Clear(r) ==
    /\ Move(r, "clear", [run[r] EXCEPT !.stage = "cursor"])
    /\ lock = NoRunner
    /\ tables' = NoRows
    /\ cursor' = 0
    /\ failures' = {}
    /\ UNCHANGED lock

(***************************************************************************)
(* catch_up.                                                               *)
(***************************************************************************)
ReadCursor(r) ==
    /\ Move(r, "cursor", [run[r] EXCEPT !.stage = "tracker", !.since = cursor])
    /\ UNCHANGED <<tables, cursor, failures, lock>>

LoadTracker(r) ==
    /\ Move(r, "tracker", [run[r] EXCEPT !.stage = "fetch", !.tracker = TrackerAt(run[r].since)])
    /\ UNCHANGED <<tables, cursor, failures, lock>>

\* The run ends when nothing is left, or until_log_seq lies before the cursor.
ReadBatch(r) ==
    /\ LET batch == BatchAfter(run[r].since, run[r].until)
       IN  Move(r, "fetch", IF batch = {} THEN Idle
                            ELSE [run[r] EXCEPT !.stage = "lock", !.batch = batch, !.todo = batch])
    /\ UNCHANGED <<tables, cursor, failures, lock>>

(***************************************************************************)
(* project_batch: lock, project the events in log_seq order, then move the *)
(* cursor and resolve the failures it passes.  An event out of its trace's *)
(* order, or a storage error, rolls the transaction back and ends the run. *)
(***************************************************************************)
AcquireProjectionLock(r) ==
    /\ lock = NoRunner
    /\ lock' = r
    /\ Move(r, "lock", [run[r] EXCEPT !.stage = "project", !.rows = tables])
    /\ UNCHANGED <<tables, cursor, failures>>

\* The event of the batch that comes next.
IsNext(r, s) == s \in run[r].todo /\ Earlier(s, run[r].todo) = {}

\* The worker records a failure that it does not retry for the event it names.
Halted(r, s) ==
    IF r = Worker THEN [Idle EXCEPT !.stage = "report", !.since = s.log_seq] ELSE Idle

ProjectEvent(r) ==
    \E s \in run[r].todo :
        /\ IsNext(r, s)
        /\ IF s.event.trace_seq = run[r].tracker[s.event.trace]
           THEN /\ Move(r, "project",
                        [run[r] EXCEPT !.todo = @ \ {s},
                                       !.tracker[s.event.trace] = @ + 1,
                                       !.rows = ProjectRow(@, s)])
                /\ UNCHANGED lock
           ELSE /\ Move(r, "project", Halted(r, s))
                /\ lock' = NoRunner
        /\ UNCHANGED <<tables, cursor, failures>>

\* The log_seq of the last event of a batch.
LastOf(batch) == MaxOf({s.log_seq : s \in batch})

\* The run goes on after its batch, which is committed.
NextBatch(r) ==
    [run[r] EXCEPT !.stage = "fetch", !.since = LastOf(run[r].batch), !.batch = {}, !.rows = NoRows]

\* Mutant: the cursor does not move with the rows.
CommitRowsOnly(r) ==
    /\ run[r].todo = {}
    /\ Move(r, "project", NextBatch(r))
    /\ tables' = run[r].rows
    /\ failures' = {n \in failures : n > LastOf(run[r].batch)}
    /\ lock' = NoRunner
    /\ UNCHANGED cursor

\* Mutant: every failure of the scope is resolved.
CommitResolvingAll(r) ==
    /\ run[r].todo = {}
    /\ Move(r, "project", NextBatch(r))
    /\ tables' = run[r].rows
    /\ cursor' = LastOf(run[r].batch)
    /\ failures' = {}
    /\ lock' = NoRunner

\* Mutant: the lock outlives the transaction.
CommitKeepLock(r) ==
    /\ run[r].todo = {}
    /\ Move(r, "project", NextBatch(r))
    /\ tables' = run[r].rows
    /\ cursor' = LastOf(run[r].batch)
    /\ failures' = {n \in failures : n > LastOf(run[r].batch)}
    /\ UNCHANGED lock

CommitBatch(r) ==
    /\ run[r].todo = {}
    /\ Move(r, "project", NextBatch(r))
    /\ tables' = run[r].rows
    /\ cursor' = LastOf(run[r].batch)
    /\ failures' = {n \in failures : n > LastOf(run[r].batch)}
    /\ lock' = NoRunner

(***************************************************************************)
(* Errors and crashes.                                                     *)
(***************************************************************************)
Unlock(r) == lock' = IF lock = r THEN NoRunner ELSE lock

\* An error carries the cursor its batch was read after only if it is raised
\* inside project_batch; otherwise failed_event_for takes 0.
Blamed(r) ==
    [Idle EXCEPT !.stage = "find",
                 !.since = IF run[r].stage \in {"lock", "project"} THEN run[r].since ELSE 0]

\* The worker's last retry fails with a storage error: while it projects an
\* event, which the error names, or anywhere else in the run.
FailTerminally(r) ==
    /\ r = Worker /\ faults < MaxFaults
    /\ \/ /\ run[r].stage = "project"
          /\ \E s \in run[r].todo : IsNext(r, s) /\ Become(r, Halted(r, s))
       \/ /\ run[r].stage \in {"cursor", "tracker", "fetch", "lock", "project"}
          /\ Become(r, Blamed(r))
    /\ Unlock(r)
    /\ faults' = faults + 1
    /\ UNCHANGED <<feedVars, projection, tables, cursor, failures>>

\* failed_event_for takes the first event after that cursor, if there is one.
FindFailedEvent(r) ==
    LET later == {s \in log : s.log_seq > run[r].since}
    IN  /\ IF later = {} THEN Move(r, "find", [Idle EXCEPT !.stage = "stopped"])
           ELSE \E s \in later : Earlier(s, later) = {} /\ Move(r, "find", Halted(r, s))
        /\ UNCHANGED <<tables, cursor, failures, lock>>

\* ... or none, when the log still cannot be read.
FindNone(r) ==
    /\ Move(r, "find", [Idle EXCEPT !.stage = "stopped"])
    /\ UNCHANGED <<tables, cursor, failures, lock>>

\* record_failure!.  No timer is left: the worker waits for a sync cast.
RecordFailure(r) ==
    /\ Move(r, "report", [Idle EXCEPT !.stage = "stopped"])
    /\ failures' = failures \cup {run[r].since}
    /\ UNCHANGED <<tables, cursor, lock>>

\* A storage error that is retried, cancel_replay, or the death of the process.
Crash(r) ==
    /\ r \in Active /\ faults < MaxFaults
    /\ Become(r, Idle)
    /\ Unlock(r)
    /\ faults' = faults + 1
    /\ UNCHANGED <<feedVars, projection, tables, cursor, failures>>

-----------------------------------------------------------------------------
Progress(r) ==
    \/ ReadCursor(r) \/ LoadTracker(r) \/ ReadBatch(r)
    \/ ProjectEvent(r) \/ CommitBatch(r) \/ FindFailedEvent(r) \/ RecordFailure(r)

Next ==
    \/ Append
    \/ \E r \in Runner :
          \/ \E mode \in Modes[r], until \in Until : Start(r, mode, until)
          \/ Clear(r)
          \/ AcquireProjectionLock(r)
          \/ Progress(r)
          \/ FailTerminally(r)
          \/ FindNone(r)
          \/ Crash(r)

(***************************************************************************)
(* A process that runs goes on, a lock is granted to each waiter, and the  *)
(* worker's poll timer fires unless it has failed terminally.              *)
(***************************************************************************)
Poll == /\ run[Worker].stage = "idle"
        /\ Start(Worker, "catch_up", MaxLogSeq)

Fairness ==
    /\ \A r \in Runner : /\ WF_vars(Progress(r))
                         /\ SF_vars(Clear(r))
                         /\ SF_vars(AcquireProjectionLock(r))
    /\ SF_vars(Poll)

Spec == Init /\ [][Next]_vars

FairSpec == Spec /\ Fairness

-----------------------------------------------------------------------------
(***************************************************************************)
(* What the tables hold when exactly the events S have been projected.     *)
(***************************************************************************)
Counted(S, t) == {s \in S : s.event.trace = t /\ s.event.type # "Step"}

RowsOf(S) ==
    [items |->
        IF projection # "context_graph" THEN {}
        ELSE UNION {{[item |-> i, log_seq |-> s.log_seq] :
                        i \in {j \in Emitted(s.event) :
                                 \A r \in Earlier(s, S) : j \notin Emitted(r.event)}} : s \in S},
     summaries |->
        IF projection # "trace_summary" THEN {}
        ELSE {[trace |-> t,
               finished |-> \E s \in Counted(S, t) : s.event.type = "TraceFinished",
               count |-> Cardinality(Counted(S, t)),
               last |-> MaxOf({s.log_seq : s \in Counted(S, t)})] :
                 t \in {s.event.trace : s \in {r \in S : r.event.type = "TraceStarted"}}},
     policies |->
        IF projection # "precedent_index" THEN {}
        ELSE {s \in S : s.event.type = "Step"},
     precedents |->
        IF projection # "precedent_index" THEN {}
        ELSE {s \in S : /\ s.event.type = "Step"
                        /\ \E r \in S : r.event.trace = s.event.trace /\ r.event.type = "TraceFinished"}]

-----------------------------------------------------------------------------
(***************************************************************************)
(* The types of the variables.                                             *)
(***************************************************************************)
IsRows(x) ==
    /\ x.items \subseteq [item : Trace \cup Content \cup EventId, log_seq : Nat]
    /\ x.summaries \subseteq [trace : Trace, finished : BOOLEAN, count : Nat, last : Nat]
    /\ x.policies \cup x.precedents \subseteq StoredEvent

TypeOK ==
    /\ log \cup inserted \subseteq StoredEvent
    /\ nextLogSeq \in Nat \ {0}
    /\ projection \in Projection
    /\ IsRows(tables)
    /\ cursor \in Nat
    /\ failures \subseteq Nat
    /\ lock \in Runner \cup {NoRunner}
    /\ \A r \in Runner :
          /\ run[r].stage \in Stage
          /\ run[r].since \in Nat /\ run[r].until \in Nat
          /\ run[r].tracker \in [Trace -> Nat]
          /\ run[r].todo \subseteq run[r].batch /\ run[r].batch \subseteq log
          /\ IsRows(run[r].rows)
    /\ faults \in 0 .. MaxFaults

(***************************************************************************)
(* The tables hold exactly the events up to the cursor, each projected     *)
(* once: after crashes, errors and rebuilds, and whatever the batches      *)
(* were.                                                                   *)
(***************************************************************************)
RowsMatchLog == tables = RowsOf(UpTo(cursor))

(***************************************************************************)
(* What can go wrong with a batch between its read, outside the            *)
(* transaction, and its commit: somebody else moved the cursor, or a row   *)
(* of another trace, with a log_seq it has passed, became visible.         *)
(***************************************************************************)
IsStale(r) == run[r].since # cursor

HasGap(r) == UpTo(LastOf(run[r].batch)) \ UpTo(run[r].since) # run[r].batch

(***************************************************************************)
(* However many runs overlap, whatever they clear and in whichever order   *)
(* rows become visible: the tables stop being those of the log only when   *)
(* a row becomes visible behind the cursor, or when the holder of the lock *)
(* commits a batch that is stale or has a gap.                             *)
(***************************************************************************)
OnlyStaleBatchesDiverge ==
    [][RowsMatchLog /\ ~RowsMatchLog'
         => \/ \E s \in log' \ log : s.log_seq <= cursor
            \/ lock \in Runner /\ (IsStale(lock) \/ HasGap(lock))]_vars

(***************************************************************************)
(* The tables are those of some prefix of the log that reaches to n.  No   *)
(* event the cursor has passed is missing when they reach to the cursor.   *)
(***************************************************************************)
Reaches(n) == \E m \in n .. MaxLogSeq : tables = RowsOf(UpTo(m))

NothingSkipped == Reaches(cursor)

(***************************************************************************)
(* Where rows are written idempotently, a stale batch alone skips nothing: *)
(* that takes a row that becomes visible out of order, or a batch with a   *)
(* gap, or one that follows events the tables do not have (any more).      *)
(***************************************************************************)
OnlyGapsSkip ==
    [][NothingSkipped /\ ~NothingSkipped'
         => \/ \E s \in log' \ log, r \in log : s.log_seq < r.log_seq
            \/ lock \in Runner /\ (HasGap(lock) \/ ~Reaches(run[lock].since))
            \/ projection = "trace_summary"]_vars

(***************************************************************************)
(* An open failure is about an event that is not projected yet.            *)
(***************************************************************************)
FailuresAhead == \A n \in failures : cursor < n

(***************************************************************************)
(* A failure is resolved by clearing the scope, or by a commit after which *)
(* the tables have its event, whoever has projected it meanwhile.          *)
(***************************************************************************)
ResolvedIsProjected == [][\A n \in failures \ failures' : cursor' = 0 \/ Reaches(n)']_vars

(***************************************************************************)
(* The cursor moves back when the scope is cleared, and the tables are     *)
(* emptied in the same transaction; otherwise only a batch that was read   *)
(* before the cursor moved takes it back.                                  *)
(***************************************************************************)
OnlyStaleRewinds ==
    [][cursor' < cursor => \/ cursor' = 0 /\ tables' = NoRows
                           \/ lock \in Runner /\ IsStale(lock)]_vars

(***************************************************************************)
(* When appends pause, the projection catches up with the log, whatever    *)
(* was cleared or crashed, unless the worker has failed terminally.        *)
(***************************************************************************)
CatchesUp == []<>(UpTo(cursor) = log \/ run[Worker].stage = "stopped")

(***************************************************************************)
(* When nobody works on the scope and the cursor has reached the end of    *)
(* the log, the tables are those of a replay of the log: catch-ups and     *)
(* rebuilds, in whatever order and number, converge.                       *)
(***************************************************************************)
CaughtUpEqualsReplay == Active = {} /\ UpTo(cursor) = log => tables = RowsOf(log)

(***************************************************************************)
(* When appends pause, the tables become those of a replay of the log and  *)
(* stay so, unless the worker has failed terminally.                       *)
(***************************************************************************)
Converges == <>[](tables = RowsOf(log)) \/ []<>(run[Worker].stage = "stopped")
=============================================================================
