--------------------------- MODULE ReferenceGraph ---------------------------
(***************************************************************************)
(* DecisionGraph, the embedded API of the Python package: one process      *)
(* appends events, projects them and can sync or replay its projections,   *)
(* while others append to the same database without projecting.            *)
(*                                                                         *)
(* An append and the projection of what it appended are transactions of    *)
(* their own, as is each batch; the process keeps the cursor and, per      *)
(* trace, the next trace_seq in memory.  It can die between any two        *)
(* transactions.  A rebuild that fails is not rolled back: on SQLite its   *)
(* transaction stays open, on PostgreSQL the connection refuses whatever   *)
(* follows.  The store is that of ReferenceStore, with one writer at a     *)
(* time: log_seq is the position in the log.                               *)
(***************************************************************************)
EXTENDS ContextGraph, SequencesExt

CONSTANTS
    Trace,              \* trace ids
    Scripts,            \* Scripts[t]: the sequences of payloads callers may append to t
    DefaultBatchSize,   \* DEFAULT_PROJECTION_BATCH_SIZE
    BatchSizes,         \* what callers pass to sync and replay
    MaxLogSeq,          \* bound on the log
    FailingDeletes,     \* how many statements of a rebuild that fails succeed
    MaxFailures         \* bound on failed batches, failed rebuilds and crashes

ASSUME ReferenceGraphAssumption ==
    /\ DefaultBatchSize \in Nat \ {0} /\ BatchSizes \subseteq Nat \ {0}
    /\ MaxLogSeq \in Nat /\ MaxFailures \in Nat /\ FailingDeletes \subseteq 0 .. 6
    /\ \A t \in Trace : \A s \in Scripts[t] : s \in Seq(Range(s))

VARIABLES
    backend,    \* "sqlite" or "postgres"
    log,        \* dg_event_log, in the order of log_seq
    db,         \* the projection tables, as the connection of the process sees them
    undo,       \* what they become when its open transaction is rolled back, or None
    memory,     \* the projector object, Dead without a process
    call,       \* the call of the process that is projecting
    failures

vars == <<backend, log, db, undo, memory, call, failures>>

(***************************************************************************)
(* since and until are those of iter_event_batches, until = 0 without one; *)
(* target is the last event the caller may expect to find projected.  The  *)
(* state is "none" when the last call returned, "failed" or "rejected"     *)
(* when it raised, and "aborted" when all further calls will.              *)
(***************************************************************************)
NoCall == [state |-> "none", since |-> 0, until |-> 0, size |-> 0, target |-> 0]

Projecting(since, until, size, target) ==
    [state |-> "projecting", since |-> since, until |-> until, size |-> size, target |-> target]

Dead == [alive |-> FALSE, cursor |-> 0, tracker |-> [t \in Trace |-> 0]]

Init ==
    /\ backend \in {"sqlite", "postgres"}
    /\ log = << >>
    /\ db = EmptyTables
    /\ undo = None
    /\ memory = [Dead EXCEPT !.alive = TRUE]
    /\ call = NoCall
    /\ failures = 0

-----------------------------------------------------------------------------
(***************************************************************************)
(* Reading the log.                                                        *)
(***************************************************************************)
get_last_log_seq == Len(log)

get_trace_events(t) == {e \in Range(log) : e.trace = t}

\* SELECT MAX(trace_seq), plus one
NextAfter(events) == IF events = {} THEN 0 ELSE Max({e.trace_seq : e \in events}) + 1

get_next_trace_seq(t) == NextAfter(get_trace_events(t))

is_trace_finished(t) == \E e \in get_trace_events(t) : e.type = "TraceFinished"

\* Mutant: until is not included.
list_events_before(since, until, limit) ==
    SubSeq(log, since + 1, Min({since + limit, IF until = 0 THEN Len(log) ELSE until - 1}))

list_events(since, until, limit) ==
    SubSeq(log, since + 1, Min({since + limit, Len(log), IF until = 0 THEN Len(log) ELSE until}))

-----------------------------------------------------------------------------
(***************************************************************************)
(* The store accepts the next event of a trace.                            *)
(***************************************************************************)
Accepts(t, p) ==
    /\ Len(log) < MaxLogSeq
    /\ validate_payload_schema(p)
    /\ ~is_trace_finished(t)
    /\ p.type = "TraceStarted" <=> get_next_trace_seq(t) = 0

StoredEvent(t, p) ==
    [log_seq |-> Len(log) + 1, trace |-> t, trace_seq |-> get_next_trace_seq(t),
     type |-> p.type, about |-> p.about, with |-> p.with,
     payload_hash |-> compute_payload_hash(p)]

PayloadOf(e) == Payload(e.type, e.about, e.with)

\* What a caller who follows one of the scripts appends next.
Offered(t) ==
    LET n == get_next_trace_seq(t)
    IN  {s[n + 1] : s \in {r \in Scripts[t] :
            n < Len(r) /\ \A e \in get_trace_events(t) : PayloadOf(e) = json_round_trip(r[e.trace_seq + 1])}}

append_event(t, p) ==
    /\ p \in Offered(t)
    /\ Accepts(t, p)
    /\ log' = Append(log, StoredEvent(t, p))

Idle == memory.alive /\ call.state \notin {"projecting", "aborted"}

Raise(state) == call' = [NoCall EXCEPT !.state = state]

\* What the database has when the process's transaction is gone.
Committed == IF undo = None THEN db ELSE undo

(***************************************************************************)
(* _append_event: what it appended is projected with all before it.  The   *)
(* insert joins a transaction that is open, and the commit ends that.      *)
(***************************************************************************)
DoAppend(t) ==
    /\ Idle
    /\ \E p \in Offered(t) : append_event(t, p)
    /\ call' = Projecting(memory.cursor, Len(log'), DefaultBatchSize, Len(log'))
    /\ undo' = None
    /\ UNCHANGED <<backend, db, memory, failures>>

\* The insert or its commit fails, and the transaction that was open is rolled back.
AppendFails ==
    /\ Idle
    /\ undo # None
    /\ Raise("failed")
    /\ db' = undo
    /\ undo' = None
    /\ UNCHANGED <<backend, log, memory, failures>>

\* The same, returning a stored event that is not projected yet.
RetryAppend(n) ==
    /\ Idle
    /\ n \in 1 .. Len(log)
    /\ memory.cursor < n
    /\ call' = Projecting(memory.cursor, n, DefaultBatchSize, n)
    /\ UNCHANGED <<backend, log, db, undo, memory, failures>>

\* Another process appends, unless this one has deleted rows and thus holds the write lock.
OtherAppend(t) ==
    /\ undo = None \/ undo = db
    /\ \E p \in Offered(t) : append_event(t, p)
    /\ UNCHANGED <<backend, db, undo, memory, call, failures>>

sync_projections(size) ==
    /\ Idle
    /\ memory.cursor < Len(log)
    /\ call' = Projecting(memory.cursor, 0, size, Len(log))
    /\ UNCHANGED <<backend, log, db, undo, memory, failures>>

-----------------------------------------------------------------------------
(***************************************************************************)
(* rebuild: a DELETE per table, the cursor last; cursor and tracker in     *)
(* memory are reset with it.                                               *)
(***************************************************************************)
Deletes == <<"edges", "nodes", "precedents", "policies", "summaries", "cursor">>

\* The tables after the first k statements.
Deleted(k) ==
    [c \in DOMAIN db |-> IF \E i \in 1 .. k : Deletes[i] = c THEN EmptyTables[c] ELSE db[c]]

Reset == [Dead EXCEPT !.alive = TRUE]

rebuild ==
    /\ db' = Deleted(Len(Deletes))
    /\ memory' = Reset
    /\ undo' = None

replay_projections(size) ==
    /\ Idle
    /\ log # << >>
    /\ rebuild
    /\ call' = Projecting(0, 0, size, Len(log))
    /\ UNCHANGED <<backend, log, failures>>

RebuildRaises ==
    /\ Idle
    /\ log # << >>
    /\ failures < MaxFailures
    /\ failures' = failures + 1
    /\ UNCHANGED <<backend, log>>

(***************************************************************************)
(* On SQLite the statement after the first k fails, or with k = 6 the      *)
(* commit, which comes after memory has been reset.  Nobody rolls back,    *)
(* but the database does so itself for some errors.                        *)
(***************************************************************************)
RebuildFailsSqlite(k) ==
    /\ backend = "sqlite"
    /\ RebuildRaises
    /\ Raise("failed")
    /\ memory' = IF k = Len(Deletes) THEN Reset ELSE memory
    /\ \/ db' = Deleted(k) /\ undo' = Committed
       \/ db' = Committed /\ undo' = None

\* On PostgreSQL memory is reset after the commit.  Without a rollback the connection is of no use.
RebuildFailsPostgres ==
    /\ backend = "postgres"
    /\ RebuildRaises
    /\ Raise("aborted") \/ Raise("failed")
    /\ UNCHANGED <<db, undo, memory>>

RebuildFails == RebuildFailsPostgres \/ \E k \in FailingDeletes : RebuildFailsSqlite(k)

-----------------------------------------------------------------------------
(***************************************************************************)
(* One event, in a transaction that already holds those before it.  The    *)
(* projection is [db, cursor, tracker]; Rejected if an exception is        *)
(* raised: a hash that is not that of the payload as it is read back, a    *)
(* gap in the trace, or a policy without id or version.                    *)
(***************************************************************************)
Rejected == [db |-> EmptyTables, cursor |-> -1, tracker |-> [t \in Trace |-> 0]]

verify_payload_hash(e) == e.payload_hash = compute_payload_hash(PayloadOf(e))

check_trace_seq(p, e) == e.trace_seq = p.tracker[e.trace]

CanIndex(e, events) ==
    LET indexed == IF e.type = "TraceFinished" THEN events ELSE {e}
    IN  \A f \in indexed :
            /\ f.type = "PolicyEvaluated" => HasPolicy(f.about)
            /\ f.type = "ExceptionRequested" /\ e.type = "TraceFinished" => HasPolicy(f.with)

insert_emission(tables, e) ==
    insert_edges(insert_nodes(tables, emit(e).nodes), emit(e).edges, e)

update_indexes(tables, e, events) ==
    CASE e.type = "TraceStarted"    -> on_trace_started(tables, e)
      [] e.type = "TraceFinished"   -> on_trace_finished(tables, e, events)
      [] e.type = "PolicyEvaluated" -> on_policy_evaluated(tables, e)
      [] OTHER                      -> tables

project_event_in_tx(p, e) ==
    LET events == get_trace_events(e.trace)
        tables == update_indexes(insert_emission(p.db, e), e, events)
    IN  IF \/ p = Rejected \/ ~verify_payload_hash(e)
           \/ ~check_trace_seq(p, e) \/ ~CanIndex(e, events)
        THEN Rejected
        ELSE [db |-> [tables EXCEPT !.cursor = e.log_seq],
              cursor |-> e.log_seq,
              tracker |-> [p.tracker EXCEPT ![e.trace] = e.trace_seq + 1]]

ProjectFrom(start, events) ==
    LET projected[n \in 0 .. Len(events)] ==
            IF n = 0 THEN start ELSE project_event_in_tx(projected[n - 1], events[n])
    IN  projected[Len(events)]

project_events_in_tx(events) ==
    ProjectFrom([db |-> db, cursor |-> memory.cursor, tracker |-> memory.tracker], events)

(***************************************************************************)
(* The command "replay": the log as it is, copied into a store in memory   *)
(* and projected there as one batch.                                       *)
(***************************************************************************)
load_replay_store(events) ==
    ProjectFrom([db |-> EmptyTables, cursor |-> 0, tracker |-> [t \in Trace |-> 0]], events)

cmd_replay == full_projection_digest(load_replay_store(list_events(0, 0, Len(log))).db)

(***************************************************************************)
(* A round of iter_event_batches: a batch is projected, or none is left.   *)
(***************************************************************************)
NextBatch == list_events(call.since, call.until, call.size)

NoBatchIsLeft ==
    /\ call.state = "projecting"
    /\ NextBatch = << >>
    /\ call' = NoCall
    /\ UNCHANGED <<backend, log, db, undo, memory, failures>>

\* BEGIN succeeds.
Begin == NextBatch # << >> /\ undo = None

ProjectBatch ==
    /\ call.state = "projecting"
    /\ Begin
    /\ LET p == project_events_in_tx(NextBatch)
           last == Last(NextBatch).log_seq
       IN  IF p = Rejected
           THEN Raise("rejected") /\ UNCHANGED <<db, memory>>
           ELSE /\ db' = p.db
                /\ memory' = [memory EXCEPT !.cursor = p.cursor, !.tracker = p.tracker]
                /\ IF call.until # 0 /\ last >= call.until
                   THEN call' = NoCall
                   ELSE call' = [call EXCEPT !.since = last]
    /\ UNCHANGED <<backend, log, undo, failures>>

\* BEGIN fails within a transaction, which the handler of the exception rolls back.
BeginFails ==
    /\ call.state = "projecting"
    /\ NextBatch # << >>
    /\ undo # None
    /\ Raise("failed")
    /\ db' = undo
    /\ undo' = None
    /\ UNCHANGED <<backend, log, memory, failures>>

\* Mutant: the trace_seqs in memory stay those of the batch.
BatchFailsInMemory ==
    /\ call.state = "projecting"
    /\ Begin
    /\ failures < MaxFailures
    /\ failures' = failures + 1
    /\ Raise("failed")
    /\ memory' = [memory EXCEPT !.tracker = project_events_in_tx(NextBatch).tracker]
    /\ UNCHANGED <<backend, log, db, undo>>

(***************************************************************************)
(* The database fails within the batch or at its commit: all of it is      *)
(* rolled back, in memory too.                                             *)
(***************************************************************************)
BatchFails ==
    /\ call.state = "projecting"
    /\ Begin
    /\ failures < MaxFailures
    /\ failures' = failures + 1
    /\ Raise("failed")
    /\ UNCHANGED <<backend, log, db, undo, memory>>

-----------------------------------------------------------------------------
\* The process dies, or closes its connection.
Crash ==
    /\ memory.alive
    /\ failures < MaxFailures
    /\ failures' = failures + 1
    /\ memory' = Dead
    /\ call' = NoCall
    /\ db' = Committed
    /\ undo' = None
    /\ UNCHANGED <<backend, log>>

load_cursor == db.cursor

\* The next trace_seqs as of the cursor.
load_trace_seq_tracker(cursor) ==
    [t \in Trace |-> NextAfter({log[i] : i \in {j \in 1 .. cursor : log[j].trace = t}})]

Restart ==
    /\ ~memory.alive
    /\ memory' = [alive |-> TRUE, cursor |-> load_cursor,
                  tracker |-> load_trace_seq_tracker(load_cursor)]
    /\ UNCHANGED <<backend, log, db, undo, call, failures>>

Next ==
    \/ \E t \in Trace : DoAppend(t) \/ OtherAppend(t)
    \/ \E n \in 1 .. MaxLogSeq : RetryAppend(n)
    \/ \E size \in BatchSizes : sync_projections(size) \/ replay_projections(size)
    \/ AppendFails \/ RebuildFails
    \/ NoBatchIsLeft \/ ProjectBatch \/ BeginFails \/ BatchFails
    \/ Crash \/ Restart

Spec == Init /\ [][Next]_vars

-----------------------------------------------------------------------------
(***************************************************************************)
(* What the tables are, said once for a whole prefix of the log: a node is *)
(* a reference some event made, with the first event that made it.         *)
(***************************************************************************)
EdgesUpTo(n) == UNION {emit(log[i]).edges : i \in 1 .. n}

Mentions(e) == {row.id : row \in emit(e).nodes} \cup Ends(emit(e).edges)

MentionedUpTo(n) == UNION {Mentions(log[i]) : i \in 1 .. n}

NodesUpTo(n) ==
    UNION {{Placeholder(id, log[i]) : id \in Mentions(log[i]) \ MentionedUpTo(i - 1)} : i \in 1 .. n}

FinishOf(t, n) == {i \in 1 .. n : log[i].trace = t /\ log[i].type = "TraceFinished"}

SummaryUpTo(n, e) ==
    IF FinishOf(e.trace, n) = {}
    THEN [trace |-> e.trace, entity |-> e.about, outcome |-> None,
          event_count |-> 1, last_log_seq |-> e.log_seq]
    ELSE LET f == log[CHOOSE i \in FinishOf(e.trace, n) : TRUE]
         IN  [trace |-> e.trace, entity |-> e.about, outcome |-> f.about,
              event_count |-> 2, last_log_seq |-> f.log_seq]

SummariesUpTo(n) ==
    {SummaryUpTo(n, log[i]) : i \in {j \in 1 .. n : log[j].type = "TraceStarted"}}

PrecedentsUpTo(n) ==
    UNION {{PrecedentRow(e, s.entity) :
               e \in {f \in get_trace_events(s.trace) :
                         f.type \in {"PolicyEvaluated", "ExceptionRequested"}}}
             : s \in {x \in SummariesUpTo(n) : x.outcome # None}}

PoliciesUpTo(n) ==
    {[trace |-> log[i].trace, policy |-> log[i].about, log_seq |-> i] :
        i \in {j \in 1 .. n : log[j].type = "PolicyEvaluated"}}

TablesUpTo(n) ==
    [nodes |-> NodesUpTo(n), edges |-> EdgesUpTo(n), summaries |-> SummariesUpTo(n),
     policies |-> PoliciesUpTo(n), precedents |-> PrecedentsUpTo(n), cursor |-> n]

\* No transaction is open, and the tables and the memory are those of the log up to the cursor.
InStep ==
    /\ undo = None
    /\ db = TablesUpTo(db.cursor)
    /\ memory.alive => /\ memory.cursor = db.cursor
                       /\ memory.tracker = load_trace_seq_tracker(db.cursor)

(***************************************************************************)
(* Tables and memory are those of the log up to the cursor, however the    *)
(* events got into batches and whatever failed, died or was replayed, and  *)
(* the command "replay" prints the digests of projections that caught up.  *)
(* Only a rebuild that fails on SQLite takes them out of step; whatever    *)
(* brings them back, a replay above all, they are in step from then on.    *)
(***************************************************************************)
ProjectionMatchesLog ==
    /\ [](InStep /\ db.cursor = Len(log) => cmd_replay = full_projection_digest(db))
    /\ [][InStep /\ ~InStep' => \E k \in FailingDeletes : RebuildFailsSqlite(k)]_vars

(***************************************************************************)
(* A call that returns has projected what it appended, or what was in the  *)
(* log when it began, although others append meanwhile.                    *)
(***************************************************************************)
CallsEndCaughtUp ==
    [][call.state = "projecting" /\ call'.state = "none" /\ memory'.alive
          => memory'.cursor >= call.target]_vars

(***************************************************************************)
(* Of the events the store accepted the projector rejects those alone      *)
(* whose hash is not that of what is read back: never for their place in   *)
(* the trace or a policy, whatever failed before; and it passes none of    *)
(* them, so that once one is in the log no later event is projected.       *)
(***************************************************************************)
Mismatched == {i \in 1 .. Len(log) : ~verify_payload_hash(log[i])}

OnlyMismatchesStop ==
    /\ call.state = "rejected" => \E i \in Mismatched : memory.cursor < i
    /\ \A i \in Mismatched : memory.cursor < i /\ db.cursor < i

(***************************************************************************)
(* specs/002-event-model: "Hash verification passes for all stored         *)
(* events".                                                                *)
(***************************************************************************)
NoEventIsRejected == call.state # "rejected"
=============================================================================
