-------------------------- MODULE ProjectionDigests --------------------------
(***************************************************************************)
(* dg_projection_digests of one tenant: the digest of each projection and  *)
(* the one of all of them together, which every batch and every rebuild of *)
(* any projection writes anew, under the lock of its own projection only.  *)
(*                                                                         *)
(* What a transaction does to its tables is the matter of Projection; here *)
(* the contents of a projection are the number of the transaction that     *)
(* wrote them last. The digest of tables is the set of the contents its    *)
(* queries saw: one, unless the nodes and the edges of the graph were read *)
(* on the two sides of a commit.                                           *)
(***************************************************************************)
EXTENDS Naturals, Sequences

CONSTANTS
    Runner,     \* the processes that run batches and rebuilds
    MaxLogSeq,  \* bound on the log
    MaxCalls,   \* bound on the transactions
    MaxFaults   \* bound on those that fail

ASSUME DigestsAssumption == MaxLogSeq \in Nat /\ MaxCalls \in Nat /\ MaxFaults \in Nat

VARIABLES
    cursor,     \* dg_projection_cursors
    tables,     \* the contents of the tables of each projection
    digests,    \* the rows of the three projections
    full,       \* the row 'full_projection'
    run,        \* the transaction of each process
    calls,      \* transactions so far
    faults      \* failures so far

durable == <<cursor, tables, digests, full>>
vars == <<durable, run, calls, faults>>

Projection == {"context_graph", "trace_summary", "precedent_index"}
LogSeq == 0 .. MaxLogSeq
Contents == 0 .. MaxCalls

\* Digests.projection_names; and the queries of compute_all, of which those
\* for the nodes and for the edges are two.
Names == <<"context_graph", "trace_summary", "precedent_index">>
Queries == <<"context_graph", "context_graph", "trace_summary", "precedent_index">>

\* No row is the one no query saw anything for.
Row == [value : SUBSET Contents, last : LogSeq]
Full == [value : [Projection -> SUBSET Contents], last : LogSeq]
NoRow == [value |-> {}, last |-> 0]
NoValues == [p \in Projection |-> {}]
NoFull == [value |-> NoValues, last |-> 0]

\* until, id: the cursor and the contents that the transaction writes for its
\* own projection; k: the query or row it is at; last: the cursor it has just
\* read; rows, fullRow: what it has written.
Stage == {"idle", "lock", "compute", "cursor", "upsert", "minimum", "full", "commit"}
Run == [stage : Stage, projection : Projection, until : LogSeq, id : Contents, k : 1 .. 4,
        values : [Projection -> SUBSET Contents], last : LogSeq,
        cursors : [Projection -> LogSeq], rows : [Projection -> Row], fullRow : Full]

Idle == [stage |-> "idle", projection |-> "context_graph", until |-> 0, id |-> 0, k |-> 1,
         values |-> NoValues, last |-> 0, cursors |-> [p \in Projection |-> 0],
         rows |-> [p \in Projection |-> NoRow], fullRow |-> NoFull]

Init ==
    /\ cursor = [p \in Projection |-> 0]
    /\ tables = [p \in Projection |-> 0]
    /\ digests = [p \in Projection |-> NoRow]
    /\ full = NoFull
    /\ run = [r \in Runner |-> Idle]
    /\ calls = 0
    /\ faults = 0

-----------------------------------------------------------------------------
\* A process goes on at s with local as its variables.
Goto(r, s, local) == run' = [run EXCEPT ![r] = [local EXCEPT !.stage = s]]

\* A batch of p that ends at n, which may have been read before another one
\* passed n; or clear_projection, for which n is 0.
Begin(r, p, n) ==
    /\ run[r].stage = "idle"
    /\ calls < MaxCalls
    /\ calls' = calls + 1
    /\ Goto(r, "lock", [Idle EXCEPT !.projection = p, !.until = n, !.id = calls'])
    /\ UNCHANGED <<durable, faults>>

HasLock(r) == run[r].stage \notin {"idle", "lock"}

\* acquire_projection_lock!; then the rows of the events, or the deletions, and
\* the cursor, which nobody else sees or writes before the commit.
AcquireProjectionLock(r) ==
    /\ run[r].stage = "lock"
    /\ \A o \in Runner : HasLock(o) => run[o].projection # run[r].projection
    /\ Goto(r, "compute", run[r])
    /\ UNCHANGED <<durable, calls, faults>>

\* Mutant: the tables are read on a connection outside the transaction.
CommittedTables(r, p) == tables[p]

\* What a statement of r reads of p: its own writes, or what is committed.
VisibleTables(r, p) == IF p = run[r].projection THEN run[r].id ELSE tables[p]
VisibleCursor(r, p) == IF p = run[r].projection THEN run[r].until ELSE cursor[p]

\* A query of Digests.compute_all.
ComputeDigest(r) ==
    LET p == Queries[run[r].k]
        local == [run[r] EXCEPT !.values[p] = @ \cup {VisibleTables(r, p)}] IN
    /\ run[r].stage = "compute"
    /\ IF run[r].k = Len(Queries) THEN Goto(r, "cursor", [local EXCEPT !.k = 1])
       ELSE Goto(r, "compute", [local EXCEPT !.k = @ + 1])
    /\ UNCHANGED <<durable, calls, faults>>

\* Mutant: the row of the transaction's own projection comes first.
OwnFirst(r, k) ==
    CASE k = 1 -> run[r].projection
      [] k > 1 /\ Names[k] = run[r].projection -> Names[1]
      [] OTHER -> Names[k]

\* The row that r writes k-th.
NameOf(r, k) == Names[k]

\* get_projection_cursor, before the row is written.
ReadCursor(r) ==
    /\ run[r].stage = "cursor"
    /\ Goto(r, "upsert", [run[r] EXCEPT !.last = VisibleCursor(r, NameOf(r, run[r].k))])
    /\ UNCHANGED <<durable, calls, faults>>

\* o has written the row of p and has not ended.
HasWritten(o, p) ==
    \/ run[o].stage \in {"minimum", "full", "commit"}
    \/ /\ run[o].stage \in {"cursor", "upsert"}
       /\ \E j \in 1 .. 3 : j < run[o].k /\ NameOf(o, j) = p

\* The upsert waits for a transaction that has written the row.
UpsertDigest(r) ==
    LET p == NameOf(r, run[r].k)
        local == [run[r] EXCEPT !.rows[p] = [value |-> run[r].values[p], last |-> run[r].last],
                                !.last = 0] IN
    /\ run[r].stage = "upsert"
    /\ \A o \in Runner \ {r} : ~ HasWritten(o, p)
    /\ IF run[r].k = Len(Names) THEN Goto(r, "minimum", [local EXCEPT !.k = 1])
       ELSE Goto(r, "cursor", [local EXCEPT !.k = @ + 1])
    /\ UNCHANGED <<durable, calls, faults>>

\* The cursors are read again for their minimum.
ReadMinimum(r) ==
    LET p == Names[run[r].k]
        local == [run[r] EXCEPT !.cursors[p] = VisibleCursor(r, p)] IN
    /\ run[r].stage = "minimum"
    /\ IF run[r].k = Len(Names) THEN Goto(r, "full", [local EXCEPT !.k = 1])
       ELSE Goto(r, "minimum", [local EXCEPT !.k = @ + 1])
    /\ UNCHANGED <<durable, calls, faults>>

\* Enum.min of the numbers of the projections.
Lowest(f) == CHOOSE n \in {f[p] : p \in Projection} : \A p \in Projection : n <= f[p]

\* Mutant: the minimum is that of the cursors the three rows were written with.
UpsertFullFromRows(r) ==
    LET lasts == [p \in Projection |-> run[r].rows[p].last] IN
    /\ run[r].stage = "full"
    /\ \A o \in Runner \ {r} : run[o].stage # "commit"
    /\ Goto(r, "commit",
            [run[r] EXCEPT !.fullRow = [value |-> run[r].values, last |-> Lowest(lasts)]])
    /\ UNCHANGED <<durable, calls, faults>>

\* The row 'full_projection', which waits like the others.
UpsertFull(r) ==
    /\ run[r].stage = "full"
    /\ \A o \in Runner \ {r} : run[o].stage # "commit"
    /\ Goto(r, "commit",
            [run[r] EXCEPT !.fullRow = [value |-> run[r].values, last |-> Lowest(run[r].cursors)]])
    /\ UNCHANGED <<durable, calls, faults>>

Commit(r) ==
    LET p == run[r].projection IN
    /\ run[r].stage = "commit"
    /\ cursor' = [cursor EXCEPT ![p] = run[r].until]
    /\ tables' = [tables EXCEPT ![p] = run[r].id]
    /\ digests' = run[r].rows
    /\ full' = run[r].fullRow
    /\ run' = [run EXCEPT ![r] = Idle]
    /\ UNCHANGED <<calls, faults>>

\* An event is rejected, the database fails, or the process dies: a rollback.
Fail(r) ==
    /\ run[r].stage # "idle"
    /\ faults < MaxFaults
    /\ faults' = faults + 1
    /\ run' = [run EXCEPT ![r] = Idle]
    /\ UNCHANGED <<durable, calls>>

-----------------------------------------------------------------------------
\* The statements of a transaction that runs.
Progress(r) ==
    \/ AcquireProjectionLock(r) \/ ComputeDigest(r) \/ ReadCursor(r) \/ UpsertDigest(r)
    \/ ReadMinimum(r) \/ UpsertFull(r) \/ Commit(r)

Next ==
    \/ \E r \in Runner, p \in Projection, n \in LogSeq : Begin(r, p, n)
    \/ \E r \in Runner : Progress(r) \/ Fail(r)

Spec == Init /\ [][Next]_vars

\* A statement that can run does so, also one that waits for a lock which is
\* taken and released again and again: PostgreSQL queues the waiters.
FairSpec == Spec /\ \A r \in Runner : SF_vars(Progress(r))

-----------------------------------------------------------------------------
\* Every variable has its type.
TypeOK ==
    /\ cursor \in [Projection -> LogSeq]
    /\ tables \in [Projection -> Contents]
    /\ digests \in [Projection -> Row]
    /\ full \in Full
    /\ run \in [Runner -> Run]
    /\ calls \in 0 .. MaxCalls
    /\ faults \in 0 .. MaxFaults

\* "The last_log_seq on the full digest is the minimum durable cursor across
\* all projections" (docs/architecture/BEAM_PROJECTION_SCHEMA.md): batches of
\* different projections hold different locks, cursors also move back, and yet
\* no cursor moves between the reads of refresh_projection_digests! for the
\* minimum and its commit.
FullIsMinimum == full.last = Lowest(cursor)

\* A transaction that commits leaves the row of its own projection as its
\* tables and its cursor now are, and the contents the full row was computed
\* from as well (project_batch, clear_projection).
OwnDigestIsFresh ==
    [][\A p \in Projection : tables'[p] # tables[p] =>
          /\ digests'[p] = [value |-> {tables'[p]}, last |-> cursor'[p]]
          /\ full'.value[p] = {tables'[p]}]_vars

\* Transactions that wait for each other's projections and rows all end, since
\* each writes the rows in the order of projection_names.
EveryBatchEnds == \A r \in Runner : run[r].stage # "idle" ~> run[r].stage = "idle"

\* "durable digest checkpoints per projection" (ibid.): a row has the digest of
\* the tables as they are at its last_log_seq. A transaction computes the
\* digests of the other projections before it waits for their rows and reads
\* their cursors after it.
DigestIsCheckpoint ==
    \A p \in Projection :
        digests[p] # NoRow /\ digests[p].last = cursor[p] => digests[p].value = {tables[p]}
=============================================================================
