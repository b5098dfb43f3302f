----------------------------- MODULE Migrations -----------------------------
(***************************************************************************)
(* How opening a store of the Python package brings the schema up to date: *)
(* MigrationEngine for SQLite, PostgresEventStore._migrate for PostgreSQL. *)
(*                                                                         *)
(* A migration is a script of CREATE and DROP ... IF EXISTS statements.    *)
(* PostgreSQL runs script and record in one transaction.  SQLite's         *)
(* executescript commits what is open and then every statement for itself, *)
(* the record of the version being the last.                               *)
(***************************************************************************)
EXTENDS Integers, Sequences

CONSTANTS
    Process,        \* processes that open the database
    Object,         \* tables, and indexes and triggers on them
    TableOf,        \* TableOf[o]: the table an index is on, o for a table
    Script,         \* Script[v]: statements [op, object] of migration v
    MaxInterrupts   \* bound: errors and deaths while a database is opened

\* The migration files, in the order of their numbers.
Version == 1 .. Len(Script)

ASSUME MigrationsAssumption ==
    /\ TableOf \in [Object -> Object]
    /\ Script \in Seq(Seq([op : {"create", "drop"}, object : Object]))

VARIABLES
    engine,     \* "sqlite" or "postgres"
    schema,     \* schema[o]: the version whose script created o, 0 if absent
    recorded,   \* the versions in schema_migrations
    phase,      \* "closed", "ensured", "migrating" or "open"
    pending,    \* the versions each process found missing and has yet to apply
    statement,  \* how many statements of the first of them ran
    raced,      \* history: two SQLite scripts ran into one another
    interrupts

migrationVars == <<engine, schema, recorded, phase, pending, statement, raced, interrupts>>

Empty == [o \in Object |-> 0]

InitMigrations ==
    /\ engine \in {"sqlite", "postgres"}
    /\ schema = Empty
    /\ recorded = {}
    /\ phase = [p \in Process |-> "closed"]
    /\ pending = [p \in Process |-> {}]
    /\ statement = [p \in Process |-> 0]
    /\ raced = FALSE
    /\ interrupts = 0

-----------------------------------------------------------------------------
(***************************************************************************)
(* One statement.  A table takes its indexes with it when it is dropped.   *)
(***************************************************************************)
Runs(s, d) ==
    s.op = "create" => /\ d[s.object] = 0
                       /\ TableOf[s.object] = s.object \/ d[TableOf[s.object]] # 0

Effect(s, v, d) ==
    IF s.op = "create" THEN [d EXCEPT ![s.object] = v]
    ELSE [o \in Object |-> IF s.object \in {o, TableOf[o]} THEN 0 ELSE d[o]]

\* A whole script: the schema after each of its statements, from d on.
After(v, d) ==
    LET after[n \in 0 .. Len(Script[v])] ==
            IF n = 0 THEN d ELSE Effect(Script[v][n], v, after[n - 1])
    IN  after

RunScript(v, d) == After(v, d)[Len(Script[v])]

Succeeds(v, d) == \A n \in 1 .. Len(Script[v]) : Runs(Script[v][n], After(v, d)[n - 1])

\* The schema of a database on which the first scripts ran once each, in order.
SchemaAt[v \in 0 .. Len(Script)] == IF v = 0 THEN Empty ELSE RunScript(v, SchemaAt[v - 1])

get_pending_migrations == Version \ recorded

get_current_version == CHOOSE v \in recorded \cup {0} : \A u \in recorded : u <= v

-----------------------------------------------------------------------------
Starting == {p \in Process : phase[p] \in {"ensured", "migrating"}}

(***************************************************************************)
(* The constructor: connect, create schema_migrations if it is missing.    *)
(***************************************************************************)
OpenStore(p) ==
    /\ phase[p] = "closed"
    /\ phase' = [phase EXCEPT ![p] = "ensured"]
    /\ UNCHANGED <<engine, schema, recorded, pending, statement, raced, interrupts>>

\* Mutant: the pending versions are those above the current one, but not the first.
ReadPendingAfterCurrent(p) ==
    /\ phase[p] = "ensured"
    /\ phase' = [phase EXCEPT ![p] = "migrating"]
    /\ pending' = [pending EXCEPT ![p] = {v \in Version : v > get_current_version + 1}]
    /\ UNCHANGED <<engine, schema, recorded, statement, raced, interrupts>>

ReadPending(p) ==
    /\ phase[p] = "ensured"
    /\ phase' = [phase EXCEPT ![p] = "migrating"]
    /\ pending' = [pending EXCEPT ![p] = get_pending_migrations]
    /\ UNCHANGED <<engine, schema, recorded, statement, raced, interrupts>>

\* The constructor raises, or its process dies: an open transaction is undone.
Abandon(p) ==
    /\ phase' = [phase EXCEPT ![p] = "closed"]
    /\ pending' = [pending EXCEPT ![p] = {}]
    /\ statement' = [statement EXCEPT ![p] = 0]

IsNextPending(p, v) == v \in pending[p] /\ \A u \in pending[p] : v <= u

Applied(p, v) ==
    /\ recorded' = recorded \cup {v}
    /\ pending' = [pending EXCEPT ![p] = @ \ {v}]
    /\ statement' = [statement EXCEPT ![p] = 0]
    /\ UNCHANGED phase

(***************************************************************************)
(* apply_migration with executescript.  Nothing keeps two processes apart: *)
(* their statements interleave, and only the record of a version is        *)
(* refused when the other process has made it.                             *)
(***************************************************************************)
Intrudes(p, v) == v \in recorded \/ \E q \in Process \ {p} : statement[q] > 0

RunStatementSqlite(p, v) ==
    LET n == statement[p] + 1
    IN  IF Runs(Script[v][n], schema)
        THEN /\ schema' = Effect(Script[v][n], v, schema)
             /\ statement' = [statement EXCEPT ![p] = n]
             /\ raced' = (raced \/ Intrudes(p, v))
             /\ UNCHANGED <<recorded, phase, pending>>
        ELSE Abandon(p) /\ UNCHANGED <<schema, recorded, raced>>

RecordSqlite(p, v) ==
    /\ IF v \in recorded THEN Abandon(p) /\ UNCHANGED recorded ELSE Applied(p, v)
    /\ UNCHANGED <<schema, raced>>

ApplySqlite(p) ==
    /\ engine = "sqlite"
    /\ phase[p] = "migrating"
    /\ \E v \in Version :
          /\ IsNextPending(p, v)
          /\ IF statement[p] < Len(Script[v]) THEN RunStatementSqlite(p, v)
                                              ELSE RecordSqlite(p, v)
    /\ UNCHANGED <<engine, interrupts>>

(***************************************************************************)
(* _apply_migration: the scripts of two processes wait for one another at  *)
(* their first statement, so that a transaction is one step.  It fails if  *)
(* a statement does, or if the version is recorded already.                *)
(***************************************************************************)
\* Mutant: script and record are transactions of their own.
ApplyPostgresInTwo(p) ==
    /\ engine = "postgres"
    /\ phase[p] = "migrating"
    /\ \E v \in Version :
          /\ IsNextPending(p, v)
          /\ IF Succeeds(v, schema) /\ v \notin recorded
             THEN /\ schema' = RunScript(v, schema)
                  /\ Applied(p, v) \/ (Abandon(p) /\ UNCHANGED recorded)
             ELSE Abandon(p) /\ UNCHANGED <<schema, recorded>>
    /\ UNCHANGED <<engine, raced, interrupts>>

ApplyPostgres(p) ==
    /\ engine = "postgres"
    /\ phase[p] = "migrating"
    /\ \E v \in Version :
          /\ IsNextPending(p, v)
          /\ IF Succeeds(v, schema) /\ v \notin recorded
             THEN schema' = RunScript(v, schema) /\ Applied(p, v)
             ELSE Abandon(p) /\ UNCHANGED <<schema, recorded>>
    /\ UNCHANGED <<engine, raced, interrupts>>

Opened(p) ==
    /\ phase[p] = "migrating" /\ pending[p] = {}
    /\ phase' = [phase EXCEPT ![p] = "open"]
    /\ UNCHANGED <<engine, schema, recorded, pending, statement, raced, interrupts>>

\* An error of the database or the death of the process.
Interrupt(p) ==
    /\ phase[p] \in {"ensured", "migrating"}
    /\ interrupts < MaxInterrupts
    /\ interrupts' = interrupts + 1
    /\ Abandon(p)
    /\ UNCHANGED <<engine, schema, recorded, raced>>

Close(p) ==
    /\ phase[p] = "open"
    /\ phase' = [phase EXCEPT ![p] = "closed"]
    /\ UNCHANGED <<engine, schema, recorded, pending, statement, raced, interrupts>>

NextMigrations ==
    \E p \in Process :
        \/ OpenStore(p) \/ ReadPending(p)
        \/ ApplySqlite(p) \/ ApplyPostgres(p)
        \/ Opened(p) \/ Interrupt(p) \/ Close(p)

SpecMigrations == InitMigrations /\ [][NextMigrations]_migrationVars

-----------------------------------------------------------------------------
(***************************************************************************)
(* A store that opened has every migration recorded.  Its schema is the    *)
(* one of the scripts run once each and in order, whatever was interrupted *)
(* before and whoever else was opening it, unless a process of SQLite ran  *)
(* a script of its own into another's, or over a recorded version.         *)
(***************************************************************************)
OpenedIsComplete ==
    \A p \in Process :
        phase[p] = "open" => recorded = Version /\ (raced \/ schema = SchemaAt[Len(Script)])

(***************************************************************************)
(* The tables of an open store are there.                                  *)
(***************************************************************************)
OpenedHasSchema ==
    \A p \in Process : phase[p] = "open" => schema = SchemaAt[Len(Script)]

(***************************************************************************)
(* With PostgreSQL the database is at every moment what its recorded       *)
(* versions say, so that every process can go on from it.                  *)
(***************************************************************************)
PostgresIsWhole ==
    engine = "postgres" =>
        /\ recorded = 1 .. get_current_version
        /\ schema = SchemaAt[get_current_version]

(***************************************************************************)
(* A migration that fails mid-way leaves no partial state.                 *)
(***************************************************************************)
NoPartialState == Starting = {} => schema = SchemaAt[get_current_version]
=============================================================================
