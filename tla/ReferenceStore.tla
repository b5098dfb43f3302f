--------------------------- MODULE ReferenceStore ---------------------------
(***************************************************************************)
(* append_event of the Python package, over SQLite or PostgreSQL, with any *)
(* number of processes that opened the same database.                      *)
(*                                                                         *)
(* Unlike DecisionGraph.Store it takes no lock on the trace: it looks up   *)
(* the key, asks whether the trace is finished, reads the next trace_seq,  *)
(* and only then inserts.  What changed in between is left to the trigger  *)
(* and the unique indexes, whose errors it translates.  SQLite has one     *)
(* writer at a time, from the INSERT to the end of its transaction;        *)
(* PostgreSQL draws log_seq from a sequence and lets an inserter wait for  *)
(* the uncommitted row that has an entry equal to one of its own.          *)
(***************************************************************************)
EXTENDS EventLog

CONSTANTS
    Writer,     \* processes calling append_event
    NoEvent,    \* no envelope, or no stored event in an answer
    MaxLogSeq   \* bound on the values drawn from PostgreSQL's sequence

VARIABLES
    backend,    \* what the processes opened: "sqlite" or "postgres"
    nextLogSeq, \* dg_event_log_log_seq_seq; unused with SQLite
    pc,         \* the statement each process is about to run
    request,    \* the envelope it is appending
    rowSeq,     \* the log_seq of its uncommitted row
    answer      \* what append_event last returned or raised

vars == <<log, backend, nextLogSeq, pc, request, rowSeq, answer>>

Reply(kind) == [kind |-> kind, event |-> NoEvent]

ReplyWith(kind, s) == [kind |-> kind, event |-> s]

AnswerKind == {"idle", "none", "inserted", "reused", "idempotency_conflict",
               "event_sequence_invalid", "conflict", "storage"}

IndexStage == {"id_index", "seq_index", "key_index"}

Stage == {"idle", "lookup", "finished", "sequence", "insert", "commit", "recover"}
            \cup IndexStage

Init ==
    /\ log = {}
    /\ backend \in {"sqlite", "postgres"}
    /\ nextLogSeq = 1
    /\ pc = [w \in Writer |-> "idle"]
    /\ request = [w \in Writer |-> NoEvent]
    /\ rowSeq = [w \in Writer |-> 0]
    /\ answer = [w \in Writer |-> Reply("idle")]

-----------------------------------------------------------------------------
\* Mutant: the payload hash is compared, the metadata is not.
validate_hash_only(e, s) == s.event.content = e.content

\* A retry repeats payload and metadata; trace_seq and event_id may differ.
validate_idempotent_reuse(e, s) ==
    /\ s.event.content = e.content
    /\ s.event.trace = e.trace
    /\ s.event.type = e.type

validate_trace_seq(e, expected) ==
    /\ e.trace_seq = expected
    /\ e.type = "TraceStarted" <=> e.trace_seq = 0

is_trace_finished(t) ==
    \E s \in log : s.event.trace = t /\ s.event.type = "TraceFinished"

get_next_trace_seq(t) ==
    IF EventsOf(t) = {} THEN 0 ELSE MaxOf(TraceSeqs(t)) + 1

get_last_log_seq == MaxOf({s.log_seq : s \in log} \cup {0})

\* SQLite gives a row the largest rowid plus one.
NextRowid == get_last_log_seq + 1

-----------------------------------------------------------------------------
\* The transaction ends and the call is over.
Finish(w, a) ==
    /\ pc' = [pc EXCEPT ![w] = "idle"]
    /\ rowSeq' = [rowSeq EXCEPT ![w] = 0]
    /\ answer' = [answer EXCEPT ![w] = a]
    /\ UNCHANGED <<backend, request>>

Goto(w, from, to) ==
    /\ pc[w] = from
    /\ pc' = [pc EXCEPT ![w] = to]
    /\ UNCHANGED <<log, backend, request, answer>>

(***************************************************************************)
(* prepare_event_for_insert accepted the envelope (module ContextGraph).   *)
(***************************************************************************)
Begin(w, e) ==
    /\ pc[w] = "idle"
    /\ backend = "postgres" => nextLogSeq <= MaxLogSeq
    /\ pc' = [pc EXCEPT ![w] = "lookup"]
    /\ request' = [request EXCEPT ![w] = e]
    /\ answer' = [answer EXCEPT ![w] = Reply("none")]
    /\ UNCHANGED <<log, backend, nextLogSeq, rowSeq>>

(***************************************************************************)
(* _check_idempotency, before the other checks and again when the INSERT   *)
(* found the key taken.  There an absent row is a conflict as well.        *)
(***************************************************************************)
Reuse(w) ==
    /\ pc[w] \in {"lookup", "recover"}
    /\ \E s \in StoredUnder(request[w].key) :
          /\ validate_idempotent_reuse(request[w], s)
          /\ Finish(w, ReplyWith("reused", s))
    /\ UNCHANGED <<log, nextLogSeq>>

RejectReuse(w) ==
    /\ \/ /\ pc[w] \in {"lookup", "recover"}
          /\ \E s \in StoredUnder(request[w].key) :
                ~validate_idempotent_reuse(request[w], s)
       \/ pc[w] = "recover" /\ StoredUnder(request[w].key) = {}
    /\ Finish(w, Reply("idempotency_conflict"))
    /\ UNCHANGED <<log, nextLogSeq>>

KeyIsUnused(w) ==
    /\ Goto(w, "lookup", "finished")
    /\ StoredUnder(request[w].key) = {}
    /\ UNCHANGED <<nextLogSeq, rowSeq>>

(***************************************************************************)
(* Two more statements, each of which sees what has been committed.        *)
(***************************************************************************)
CheckFinished(w) ==
    /\ pc[w] = "finished"
    /\ IF is_trace_finished(request[w].trace)
       THEN Finish(w, Reply("conflict")) /\ UNCHANGED log
       ELSE Goto(w, "finished", "sequence") /\ UNCHANGED rowSeq
    /\ UNCHANGED nextLogSeq

CheckSequence(w) ==
    /\ pc[w] = "sequence"
    /\ IF validate_trace_seq(request[w], get_next_trace_seq(request[w].trace))
       THEN Goto(w, "sequence", "insert") /\ UNCHANGED rowSeq
       ELSE Finish(w, Reply("event_sequence_invalid")) /\ UNCHANGED log
    /\ UNCHANGED nextLogSeq

(***************************************************************************)
(* The trigger dg_block_events_after_finish, run before the row is stored. *)
(* It lets a TraceFinished pass.                                           *)
(***************************************************************************)
dg_block_events_after_finish(e) ==
    e.type # "TraceFinished" /\ is_trace_finished(e.trace)

(***************************************************************************)
(* SQLite: the INSERT takes the database's write lock, or waits for it and *)
(* gives up.  The unique indexes are looked at in the reverse order of     *)
(* their creation, so a key that is taken is reported first.               *)
(***************************************************************************)
\* Mutant: two connections write at once.
NeverLocked(w) == FALSE

WriteLockedByOther(w) == \E v \in Writer \ {w} : pc[v] = "commit"

Taken(e) == \E s \in log : \/ s.event.key = e.key
                           \/ s.event.id = e.id
                           \/ s.event.trace = e.trace /\ s.event.trace_seq = e.trace_seq

InsertSqlite(w) ==
    /\ backend = "sqlite"
    /\ ~WriteLockedByOther(w)
    /\ Goto(w, "insert", "commit")
    /\ ~dg_block_events_after_finish(request[w])
    /\ ~Taken(request[w])
    /\ rowSeq' = [rowSeq EXCEPT ![w] = NextRowid]
    /\ UNCHANGED nextLogSeq

\* sqlite3.IntegrityError: roll back, and answer by the constraint's name.
IntegrityErrorSqlite(w) ==
    /\ backend = "sqlite"
    /\ pc[w] = "insert"
    /\ ~WriteLockedByOther(w)
    /\ LET e == request[w]
       IN  \/ /\ dg_block_events_after_finish(e)
              /\ Finish(w, Reply("conflict"))
           \/ /\ ~dg_block_events_after_finish(e)
              /\ StoredUnder(e.key) # {}
              /\ Goto(w, "insert", "recover")
              /\ UNCHANGED rowSeq
           \/ /\ ~dg_block_events_after_finish(e)
              /\ StoredUnder(e.key) = {}
              /\ Taken(e)
              /\ Finish(w, Reply(IF e.trace_seq \in TraceSeqs(e.trace)
                                 THEN "event_sequence_invalid" ELSE "storage"))
    /\ UNCHANGED <<log, nextLogSeq>>

\* Mutant: the connection waits for the lock without a timeout.
WaitForever(w) == FALSE /\ Finish(w, Reply("storage")) /\ UNCHANGED <<log, nextLogSeq>>

\* sqlite3.OperationalError "database is locked", after the busy timeout.
BusyTimeout(w) ==
    /\ backend = "sqlite"
    /\ pc[w] = "insert"
    /\ WriteLockedByOther(w)
    /\ Finish(w, Reply("storage"))
    /\ UNCHANGED <<log, nextLogSeq>>

(***************************************************************************)
(* PostgreSQL: the sequence, the trigger, then the three unique indexes in *)
(* the order the migration creates them.                                   *)
(***************************************************************************)
InsertPostgres(w) ==
    /\ backend = "postgres"
    /\ pc[w] = "insert"
    /\ nextLogSeq' = nextLogSeq + 1
    /\ IF dg_block_events_after_finish(request[w])
       THEN Finish(w, Reply("conflict")) /\ UNCHANGED log
       ELSE /\ Goto(w, "insert", "id_index")
            /\ rowSeq' = [rowSeq EXCEPT ![w] = nextLogSeq]

SameEntry(index, e, f) ==
    \/ index = "id_index" /\ e.id = f.id
    \/ index = "seq_index" /\ e.trace = f.trace /\ e.trace_seq = f.trace_seq
    \/ index = "key_index" /\ e.key = f.key

AfterIndex == [id_index |-> "seq_index", seq_index |-> "key_index", key_index |-> "commit"]

HasEntry == [id_index  |-> {"seq_index", "key_index", "commit"},
             seq_index |-> {"key_index", "commit"},
             key_index |-> {"commit"}]

CommittedDuplicate(w) == \E s \in log : SameEntry(pc[w], s.event, request[w])

UncommittedDuplicate(w) ==
    \E v \in Writer \ {w} :
        pc[v] \in HasEntry[pc[w]] /\ SameEntry(pc[w], request[v], request[w])

EnterIndex(w) ==
    /\ pc[w] \in IndexStage
    /\ ~CommittedDuplicate(w)
    /\ ~UncommittedDuplicate(w)
    /\ Goto(w, pc[w], AfterIndex[pc[w]])
    /\ UNCHANGED <<nextLogSeq, rowSeq>>

\* psycopg.errors.UniqueViolation: only the key is looked up again.
UniqueViolationPostgres(w) ==
    /\ pc[w] \in IndexStage
    /\ CommittedDuplicate(w)
    /\ \/ pc[w] = "id_index" /\ Finish(w, Reply("storage"))
       \/ pc[w] = "seq_index" /\ Finish(w, Reply("event_sequence_invalid"))
       \/ /\ Goto(w, "key_index", "recover")
          /\ rowSeq' = [rowSeq EXCEPT ![w] = 0]
    /\ UNCHANGED <<log, nextLogSeq>>

(***************************************************************************)
(* COMMIT, in either backend.  A process that dies with it, or loses the   *)
(* connection, does not learn whether its row is there.                    *)
(***************************************************************************)
Commit(w) ==
    /\ pc[w] = "commit"
    /\ LET s == Stored(rowSeq[w], request[w])
       IN  /\ log' = log \cup {s}
           /\ Finish(w, ReplyWith("inserted", s)) \/ Finish(w, Reply("storage"))
    /\ UNCHANGED nextLogSeq

\* Any other database error is rolled back; a dead process is rolled back too.
Lose(w) ==
    /\ pc[w] # "idle"
    /\ Finish(w, Reply("storage"))
    /\ UNCHANGED <<log, nextLogSeq>>

-----------------------------------------------------------------------------
\* The statements a process and its database run when they can.
Progress(w) ==
    \/ Reuse(w) \/ RejectReuse(w) \/ KeyIsUnused(w)
    \/ CheckFinished(w) \/ CheckSequence(w)
    \/ InsertSqlite(w) \/ IntegrityErrorSqlite(w) \/ BusyTimeout(w)
    \/ InsertPostgres(w) \/ UniqueViolationPostgres(w)
    \/ Commit(w)

Next ==
    \E w \in Writer :
        \/ \E e \in Envelope : Begin(w, e)
        \/ Progress(w)
        \/ EnterIndex(w)
        \/ Lose(w)

\* PostgreSQL queues the waiters of an index entry; SQLite's writers time out.
Fairness == \A w \in Writer : WF_vars(Progress(w)) /\ SF_vars(EnterIndex(w))

Spec == Init /\ [][Next]_vars

FairSpec == Spec /\ Fairness

-----------------------------------------------------------------------------
(***************************************************************************)
(* The types of the variables.                                             *)
(***************************************************************************)
TypeOK ==
    /\ log \subseteq StoredEvent
    /\ backend \in {"sqlite", "postgres"}
    /\ nextLogSeq \in Nat \ {0}
    /\ pc \in [Writer -> Stage]
    /\ request \in [Writer -> Envelope \cup {NoEvent}]
    /\ rowSeq \in [Writer -> Nat]
    /\ answer \in [Writer -> [kind : AnswerKind, event : StoredEvent \cup {NoEvent}]]

(***************************************************************************)
(* The order in which rows become visible is the order of log_seq: over    *)
(* the whole log with SQLite, which is what a cursor over the log relies   *)
(* on, and within each trace with PostgreSQL.                              *)
(***************************************************************************)
AppendsInOrder ==
    [][\A s \in log' \ log, r \in log :
           backend = "sqlite" \/ r.event.trace = s.event.trace
               => r.log_seq < s.log_seq]_vars

(***************************************************************************)
(* Every call of append_event returns or raises, although writers wait for *)
(* SQLite's write lock and for one another's index entries.                *)
(***************************************************************************)
EveryCallEnds == \A w \in Writer : pc[w] # "idle" ~> pc[w] = "idle"

(***************************************************************************)
(* A trace is finished once: TraceFinished locks it.                       *)
(***************************************************************************)
OneFinish ==
    \A r, s \in {q \in log : q.event.type = "TraceFinished"} :
        r.event.trace = s.event.trace => r = s

(***************************************************************************)
(* Without a lock, append_event still is the atomic, idempotent append of  *)
(* DecisionLog, with one exception: two calls that both found the trace    *)
(* unfinished may both finish it, under keys and ids of their own, since   *)
(* the trigger lets a TraceFinished pass.  DecisionGraph.finish_trace      *)
(* derives the key from the trace; append_event takes any.                 *)
(***************************************************************************)
DL == INSTANCE DecisionLog

FinishesAgain(w) ==
    /\ answer[w] = Reply("none")
    /\ request[w].type = "TraceFinished"
    /\ is_trace_finished(request[w].trace)
    /\ DL!ValidSequence(request[w]) /\ DL!Unused(request[w])
    /\ DL!Insert(w)

ImplementsDecisionLog ==
    DL!Init /\ [][DL!Next \/ \E w \in Writer : FinishesAgain(w)]_(DL!dlVars)
=============================================================================
