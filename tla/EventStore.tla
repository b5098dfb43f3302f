----------------------------- MODULE EventStore -----------------------------
(***************************************************************************)
(* DecisionGraph.Store.append_event over PostgreSQL (dg_store), for one    *)
(* tenant, with any number of callers at once.                             *)
(*                                                                         *)
(* Each caller runs one transaction at READ COMMITTED: a step reads what   *)
(* has been committed when it runs.  A step of the model is a statement,   *)
(* except that the reads of rows only the holder of the trace's advisory   *)
(* lock can add (assert_trace_open!, next_trace_seq) are one step.         *)
(* INSERT takes a log_seq from the bigserial sequence, which a rollback    *)
(* does not give back, runs the trigger, and enters the three unique       *)
(* indexes in the order the migration creates them; an entry of an         *)
(* uncommitted row makes the next inserter of the same value wait.         *)
(***************************************************************************)
EXTENDS EventLog, FiniteSets

CONSTANTS
    Writer,     \* processes calling append_event
    NoEvent,    \* no envelope, or no stored event in an answer
    NoWriter,   \* the holder of a free lock
    MaxLogSeq   \* bound: a call starts only if its log_seq will not exceed it

ASSUME NoWriterAssumption == NoWriter \notin Writer

VARIABLES
    nextLogSeq, \* the next value of dg_event_log_log_seq_seq
    lockHolder, \* pg_advisory_xact_lock per trace
    pc,         \* how far each caller's transaction is
    request,    \* the envelope each caller is appending
    rowSeq,     \* the log_seq of the row a transaction inserted
    answer      \* what append_event last returned to, or raised in, a caller

vars == <<log, nextLogSeq, lockHolder, pc, request, rowSeq, answer>>

Reply(kind) == [kind |-> kind, event |-> NoEvent]

ReplyWith(kind, s) == [kind |-> kind, event |-> s]

AnswerKind == {"idle", "none", "inserted", "reused", "idempotency_conflict",
               "event_sequence_invalid", "conflict", "storage"}

Answer == [kind : AnswerKind, event : StoredEvent \cup {NoEvent}]

IndexStage == {"id_index", "seq_index", "key_index"}

\* The transaction holds its trace's lock.
Locked == {"lookup", "validate", "insert", "commit"} \cup IndexStage

Stage == {"idle", "lock", "recover"} \cup Locked

Init ==
    /\ log = {}
    /\ nextLogSeq = 1
    /\ lockHolder = [t \in Trace |-> NoWriter]
    /\ pc = [w \in Writer |-> "idle"]
    /\ request = [w \in Writer |-> NoEvent]
    /\ rowSeq = [w \in Writer |-> 0]
    /\ answer = [w \in Writer |-> Reply("idle")]

-----------------------------------------------------------------------------
\* Mutant: a session lock, which the end of the transaction does not release.
EndTransactionKeepLock(w, next) ==
    /\ pc' = [pc EXCEPT ![w] = next]
    /\ rowSeq' = [rowSeq EXCEPT ![w] = 0]
    /\ UNCHANGED <<lockHolder, request>>

(***************************************************************************)
(* The end of a transaction releases the lock; the call may go on.         *)
(***************************************************************************)
EndTransaction(w, next) ==
    /\ lockHolder' = [t \in Trace |-> IF lockHolder[t] = w THEN NoWriter ELSE lockHolder[t]]
    /\ pc' = [pc EXCEPT ![w] = next]
    /\ rowSeq' = [rowSeq EXCEPT ![w] = 0]
    /\ UNCHANGED request

\* The call ends with answer a, and its transaction with it.
Finish(w, a) ==
    /\ EndTransaction(w, "idle")
    /\ answer' = [answer EXCEPT ![w] = a]

Advance(w, from, to) ==
    /\ pc[w] = from
    /\ pc' = [pc EXCEPT ![w] = to]
    /\ UNCHANGED <<log, lockHolder, request, answer>>

(***************************************************************************)
(* append_event: normalise and validate the envelope, open a transaction.  *)
(***************************************************************************)
NotYetInserted == {w \in Writer : pc[w] \in {"lock", "lookup", "validate", "insert"}}

Begin(w, e) ==
    /\ pc[w] = "idle"
    /\ nextLogSeq + Cardinality(NotYetInserted) <= MaxLogSeq
    /\ pc' = [pc EXCEPT ![w] = "lock"]
    /\ request' = [request EXCEPT ![w] = e]
    /\ answer' = [answer EXCEPT ![w] = Reply("none")]
    /\ UNCHANGED <<log, nextLogSeq, lockHolder, rowSeq>>

\* Mutant: the transaction does not wait for the lock.
SkipTraceLock(w) ==
    /\ pc[w] = "lock"
    /\ lockHolder' = [lockHolder EXCEPT ![request[w].trace] = w]
    /\ pc' = [pc EXCEPT ![w] = "lookup"]
    /\ UNCHANGED <<log, nextLogSeq, request, rowSeq, answer>>

AcquireTraceLock(w) ==
    /\ pc[w] = "lock"
    /\ lockHolder[request[w].trace] = NoWriter
    /\ lockHolder' = [lockHolder EXCEPT ![request[w].trace] = w]
    /\ pc' = [pc EXCEPT ![w] = "lookup"]
    /\ UNCHANGED <<log, nextLogSeq, request, rowSeq, answer>>

(***************************************************************************)
(* fetch_idempotent_event and validate_idempotent_reuse!.  The lookup runs *)
(* in the transaction first, and once more outside it when the INSERT      *)
(* finds the key taken by a transaction that committed in between.  Then   *)
(* an absent row is an idempotency conflict too                            *)
(* (recover_idempotency_conflict).                                         *)
(***************************************************************************)
\* Mutant: whatever is stored under the key is returned.
ReuseUnchecked(w) ==
    /\ pc[w] \in {"lookup", "recover"}
    /\ \E s \in StoredUnder(request[w].key) : Finish(w, ReplyWith("reused", s))
    /\ UNCHANGED <<log, nextLogSeq>>

Reuse(w) ==
    /\ pc[w] \in {"lookup", "recover"}
    /\ \E s \in StoredUnder(request[w].key) :
          /\ MatchesStored(request[w], s)
          /\ Finish(w, ReplyWith("reused", s))
    /\ UNCHANGED <<log, nextLogSeq>>

RejectReuse(w) ==
    /\ \/ /\ pc[w] \in {"lookup", "recover"}
          /\ \E s \in StoredUnder(request[w].key) : ~MatchesStored(request[w], s)
       \/ pc[w] = "recover" /\ StoredUnder(request[w].key) = {}
    /\ Finish(w, Reply("idempotency_conflict"))
    /\ UNCHANGED <<log, nextLogSeq>>

KeyIsUnused(w) ==
    /\ Advance(w, "lookup", "validate")
    /\ StoredUnder(request[w].key) = {}
    /\ UNCHANGED <<nextLogSeq, rowSeq>>

(***************************************************************************)
(* assert_trace_open!, next_trace_seq and validate_trace_sequence!.        *)
(***************************************************************************)
RejectFinished(w) ==
    /\ pc[w] = "validate"
    /\ TraceIsFinished(request[w].trace)
    /\ Finish(w, Reply("conflict"))
    /\ UNCHANGED <<log, nextLogSeq>>

RejectSequence(w) ==
    /\ pc[w] = "validate"
    /\ ~TraceIsFinished(request[w].trace)
    /\ ~ValidSequence(request[w])
    /\ Finish(w, Reply("event_sequence_invalid"))
    /\ UNCHANGED <<log, nextLogSeq>>

Validate(w) ==
    /\ Advance(w, "validate", "insert")
    /\ ~TraceIsFinished(request[w].trace)
    /\ ValidSequence(request[w])
    /\ UNCHANGED <<nextLogSeq, rowSeq>>

(***************************************************************************)
(* INSERT: the default of log_seq is evaluated, then the trigger           *)
(* dg_validate_event_log_insert checks the row against the committed ones. *)
(***************************************************************************)
TriggerError(e) ==
    IF StartsAtZero(e) /\ TraceIsFinished(e.trace) THEN "conflict"
    ELSE "event_sequence_invalid"

Insert(w) ==
    /\ pc[w] = "insert"
    /\ nextLogSeq' = nextLogSeq + 1
    /\ IF Follows(request[w])
       THEN /\ Advance(w, "insert", "id_index")
            /\ rowSeq' = [rowSeq EXCEPT ![w] = nextLogSeq]
       ELSE /\ Finish(w, Reply(TriggerError(request[w])))
            /\ UNCHANGED log

(***************************************************************************)
(* The unique indexes, entered one after the other.                        *)
(***************************************************************************)
SameEntry(stage, e, f) ==
    \/ stage = "id_index" /\ e.id = f.id
    \/ stage = "seq_index" /\ e.trace = f.trace /\ e.trace_seq = f.trace_seq
    \/ stage = "key_index" /\ e.key = f.key

AfterIndex(stage) ==
    CASE stage = "id_index" -> "seq_index"
      [] stage = "seq_index" -> "key_index"
      [] stage = "key_index" -> "commit"

\* The stages of a transaction whose row already has an entry in the index.
HasEntry(stage) ==
    CASE stage = "id_index" -> {"seq_index", "key_index", "commit"}
      [] stage = "seq_index" -> {"key_index", "commit"}
      [] stage = "key_index" -> {"commit"}

CommittedDuplicate(w) ==
    \E s \in log : SameEntry(pc[w], s.event, request[w])

\* The duplicate of a running transaction: wait for it to end.
UncommittedDuplicate(w) ==
    \E v \in Writer \ {w} :
        pc[v] \in HasEntry(pc[w]) /\ SameEntry(pc[w], request[v], request[w])

EnterIndex(w) ==
    /\ pc[w] \in IndexStage
    /\ ~CommittedDuplicate(w)
    /\ ~UncommittedDuplicate(w)
    /\ Advance(w, pc[w], AfterIndex(pc[w]))
    /\ UNCHANGED <<nextLogSeq, rowSeq>>

\* recover_postgres_error: which constraint was violated decides what follows.
UniqueViolation(w) ==
    /\ pc[w] \in IndexStage
    /\ CommittedDuplicate(w)
    /\ CASE pc[w] = "id_index" -> Finish(w, Reply("conflict"))
         [] pc[w] = "seq_index" -> Finish(w, Reply("event_sequence_invalid"))
         [] pc[w] = "key_index" -> EndTransaction(w, "recover") /\ UNCHANGED answer
    /\ UNCHANGED <<log, nextLogSeq>>

(***************************************************************************)
(* COMMIT.  The row becomes visible, then the lock is released.  The       *)
(* caller may never hear of it.                                            *)
(***************************************************************************)
Commit(w) ==
    /\ pc[w] = "commit"
    /\ LET s == Stored(rowSeq[w], request[w])
       IN  /\ log' = log \cup {s}
           /\ \/ Finish(w, ReplyWith("inserted", s))
              \/ Finish(w, Reply("storage"))
    /\ UNCHANGED nextLogSeq

\* The connection breaks, a statement times out or the caller is killed.
Lose(w) ==
    /\ pc[w] # "idle"
    /\ Finish(w, Reply("storage"))
    /\ UNCHANGED <<log, nextLogSeq>>

-----------------------------------------------------------------------------
\* What the caller's own process and the database do for it.
Progress(w) ==
    \/ Reuse(w) \/ RejectReuse(w) \/ KeyIsUnused(w)
    \/ RejectFinished(w) \/ RejectSequence(w) \/ Validate(w)
    \/ Insert(w) \/ UniqueViolation(w) \/ Commit(w)

Next ==
    \E w \in Writer :
        \/ \E e \in Envelope : Begin(w, e)
        \/ AcquireTraceLock(w)
        \/ Progress(w)
        \/ EnterIndex(w)
        \/ Lose(w)

\* PostgreSQL queues the waiters of a lock: none of them waits forever.
Fairness ==
    \A w \in Writer : /\ WF_vars(Progress(w))
                      /\ SF_vars(AcquireTraceLock(w))
                      /\ SF_vars(EnterIndex(w))

Spec == Init /\ [][Next]_vars

FairSpec == Spec /\ Fairness

-----------------------------------------------------------------------------
(***************************************************************************)
(* The types of the variables.                                             *)
(***************************************************************************)
TypeOK ==
    /\ log \subseteq StoredEvent
    /\ nextLogSeq \in Nat \ {0}
    /\ lockHolder \in [Trace -> Writer \cup {NoWriter}]
    /\ pc \in [Writer -> Stage]
    /\ request \in [Writer -> Envelope \cup {NoEvent}]
    /\ rowSeq \in [Writer -> Nat]
    /\ answer \in [Writer -> Answer]

(***************************************************************************)
(* The trace_seq of a trace's events are 0, 1, ..., n without gaps or      *)
(* duplicates, TraceStarted is the first, and TraceFinished, if there is   *)
(* one, the last: however appends to the trace race, retry and fail.       *)
(***************************************************************************)
WellFormedTraces ==
    \A s \in log :
        /\ s.event.type = "TraceStarted" <=> s.event.trace_seq = 0
        /\ \A i \in 0 .. s.event.trace_seq : i \in TraceSeqs(s.event.trace)
        /\ \A r \in EventsOf(s.event.trace) :
              /\ r.event.trace_seq = s.event.trace_seq => r = s
              /\ s.event.type = "TraceFinished" => r.event.trace_seq <= s.event.trace_seq

(***************************************************************************)
(* An idempotency key, an event id and a log_seq each name at most one     *)
(* event, also when two traces, each under its own lock, race for a key.   *)
(***************************************************************************)
UniqueNames ==
    \A r, s \in log :
        r # s => /\ r.event.key # s.event.key
                 /\ r.event.id # s.event.id
                 /\ r.log_seq # s.log_seq

(***************************************************************************)
(* Events of one trace got their log_seq in trace_seq order, so a reader   *)
(* in log_seq order sees each trace in order.  (Nothing of the kind holds  *)
(* between traces: see the projection modules.)                            *)
(***************************************************************************)
LogSeqFollowsTraceSeq ==
    \A r, s \in log :
        r.event.trace = s.event.trace /\ r.event.trace_seq < s.event.trace_seq
            => r.log_seq < s.log_seq

(***************************************************************************)
(* What append_event checked under the trace's lock still holds when the   *)
(* row is inserted and committed: neither the trigger nor the trace_seq    *)
(* index ever refuses a row the application accepted.                      *)
(***************************************************************************)
ChecksStayValid ==
    \A w \in Writer :
        pc[w] \in {"insert", "commit"} \cup IndexStage => Follows(request[w])

(***************************************************************************)
(* Every call of append_event ends: no set of callers waits for each       *)
(* other's locks and index entries for ever.                               *)
(***************************************************************************)
EveryAppendEnds == \A w \in Writer : pc[w] # "idle" ~> pc[w] = "idle"

(***************************************************************************)
(* Appends are atomic, and each answer is justified by the log at the      *)
(* moment it is given.                                                     *)
(***************************************************************************)
Abstract == INSTANCE DecisionLog

ImplementsDecisionLog == Abstract!Spec

(***************************************************************************)
(* What a reader of the log may rely on: rows enter the log in the order   *)
(* of their commits, one uncommitted row per trace at a time.              *)
(***************************************************************************)
Uncommitted ==
    {Stored(rowSeq[w], request[w]) : w \in {v \in Writer : pc[v] \in IndexStage \cup {"commit"}}}

Feed == INSTANCE AppendFeed WITH inserted <- Uncommitted

ImplementsAppendFeed == Feed!SpecFeed
=============================================================================
