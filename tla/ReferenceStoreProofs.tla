------------------------ MODULE ReferenceStoreProofs ------------------------
(***************************************************************************)
(* Safety of ReferenceStore, with either backend, for every set of         *)
(* processes, traces and envelopes: rows become visible in an order that   *)
(* readers can rely on, and append_event implements DecisionLog.           *)
(*                                                                         *)
(* Nothing keeps what a process checked from becoming false before its row *)
(* is committed.  The invariant says what is left of the checks: whenever  *)
(* one of them fails, the row's trace_seq or its key is taken, so that a   *)
(* unique index stops the row.                                             *)
(*                                                                         *)
(* The last part is about Migrations, which opens such a store.            *)
(***************************************************************************)
EXTENDS ReferenceStore, Migrations, WellFoundedInduction, TLAPS

Answer == [kind : AnswerKind, event : StoredEvent \cup {NoEvent}]

\* The transaction has inserted its row.
HasRow == IndexStage \cup {"commit"}

\* The trace_seq of e has been used.
SeqTaken(e) == e.trace_seq \in TraceSeqs(e.trace)

\* A call that runs has an envelope and no answer yet.
CallInv ==
    \A w \in Writer :
        /\ pc[w] # "idle" => request[w] \in Envelope /\ answer[w] = Reply("none")
        /\ pc[w] = "recover" => StoredUnder(request[w].key) # {}

\* The trace_seq of a trace are an initial segment of the naturals.
DenseTraces == \A t \in Trace : \E n \in Nat : TraceSeqs(t) = 0 .. (n - 1)

\* What is left of CheckSequence: no trace_seq below is missing.
CheckInv ==
    \A w \in Writer :
        pc[w] \in {"insert"} \cup HasRow =>
            /\ 0 .. (request[w].trace_seq - 1) \subseteq TraceSeqs(request[w].trace)
            /\ StartsAtZero(request[w])

\* PostgreSQL's sequence is ahead of the log; SQLite's log has no gap.
LogSeqInv ==
    /\ backend = "postgres" => \A s \in log : s.log_seq < nextLogSeq
    /\ backend = "sqlite" => \E n \in Nat : {s.log_seq : s \in log} \cup {0} = 0 .. n

(***************************************************************************)
(* An uncommitted row is newer than those of its trace, and the trace was  *)
(* open when it was inserted.  If one of the two is no longer so, an index *)
(* has an entry of the row.  SQLite has one uncommitted row at most.       *)
(***************************************************************************)
RowInv ==
    \A w \in Writer : pc[w] \in HasRow =>
        /\ \A s \in log : s.log_seq # rowSeq[w]
        /\ SeqTaken(request[w]) \/ \A s \in EventsOf(request[w].trace) : s.log_seq < rowSeq[w]
        /\ \/ SeqTaken(request[w])
           \/ ~TraceIsFinished(request[w].trace)
           \/ request[w].type = "TraceFinished"
        /\ backend = "sqlite" => /\ rowSeq[w] = get_last_log_seq + 1
                                 /\ pc[w] = "commit"
                                 /\ \A v \in Writer \ {w} : pc[v] \notin HasRow
        /\ backend = "postgres" =>
              /\ rowSeq[w] < nextLogSeq
              /\ \A v \in Writer \ {w} : pc[v] \in HasRow => rowSeq[v] # rowSeq[w]
        /\ rowSeq[w] \in Nat \ {0}

\* A row that has passed an index has the only entry of its value.
EntryInv ==
    \A w \in Writer, x \in IndexStage :
        pc[w] \in HasEntry[x] =>
            /\ \A s \in log : ~SameEntry(x, s.event, request[w])
            /\ \A v \in Writer \ {w} :
                  pc[v] \in HasEntry[x] => ~SameEntry(x, request[v], request[w])

IInv == /\ TypeOK
        /\ CallInv
        /\ DenseTraces
        /\ CheckInv
        /\ LogSeqInv
        /\ RowInv
        /\ EntryInv

-----------------------------------------------------------------------------
(***************************************************************************)
(* The operators that read the log.                                        *)
(***************************************************************************)
LEMMA NextOfDense ==
    ASSUME NEW t, NEW n \in Nat, TraceSeqs(t) = 0 .. (n - 1)
    PROVE  get_next_trace_seq(t) = n
<1>1. TraceSeqs(t) = {} <=> EventsOf(t) = {}
  BY DEF TraceSeqs
<1>2. CASE n = 0
  BY <1>1, <1>2 DEF get_next_trace_seq
<1>3. CASE n # 0
  <2>1. n - 1 \in TraceSeqs(t) /\ \A i \in TraceSeqs(t) : i <= n - 1
    BY <1>3
  <2>2. \A m \in TraceSeqs(t) : n - 1 <= m => m = n - 1
    OBVIOUS
  <2>3. MaxOf(TraceSeqs(t)) = n - 1
    BY <2>1, <2>2 DEF MaxOf
  <2> QED BY <1>1, <1>3, <2>1, <2>3 DEF get_next_trace_seq
<1> QED BY <1>2, <1>3

\* A dense trace holds exactly the trace_seq below the next one.
LEMMA DenseBelowNext ==
    ASSUME DenseTraces, NEW t \in Trace
    PROVE  /\ get_next_trace_seq(t) \in Nat
           /\ TraceSeqs(t) = 0 .. (get_next_trace_seq(t) - 1)
<1>1. PICK n \in Nat : TraceSeqs(t) = 0 .. (n - 1)
  BY DEF DenseTraces
<1> QED BY <1>1, NextOfDense

\* With SQLite, the last log_seq is at least every other.
LEMMA LastOfDense ==
    ASSUME LogSeqInv, backend = "sqlite"
    PROVE  /\ get_last_log_seq \in Nat
           /\ {s.log_seq : s \in log} \cup {0} = 0 .. get_last_log_seq
           /\ \A s \in log : s.log_seq \in Nat /\ s.log_seq <= get_last_log_seq
<1>1. PICK n \in Nat : {s.log_seq : s \in log} \cup {0} = 0 .. n
  BY DEF LogSeqInv
<1>2. \A m \in 0 .. n : (\A i \in 0 .. n : i <= m) => m = n
  OBVIOUS
<1>3. MaxOf(0 .. n) = n
  BY <1>2 DEF MaxOf
<1>4. get_last_log_seq = n
  BY <1>1, <1>3 DEF get_last_log_seq
<1>5. \A s \in log : s.log_seq \in 0 .. n
  BY <1>1
<1> QED BY <1>1, <1>4, <1>5

\* What is read from the log is the same when the log is.
LEMMA LogUnchanged ==
    ASSUME UNCHANGED log
    PROVE  /\ \A t : EventsOf(t)' = EventsOf(t)
           /\ \A t : TraceSeqs(t)' = TraceSeqs(t)
           /\ \A t : TraceIsFinished(t)' <=> TraceIsFinished(t)
           /\ \A k : StoredUnder(k)' = StoredUnder(k)
           /\ \A e : SeqTaken(e)' <=> SeqTaken(e)
           /\ get_last_log_seq' = get_last_log_seq
           /\ DenseTraces' <=> DenseTraces
<1>1. \A t : EventsOf(t)' = EventsOf(t)
  BY DEF EventsOf
<1>2. \A t : TraceSeqs(t)' = TraceSeqs(t)
  BY <1>1 DEF TraceSeqs
<1>3. \A t : TraceIsFinished(t)' <=> TraceIsFinished(t)
  BY <1>1 DEF TraceIsFinished
<1> QED BY <1>1, <1>2, <1>3 DEF StoredUnder, SeqTaken, get_last_log_seq, DenseTraces

\* Both ways of asking whether a trace is finished.
LEMMA SameFinished == \A t : is_trace_finished(t) <=> TraceIsFinished(t)
BY DEF is_trace_finished, TraceIsFinished, EventsOf

LEMMA RepliesAreAnswers ==
    /\ \A kind \in AnswerKind : Reply(kind) \in Answer
    /\ \A kind \in AnswerKind, s \in StoredEvent : ReplyWith(kind, s) \in Answer
BY DEF Reply, ReplyWith, Answer

\* Which stages have entries in which index.
LEMMA Entries ==
    /\ \A x \in IndexStage : HasEntry[x] \subseteq HasRow /\ "commit" \in HasEntry[x]
                              /\ "id_index" \notin HasEntry[x]
    /\ HasRow \subseteq Stage /\ IndexStage \subseteq HasRow
    /\ "idle" \notin HasRow /\ "lookup" \notin HasRow /\ "finished" \notin HasRow
    /\ "sequence" \notin HasRow /\ "insert" \notin HasRow /\ "recover" \notin HasRow
BY DEF HasEntry, HasRow, IndexStage, Stage

-----------------------------------------------------------------------------
(***************************************************************************)
(* IInv holds initially.                                                   *)
(***************************************************************************)
LEMMA InitIInv == Init => IInv
<1> SUFFICES ASSUME Init PROVE IInv
  OBVIOUS
<1> USE DEF Init
<1>1. TypeOK
  BY DEF TypeOK, Stage, Reply, AnswerKind
<1>2. DenseTraces
  <2>1. \A t \in Trace : TraceSeqs(t) = {}
    BY DEF TraceSeqs, EventsOf
  <2>2. 0 .. (0 - 1) = {} /\ 0 \in Nat
    OBVIOUS
  <2> QED BY <2>1, <2>2 DEF DenseTraces
<1>3. LogSeqInv
  <2>1. {s.log_seq : s \in log} \cup {0} = 0 .. 0 /\ 0 \in Nat
    OBVIOUS
  <2> QED BY <2>1 DEF LogSeqInv
<1>4. CallInv /\ CheckInv /\ RowInv /\ EntryInv
  BY Entries DEF CallInv, CheckInv, RowInv, EntryInv
<1> QED BY <1>1, <1>2, <1>3, <1>4 DEF IInv

-----------------------------------------------------------------------------
(***************************************************************************)
(* A step of w that leaves the log alone and after which w has no row.     *)
(***************************************************************************)
LEMMA RowlessPreserves ==
    ASSUME IInv, NEW w \in Writer, UNCHANGED <<log, backend>>, TypeOK',
           nextLogSeq <= nextLogSeq',
           \A v \in Writer \ {w} : /\ pc'[v] = pc[v] /\ request'[v] = request[v]
                                   /\ rowSeq'[v] = rowSeq[v] /\ answer'[v] = answer[v],
           pc'[w] \notin HasRow,
           pc'[w] # "idle" => request'[w] \in Envelope /\ answer'[w] = Reply("none"),
           pc'[w] = "recover" => StoredUnder(request'[w].key) # {},
           pc'[w] = "insert" =>
               /\ 0 .. (request'[w].trace_seq - 1) \subseteq TraceSeqs(request'[w].trace)
               /\ StartsAtZero(request'[w])
    PROVE  IInv'
<1> USE DEF IInv
<1>1. CallInv'
  BY LogUnchanged DEF CallInv, Reply
<1>2. CheckInv'
  BY LogUnchanged DEF CheckInv, StartsAtZero, HasRow, IndexStage
<1>3. LogSeqInv'
  <2>1. \A s \in log : s.log_seq < nextLogSeq => s.log_seq < nextLogSeq'
    BY DEF TypeOK, StoredEvent
  <2> QED BY <2>1 DEF LogSeqInv
<1>4. RowInv'
  <2> SUFFICES ASSUME NEW v \in Writer, pc'[v] \in HasRow
               PROVE  /\ \A s \in log : s.log_seq # rowSeq'[v]
                      /\ SeqTaken(request'[v])
                            \/ \A s \in EventsOf(request'[v].trace) : s.log_seq < rowSeq'[v]
                      /\ \/ SeqTaken(request'[v])
                         \/ ~TraceIsFinished(request'[v].trace)
                         \/ request'[v].type = "TraceFinished"
                      /\ backend = "sqlite" => /\ rowSeq'[v] = get_last_log_seq + 1
                                               /\ pc'[v] = "commit"
                                               /\ \A u \in Writer \ {v} : pc'[u] \notin HasRow
                      /\ backend = "postgres" =>
                            /\ rowSeq'[v] < nextLogSeq'
                            /\ \A u \in Writer \ {v} : pc'[u] \in HasRow => rowSeq'[u] # rowSeq'[v]
                      /\ rowSeq'[v] \in Nat \ {0}
    BY LogUnchanged DEF RowInv, HasRow, IndexStage
  <2>1. v # w /\ pc[v] \in HasRow /\ request'[v] = request[v] /\ rowSeq'[v] = rowSeq[v]
    OBVIOUS
  <2>2. \A u \in Writer : pc'[u] \in HasRow => pc[u] \in HasRow /\ rowSeq'[u] = rowSeq[u]
    OBVIOUS
  <2>3. backend = "postgres" => rowSeq[v] < nextLogSeq'
    BY <2>1 DEF RowInv, TypeOK
  <2> QED BY <2>1, <2>2, <2>3 DEF RowInv
<1>5. EntryInv'
  <2>1. \A v \in Writer, x \in IndexStage : pc'[v] \in HasEntry[x] =>
            v # w /\ pc[v] \in HasEntry[x] /\ request'[v] = request[v]
    BY Entries
  <2> QED BY <2>1 DEF EntryInv, IndexStage, HasEntry, SameEntry
<1> QED BY <1>1, <1>2, <1>3, <1>4, <1>5, LogUnchanged

(***************************************************************************)
(* The call of w ends without a row: a reuse, a rejection, a violated      *)
(* index, a timeout or a lost connection.                                  *)
(***************************************************************************)
LEMMA FinishPreserves ==
    ASSUME IInv, NEW w \in Writer, NEW a \in Answer, Finish(w, a), UNCHANGED log,
           nextLogSeq' \in Nat \ {0}, nextLogSeq <= nextLogSeq'
    PROVE  IInv'
<1> USE DEF IInv, Finish
<1>1. /\ pc'[w] = "idle" /\ request' = request
      /\ \A v \in Writer \ {w} : /\ pc'[v] = pc[v] /\ rowSeq'[v] = rowSeq[v]
                                 /\ answer'[v] = answer[v]
  BY DEF TypeOK
<1>2. TypeOK'
  BY DEF TypeOK, Stage, Answer, StoredEvent
<1> QED BY <1>1, <1>2, Entries, RowlessPreserves

LEMMA BeginPreserves ==
    ASSUME IInv, NEW w \in Writer, NEW e \in Envelope, Begin(w, e)
    PROVE  IInv'
<1> USE DEF IInv, Begin
<1>1. /\ pc'[w] = "lookup" /\ request'[w] = e /\ answer'[w] = Reply("none")
      /\ \A v \in Writer \ {w} : /\ pc'[v] = pc[v] /\ request'[v] = request[v]
                                 /\ answer'[v] = answer[v]
  BY DEF TypeOK
<1>2. TypeOK'
  <2>1. Reply("none") \in Answer
    BY RepliesAreAnswers DEF AnswerKind
  <2> QED BY <2>1 DEF TypeOK, Stage, Answer, StoredEvent
<1>3. nextLogSeq <= nextLogSeq'
  BY DEF TypeOK
<1> QED BY <1>1, <1>2, <1>3, Entries, RowlessPreserves

\* The answers to a repeated key.
LEMMA ReusePreserves ==
    ASSUME IInv, NEW w \in Writer, Reuse(w) \/ RejectReuse(w)
    PROVE  IInv'
<1>1. nextLogSeq' \in Nat \ {0} /\ nextLogSeq <= nextLogSeq' /\ UNCHANGED log
  BY DEF Reuse, RejectReuse, IInv, TypeOK
<1>2. CASE Reuse(w)
  <2>1. PICK s \in log : Finish(w, ReplyWith("reused", s))
    BY <1>2 DEF Reuse, StoredUnder
  <2>2. ReplyWith("reused", s) \in Answer
    BY RepliesAreAnswers DEF IInv, TypeOK, AnswerKind
  <2> QED BY <1>1, <2>1, <2>2, FinishPreserves
<1>3. CASE RejectReuse(w)
  <2>1. Reply("idempotency_conflict") \in Answer
    BY RepliesAreAnswers DEF AnswerKind
  <2> QED BY <1>1, <1>3, <2>1, FinishPreserves DEF RejectReuse
<1> QED BY <1>2, <1>3

(***************************************************************************)
(* A step to a stage without a row.                                        *)
(***************************************************************************)
LEMMA GotoPreserves ==
    ASSUME IInv, NEW w \in Writer, NEW from \in Stage \ {"idle"},
           NEW to \in {"finished", "sequence", "insert", "recover"},
           Goto(w, from, to), UNCHANGED nextLogSeq,
           rowSeq' \in [Writer -> Nat], \A v \in Writer \ {w} : rowSeq'[v] = rowSeq[v],
           to = "recover" => StoredUnder(request[w].key) # {},
           to = "insert" => /\ 0 .. (request[w].trace_seq - 1) \subseteq TraceSeqs(request[w].trace)
                            /\ StartsAtZero(request[w])
    PROVE  IInv'
<1> USE DEF IInv, Goto
<1>1. /\ pc[w] # "idle" /\ pc'[w] = to /\ to \in Stage
      /\ \A v \in Writer \ {w} : pc'[v] = pc[v]
  BY DEF TypeOK, Stage
<1>2. TypeOK'
  BY <1>1 DEF TypeOK, StoredEvent
<1>3. request[w] \in Envelope /\ answer[w] = Reply("none")
  BY <1>1 DEF CallInv
<1>4. nextLogSeq <= nextLogSeq'
  BY DEF TypeOK
<1> QED BY <1>1, <1>2, <1>3, <1>4, Entries, RowlessPreserves

\* The three checks before the INSERT.
LEMMA CheckPreserves ==
    ASSUME IInv, NEW w \in Writer, KeyIsUnused(w) \/ CheckFinished(w) \/ CheckSequence(w)
    PROVE  IInv'
<1>1. /\ \A kind \in AnswerKind : Reply(kind) \in Answer
      /\ "conflict" \in AnswerKind /\ "event_sequence_invalid" \in AnswerKind
      /\ {"lookup", "finished", "sequence"} \subseteq Stage \ {"idle"}
  BY RepliesAreAnswers DEF AnswerKind, Stage
<1>2. UNCHANGED nextLogSeq /\ nextLogSeq \in Nat \ {0} /\ nextLogSeq <= nextLogSeq
  BY DEF KeyIsUnused, CheckFinished, CheckSequence, IInv, TypeOK
<1>3. UNCHANGED rowSeq => /\ rowSeq' \in [Writer -> Nat]
                          /\ \A v \in Writer \ {w} : rowSeq'[v] = rowSeq[v]
  BY DEF IInv, TypeOK
<1>4. CASE KeyIsUnused(w)
  BY <1>1, <1>2, <1>3, <1>4, GotoPreserves DEF KeyIsUnused
<1>5. CASE CheckFinished(w)
  <2>1. CASE is_trace_finished(request[w].trace)
    BY <1>1, <1>2, <1>5, <2>1, FinishPreserves DEF CheckFinished
  <2>2. CASE ~is_trace_finished(request[w].trace)
    BY <1>1, <1>2, <1>3, <1>5, <2>2, GotoPreserves DEF CheckFinished
  <2> QED BY <2>1, <2>2
<1>6. CASE CheckSequence(w)
  <2> DEFINE e == request[w]
  <2>1. e.trace \in Trace
    BY <1>6, EnvelopeAssumption DEF CheckSequence, IInv, CallInv
  <2>2. CASE validate_trace_seq(e, get_next_trace_seq(e.trace))
    <3>1. 0 .. (e.trace_seq - 1) \subseteq TraceSeqs(e.trace) /\ StartsAtZero(e)
      BY <2>1, <2>2, DenseBelowNext DEF validate_trace_seq, StartsAtZero, IInv
    <3>2. Goto(w, "sequence", "insert") /\ UNCHANGED rowSeq
      BY <1>6, <2>2 DEF CheckSequence
    <3> QED BY <1>1, <1>2, <1>3, <3>1, <3>2, GotoPreserves
  <2>3. CASE ~validate_trace_seq(e, get_next_trace_seq(e.trace))
    BY <1>1, <1>2, <1>6, <2>3, FinishPreserves DEF CheckSequence
  <2> QED BY <2>2, <2>3
<1> QED BY <1>4, <1>5, <1>6

\* The INSERT or an index refuses the row, or the connection is lost.
LEMMA RefusalPreserves ==
    ASSUME IInv, NEW w \in Writer,
           IntegrityErrorSqlite(w) \/ BusyTimeout(w) \/ UniqueViolationPostgres(w) \/ Lose(w)
    PROVE  IInv'
<1>1. /\ \A kind \in AnswerKind : Reply(kind) \in Answer
      /\ {"conflict", "event_sequence_invalid", "storage"} \subseteq AnswerKind
  BY RepliesAreAnswers DEF AnswerKind
<1>2. UNCHANGED <<log, nextLogSeq>> /\ nextLogSeq \in Nat \ {0} /\ nextLogSeq <= nextLogSeq
  BY DEF IntegrityErrorSqlite, BusyTimeout, UniqueViolationPostgres, Lose, IInv, TypeOK
<1>3. CASE \E kind \in {"conflict", "event_sequence_invalid", "storage"} : Finish(w, Reply(kind))
  BY <1>1, <1>2, <1>3, FinishPreserves
<1>4. CASE \E from \in {"insert", "key_index"} :
               /\ Goto(w, from, "recover") /\ StoredUnder(request[w].key) # {}
               /\ UNCHANGED rowSeq \/ rowSeq' = [rowSeq EXCEPT ![w] = 0]
  <2>1. /\ rowSeq' \in [Writer -> Nat] /\ \A v \in Writer \ {w} : rowSeq'[v] = rowSeq[v]
        /\ {"insert", "key_index"} \subseteq Stage \ {"idle"}
    BY <1>4 DEF IInv, TypeOK, Stage, IndexStage
  <2> QED BY <1>2, <1>4, <2>1, GotoPreserves
<1>5. CASE IntegrityErrorSqlite(w)
  BY <1>3, <1>4, <1>5 DEF IntegrityErrorSqlite
<1>6. CASE UniqueViolationPostgres(w)
  <2>1. pc[w] = "key_index" => StoredUnder(request[w].key) # {}
    BY <1>6 DEF UniqueViolationPostgres, CommittedDuplicate, SameEntry, StoredUnder
  <2> QED BY <1>3, <1>4, <1>6, <2>1 DEF UniqueViolationPostgres, Goto
<1> QED BY <1>3, <1>5, <1>6 DEF BusyTimeout, Lose

-----------------------------------------------------------------------------
(***************************************************************************)
(* The INSERT.  It runs under the trigger; SQLite's also under the write   *)
(* lock and the unique indexes.                                            *)
(***************************************************************************)
LEMMA InsertSqlitePreserves ==
    ASSUME IInv, NEW w \in Writer, InsertSqlite(w)
    PROVE  IInv'
<1> USE DEF IInv
<1> DEFINE e == request[w]
<1>1. /\ backend = "sqlite" /\ pc[w] = "insert" /\ pc'[w] = "commit"
      /\ \A v \in Writer \ {w} : pc'[v] = pc[v] /\ rowSeq'[v] = rowSeq[v]
      /\ UNCHANGED <<log, backend, nextLogSeq, request, answer>>
  BY DEF InsertSqlite, Goto, TypeOK
<1>2. \A v \in Writer \ {w} : pc[v] \notin HasRow
  BY <1>1 DEF RowInv, InsertSqlite, WriteLockedByOther
<1>3. get_last_log_seq \in Nat /\ \A s \in log : s.log_seq < get_last_log_seq + 1
  BY <1>1, LastOfDense
<1>4. rowSeq'[w] = get_last_log_seq + 1 /\ rowSeq' \in [Writer -> Nat]
  BY <1>3 DEF InsertSqlite, NextRowid, TypeOK
<1>5. TypeOK'
  BY <1>1, <1>4 DEF TypeOK, InsertSqlite, Goto, Stage, StoredEvent
<1>6. CallInv'
  BY <1>1, LogUnchanged DEF CallInv, Reply
<1>7. CheckInv'
  BY <1>1, LogUnchanged DEF CheckInv, StartsAtZero, HasRow, IndexStage
<1>8. RowInv'
  <2> SUFFICES ASSUME NEW v \in Writer, pc'[v] \in HasRow
               PROVE  /\ \A s \in log : s.log_seq # rowSeq'[v]
                      /\ \A s \in EventsOf(request[v].trace) : s.log_seq < rowSeq'[v]
                      /\ \/ ~TraceIsFinished(request[v].trace)
                         \/ request[v].type = "TraceFinished"
                      /\ rowSeq'[v] = get_last_log_seq + 1
                      /\ pc'[v] = "commit"
                      /\ \A u \in Writer \ {v} : pc'[u] \notin HasRow
                      /\ rowSeq'[v] \in Nat \ {0}
    BY <1>1, LogUnchanged DEF RowInv
  <2>1. v = w
    BY <1>1, <1>2
  <2>2. ~TraceIsFinished(e.trace) \/ e.type = "TraceFinished"
    BY SameFinished DEF InsertSqlite, dg_block_events_after_finish
  <2>3. \A s \in log : s.log_seq \in Nat
    BY DEF TypeOK, StoredEvent
  <2> QED BY <1>1, <1>2, <1>3, <1>4, <2>1, <2>2, <2>3 DEF EventsOf
<1>9. LogSeqInv'
  BY <1>1 DEF LogSeqInv
<1>10. EntryInv'
  <2>1. \A v \in Writer, x \in IndexStage : pc'[v] \in HasEntry[x] => v = w
    BY <1>1, <1>2, Entries
  <2>2. \A s \in log, x \in IndexStage : ~SameEntry(x, s.event, e)
    BY DEF InsertSqlite, Taken, SameEntry
  <2> QED BY <1>1, <2>1, <2>2 DEF EntryInv, SameEntry, IndexStage, HasEntry
<1> QED BY <1>1, <1>5, <1>6, <1>7, <1>8, <1>9, <1>10, LogUnchanged

LEMMA InsertPostgresPreserves ==
    ASSUME IInv, NEW w \in Writer, InsertPostgres(w)
    PROVE  IInv'
<1> USE DEF IInv
<1> DEFINE e == request[w]
<1>1. /\ backend = "postgres" /\ pc[w] = "insert" /\ nextLogSeq \in Nat \ {0}
      /\ nextLogSeq' = nextLogSeq + 1
      /\ nextLogSeq' \in Nat \ {0} /\ nextLogSeq <= nextLogSeq'
  BY DEF InsertPostgres, TypeOK
<1>2. CASE dg_block_events_after_finish(e)
  <2>1. Reply("conflict") \in Answer
    BY RepliesAreAnswers DEF AnswerKind
  <2> QED BY <1>1, <1>2, <2>1, FinishPreserves DEF InsertPostgres
<1>3. CASE ~dg_block_events_after_finish(e)
  <2>1. /\ pc'[w] = "id_index" /\ rowSeq'[w] = nextLogSeq
        /\ \A v \in Writer \ {w} : pc'[v] = pc[v] /\ rowSeq'[v] = rowSeq[v]
        /\ UNCHANGED <<log, backend, request, answer>>
    BY <1>3 DEF InsertPostgres, Goto, TypeOK
  <2>2. TypeOK'
    BY <1>1, <1>3, <2>1 DEF TypeOK, InsertPostgres, Goto, Stage, IndexStage, StoredEvent
  <2>3. CallInv'
    BY <1>1, <2>1, LogUnchanged DEF CallInv, Reply
  <2>4. CheckInv'
    BY <1>1, <2>1, LogUnchanged DEF CheckInv, StartsAtZero, HasRow, IndexStage
  <2>5. LogSeqInv'
    <3>1. \A s \in log : s.log_seq < nextLogSeq => s.log_seq < nextLogSeq'
      BY <1>1 DEF TypeOK, StoredEvent
    <3> QED BY <1>1, <2>1, <3>1 DEF LogSeqInv
  <2>6. RowInv'
    <3> SUFFICES ASSUME NEW v \in Writer, pc'[v] \in HasRow
                 PROVE  /\ \A s \in log : s.log_seq # rowSeq'[v]
                        /\ SeqTaken(request[v])
                              \/ \A s \in EventsOf(request[v].trace) : s.log_seq < rowSeq'[v]
                        /\ \/ SeqTaken(request[v])
                           \/ ~TraceIsFinished(request[v].trace)
                           \/ request[v].type = "TraceFinished"
                        /\ rowSeq'[v] < nextLogSeq'
                        /\ \A u \in Writer \ {v} : pc'[u] \in HasRow => rowSeq'[u] # rowSeq'[v]
                        /\ rowSeq'[v] \in Nat \ {0}
      BY <1>1, <2>1, LogUnchanged DEF RowInv
    <3>1. \A s \in log : s.log_seq \in Nat /\ s.log_seq < nextLogSeq
      BY <1>1 DEF LogSeqInv, TypeOK, StoredEvent
    <3>2. \A u \in Writer \ {w} : pc'[u] \in HasRow =>
              rowSeq'[u] = rowSeq[u] /\ rowSeq[u] \in Nat \ {0} /\ rowSeq[u] < nextLogSeq
      BY <1>1, <2>1 DEF RowInv
    <3>3. CASE v = w
      <4>1. ~TraceIsFinished(e.trace) \/ e.type = "TraceFinished"
        BY <1>3, SameFinished DEF dg_block_events_after_finish
      <4>2. \A s \in EventsOf(e.trace) : s.log_seq < rowSeq'[w]
        BY <2>1, <3>1 DEF EventsOf
      <4> QED BY <1>1, <2>1, <3>1, <3>2, <3>3, <4>1, <4>2
    <3>4. CASE v # w
      <4>1. pc[v] \in HasRow /\ rowSeq'[v] = rowSeq[v] /\ rowSeq[v] < nextLogSeq'
        BY <1>1, <2>1, <3>2, <3>4
      <4>2. \A u \in Writer \ {v} : pc'[u] \in HasRow => rowSeq'[u] # rowSeq'[v]
        BY <1>1, <2>1, <3>2, <3>4 DEF RowInv
      <4> QED BY <1>1, <3>4, <4>1, <4>2 DEF RowInv
    <3> QED BY <3>3, <3>4
  <2>7. EntryInv'
    <3>1. \A v \in Writer, x \in IndexStage : pc'[v] \in HasEntry[x] =>
              v # w /\ pc[v] \in HasEntry[x]
      BY <2>1, Entries
    <3> QED BY <2>1, <3>1 DEF EntryInv, SameEntry
  <2> QED BY <2>1, <2>2, <2>3, <2>4, <2>5, <2>6, <2>7, LogUnchanged
<1> QED BY <1>2, <1>3

(***************************************************************************)
(* An inserter enters an index that has no equal entry.                    *)
(***************************************************************************)
LEMMA EnterIndexPreserves ==
    ASSUME IInv, NEW w \in Writer, EnterIndex(w)
    PROVE  IInv'
<1> USE DEF IInv
<1> DEFINE i == pc[w]
<1>1. /\ i \in IndexStage /\ pc'[w] = AfterIndex[i]
      /\ \A v \in Writer \ {w} : pc'[v] = pc[v]
      /\ UNCHANGED <<log, backend, nextLogSeq, request, rowSeq, answer>>
      /\ AfterIndex[i] \in HasRow /\ AfterIndex[i] \in Stage
  BY DEF EnterIndex, Goto, TypeOK, AfterIndex, IndexStage, HasRow, Stage
<1>2. \A v \in Writer : pc'[v] \in HasRow => pc[v] \in HasRow
  BY <1>1 DEF HasRow
<1>3. backend = "postgres"
  BY <1>1 DEF RowInv, HasRow, IndexStage, TypeOK
<1>4. TypeOK'
  BY <1>1 DEF EnterIndex, Goto, TypeOK, StoredEvent
<1>5. CallInv'
  BY <1>1, LogUnchanged DEF CallInv, Reply, HasRow, IndexStage
<1>6. CheckInv'
  BY <1>1, <1>2, LogUnchanged DEF CheckInv, StartsAtZero, HasRow, IndexStage
<1>7. RowInv'
  BY <1>1, <1>2, <1>3, LogUnchanged DEF RowInv
<1>8. EntryInv'
  <2> SUFFICES ASSUME NEW v \in Writer, NEW x \in IndexStage, pc'[v] \in HasEntry[x]
               PROVE  /\ \A s \in log : ~SameEntry(x, s.event, request[v])
                      /\ \A u \in Writer \ {v} :
                            pc'[u] \in HasEntry[x] => ~SameEntry(x, request[u], request[v])
    BY <1>1 DEF EntryInv, SameEntry
  <2>1. \A u \in Writer \ {w} : pc'[u] \in HasEntry[x] => pc[u] \in HasEntry[x]
    BY <1>1
  <2>2. pc'[w] \in HasEntry[x] => pc[w] \in HasEntry[x] \/ x = pc[w]
    BY <1>1 DEF AfterIndex, HasEntry, IndexStage
  <2>3. \A d, f : SameEntry(x, d, f) <=> SameEntry(x, f, d)
    BY DEF SameEntry
  <2>4. x = pc[w] => \A u \in Writer \ {w} :
            pc[u] \in HasEntry[x] => ~SameEntry(x, request[u], request[w])
    BY DEF EnterIndex, UncommittedDuplicate
  <2>5. x = pc[w] => \A s \in log : ~SameEntry(x, s.event, request[w])
    BY DEF EnterIndex, CommittedDuplicate
  <2> QED BY <2>1, <2>2, <2>3, <2>4, <2>5 DEF EntryInv
<1>9. LogSeqInv'
  BY <1>1 DEF LogSeqInv
<1> QED BY <1>1, <1>4, <1>5, <1>6, <1>7, <1>8, <1>9, LogUnchanged

-----------------------------------------------------------------------------
\* Initial segments of the naturals.
LEMMA SegmentInside ==
    ASSUME NEW m \in Nat, NEW n \in Nat, 0 .. (m - 1) \subseteq 0 .. (n - 1)
    PROVE  m <= n
<1>1. CASE n < m
  <2>1. n \in 0 .. (m - 1) /\ n \notin 0 .. (n - 1)
    BY <1>1
  <2> QED BY <2>1
<1> QED BY <1>1

LEMMA SegmentGrows == \A n \in Nat : 0 .. (n - 1) \cup {n} = 0 .. ((n + 1) - 1)
OBVIOUS

(***************************************************************************)
(* COMMIT.  The row is the next of its trace, with a new key and id.       *)
(***************************************************************************)
LEMMA CommittedRow ==
    ASSUME IInv, NEW w \in Writer, pc[w] = "commit"
    PROVE  /\ Stored(rowSeq[w], request[w]) \in StoredEvent
           /\ request[w] \in Envelope /\ request[w].trace \in Trace
           /\ request[w].trace_seq \in Nat
           /\ TraceSeqs(request[w].trace) = 0 .. (request[w].trace_seq - 1)
           /\ ~SeqTaken(request[w])
           /\ \A s \in log : s.log_seq # rowSeq[w]
           /\ \A s \in log : s.event.key # request[w].key /\ s.event.id # request[w].id
           /\ \A s \in EventsOf(request[w].trace) : s.log_seq < rowSeq[w]
<1> USE DEF IInv
<1> DEFINE e == request[w]
<1>1. pc[w] \in HasRow /\ \A x \in IndexStage : pc[w] \in HasEntry[x]
  BY Entries DEF HasRow
<1>2. e \in Envelope /\ e.trace \in Trace /\ e.trace_seq \in Nat
  BY EnvelopeAssumption DEF CallInv
<1>3. Stored(rowSeq[w], e) \in StoredEvent
  BY <1>1, <1>2 DEF RowInv, Stored, StoredEvent
<1>4. \A s \in log : \A x \in IndexStage : ~SameEntry(x, s.event, e)
  BY <1>1 DEF EntryInv
<1>5. \A s \in log : s.event.key # e.key /\ s.event.id # e.id
  BY <1>4 DEF SameEntry, IndexStage
<1>6. ~SeqTaken(e)
  BY <1>4 DEF SameEntry, IndexStage, SeqTaken, TraceSeqs, EventsOf
<1>7. PICK n \in Nat : TraceSeqs(e.trace) = 0 .. (n - 1)
  BY <1>2 DEF DenseTraces
<1>8. 0 .. (e.trace_seq - 1) \subseteq 0 .. (n - 1) /\ e.trace_seq \notin 0 .. (n - 1)
  BY <1>1, <1>6, <1>7 DEF CheckInv, SeqTaken
<1>9. n = e.trace_seq
  <2>1. e.trace_seq <= n
    BY <1>2, <1>8, SegmentInside
  <2> QED BY <1>2, <1>8, <2>1
<1> QED BY <1>1, <1>2, <1>3, <1>5, <1>6, <1>7, <1>9 DEF RowInv

\* What is read from the log when row s has been added.
LEMMA LogGrows ==
    ASSUME NEW s, log' = log \cup {s}
    PROVE  /\ \A t : EventsOf(t)' = EventsOf(t) \cup {r \in {s} : r.event.trace = t}
           /\ \A t : t # s.event.trace => EventsOf(t)' = EventsOf(t) /\ TraceSeqs(t)' = TraceSeqs(t)
           /\ TraceSeqs(s.event.trace)' = TraceSeqs(s.event.trace) \cup {s.event.trace_seq}
           /\ \A t : TraceSeqs(t) \subseteq TraceSeqs(t)'
           /\ \A t : t # s.event.trace => (TraceIsFinished(t)' <=> TraceIsFinished(t))
           /\ \A k : StoredUnder(k) \subseteq StoredUnder(k)'
<1>1. \A t : EventsOf(t)' = EventsOf(t) \cup {r \in {s} : r.event.trace = t}
  BY DEF EventsOf
<1>2. \A t : t # s.event.trace => EventsOf(t)' = EventsOf(t)
  BY <1>1
<1>3. EventsOf(s.event.trace)' = EventsOf(s.event.trace) \cup {s}
  BY <1>1
<1>4. \A t : t # s.event.trace => TraceSeqs(t)' = TraceSeqs(t)
  BY <1>2 DEF TraceSeqs
<1>5. TraceSeqs(s.event.trace)' = TraceSeqs(s.event.trace) \cup {s.event.trace_seq}
  BY <1>3 DEF TraceSeqs
<1>6. \A t : t # s.event.trace => (TraceIsFinished(t)' <=> TraceIsFinished(t))
  BY <1>2 DEF TraceIsFinished
<1> QED BY <1>1, <1>2, <1>4, <1>5, <1>6 DEF StoredUnder

\* Another row of the same trace, if there is one, has just lost its trace_seq.
LEMMA CommitTakesSeq ==
    ASSUME IInv, NEW w \in Writer, pc[w] = "commit", NEW v \in Writer \ {w}, pc[v] \in HasRow,
           log' = log \cup {Stored(rowSeq[w], request[w])}, UNCHANGED request,
           request[v].trace = request[w].trace
    PROVE  request[v].trace_seq \in TraceSeqs(request[v].trace)'
<1> DEFINE n == request[w].trace_seq
           m == request[v].trace_seq
<1>1. TraceSeqs(request[w].trace) = 0 .. (n - 1) /\ n \in Nat
  BY CommittedRow
<1>2. 0 .. (m - 1) \subseteq 0 .. (n - 1)
  BY <1>1 DEF IInv, CheckInv
<1>3. m \in Nat
  BY EnvelopeAssumption, Entries DEF IInv, CallInv
<1>4. m <= n
  BY <1>1, <1>2, <1>3, SegmentInside
<1>5. TraceSeqs(request[w].trace)' = TraceSeqs(request[w].trace) \cup {n}
  <2>1. /\ Stored(rowSeq[w], request[w]).event.trace = request[w].trace
        /\ Stored(rowSeq[w], request[w]).event.trace_seq = n
    BY DEF Stored
  <2> QED BY <2>1, LogGrows
<1>6. m \in 0 .. (n - 1) \cup {n}
  BY <1>1, <1>3, <1>4
<1> QED BY <1>1, <1>5, <1>6

LEMMA CommitPreserves ==
    ASSUME IInv, NEW w \in Writer, Commit(w)
    PROVE  IInv'
<1> USE DEF IInv
<1> DEFINE e == request[w]
           row == Stored(rowSeq[w], e)
<1>1. /\ pc[w] = "commit" /\ log' = log \cup {row} /\ pc'[w] = "idle"
      /\ row.event = e /\ row.log_seq = rowSeq[w]
      /\ \A v \in Writer \ {w} : /\ pc'[v] = pc[v] /\ rowSeq'[v] = rowSeq[v]
                                 /\ answer'[v] = answer[v]
      /\ UNCHANGED <<backend, nextLogSeq, request>>
  BY DEF Commit, Finish, TypeOK, Stored
<1>2. /\ row \in StoredEvent /\ e.trace \in Trace /\ e.trace_seq \in Nat
      /\ TraceSeqs(e.trace) = 0 .. (e.trace_seq - 1)
      /\ \A s \in log : s.log_seq # rowSeq[w]
  BY <1>1, CommittedRow
<1>3. \A v \in Writer : pc'[v] # "idle" => v # w
  BY <1>1
<1>4. TypeOK'
  <2>1. PICK a \in Answer : Finish(w, a)
    <3>1. ReplyWith("inserted", row) \in Answer /\ Reply("storage") \in Answer
      BY <1>2, RepliesAreAnswers DEF AnswerKind
    <3> QED BY <3>1 DEF Commit
  <2> QED BY <1>1, <1>2, <2>1 DEF TypeOK, Finish, Answer, Stage, StoredEvent
<1>5. CallInv'
  BY <1>1, <1>3, LogGrows DEF CallInv, Reply
<1>6. DenseTraces'
  <2> SUFFICES ASSUME NEW t \in Trace
               PROVE  \E n \in Nat : TraceSeqs(t)' = 0 .. (n - 1)
    BY DEF DenseTraces
  <2>1. CASE t = e.trace
    <3>1. TraceSeqs(t)' = 0 .. (e.trace_seq - 1) \cup {e.trace_seq}
      BY <1>1, <1>2, <2>1, LogGrows
    <3>2. TraceSeqs(t)' = 0 .. ((e.trace_seq + 1) - 1)
      BY <1>2, <3>1, SegmentGrows
    <3>3. e.trace_seq + 1 \in Nat
      BY <1>2
    <3> QED BY <3>2, <3>3
  <2>2. CASE t # e.trace
    BY <1>1, <2>2, LogGrows DEF DenseTraces
  <2> QED BY <2>1, <2>2
<1>7. CheckInv'
  <2>1. \A v \in Writer : pc'[v] \in {"insert"} \cup HasRow =>
            pc[v] \in {"insert"} \cup HasRow /\ request'[v] = request[v]
    BY <1>1, Entries
  <2>2. \A t : TraceSeqs(t) \subseteq TraceSeqs(t)'
    BY <1>1, LogGrows
  <2> QED BY <2>1, <2>2 DEF CheckInv, StartsAtZero
<1>8. LogSeqInv'
  <2>1. CASE backend = "postgres"
    <3>1. rowSeq[w] < nextLogSeq
      BY <1>1, <2>1 DEF RowInv, HasRow
    <3> QED BY <1>1, <2>1, <3>1 DEF LogSeqInv
  <2>2. CASE backend = "sqlite"
    <3> DEFINE last == get_last_log_seq
    <3>1. rowSeq[w] = last + 1
      BY <1>1, <2>2 DEF RowInv, HasRow
    <3>2. {s.log_seq : s \in log} \cup {0} = 0 .. last /\ last \in Nat
      BY <2>2, LastOfDense
    <3>3. {s.log_seq : s \in log'} \cup {0} = (0 .. last) \cup {last + 1}
      BY <1>1, <3>1, <3>2
    <3>4. (0 .. last) \cup {last + 1} = 0 .. (last + 1) /\ last + 1 \in Nat
      BY <3>2
    <3> QED BY <1>1, <2>2, <3>3, <3>4 DEF LogSeqInv
  <2> QED BY <2>1, <2>2 DEF TypeOK
<1>9. RowInv'
  <2> SUFFICES ASSUME NEW v \in Writer \ {w}, pc[v] \in HasRow
               PROVE  /\ backend = "postgres"
                      /\ \A s \in log \cup {row} : s.log_seq # rowSeq[v]
                      /\ \/ SeqTaken(request[v])'
                         \/ /\ \A s \in EventsOf(request[v].trace)' : s.log_seq < rowSeq[v]
                            /\ \/ ~TraceIsFinished(request[v].trace)'
                               \/ request[v].type = "TraceFinished"
    <3>1. \A v \in Writer : pc'[v] \in HasRow => v \in Writer \ {w} /\ pc[v] \in HasRow
      BY <1>1, Entries
    <3> QED BY <1>1, <3>1 DEF RowInv
  <2>1. backend = "postgres"
    BY <1>1 DEF RowInv, HasRow, TypeOK
  <2>2. rowSeq[v] # rowSeq[w]
    BY <1>1, <2>1 DEF RowInv, HasRow
  <2>3. \A s \in log \cup {row} : s.log_seq # rowSeq[v]
    BY <1>1, <2>2 DEF RowInv
  <2>4. CASE request[v].trace = e.trace
    <3>1. SeqTaken(request[v])'
      BY <1>1, <2>4, CommitTakesSeq DEF SeqTaken
    <3> QED BY <2>1, <2>3, <3>1
  <2>5. CASE request[v].trace # e.trace
    <3>1. /\ EventsOf(request[v].trace)' = EventsOf(request[v].trace)
          /\ TraceSeqs(request[v].trace)' = TraceSeqs(request[v].trace)
          /\ TraceIsFinished(request[v].trace)' <=> TraceIsFinished(request[v].trace)
      BY <1>1, <2>5, LogGrows
    <3>2. SeqTaken(request[v])' <=> SeqTaken(request[v])
      BY <1>1, <3>1 DEF SeqTaken
    <3> QED BY <2>1, <2>3, <3>1, <3>2 DEF RowInv
  <2> QED BY <2>4, <2>5
<1>10. EntryInv'
  <2> SUFFICES ASSUME NEW v \in Writer, NEW x \in IndexStage, pc'[v] \in HasEntry[x]
               PROVE  /\ \A s \in log \cup {row} : ~SameEntry(x, s.event, request[v])
                      /\ \A u \in Writer \ {v} :
                            pc'[u] \in HasEntry[x] => ~SameEntry(x, request[u], request[v])
    BY <1>1 DEF EntryInv, SameEntry
  <2>1. \A u \in Writer : pc'[u] \in HasEntry[x] => u # w /\ pc[u] \in HasEntry[x]
    BY <1>1, Entries
  <2>2. pc[w] \in HasEntry[x]
    BY <1>1, Entries
  <2>3. ~SameEntry(x, row.event, request[v])
    BY <1>1, <2>1, <2>2 DEF EntryInv
  <2> QED BY <2>1, <2>3 DEF EntryInv
<1> QED BY <1>4, <1>5, <1>6, <1>7, <1>8, <1>9, <1>10

-----------------------------------------------------------------------------
(***************************************************************************)
(* IInv is an invariant.                                                   *)
(***************************************************************************)
LEMMA StutterPreserves == IInv /\ UNCHANGED vars => IInv'
<1> SUFFICES ASSUME IInv, UNCHANGED vars PROVE IInv'
  OBVIOUS
<1> USE DEF IInv, vars
<1>1. TypeOK' /\ LogSeqInv'
  BY DEF TypeOK, StoredEvent, LogSeqInv
<1>2. CallInv' /\ CheckInv' /\ RowInv'
  BY LogUnchanged DEF CallInv, Reply, CheckInv, StartsAtZero, RowInv
<1>3. EntryInv'
  BY DEF EntryInv, SameEntry
<1> QED BY <1>1, <1>2, <1>3, LogUnchanged

LEMMA StepPreserves == IInv /\ [Next]_vars => IInv'
<1> SUFFICES ASSUME IInv, Next PROVE IInv'
  BY StutterPreserves
<1>1. PICK w \in Writer : \/ \E e \in Envelope : Begin(w, e)
                          \/ Progress(w) \/ EnterIndex(w) \/ Lose(w)
  BY DEF Next
<1>2. CASE \E e \in Envelope : Begin(w, e)
  BY <1>2, BeginPreserves
<1>3. CASE Progress(w)
  BY <1>3, ReusePreserves, CheckPreserves, RefusalPreserves, InsertSqlitePreserves,
     InsertPostgresPreserves, CommitPreserves DEF Progress
<1>4. CASE EnterIndex(w) \/ Lose(w)
  BY <1>4, EnterIndexPreserves, RefusalPreserves
<1> QED BY <1>1, <1>2, <1>3, <1>4

THEOREM Invariance == Spec => []IInv
BY InitIInv, StepPreserves, PTL DEF Spec

(***************************************************************************)
(* The variables have their types, whatever the processes do.              *)
(***************************************************************************)
THEOREM TypeCorrect == Spec => []TypeOK
BY Invariance, PTL DEF IInv

(***************************************************************************)
(* A row becomes visible after every row of a smaller log_seq: of its own  *)
(* trace with PostgreSQL, of any trace with SQLite, although append_event  *)
(* takes no lock and PostgreSQL draws log_seq before the row is committed. *)
(***************************************************************************)
THEOREM RowsAppearInOrder == Spec => AppendsInOrder
<1> DEFINE InOrder == \A s \in log' \ log, r \in log :
                          backend = "sqlite" \/ r.event.trace = s.event.trace
                              => r.log_seq < s.log_seq
<1>1. ASSUME IInv, NEW w \in Writer, Commit(w) PROVE InOrder
  <2> DEFINE row == Stored(rowSeq[w], request[w])
  <2>1. /\ pc[w] = "commit" /\ log' \ log \subseteq {row}
        /\ row.event = request[w] /\ row.log_seq = rowSeq[w]
    BY <1>1 DEF Commit, Stored
  <2>2. \A r \in log : r.event.trace = request[w].trace => r.log_seq < rowSeq[w]
    BY <1>1, <2>1, CommittedRow DEF EventsOf
  <2>3. backend = "sqlite" => \A r \in log : r.log_seq < rowSeq[w]
    <3> SUFFICES ASSUME backend = "sqlite", NEW r \in log PROVE r.log_seq < rowSeq[w]
      OBVIOUS
    <3>1. rowSeq[w] = get_last_log_seq + 1
      BY <1>1, <2>1 DEF IInv, RowInv, HasRow
    <3> QED BY <1>1, <3>1, LastOfDense DEF IInv
  <2> QED BY <2>1, <2>2, <2>3
<1>2. ASSUME Next, \A w \in Writer : ~Commit(w) PROVE UNCHANGED log
  BY <1>2 DEF Next, Progress, Begin, Reuse, RejectReuse, KeyIsUnused, CheckFinished,
     CheckSequence, InsertSqlite, IntegrityErrorSqlite, BusyTimeout, InsertPostgres,
     UniqueViolationPostgres, EnterIndex, Lose, Goto
<1>3. IInv /\ [Next]_vars => [InOrder]_vars
  <2> SUFFICES ASSUME IInv, Next PROVE InOrder
    OBVIOUS
  <2>1. CASE \E w \in Writer : Commit(w)
    BY <1>1, <2>1
  <2>2. CASE \A w \in Writer : ~Commit(w)
    BY <1>2, <2>2
  <2> QED BY <2>1, <2>2
<1> QED BY <1>3, Invariance, PTL DEF Spec, AppendsInOrder

-----------------------------------------------------------------------------
(***************************************************************************)
(* append_event implements DecisionLog, but for a second TraceFinished.    *)
(***************************************************************************)
\* Both modules read the log in the same way.
LEMMA SameReading ==
    /\ \A k : DL!StoredUnder(k) = StoredUnder(k)
    /\ \A t : DL!TraceIsFinished(t) <=> TraceIsFinished(t)
    /\ \A e, s : DL!MatchesStored(e, s) <=> validate_idempotent_reuse(e, s)
    /\ \A e : DL!ValidSequence(e) <=> ValidSequence(e)
    /\ \A e : DL!Follows(e) <=> Follows(e)
    /\ \A kind : DL!Reply(kind) = Reply(kind)
    /\ \A kind, s : DL!ReplyWith(kind, s) = ReplyWith(kind, s)
    /\ DL!StoredEvent = StoredEvent
<1>1. \A t : DL!EventsOf(t) = EventsOf(t)
  BY DEF DL!EventsOf, EventsOf
<1>2. \A t : DL!TraceSeqs(t) = TraceSeqs(t)
  BY <1>1 DEF DL!TraceSeqs, TraceSeqs
<1>3. \A S : DL!MaxOf(S) = MaxOf(S)
  BY DEF DL!MaxOf, MaxOf
<1>4. \A t : DL!NextTraceSeq(t) = NextTraceSeq(t)
  BY <1>2, <1>3 DEF DL!NextTraceSeq, NextTraceSeq
<1>5. \A t : DL!TraceIsFinished(t) <=> TraceIsFinished(t)
  BY <1>1 DEF DL!TraceIsFinished, TraceIsFinished
<1>6. \A e : DL!ValidSequence(e) <=> ValidSequence(e)
  BY <1>4 DEF DL!ValidSequence, ValidSequence, DL!StartsAtZero, StartsAtZero
<1>7. \A e : DL!Follows(e) <=> Follows(e)
  BY <1>5, <1>6 DEF DL!Follows, Follows
<1> QED BY <1>5, <1>6, <1>7 DEF DL!StoredUnder, StoredUnder,
       DL!MatchesStored, validate_idempotent_reuse, DL!Reply, Reply,
       DL!ReplyWith, ReplyWith, DL!StoredEvent, StoredEvent

\* The two ways of computing the next trace_seq.
LEMMA SameNextSeq == \A t : get_next_trace_seq(t) = NextTraceSeq(t)
<1>1. \A t : TraceSeqs(t) = {} <=> EventsOf(t) = {}
  BY DEF TraceSeqs
<1> QED BY <1>1 DEF get_next_trace_seq, NextTraceSeq

\* A trace_seq that is taken is not the next one.
LEMMA TakenIsInvalid ==
    ASSUME IInv, NEW e \in Envelope, SeqTaken(e)
    PROVE  ~ValidSequence(e)
<1>1. e.trace \in Trace
  BY EnvelopeAssumption
<1>2. e.trace_seq \in 0 .. (NextTraceSeq(e.trace) - 1) /\ NextTraceSeq(e.trace) \in Nat
  BY <1>1, DenseBelowNext, SameNextSeq DEF IInv, SeqTaken
<1> QED BY <1>2 DEF ValidSequence

\* A call that ends with a justified answer and an unchanged log responds.
LEMMA FinishResponds ==
    ASSUME IInv, NEW w \in Writer, pc[w] # "idle", NEW a, Finish(w, a), UNCHANGED log,
           DL!Justified(request[w], a)
    PROVE  DL!Respond(w)
<1>1. answer[w] = Reply("none")
  BY DEF IInv, CallInv
<1>2. answer' = [answer EXCEPT ![w] = a] /\ answer'[w] = a /\ request' = request
  BY DEF Finish, IInv, TypeOK
<1> QED BY <1>1, <1>2, SameReading DEF DL!Respond

\* Which answers the log justifies for a call that runs.
LEMMA ErrorsAreJustified ==
    ASSUME IInv, NEW w \in Writer, pc[w] # "idle"
    PROVE  LET e == request[w]
           IN  /\ DL!Justified(e, Reply("storage"))
               /\ TraceIsFinished(e.trace) => DL!Justified(e, Reply("conflict"))
               /\ SeqTaken(e) => DL!Justified(e, Reply("event_sequence_invalid"))
               /\ ~ValidSequence(e) => DL!Justified(e, Reply("event_sequence_invalid"))
               /\ \A s \in StoredUnder(e.key) :
                     IF validate_idempotent_reuse(e, s)
                     THEN DL!Justified(e, ReplyWith("reused", s))
                     ELSE DL!Justified(e, Reply("idempotency_conflict"))
<1> DEFINE e == request[w]
<1>1. e \in Envelope
  BY DEF IInv, CallInv
<1>2. \A kind : DL!JustifiedError(e, kind) => DL!Justified(e, Reply(kind))
  BY SameReading DEF DL!Justified, Reply
<1>3. DL!JustifiedError(e, "storage")
  BY DEF DL!JustifiedError
<1>4. TraceIsFinished(e.trace) => DL!JustifiedError(e, "conflict")
  BY SameReading DEF DL!JustifiedError
<1>5. ~ValidSequence(e) => DL!JustifiedError(e, "event_sequence_invalid")
  BY SameReading DEF DL!JustifiedError
<1>6. SeqTaken(e) => ~ValidSequence(e)
  BY <1>1, TakenIsInvalid
<1>7. ASSUME NEW s \in StoredUnder(e.key), validate_idempotent_reuse(e, s)
      PROVE  DL!Justified(e, ReplyWith("reused", s))
  BY <1>7, SameReading DEF DL!Justified, DL!JustifiedReuse
<1>8. ASSUME NEW s \in StoredUnder(e.key), ~validate_idempotent_reuse(e, s)
      PROVE  DL!JustifiedError(e, "idempotency_conflict")
  BY <1>8, SameReading DEF DL!JustifiedError
<1> QED BY <1>2, <1>3, <1>4, <1>5, <1>6, <1>7, <1>8

\* A step that no caller sees.
Silent == UNCHANGED DL!dlVars

\* The steps that leave the log alone respond or are not seen.
LEMMA ReuseResponds ==
    ASSUME IInv, NEW w \in Writer, Reuse(w) \/ RejectReuse(w)
    PROVE  DL!Respond(w)
<1>1. pc[w] # "idle" /\ UNCHANGED log
  BY DEF Reuse, RejectReuse
<1>2. pc[w] = "recover" => StoredUnder(request[w].key) # {}
  BY DEF IInv, CallInv
<1>3. CASE Reuse(w)
  BY <1>1, <1>3, ErrorsAreJustified, FinishResponds DEF Reuse
<1>4. CASE RejectReuse(w)
  <2>1. \E s \in StoredUnder(request[w].key) : ~validate_idempotent_reuse(request[w], s)
    BY <1>2, <1>4 DEF RejectReuse
  <2> QED BY <1>1, <1>4, <2>1, ErrorsAreJustified, FinishResponds DEF RejectReuse
<1> QED BY <1>3, <1>4

LEMMA ChecksImplement ==
    ASSUME IInv, NEW w \in Writer, KeyIsUnused(w) \/ CheckFinished(w) \/ CheckSequence(w)
    PROVE  DL!Respond(w) \/ Silent
<1>1. \A from, to : Goto(w, from, to) => Silent
  BY DEF Goto, Silent, DL!dlVars
<1>2. pc[w] # "idle"
  BY DEF KeyIsUnused, CheckFinished, CheckSequence, Goto
<1>3. CASE CheckFinished(w) /\ is_trace_finished(request[w].trace)
  BY <1>2, <1>3, SameFinished, ErrorsAreJustified, FinishResponds DEF CheckFinished
<1>4. CASE CheckSequence(w)
              /\ ~validate_trace_seq(request[w], get_next_trace_seq(request[w].trace))
  <2>1. ~ValidSequence(request[w])
    BY <1>4, SameNextSeq DEF validate_trace_seq, ValidSequence, StartsAtZero
  <2> QED BY <1>2, <1>4, <2>1, ErrorsAreJustified, FinishResponds DEF CheckSequence
<1> QED BY <1>1, <1>3, <1>4 DEF KeyIsUnused, CheckFinished, CheckSequence

LEMMA InsertImplements ==
    ASSUME IInv, NEW w \in Writer,
           InsertSqlite(w) \/ IntegrityErrorSqlite(w) \/ BusyTimeout(w)
              \/ InsertPostgres(w) \/ EnterIndex(w) \/ UniqueViolationPostgres(w) \/ Lose(w)
    PROVE  DL!Respond(w) \/ Silent
<1> DEFINE e == request[w]
<1>1. \A from, to : Goto(w, from, to) => Silent
  BY DEF Goto, Silent, DL!dlVars
<1>2. pc[w] # "idle"
  BY DEF InsertSqlite, IntegrityErrorSqlite, BusyTimeout, InsertPostgres, EnterIndex,
     UniqueViolationPostgres, Lose, Goto, IndexStage
<1>3. CASE Finish(w, Reply("storage")) /\ UNCHANGED log
  BY <1>2, <1>3, ErrorsAreJustified, FinishResponds
<1>4. CASE Finish(w, Reply("conflict")) /\ UNCHANGED log /\ dg_block_events_after_finish(e)
  BY <1>2, <1>4, SameFinished, ErrorsAreJustified, FinishResponds
     DEF dg_block_events_after_finish
<1>5. CASE Finish(w, Reply("event_sequence_invalid")) /\ UNCHANGED log /\ SeqTaken(e)
  BY <1>2, <1>5, ErrorsAreJustified, FinishResponds
<1>6. CASE InsertSqlite(w) \/ EnterIndex(w)
  BY <1>1, <1>6 DEF InsertSqlite, EnterIndex
<1>7. CASE IntegrityErrorSqlite(w)
  BY <1>1, <1>3, <1>4, <1>5, <1>7 DEF IntegrityErrorSqlite, SeqTaken
<1>8. CASE BusyTimeout(w) \/ Lose(w)
  BY <1>3, <1>8 DEF BusyTimeout, Lose
<1>9. CASE InsertPostgres(w)
  BY <1>1, <1>4, <1>9 DEF InsertPostgres
<1>10. CASE UniqueViolationPostgres(w)
  <2>1. pc[w] = "seq_index" => SeqTaken(e)
    BY <1>10 DEF UniqueViolationPostgres, CommittedDuplicate, SameEntry, SeqTaken,
       TraceSeqs, EventsOf
  <2> QED BY <1>1, <1>3, <1>5, <1>10, <2>1 DEF UniqueViolationPostgres
<1> QED BY <1>6, <1>7, <1>8, <1>9, <1>10

\* COMMIT is the moment at which the append takes effect.
LEMMA CommitAccepts ==
    ASSUME IInv, NEW w \in Writer, Commit(w)
    PROVE  DL!Accept(w) \/ FinishesAgain(w)
<1> DEFINE e == request[w]
           row == Stored(rowSeq[w], e)
<1>1. /\ pc[w] = "commit" /\ log' = log \cup {row} /\ UNCHANGED request
      /\ \/ answer' = [answer EXCEPT ![w] = ReplyWith("inserted", row)]
         \/ answer' = [answer EXCEPT ![w] = Reply("storage")]
  BY DEF Commit, Finish
<1>2. answer[w] = Reply("none")
  BY <1>1 DEF IInv, CallInv
<1>3. ~TraceIsFinished(e.trace) \/ e.type = "TraceFinished"
  BY <1>1, CommittedRow DEF IInv, RowInv, HasRow
<1>4. ValidSequence(e)
  <2>1. get_next_trace_seq(e.trace) = e.trace_seq
    BY <1>1, CommittedRow, NextOfDense
  <2>2. StartsAtZero(e)
    BY <1>1 DEF IInv, CheckInv, HasRow
  <2> QED BY <2>1, <2>2, SameNextSeq DEF ValidSequence
<1>5. DL!Unused(e)
  BY <1>1, CommittedRow DEF DL!Unused
<1>6. row \in StoredEvent /\ row.event = e /\ \A r \in log : r.log_seq # row.log_seq
  BY <1>1, CommittedRow DEF Stored
<1>7. /\ answer'[w] \in {ReplyWith("inserted", row), Reply("storage")}
      /\ answer' = [answer EXCEPT ![w] = answer'[w]]
  BY <1>1 DEF IInv, TypeOK
<1>8. DL!Insert(w)
  BY <1>1, <1>6, <1>7, SameReading DEF DL!Insert
<1>9. CASE TraceIsFinished(e.trace)
  BY <1>2, <1>3, <1>4, <1>5, <1>8, <1>9, SameReading, SameFinished DEF FinishesAgain
<1>10. CASE ~TraceIsFinished(e.trace)
  <2>1. DL!Acceptable(e)
    BY <1>4, <1>5, <1>10, SameReading DEF DL!Acceptable, Follows
  <2> QED BY <1>2, <1>8, <2>1, SameReading DEF DL!Accept
<1> QED BY <1>9, <1>10

LEMMA StepImplements ==
    IInv /\ [Next]_vars => [DL!Next \/ \E w \in Writer : FinishesAgain(w)]_(DL!dlVars)
<1> SUFFICES ASSUME IInv, Next
             PROVE  DL!Next \/ (\E w \in Writer : FinishesAgain(w)) \/ UNCHANGED DL!dlVars
  BY DEF vars, DL!dlVars
<1>1. PICK w \in Writer : \/ \E e \in Envelope : Begin(w, e)
                          \/ Progress(w) \/ EnterIndex(w) \/ Lose(w)
  BY DEF Next
<1>2. ASSUME NEW e \in Envelope, Begin(w, e) PROVE DL!Submit(w, e)
  BY <1>2, SameReading DEF Begin, DL!Submit
<1>3. CASE Reuse(w) \/ RejectReuse(w)
  BY <1>3, ReuseResponds DEF DL!Next
<1>4. CASE Commit(w)
  BY <1>4, CommitAccepts DEF DL!Next
<1>5. CASE \/ KeyIsUnused(w) \/ CheckFinished(w) \/ CheckSequence(w)
           \/ InsertSqlite(w) \/ IntegrityErrorSqlite(w) \/ BusyTimeout(w)
           \/ InsertPostgres(w) \/ EnterIndex(w) \/ UniqueViolationPostgres(w) \/ Lose(w)
  BY <1>5, ChecksImplement, InsertImplements DEF DL!Next, Silent
<1> QED BY <1>1, <1>2, <1>3, <1>4, <1>5 DEF Progress, DL!Next

(***************************************************************************)
(* Without a lock on the trace, behind either backend, append_event still  *)
(* is the atomic append of DecisionLog, for every set of processes and of  *)
(* envelopes, but that a trace may be finished again: by a call that found *)
(* it unfinished, under a key and an id of its own.                        *)
(***************************************************************************)
THEOREM Refinement == Spec => ImplementsDecisionLog
<1>1. Init => DL!Init
  BY SameReading DEF Init, DL!Init
<1> QED BY <1>1, StepImplements, Invariance, PTL DEF Spec, ImplementsDecisionLog
-----------------------------------------------------------------------------
(***************************************************************************)
(* Opening a store: module Migrations, for every list of scripts.          *)
(*                                                                         *)
(* What a script leaves is computed statement by statement, so that the    *)
(* argument needs induction over its length: for a set that holds the      *)
(* numbers of statements at which a fact holds, it follows from the least  *)
(* number outside the set.                                                 *)
(***************************************************************************)
LEMMA IntervalInduction ==
    ASSUME NEW N \in Nat, NEW S, 0 \in S, \A n \in 1 .. N : n - 1 \in S => n \in S
    PROVE  0 .. N \subseteq S
<1> SUFFICES ASSUME 0 .. N \ S # {} PROVE FALSE
  OBVIOUS
<1> DEFINE R == OpToRel(<, Nat)
           T == 0 .. N \ S
<1>1. IsWellFoundedOn(R, Nat)
  BY NatLessThanWellFounded DEF OpToRel
<1>2. T \subseteq Nat /\ T # {}
  OBVIOUS
<1>3. \A x, y \in Nat : <<x, y>> \in R <=> x < y
  BY DEF OpToRel
<1> HIDE DEF R, T
<1>4. PICK m \in T : \A y \in T : <<y, m>> \notin R
  BY <1>1, <1>2, WFMin
<1>5. m \in 0 .. N /\ m \notin S
  BY <1>4 DEF T
<1>6. m \in 1 .. N /\ m - 1 \in 0 .. N /\ m - 1 < m
  BY <1>5
<1>7. m - 1 \in T
  BY <1>5, <1>6 DEF T
<1>8. m \in Nat /\ m - 1 \in Nat /\ <<m - 1, m>> \notin R
  BY <1>4, <1>6, <1>7
<1> QED BY <1>3, <1>6, <1>8

\* h is the function that step defines from its value before, on 0 .. N.
Recursion(N, D, seed, step, h) ==
    /\ h \in [0 .. N -> D]
    /\ h[0] = seed
    /\ \A n \in 1 .. N : h[n] = step[<<n, h[n - 1]>>]

LEMMA RecursionExists ==
    ASSUME NEW N \in Nat, NEW D, NEW seed \in D, NEW step \in [(1 .. N) \X D -> D]
    PROVE  \E h : Recursion(N, D, seed, step, h)
<1> DEFINE S == {n \in 0 .. N : \E h : Recursion(n, D, seed, step, h)}
<1>1. 0 \in S
  <2>1. Recursion(0, D, seed, step, [n \in 0 .. 0 |-> seed])
    BY DEF Recursion
  <2> QED BY <2>1
<1>2. ASSUME NEW n \in 1 .. N, n - 1 \in S
      PROVE  n \in S
  <2>1. PICK h : Recursion(n - 1, D, seed, step, h)
    BY <1>2
  <2> DEFINE next == step[<<n, h[n - 1]>>]
             g == [i \in 0 .. n |-> IF i < n THEN h[i] ELSE next]
  <2>2. h[n - 1] \in D
    BY <2>1 DEF Recursion
  <2>3. next \in D
    BY <2>2
  <2> HIDE DEF next
  <2>4. g \in [0 .. n -> D]
    <3>1. \A i \in 0 .. n : i < n => h[i] \in D
      BY <2>1 DEF Recursion
    <3> QED BY <2>3, <3>1
  <2>5. g[0] = seed
    BY <2>1 DEF Recursion
  <2>6. ASSUME NEW i \in 1 .. n
        PROVE  g[i] = step[<<i, g[i - 1]>>]
    <3>1. CASE i < n
      <4>1. i \in 1 .. n - 1 /\ g[i - 1] = h[i - 1] /\ g[i] = h[i]
        BY <3>1
      <4> QED BY <2>1, <4>1 DEF Recursion
    <3>2. CASE i = n
      <4>1. g[i] = next /\ g[i - 1] = h[n - 1]
        BY <3>2
      <4> QED BY <3>2, <4>1 DEF next
    <3> QED BY <3>1, <3>2
  <2> HIDE DEF g
  <2>7. Recursion(n, D, seed, step, g)
    BY <2>4, <2>5, <2>6 DEF Recursion
  <2> QED BY <2>7
<1> HIDE DEF S
<1>3. N \in S
  BY <1>1, <1>2, IntervalInduction
<1> QED BY <1>3 DEF S

Schema == [Object -> Nat]
Statement == [op : {"create", "drop"}, object : Object]

LEMMA ScriptType ==
    /\ Len(Script) \in Nat
    /\ \A v \in Version : /\ v \in Nat /\ v - 1 \in 0 .. Len(Script)
                          /\ Script[v] \in Seq(Statement) /\ Len(Script[v]) \in Nat
                          /\ \A n \in 1 .. Len(Script[v]) : Script[v][n] \in Statement
<1>1. Script \in Seq(Seq(Statement))
  BY MigrationsAssumption DEF Statement
<1>2. Len(Script) \in Nat /\ \A v \in 1 .. Len(Script) : Script[v] \in Seq(Statement)
  BY <1>1
<1>3. \A s \in Seq(Statement) : Len(s) \in Nat /\ \A n \in 1 .. Len(s) : s[n] \in Statement
  OBVIOUS
<1> QED BY <1>2, <1>3 DEF Version

LEMMA EffectType ==
    ASSUME NEW s \in Statement, NEW v \in Nat, NEW d \in Schema
    PROVE  Effect(s, v, d) \in Schema
BY DEF Effect, Schema, Statement

LEMMA AfterFacts ==
    ASSUME NEW v \in Version, NEW d \in Schema
    PROVE  /\ After(v, d) \in [0 .. Len(Script[v]) -> Schema]
           /\ After(v, d)[0] = d
           /\ \A n \in 1 .. Len(Script[v]) :
                  /\ Script[v][n] \in Statement
                  /\ After(v, d)[n] = Effect(Script[v][n], v, After(v, d)[n - 1])
<1> DEFINE N == Len(Script[v])
           step == [x \in (1 .. N) \X Schema |-> Effect(Script[v][x[1]], v, x[2])]
           Is(h) == h = [n \in 0 .. N |-> IF n = 0 THEN d ELSE Effect(Script[v][n], v, h[n - 1])]
           a == After(v, d)
<1>1. N \in Nat /\ v \in Nat /\ \A n \in 1 .. N : Script[v][n] \in Statement
  BY ScriptType
<1>2. step \in [(1 .. N) \X Schema -> Schema]
  BY <1>1, EffectType
<1>3. a = CHOOSE h : Is(h)
  BY DEF After
<1>4. \A x \in 1 .. N : \A e \in Schema : step[<<x, e>>] = Effect(Script[v][x], v, e)
  OBVIOUS
<1> HIDE DEF step, N
<1>5. PICK h : Recursion(N, Schema, d, step, h)
  BY <1>1, <1>2, RecursionExists
<1>6. Is(h)
  <2>1. ASSUME NEW n \in 1 .. N
        PROVE  h[n] = Effect(Script[v][n], v, h[n - 1])
    <3>1. n - 1 \in 0 .. N /\ h[n - 1] \in Schema /\ h[n] = step[<<n, h[n - 1]>>]
      BY <1>1, <1>5 DEF Recursion
    <3> QED BY <1>4, <3>1
  <2> QED BY <1>1, <1>5, <2>1 DEF Recursion
<1>7. Is(a)
  BY <1>3, <1>6
<1> HIDE DEF a
<1>8. a[0] = d /\ \A n \in 1 .. N : a[n] = Effect(Script[v][n], v, a[n - 1])
  BY <1>1, <1>7
<1>9. 0 .. N \subseteq {n \in 0 .. N : a[n] \in Schema}
  <2> DEFINE S == {n \in 0 .. N : a[n] \in Schema}
  <2>1. 0 \in S
    BY <1>1, <1>8
  <2>2. \A n \in 1 .. N : n - 1 \in S => n \in S
    BY <1>1, <1>8, EffectType
  <2> HIDE DEF S
  <2>3. 0 .. N \subseteq S
    BY <1>1, <2>1, <2>2, IntervalInduction
  <2> QED BY <2>3 DEF S
<1>10. a \in [0 .. N -> Schema]
  BY <1>7, <1>9
<1> QED BY <1>1, <1>8, <1>10 DEF a, N

LEMMA RunScriptType ==
    ASSUME NEW v \in Version, NEW d \in Schema
    PROVE  RunScript(v, d) \in Schema
BY AfterFacts, ScriptType DEF RunScript

LEMMA SchemaAtFacts ==
    /\ \A v \in 0 .. Len(Script) : SchemaAt[v] \in Schema
    /\ SchemaAt[0] = Empty
    /\ \A v \in Version : SchemaAt[v] = RunScript(v, SchemaAt[v - 1])
<1> DEFINE N == Len(Script)
           step == [x \in (1 .. N) \X Schema |-> RunScript(x[1], x[2])]
           Is(h) == h = [v \in 0 .. N |-> IF v = 0 THEN Empty ELSE RunScript(v, h[v - 1])]
           a == SchemaAt
<1>1. N \in Nat /\ Empty \in Schema
  BY ScriptType DEF Empty, Schema
<1>2. step \in [(1 .. N) \X Schema -> Schema]
  BY RunScriptType DEF Version
<1>3. a = CHOOSE h : Is(h)
  BY DEF SchemaAt
<1>4. \A x \in 1 .. N : \A e \in Schema : step[<<x, e>>] = RunScript(x, e)
  OBVIOUS
<1> HIDE DEF step
<1>5. PICK h : Recursion(N, Schema, Empty, step, h)
  BY <1>1, <1>2, RecursionExists
<1>6. Is(h)
  <2>1. ASSUME NEW n \in 1 .. N
        PROVE  h[n] = RunScript(n, h[n - 1])
    <3>1. n - 1 \in 0 .. N /\ h[n - 1] \in Schema /\ h[n] = step[<<n, h[n - 1]>>]
      BY <1>1, <1>5 DEF Recursion
    <3> QED BY <1>4, <3>1
  <2> QED BY <1>1, <1>5, <2>1 DEF Recursion
<1>7. Is(a)
  BY <1>3, <1>6
<1> HIDE DEF a
<1>8. a[0] = Empty /\ \A n \in 1 .. N : a[n] = RunScript(n, a[n - 1])
  BY <1>1, <1>7
<1>9. 0 .. N \subseteq {n \in 0 .. N : a[n] \in Schema}
  <2> DEFINE S == {n \in 0 .. N : a[n] \in Schema}
  <2>1. 0 \in S
    BY <1>1, <1>8
  <2>2. \A n \in 1 .. N : n - 1 \in S => n \in S
    BY <1>1, <1>8, RunScriptType DEF Version
  <2> HIDE DEF S
  <2>3. 0 .. N \subseteq S
    BY <1>1, <2>1, <2>2, IntervalInduction
  <2> QED BY <2>3 DEF S
<1> QED BY <1>8, <1>9 DEF a, Version

-----------------------------------------------------------------------------
(***************************************************************************)
(* A script that was interrupted and starts again.  What a statement does  *)
(* to an object it touches does not depend on what was there.              *)
(***************************************************************************)
Touches(s, o) == s.object = o \/ (s.op = "drop" /\ TableOf[o] = s.object)

TouchedBy(v, n, o) == \E i \in 1 .. n : Touches(Script[v][i], o)

\* The schemas of script v where the scripts before it ran once each.
Clean(v) == After(v, SchemaAt[v - 1])

\* In that run, the first k statements find what they need.
CleanUpTo(v, k) == \A i \in 1 .. k : Runs(Script[v][i], Clean(v)[i - 1])

(***************************************************************************)
(* After n statements of this run, k at best in an earlier one: objects    *)
(* touched in this run, or never, are as in a clean run after n.           *)
(***************************************************************************)
Agrees(d, v, n, k) ==
    /\ n <= k
    /\ \A o \in Object : TouchedBy(v, n, o) \/ ~TouchedBy(v, k, o) => d[o] = Clean(v)[n][o]

LEMMA EffectLocal ==
    ASSUME NEW s \in Statement, NEW v \in Nat, NEW d \in Schema, NEW e \in Schema, NEW o \in Object
    PROVE  /\ ~Touches(s, o) => Effect(s, v, d)[o] = d[o]
           /\ Touches(s, o) => Effect(s, v, d)[o] = Effect(s, v, e)[o]
<1>1. CASE s.op = "create"
  BY <1>1 DEF Effect, Touches, Schema, Statement
<1>2. CASE s.op # "create"
  <2>1. s.op = "drop"
    BY <1>2 DEF Statement
  <2>2. \A f \in Schema : Effect(s, v, f)[o] = IF Touches(s, o) THEN 0 ELSE f[o]
    BY <1>2, <2>1 DEF Effect, Touches
  <2> QED BY <2>2
<1> QED BY <1>1, <1>2

LEMMA CleanFacts ==
    ASSUME NEW v \in Version
    PROVE  /\ \A n \in 0 .. Len(Script[v]) : Clean(v)[n] \in Schema
           /\ Clean(v)[0] = SchemaAt[v - 1]
           /\ \A n \in 1 .. Len(Script[v]) :
                  Clean(v)[n] = Effect(Script[v][n], v, Clean(v)[n - 1])
           /\ Clean(v)[Len(Script[v])] = SchemaAt[v]
<1>1. SchemaAt[v - 1] \in Schema
  BY ScriptType, SchemaAtFacts
<1> QED BY <1>1, AfterFacts, SchemaAtFacts DEF Clean, RunScript

\* What no statement so far touched is as the script found it.
LEMMA Untouched ==
    ASSUME NEW v \in Version, NEW o \in Object
    PROVE  \A n \in 0 .. Len(Script[v]) : ~TouchedBy(v, n, o) => Clean(v)[n][o] = Clean(v)[0][o]
<1> DEFINE N == Len(Script[v])
           S == {n \in 0 .. N : ~TouchedBy(v, n, o) => Clean(v)[n][o] = Clean(v)[0][o]}
<1>1. N \in Nat /\ 0 \in S
  BY ScriptType
<1>2. ASSUME NEW n \in 1 .. N, n - 1 \in S, ~TouchedBy(v, n, o)
      PROVE  Clean(v)[n][o] = Clean(v)[0][o]
  <2>1. ~TouchedBy(v, n - 1, o) /\ ~Touches(Script[v][n], o)
    BY <1>1, <1>2 DEF TouchedBy
  <2>2. /\ Clean(v)[n] = Effect(Script[v][n], v, Clean(v)[n - 1])
        /\ Clean(v)[n - 1] \in Schema /\ Script[v][n] \in Statement /\ v \in Nat
    BY <1>1, CleanFacts, ScriptType
  <2>3. Clean(v)[n][o] = Clean(v)[n - 1][o]
    BY <2>1, <2>2, EffectLocal
  <2> QED BY <1>2, <2>1, <2>3
<1>3. \A n \in 1 .. N : n - 1 \in S => n \in S
  BY <1>2
<1> HIDE DEF S
<1>4. 0 .. N \subseteq S
  BY <1>1, <1>3, IntervalInduction
<1> QED BY <1>4 DEF S

\* A run that stops leaves what the next one can start from.
LEMMA AgreesFromStart ==
    ASSUME NEW v \in Version, NEW d \in Schema, NEW k \in 0 .. Len(Script[v]),
           NEW n \in 0 .. Len(Script[v]), Agrees(d, v, n, k)
    PROVE  Agrees(d, v, 0, k)
<1>1. n <= k /\ k \in Nat
  BY ScriptType DEF Agrees
<1>2. ASSUME NEW o \in Object, ~TouchedBy(v, k, o)
      PROVE  d[o] = Clean(v)[0][o]
  <2>1. ~TouchedBy(v, n, o)
    BY <1>1, <1>2, ScriptType DEF TouchedBy
  <2> QED BY <1>2, <2>1, Untouched DEF Agrees
<1>3. \A o \in Object : ~TouchedBy(v, 0, o)
  BY DEF TouchedBy
<1> QED BY <1>1, <1>2, <1>3 DEF Agrees

\* A run that got as far as the best one before it left what the clean run would.
LEMMA AgreesWholly ==
    ASSUME NEW v \in Version, NEW d \in Schema, NEW k \in 0 .. Len(Script[v]), Agrees(d, v, k, k)
    PROVE  d = Clean(v)[k]
<1>1. \A o \in Object : d[o] = Clean(v)[k][o]
  BY DEF Agrees
<1>2. Clean(v)[k] \in Schema
  BY CleanFacts
<1> QED BY <1>1, <1>2 DEF Schema

\* One more statement, within what an earlier run reached or beyond it.
LEMMA StatementAgrees ==
    ASSUME NEW v \in Version, NEW d \in Schema, NEW k \in 0 .. Len(Script[v]),
           NEW n \in 1 .. Len(Script[v]), CleanUpTo(v, k), Agrees(d, v, n - 1, k),
           Runs(Script[v][n], d)
    PROVE  \E j \in 0 .. Len(Script[v]) : /\ CleanUpTo(v, j)
                                          /\ Agrees(Effect(Script[v][n], v, d), v, n, j)
<1> DEFINE s == Script[v][n]
           after == Effect(s, v, d)
<1>1. /\ s \in Statement /\ v \in Nat /\ Len(Script[v]) \in Nat /\ n - 1 <= k /\ k \in Nat
      /\ Clean(v)[n] = Effect(s, v, Clean(v)[n - 1]) /\ Clean(v)[n - 1] \in Schema
  BY CleanFacts, ScriptType DEF Agrees
<1> HIDE DEF s
<1>2. \A o \in Object : TouchedBy(v, n, o) <=> TouchedBy(v, n - 1, o) \/ Touches(s, o)
  <2>1. \A i : i \in 1 .. n <=> i \in 1 .. n - 1 \/ i = n
    OBVIOUS
  <2> QED BY <2>1 DEF TouchedBy, s
<1>3. CASE n <= k
  <2>1. ASSUME NEW o \in Object, TouchedBy(v, n, o) \/ ~TouchedBy(v, k, o)
        PROVE  after[o] = Clean(v)[n][o]
    <3>1. CASE Touches(s, o)
      BY <1>1, <3>1, EffectLocal
    <3>2. CASE ~Touches(s, o)
      BY <1>1, <1>2, <2>1, <3>2, EffectLocal DEF Agrees
    <3> QED BY <3>1, <3>2
  <2>2. Agrees(after, v, n, k)
    BY <1>3, <2>1 DEF Agrees
  <2> QED BY <2>2 DEF s
<1>4. CASE ~(n <= k)
  <2>1. k = n - 1
    BY <1>1, <1>4
  <2>2. d = Clean(v)[n - 1]
    BY <2>1, AgreesWholly
  <2>3. after = Clean(v)[n]
    BY <1>1, <2>2
  <2>4. CleanUpTo(v, n)
    BY <2>1, <2>2 DEF CleanUpTo, s
  <2>5. Agrees(after, v, n, n)
    BY <2>3 DEF Agrees
  <2> QED BY <2>4, <2>5 DEF s
<1> QED BY <1>3, <1>4

LEMMA Fresh ==
    ASSUME NEW v \in Version, NEW d, d = SchemaAt[v - 1]
    PROVE  CleanUpTo(v, 0) /\ Agrees(d, v, 0, 0)
BY CleanFacts DEF CleanUpTo, Agrees

-----------------------------------------------------------------------------
(***************************************************************************)
(* The inductive invariant.  The versions 1 .. c are recorded.  Unless     *)
(* scripts of SQLite ran into one another, one process at most is inside   *)
(* a script, which is script c + 1; it has run up to some statement k at   *)
(* best: what the statements of the present run touched, and what nobody   *)
(* touched yet, is as in a clean run; what only an earlier run touched may *)
(* not be.                                                                 *)
(***************************************************************************)
MigrationsTyped ==
    /\ engine \in {"sqlite", "postgres"}
    /\ schema \in Schema
    /\ phase \in [Process -> {"closed", "ensured", "migrating", "open"}]
    /\ pending \in [Process -> SUBSET Version]
    /\ statement \in [Process -> Nat]
    /\ raced \in BOOLEAN /\ (engine = "postgres" => ~raced)

InProgress(v) ==
    \E k \in 0 .. Len(Script[v]) :
        /\ engine = "postgres" => k = 0
        /\ CleanUpTo(v, k)
        /\ Agrees(schema, v, 0, k)
        /\ \A p \in Process : Agrees(schema, v, statement[p], k)

DatabaseInv(c) ==
    /\ recorded = 1 .. c
    /\ raced \/ IF c = Len(Script) THEN schema = SchemaAt[c] ELSE InProgress(c + 1)

RunsAlone(p, c) ==
    /\ c # Len(Script) /\ pending[p] = c + 1 .. Len(Script)
    /\ \A q \in Process \ {p} : statement[q] = 0

ProcessInv(c) ==
    \A p \in Process :
        /\ phase[p] = "migrating" => \E j \in 1 .. c + 1 : pending[p] = j .. Len(Script)
        /\ phase[p] # "migrating" \/ engine = "postgres" => statement[p] = 0
        /\ phase[p] = "open" => c = Len(Script)
        /\ statement[p] = 0 \/ pending[p] # {}
        /\ raced \/ statement[p] = 0 \/ RunsAlone(p, c)

MigrationsInv ==
    /\ MigrationsTyped
    /\ \E c \in 0 .. Len(Script) : DatabaseInv(c) /\ ProcessInv(c)

LEMMA CurrentOfPrefix ==
    ASSUME NEW c \in 0 .. Len(Script), recorded = 1 .. c
    PROVE  get_current_version = c
<1>1. c \in recorded \cup {0} /\ \A u \in recorded : u <= c
  BY ScriptType
<1>2. ASSUME NEW v \in recorded \cup {0}, \A u \in recorded : u <= v
      PROVE  v = c
  BY <1>2, ScriptType
<1> QED BY <1>1, <1>2 DEF get_current_version

\* A step that leaves the database alone, and starts runs anew at most.
LEMMA DatabaseKept ==
    ASSUME NEW c \in 0 .. Len(Script), DatabaseInv(c),
           UNCHANGED <<engine, schema, recorded, raced>>,
           \A p \in Process : statement'[p] \in {0, statement[p]}
    PROVE  DatabaseInv(c)'
<1>1. ASSUME c # Len(Script), ~raced
      PROVE  InProgress(c + 1)'
  <2>1. PICK k \in 0 .. Len(Script[c + 1]) :
            /\ engine = "postgres" => k = 0
            /\ CleanUpTo(c + 1, k)
            /\ Agrees(schema, c + 1, 0, k)
            /\ \A p \in Process : Agrees(schema, c + 1, statement[p], k)
    BY <1>1 DEF DatabaseInv, InProgress
  <2>2. \A p \in Process : Agrees(schema, c + 1, statement'[p], k)
    BY <2>1
  <2>3. schema' = schema /\ engine' = engine
    OBVIOUS
  <2> QED BY <2>1, <2>2, <2>3 DEF InProgress
<1> QED BY <1>1 DEF DatabaseInv

LEMMA InitMigrationsInv == InitMigrations => MigrationsInv
<1> SUFFICES ASSUME InitMigrations PROVE MigrationsInv
  OBVIOUS
<1>1. 0 \in 0 .. Len(Script) /\ Len(Script) \in Nat
  BY ScriptType
<1>2. MigrationsTyped
  BY DEF InitMigrations, MigrationsTyped, Schema, Empty
<1>3. schema = SchemaAt[0]
  BY SchemaAtFacts DEF InitMigrations
<1>4. ASSUME 0 # Len(Script)
      PROVE  InProgress(1)
  <2>1. 1 \in Version /\ 0 \in 0 .. Len(Script[1])
    BY <1>1, <1>4, ScriptType DEF Version
  <2>2. CleanUpTo(1, 0) /\ Agrees(schema, 1, 0, 0)
    BY <1>3, <2>1, Fresh
  <2> QED BY <2>1, <2>2 DEF InProgress, InitMigrations
<1>5. DatabaseInv(0)
  BY <1>3, <1>4 DEF DatabaseInv, InitMigrations
<1>6. ProcessInv(0)
  BY DEF ProcessInv, InitMigrations
<1> QED BY <1>1, <1>2, <1>5, <1>6 DEF MigrationsInv

LEMMA OpenStoreKeeps ==
    ASSUME MigrationsInv, NEW p \in Process, OpenStore(p)
    PROVE  MigrationsInv'
<1> USE DEF OpenStore
<1>1. PICK c \in 0 .. Len(Script) : DatabaseInv(c) /\ ProcessInv(c)
  BY DEF MigrationsInv
<1>2. MigrationsTyped'
  BY DEF MigrationsInv, MigrationsTyped
<1>3. \A q \in Process : phase'[q] = IF q = p THEN "ensured" ELSE phase[q]
  BY DEF MigrationsInv, MigrationsTyped
<1>5. DatabaseInv(c)'
  BY <1>1, DatabaseKept
<1>6. ProcessInv(c)'
  BY <1>1, <1>3 DEF ProcessInv, RunsAlone
<1> QED BY <1>2, <1>5, <1>6 DEF MigrationsInv

LEMMA ReadPendingKeeps ==
    ASSUME MigrationsInv, NEW p \in Process, ReadPending(p)
    PROVE  MigrationsInv'
<1> USE DEF ReadPending
<1>1. PICK c \in 0 .. Len(Script) : DatabaseInv(c) /\ ProcessInv(c)
  BY DEF MigrationsInv
<1>2. get_pending_migrations = c + 1 .. Len(Script)
  BY <1>1, ScriptType DEF get_pending_migrations, DatabaseInv, Version
<1>3. get_pending_migrations \in SUBSET Version
  BY DEF get_pending_migrations
<1>4. MigrationsTyped'
  BY <1>3 DEF MigrationsInv, MigrationsTyped
<1>5. /\ \A q \in Process : phase'[q] = IF q = p THEN "migrating" ELSE phase[q]
      /\ pending'[p] = c + 1 .. Len(Script) /\ \A q \in Process \ {p} : pending'[q] = pending[q]
      /\ phase[p] = "ensured"
  BY <1>2 DEF MigrationsInv, MigrationsTyped
<1>7. DatabaseInv(c)'
  BY <1>1, DatabaseKept
<1>8. ProcessInv(c)'
  <2>1. c + 1 \in 1 .. c + 1
    BY ScriptType
  <2>2. ASSUME NEW q \in Process, phase'[q] = "migrating"
        PROVE  \E j \in 1 .. c + 1 : pending'[q] = j .. Len(Script)
    BY <1>1, <1>5, <2>1, <2>2 DEF ProcessInv
  <2>3. ASSUME NEW q \in Process, statement[q] # 0, ~raced
        PROVE  RunsAlone(q, c)'
    <3>1. RunsAlone(q, c) /\ q # p
      BY <1>1, <1>5, <2>3 DEF ProcessInv
    <3> QED BY <1>5, <3>1 DEF RunsAlone
  <2> QED BY <1>1, <1>5, <2>2, <2>3 DEF ProcessInv
<1> QED BY <1>4, <1>7, <1>8 DEF MigrationsInv

LEMMA AbandonKeeps ==
    ASSUME MigrationsInv, NEW p \in Process, Abandon(p),
           UNCHANGED <<engine, schema, recorded, raced>>
    PROVE  MigrationsInv'
<1>1. PICK c \in 0 .. Len(Script) : DatabaseInv(c) /\ ProcessInv(c)
  BY DEF MigrationsInv
<1>2. MigrationsTyped'
  BY DEF MigrationsInv, MigrationsTyped, Abandon
<1>3. \A q \in Process : /\ phase'[q] = IF q = p THEN "closed" ELSE phase[q]
                         /\ pending'[q] = IF q = p THEN {} ELSE pending[q]
                         /\ statement'[q] = IF q = p THEN 0 ELSE statement[q]
  BY DEF MigrationsInv, MigrationsTyped, Abandon
<1>5. DatabaseInv(c)'
  BY <1>1, <1>3, DatabaseKept
<1>6. ProcessInv(c)'
  <2>1. ASSUME NEW q \in Process, statement'[q] # 0, ~raced
        PROVE  RunsAlone(q, c)'
    <3>1. RunsAlone(q, c) /\ q # p
      BY <1>1, <1>3, <2>1 DEF ProcessInv
    <3> QED BY <1>3, <3>1 DEF RunsAlone
  <2> QED BY <1>1, <1>3, <2>1 DEF ProcessInv
<1> QED BY <1>2, <1>5, <1>6 DEF MigrationsInv

LEMMA OpenedKeeps ==
    ASSUME MigrationsInv, NEW p \in Process, Opened(p)
    PROVE  MigrationsInv'
<1> USE DEF Opened
<1>1. PICK c \in 0 .. Len(Script) : DatabaseInv(c) /\ ProcessInv(c)
  BY DEF MigrationsInv
<1>2. MigrationsTyped'
  BY DEF MigrationsInv, MigrationsTyped
<1>3. \A q \in Process : phase'[q] = IF q = p THEN "open" ELSE phase[q]
  BY DEF MigrationsInv, MigrationsTyped
<1>5. DatabaseInv(c)'
  BY <1>1, DatabaseKept
<1>6. c = Len(Script)
  <2>1. PICK j \in 1 .. c + 1 : {} = j .. Len(Script)
    BY <1>1 DEF ProcessInv
  <2>2. j \notin j .. Len(Script) /\ Len(Script) \in Nat /\ j \in Nat /\ c \in Nat
    BY <2>1, ScriptType
  <2>3. j > Len(Script)
    BY <2>2
  <2> QED BY <2>3, ScriptType
<1>7. ProcessInv(c)'
  <2>1. statement[p] = 0
    BY <1>1 DEF ProcessInv
  <2>2. ASSUME NEW q \in Process, statement'[q] # 0, ~raced
        PROVE  RunsAlone(q, c)'
    <3>1. RunsAlone(q, c)
      BY <1>1, <2>2 DEF ProcessInv
    <3> QED BY <3>1 DEF RunsAlone
  <2> QED BY <1>1, <1>3, <1>6, <2>1, <2>2 DEF ProcessInv
<1> QED BY <1>2, <1>5, <1>7 DEF MigrationsInv

LEMMA CloseKeeps ==
    ASSUME MigrationsInv, NEW p \in Process, Close(p)
    PROVE  MigrationsInv'
<1> USE DEF Close
<1>1. PICK c \in 0 .. Len(Script) : DatabaseInv(c) /\ ProcessInv(c)
  BY DEF MigrationsInv
<1>2. MigrationsTyped'
  BY DEF MigrationsInv, MigrationsTyped
<1>3. \A q \in Process : phase'[q] = IF q = p THEN "closed" ELSE phase[q]
  BY DEF MigrationsInv, MigrationsTyped
<1>5. DatabaseInv(c)'
  BY <1>1, DatabaseKept
<1>6. ProcessInv(c)'
  BY <1>1, <1>3 DEF ProcessInv, RunsAlone
<1> QED BY <1>2, <1>5, <1>6 DEF MigrationsInv

\* The next pending version of a process is the first one after those it applied.
LEMMA NextPending ==
    ASSUME MigrationsInv, NEW c \in 0 .. Len(Script), ProcessInv(c), NEW p \in Process,
           phase[p] = "migrating", NEW v \in Version, IsNextPending(p, v)
    PROVE  /\ v \in 1 .. c + 1 /\ pending[p] = v .. Len(Script)
           /\ pending[p] \ {v} = v + 1 .. Len(Script)
<1>1. PICK j \in 1 .. c + 1 : pending[p] = j .. Len(Script)
  BY DEF ProcessInv
<1>2. v \in j .. Len(Script) /\ j \in j .. Len(Script) /\ \A u \in j .. Len(Script) : v <= u
  BY <1>1, ScriptType DEF IsNextPending
<1>3. v = j
  BY <1>2
<1>4. j .. Len(Script) \ {j} = j + 1 .. Len(Script)
  BY ScriptType
<1> QED BY <1>1, <1>3, <1>4

\* Version c + 1 is recorded, its whole script having run.
LEMMA RecordedNext ==
    ASSUME MigrationsInv, NEW p \in Process, NEW c \in 0 .. Len(Script), DatabaseInv(c),
           ProcessInv(c), phase[p] = "migrating", c + 1 \in Version, IsNextPending(p, c + 1),
           Applied(p, c + 1), UNCHANGED <<engine, raced>>, schema' \in Schema,
           \/ raced
           \/ schema' = SchemaAt[c + 1] /\ \A q \in Process \ {p} : statement[q] = 0
    PROVE  MigrationsInv'
<1>1. c + 1 \in 0 .. Len(Script) /\ (c + 1) + 1 \in Nat /\ Len(Script) \in Nat
  BY ScriptType DEF Version
<1>2. MigrationsTyped'
  BY DEF MigrationsInv, MigrationsTyped, Applied
<1>3. /\ phase' = phase /\ statement'[p] = 0
      /\ \A q \in Process \ {p} : statement'[q] = statement[q]
      /\ pending'[p] = pending[p] \ {c + 1} /\ \A q \in Process \ {p} : pending'[q] = pending[q]
  BY DEF MigrationsInv, MigrationsTyped, Applied
<1>4. ~raced => \A q \in Process : statement'[q] = 0
  BY <1>3
<1>5. DatabaseInv(c + 1)'
  <2>1. recorded' = 1 .. c + 1
    BY <1>1 DEF Applied, DatabaseInv
  <2>2. ASSUME c + 1 # Len(Script), ~raced
        PROVE  InProgress((c + 1) + 1)'
    <3>1. (c + 1) + 1 \in Version /\ ((c + 1) + 1) - 1 = c + 1
      BY <1>1, <2>2 DEF Version
    <3>2. 0 \in 0 .. Len(Script[(c + 1) + 1])
      BY <3>1, ScriptType
    <3>3. CleanUpTo((c + 1) + 1, 0) /\ Agrees(schema', (c + 1) + 1, 0, 0)
      BY <2>2, <3>1, Fresh
    <3> QED BY <1>4, <2>2, <3>2, <3>3 DEF InProgress
  <2> QED BY <2>1, <2>2 DEF DatabaseInv
<1>6. ProcessInv(c + 1)'
  <2>1. ASSUME NEW q \in Process, phase[q] = "migrating"
        PROVE  \E j \in 1 .. (c + 1) + 1 : pending'[q] = j .. Len(Script)
    <3>1. CASE q = p
      <4>1. pending'[p] = (c + 1) + 1 .. Len(Script) /\ (c + 1) + 1 \in 1 .. (c + 1) + 1
        BY <1>1, <1>3, NextPending
      <4> QED BY <3>1, <4>1
    <3>2. CASE q # p
      <4>1. PICK j \in 1 .. c + 1 : pending[q] = j .. Len(Script)
        BY <2>1 DEF ProcessInv
      <4>2. j \in 1 .. (c + 1) + 1
        BY <1>1
      <4> QED BY <1>3, <3>2, <4>1, <4>2
    <3> QED BY <3>1, <3>2
  <2>2. \A q \in Process : phase[q] # "open"
    BY <1>1 DEF ProcessInv, Version
  <2>3. \A q \in Process : phase[q] # "migrating" \/ engine = "postgres" => statement'[q] = 0
    BY <1>3 DEF ProcessInv
  <2> QED BY <1>3, <1>4, <2>1, <2>2, <2>3 DEF ProcessInv
<1> QED BY <1>1, <1>2, <1>5, <1>6 DEF MigrationsInv

LEMMA ApplyPostgresKeeps ==
    ASSUME MigrationsInv, NEW p \in Process, ApplyPostgres(p)
    PROVE  MigrationsInv'
<1>1. PICK c \in 0 .. Len(Script) : DatabaseInv(c) /\ ProcessInv(c)
  BY DEF MigrationsInv
<1>2. PICK v \in Version :
          /\ IsNextPending(p, v)
          /\ IF Succeeds(v, schema) /\ v \notin recorded
             THEN schema' = RunScript(v, schema) /\ Applied(p, v)
             ELSE Abandon(p) /\ UNCHANGED <<schema, recorded>>
  BY DEF ApplyPostgres
<1>3. /\ phase[p] = "migrating" /\ UNCHANGED <<engine, raced>>
      /\ engine = "postgres" /\ ~raced
  BY DEF ApplyPostgres, MigrationsInv, MigrationsTyped
<1>4. CASE ~(Succeeds(v, schema) /\ v \notin recorded)
  BY <1>2, <1>3, <1>4, AbandonKeeps
<1>5. CASE Succeeds(v, schema) /\ v \notin recorded
  <2>1. v \in 1 .. c + 1 /\ v \notin 1 .. c
    BY <1>1, <1>2, <1>3, <1>5, NextPending DEF DatabaseInv
  <2>2. v = c + 1 /\ c # Len(Script) /\ v - 1 = c
    BY <2>1, ScriptType DEF Version
  <2>3. PICK k \in 0 .. Len(Script[v]) : k = 0 /\ Agrees(schema, v, 0, k)
    BY <1>1, <1>3, <2>2 DEF DatabaseInv, InProgress
  <2>4. schema = Clean(v)[0]
    BY <2>3, AgreesWholly DEF MigrationsInv, MigrationsTyped
  <2>5. schema' = SchemaAt[c + 1]
    BY <1>2, <1>5, <2>2, <2>4, CleanFacts, SchemaAtFacts
  <2>6. \A q \in Process : statement[q] = 0
    BY <1>1, <1>3 DEF ProcessInv
  <2>7. schema' \in Schema
    BY <2>2, <2>5, SchemaAtFacts DEF Version
  <2> QED BY <1>1, <1>2, <1>3, <1>5, <2>2, <2>5, <2>6, <2>7, RecordedNext
<1> QED BY <1>4, <1>5

\* A statement of SQLite, where no other process is inside a script.
LEMMA StatementKeeps ==
    ASSUME MigrationsInv, NEW p \in Process, NEW c \in 0 .. Len(Script), DatabaseInv(c),
           engine = "sqlite", ~raced, c + 1 \in Version, pending[p] = c + 1 .. Len(Script),
           \A q \in Process \ {p} : statement[q] = 0,
           NEW n \in 1 .. Len(Script[c + 1]), n - 1 = statement[p],
           Runs(Script[c + 1][n], schema),
           schema' = Effect(Script[c + 1][n], c + 1, schema),
           statement' = [statement EXCEPT ![p] = n],
           UNCHANGED <<engine, recorded, phase, pending>>
    PROVE  DatabaseInv(c)' /\ RunsAlone(p, c)'
<1> DEFINE v == c + 1
           s == Script[v][n]
<1>1. v - 1 = c /\ c # Len(Script) /\ Len(Script[v]) \in Nat /\ n \in Nat
  BY ScriptType DEF Version
<1>2. PICK k \in 0 .. Len(Script[v]) :
          /\ CleanUpTo(v, k) /\ Agrees(schema, v, 0, k)
          /\ \A q \in Process : Agrees(schema, v, statement[q], k)
  BY <1>1 DEF DatabaseInv, InProgress
<1>3. schema \in Schema /\ statement \in [Process -> Nat]
  BY DEF MigrationsInv, MigrationsTyped
<1> HIDE DEF s
<1>4. s \in Statement /\ v \in Nat
  BY ScriptType DEF s
<1>5. schema' = Effect(s, v, schema) /\ schema' \in Schema
  BY <1>3, <1>4, EffectType DEF s
<1>6. \A q \in Process : statement'[q] = IF q = p THEN n ELSE 0
  BY <1>3
<1>7. PICK j \in 0 .. Len(Script[v]) : CleanUpTo(v, j) /\ Agrees(schema', v, n, j)
  BY <1>2, <1>3, <1>5, StatementAgrees DEF s
<1>8. Agrees(schema', v, 0, j)
  BY <1>1, <1>5, <1>7, AgreesFromStart
<1>9. \A q \in Process : Agrees(schema', v, statement'[q], j)
  BY <1>6, <1>7, <1>8
<1>10. InProgress(c + 1)'
  BY <1>7, <1>8, <1>9 DEF InProgress
<1>11. DatabaseInv(c)'
  BY <1>1, <1>10 DEF DatabaseInv
<1> QED BY <1>1, <1>6, <1>11 DEF RunsAlone

LEMMA ApplySqliteKeeps ==
    ASSUME MigrationsInv, NEW p \in Process, ApplySqlite(p)
    PROVE  MigrationsInv'
<1>1. PICK c \in 0 .. Len(Script) : DatabaseInv(c) /\ ProcessInv(c)
  BY DEF MigrationsInv
<1>2. PICK v \in Version :
          /\ IsNextPending(p, v)
          /\ IF statement[p] < Len(Script[v]) THEN RunStatementSqlite(p, v) ELSE RecordSqlite(p, v)
  BY DEF ApplySqlite
<1>3. /\ phase[p] = "migrating" /\ engine' = engine /\ engine = "sqlite"
      /\ statement \in [Process -> Nat] /\ statement[p] \in Nat
      /\ schema \in Schema /\ raced \in BOOLEAN
  BY DEF ApplySqlite, MigrationsInv, MigrationsTyped
<1>4. v \in 1 .. c + 1 /\ pending[p] = v .. Len(Script) /\ recorded = 1 .. c
  BY <1>1, <1>2, <1>3, NextPending DEF DatabaseInv
<1>5. Len(Script[v]) \in Nat /\ v \in Nat
  BY ScriptType
<1>6. v \in recorded \/ v = c + 1
  BY <1>4, ScriptType
<1>7. CASE ~(statement[p] < Len(Script[v]))
  <2>1. CASE v \in recorded
    BY <1>2, <1>3, <1>7, <2>1, AbandonKeeps DEF RecordSqlite
  <2>2. CASE v \notin recorded
    <3>1. Applied(p, v) /\ UNCHANGED <<schema, raced>>
      BY <1>2, <1>7, <2>2 DEF RecordSqlite
    <3>2. v = c + 1 /\ v - 1 = c /\ c # Len(Script)
      BY <1>6, <2>2, ScriptType DEF Version
    <3>3. ASSUME ~raced
          PROVE  schema = SchemaAt[c + 1] /\ \A q \in Process \ {p} : statement[q] = 0
      <4>1. PICK k \in 0 .. Len(Script[v]) :
               /\ CleanUpTo(v, k) /\ Agrees(schema, v, 0, k)
               /\ \A q \in Process : Agrees(schema, v, statement[q], k)
        BY <1>1, <3>2, <3>3 DEF DatabaseInv, InProgress
      <4>2. statement[p] = Len(Script[v]) /\ k = Len(Script[v])
        BY <1>3, <1>5, <1>7, <4>1 DEF Agrees
      <4>3. schema = Clean(v)[k]
        BY <1>3, <4>1, <4>2, AgreesWholly
      <4>4. schema = SchemaAt[c + 1]
        BY <3>2, <4>2, <4>3, CleanFacts
      <4>5. CASE statement[p] = 0
        <5>1. \A q \in Process : statement[q] <= 0 /\ statement[q] \in Nat
          BY <1>3, <4>1, <4>2, <4>5 DEF Agrees
        <5> QED BY <4>4, <5>1
      <4>6. CASE statement[p] # 0
        BY <1>1, <3>3, <4>4, <4>6 DEF ProcessInv, RunsAlone
      <4> QED BY <4>5, <4>6
    <3> QED BY <1>1, <1>2, <1>3, <3>1, <3>2, <3>3, RecordedNext
  <2> QED BY <2>1, <2>2
<1>8. CASE statement[p] < Len(Script[v])
  <2> DEFINE n == statement[p] + 1
             s == Script[v][n]
  <2>1. n \in 1 .. Len(Script[v]) /\ n - 1 = statement[p] /\ n \in Nat
    BY <1>3, <1>5, <1>8
  <2>2. CASE ~Runs(s, schema)
    BY <1>2, <1>3, <1>8, <2>2, AbandonKeeps DEF RunStatementSqlite
  <2>3. CASE Runs(s, schema)
    <3>1. /\ schema' = Effect(s, v, schema)
          /\ statement' = [statement EXCEPT ![p] = n]
          /\ raced' = (raced \/ Intrudes(p, v))
          /\ UNCHANGED <<recorded, phase, pending>>
      BY <1>2, <1>8, <2>3 DEF RunStatementSqlite
    <3>2. PICK m \in 1 .. Len(Script[v]) : m = n
      BY <2>1
    <3>3. s \in Statement
      BY <2>1, ScriptType
    <3> HIDE DEF n, s
    <3>4. schema' \in Schema
      BY <1>3, <1>5, <3>1, <3>3, EffectType
    <3>5. MigrationsTyped'
      BY <1>3, <2>1, <3>1, <3>4 DEF MigrationsInv, MigrationsTyped
    <3>6. \A q \in Process : statement'[q] = IF q = p THEN n ELSE statement[q]
      BY <1>3, <3>1
    <3>7. ASSUME ~raced'
          PROVE  DatabaseInv(c)' /\ RunsAlone(p, c)' /\ \A q \in Process \ {p} : statement[q] = 0
      <4>1. ~raced /\ ~Intrudes(p, v)
        BY <1>3, <3>1, <3>7
      <4>2. v = c + 1 /\ \A q \in Process \ {p} : statement[q] = 0
        BY <1>3, <1>6, <4>1 DEF Intrudes
      <4>3. m \in 1 .. Len(Script[c + 1]) /\ m - 1 = statement[p]
        BY <2>1, <3>2, <4>2
      <4>4. /\ Runs(Script[c + 1][m], schema) /\ schema' = Effect(Script[c + 1][m], c + 1, schema)
            /\ statement' = [statement EXCEPT ![p] = m]
        BY <2>3, <3>1, <3>2, <4>2 DEF s
      <4> QED BY <1>1, <1>3, <1>4, <3>1, <4>1, <4>2, <4>3, <4>4, StatementKeeps
    <3>8. DatabaseInv(c)'
      BY <1>4, <3>1, <3>7 DEF DatabaseInv
    <3>9. ProcessInv(c)'
      <4>1. ASSUME NEW q \in Process PROVE raced' \/ statement'[q] = 0 \/ RunsAlone(q, c)'
        BY <3>6, <3>7
      <4>2. pending[p] # {}
        <5>1. v \in pending[p]
          BY <1>2 DEF IsNextPending
        <5> QED BY <5>1
      <4>3. ASSUME NEW q \in Process PROVE statement'[q] = 0 \/ pending[q] # {}
        BY <1>1, <3>6, <4>2 DEF ProcessInv
      <4> QED BY <1>1, <1>3, <3>1, <3>6, <4>1, <4>3 DEF ProcessInv
    <3> QED BY <3>5, <3>8, <3>9 DEF MigrationsInv
  <2> QED BY <2>2, <2>3
<1> QED BY <1>7, <1>8

LEMMA MigrationStep == MigrationsInv /\ [NextMigrations]_migrationVars => MigrationsInv'
<1> SUFFICES ASSUME MigrationsInv, [NextMigrations]_migrationVars
             PROVE  MigrationsInv'
  OBVIOUS
<1>1. CASE UNCHANGED migrationVars
  <2>1. PICK c \in 0 .. Len(Script) : DatabaseInv(c) /\ ProcessInv(c)
    BY DEF MigrationsInv
  <2>2. DatabaseInv(c)'
    BY <1>1, <2>1, DatabaseKept DEF migrationVars
  <2>3. MigrationsTyped' /\ ProcessInv(c)'
    BY <1>1, <2>1 DEF migrationVars, MigrationsInv, MigrationsTyped, ProcessInv, RunsAlone
  <2> QED BY <2>2, <2>3 DEF MigrationsInv
<1>2. ASSUME NEW p \in Process, Interrupt(p)
      PROVE  MigrationsInv'
  BY <1>2, AbandonKeeps DEF Interrupt
<1> QED BY <1>1, <1>2, OpenStoreKeeps, ReadPendingKeeps, ApplySqliteKeeps, ApplyPostgresKeeps,
           OpenedKeeps, CloseKeeps DEF NextMigrations

(***************************************************************************)
(* Whoever opens the database, at the same time or after an interruption,  *)
(* the recorded versions are an initial segment; and the script after them *)
(* can start again unless scripts of SQLite ran into one another:          *)
(* apply_migration and _apply_migration keep it so.                        *)
(***************************************************************************)
THEOREM MigrationsInvariance == SpecMigrations => []MigrationsInv
<1> QED BY InitMigrationsInv, MigrationStep, PTL DEF SpecMigrations

(***************************************************************************)
(* A store whose constructor returned has every version recorded, and the  *)
(* schema of all the scripts unless scripts of SQLite ran into one another.*)
(***************************************************************************)
THEOREM OpenedStores == SpecMigrations => []OpenedIsComplete
<1>1. MigrationsInv => OpenedIsComplete
  <2> SUFFICES ASSUME MigrationsInv, NEW p \in Process, phase[p] = "open"
               PROVE  recorded = Version /\ (raced \/ schema = SchemaAt[Len(Script)])
    BY DEF OpenedIsComplete
  <2>1. PICK c \in 0 .. Len(Script) : DatabaseInv(c) /\ ProcessInv(c)
    BY DEF MigrationsInv
  <2> QED BY <2>1 DEF ProcessInv, DatabaseInv, Version
<1> QED BY <1>1, MigrationsInvariance, PTL

\* PostgreSQL: schema_migrations says exactly what the schema is, at all times.
THEOREM WholePostgres == SpecMigrations => []PostgresIsWhole
<1>1. MigrationsInv => PostgresIsWhole
  <2> SUFFICES ASSUME MigrationsInv, engine = "postgres"
               PROVE  recorded = 1 .. get_current_version /\ schema = SchemaAt[get_current_version]
    BY DEF PostgresIsWhole
  <2>1. PICK c \in 0 .. Len(Script) : DatabaseInv(c) /\ ProcessInv(c)
    BY DEF MigrationsInv
  <2>2. recorded = 1 .. c /\ get_current_version = c /\ ~raced
    BY <2>1, CurrentOfPrefix DEF DatabaseInv, MigrationsInv, MigrationsTyped
  <2>3. CASE c = Len(Script)
    BY <2>1, <2>2, <2>3 DEF DatabaseInv
  <2>4. CASE c # Len(Script)
    <3>1. c + 1 \in Version /\ (c + 1) - 1 = c
      BY <2>4, ScriptType DEF Version
    <3>2. PICK k \in 0 .. Len(Script[c + 1]) : k = 0 /\ Agrees(schema, c + 1, 0, k)
      BY <2>1, <2>2, <2>4 DEF DatabaseInv, InProgress
    <3>3. schema = Clean(c + 1)[0]
      BY <3>1, <3>2, AgreesWholly DEF MigrationsInv, MigrationsTyped
    <3> QED BY <2>2, <3>1, <3>3, CleanFacts
  <2> QED BY <2>3, <2>4
<1> QED BY <1>1, MigrationsInvariance, PTL
=============================================================================
