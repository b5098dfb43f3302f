-------------------------- MODULE EventStoreProofs --------------------------
(***************************************************************************)
(* Safety of EventStore for every set of callers, traces and envelopes,    *)
(* and the proof that it implements DecisionLog.                           *)
(*                                                                         *)
(* The invariants of EventStore are not inductive by themselves: that an   *)
(* insertion keeps a trace well formed depends on what the transaction     *)
(* checked before, that this stays valid depends on the lock, and that     *)
(* names are unique depends on the index entries of running transactions.  *)
(* IInv adds these.                                                        *)
(***************************************************************************)
EXTENDS EventStore, TLAPS

\* The transaction has inserted its row.
HasRow == IndexStage \cup {"commit"}

\* A call that runs has an envelope, no answer, and, past the lock, the lock.
CallInv ==
    \A w \in Writer :
        /\ pc[w] # "idle" => request[w] \in Envelope /\ answer[w] = Reply("none")
        /\ pc[w] \in Locked => lockHolder[request[w].trace] = w
        /\ pc[w] = "recover" => StoredUnder(request[w].key) # {}

\* The trace_seq of a trace are an initial segment of the naturals.
DenseTraces == \A t \in Trace : \E n \in Nat : TraceSeqs(t) = 0 .. (n - 1)

\* What a committed event says about the committed events of its trace.
TraceInv ==
    \A r, s \in log :
        r.event.trace = s.event.trace =>
            /\ (s.event.type = "TraceStarted") <=> (s.event.trace_seq = 0)
            /\ r.event.trace_seq = s.event.trace_seq => r = s
            /\ s.event.type = "TraceFinished" => r.event.trace_seq <= s.event.trace_seq
            /\ r.event.trace_seq < s.event.trace_seq => r.log_seq < s.log_seq

\* The log_seq of committed and uncommitted rows are used once.
LogSeqInv ==
    /\ \A s \in log : s.log_seq < nextLogSeq
    /\ \A w \in Writer : pc[w] \in HasRow =>
          /\ rowSeq[w] \in Nat \ {0}
          /\ rowSeq[w] < nextLogSeq
          /\ \A s \in log : s.log_seq # rowSeq[w]
          /\ \A s \in EventsOf(request[w].trace) : s.log_seq < rowSeq[w]
          /\ \A v \in Writer \ {w} : pc[v] \in HasRow => rowSeq[v] # rowSeq[w]

\* A transaction past an index has the only entry of its value.
EntryInv ==
    \A w \in Writer :
        /\ pc[w] \in HasEntry("id_index") =>
              /\ \A s \in log : s.event.id # request[w].id
              /\ \A v \in Writer \ {w} :
                    pc[v] \in HasEntry("id_index") => request[v].id # request[w].id
        /\ pc[w] \in HasEntry("key_index") =>
              /\ \A s \in log : s.event.key # request[w].key
              /\ \A v \in Writer \ {w} :
                    pc[v] \in HasEntry("key_index") => request[v].key # request[w].key

IInv == /\ TypeOK
        /\ CallInv
        /\ DenseTraces
        /\ TraceInv
        /\ LogSeqInv
        /\ EntryInv
        /\ UniqueNames
        /\ ChecksStayValid

-----------------------------------------------------------------------------
(***************************************************************************)
(* The operators that read the log.                                        *)
(***************************************************************************)
LEMMA NextOfDense ==
    ASSUME NEW t, NEW n \in Nat, TraceSeqs(t) = 0 .. (n - 1)
    PROVE  NextTraceSeq(t) = n
<1>1. CASE n = 0
  BY <1>1 DEF NextTraceSeq
<1>2. CASE n # 0
  <2>1. n - 1 \in TraceSeqs(t) /\ \A i \in TraceSeqs(t) : i <= n - 1
    BY <1>2
  <2>2. ASSUME NEW m \in TraceSeqs(t), \A i \in TraceSeqs(t) : i <= m
        PROVE  m = n - 1
    <3>1. m \in 0 .. (n - 1) /\ n - 1 <= m
      BY <2>1, <2>2
    <3> QED BY <3>1
  <2>3. MaxOf(TraceSeqs(t)) = n - 1
    BY <2>1, <2>2 DEF MaxOf
  <2> QED BY <1>2, <2>1, <2>3 DEF NextTraceSeq
<1> QED BY <1>1, <1>2

\* A dense trace holds exactly the trace_seq below the next one.
LEMMA DenseBelowNext ==
    ASSUME DenseTraces, NEW t \in Trace
    PROVE  /\ NextTraceSeq(t) \in Nat
           /\ TraceSeqs(t) = 0 .. (NextTraceSeq(t) - 1)
<1>1. PICK n \in Nat : TraceSeqs(t) = 0 .. (n - 1)
  BY DEF DenseTraces
<1> QED BY <1>1, NextOfDense

\* What is read from the log is the same when the log is.
LEMMA LogUnchanged ==
    ASSUME UNCHANGED log
    PROVE  /\ \A t : EventsOf(t)' = EventsOf(t)
           /\ \A k : StoredUnder(k)' = StoredUnder(k)
           /\ \A e : Follows(e)' <=> Follows(e)
           /\ DenseTraces' <=> DenseTraces
           /\ TraceInv' <=> TraceInv
           /\ UniqueNames' <=> UniqueNames
<1>1. \A t : EventsOf(t)' = EventsOf(t)
  BY DEF EventsOf
<1>2. \A t : TraceSeqs(t)' = TraceSeqs(t)
  BY <1>1 DEF TraceSeqs
<1>3. \A t : NextTraceSeq(t)' = NextTraceSeq(t)
  BY <1>2 DEF NextTraceSeq
<1>4. \A t : TraceIsFinished(t)' <=> TraceIsFinished(t)
  BY <1>1 DEF TraceIsFinished
<1>5. \A e : Follows(e)' <=> Follows(e)
  BY <1>3, <1>4 DEF Follows, ValidSequence, StartsAtZero
<1> QED BY <1>1, <1>2, <1>5 DEF StoredUnder, DenseTraces, TraceInv, UniqueNames

-----------------------------------------------------------------------------
(***************************************************************************)
(* IInv holds initially.                                                   *)
(***************************************************************************)
LEMMA RepliesAreAnswers ==
    ASSUME NEW kind \in AnswerKind, NEW s \in StoredEvent
    PROVE  Reply(kind) \in Answer /\ ReplyWith(kind, s) \in Answer
BY DEF Reply, ReplyWith, Answer

LEMMA InitIInv == Init => IInv
<1> SUFFICES ASSUME Init PROVE IInv
  OBVIOUS
<1> USE DEF Init
<1>1. TypeOK
  BY DEF TypeOK, Stage, Answer, Reply, AnswerKind
<1>2. DenseTraces
  <2>1. \A t \in Trace : TraceSeqs(t) = {}
    BY DEF TraceSeqs, EventsOf
  <2>2. 0 .. (0 - 1) = {} /\ 0 \in Nat
    OBVIOUS
  <2> QED BY <2>1, <2>2 DEF DenseTraces
<1>3. CallInv /\ LogSeqInv /\ EntryInv /\ ChecksStayValid
  BY DEF CallInv, LogSeqInv, EntryInv, ChecksStayValid, Locked, HasRow, IndexStage, HasEntry
<1>4. TraceInv /\ UniqueNames
  BY DEF TraceInv, UniqueNames
<1> QED BY <1>1, <1>2, <1>3, <1>4 DEF IInv

-----------------------------------------------------------------------------
(***************************************************************************)
(* Steps that leave the log alone.                                         *)
(***************************************************************************)
(***************************************************************************)
(* A transaction ends without committing a row: reuse, rejection, unique   *)
(* violation or lost connection.                                           *)
(***************************************************************************)
LEMMA EndPreserves ==
    ASSUME IInv, NEW w \in Writer, NEW next \in {"idle", "recover"},
           EndTransaction(w, next), UNCHANGED log,
           nextLogSeq' \in Nat \ {0}, nextLogSeq <= nextLogSeq',
           answer' \in [Writer -> Answer],
           \A v \in Writer \ {w} : answer'[v] = answer[v],
           next = "recover" => /\ pc[w] # "idle" /\ UNCHANGED answer
                               /\ StoredUnder(request[w].key) # {}
    PROVE  IInv'
<1> USE DEF IInv, EndTransaction
<1>1. /\ pc' \in [Writer -> Stage] /\ pc'[w] = next
      /\ rowSeq' \in [Writer -> Nat]
      /\ lockHolder' \in [Trace -> Writer \cup {NoWriter}]
      /\ request' = request
  BY DEF TypeOK, Stage
<1>2. \A v \in Writer \ {w} : pc'[v] = pc[v] /\ rowSeq'[v] = rowSeq[v]
  BY DEF TypeOK
<1>3. \A v \in Writer \ {w}, t \in Trace : lockHolder[t] = v => lockHolder'[t] = v
  BY DEF TypeOK
<1>4. next \notin Locked /\ next \notin HasRow /\ next \notin IndexStage
      /\ next \notin {"insert", "commit"}
  BY DEF Locked, HasRow, IndexStage
<1>5. next \notin HasEntry("id_index") /\ next \notin HasEntry("key_index")
  BY DEF HasEntry
<1>6. TypeOK'
  BY <1>1 DEF TypeOK, StoredEvent, Answer
<1>7. CallInv'
  <2> SUFFICES ASSUME NEW v \in Writer
               PROVE  /\ pc'[v] # "idle" => request'[v] \in Envelope /\ answer'[v] = Reply("none")
                      /\ pc'[v] \in Locked => lockHolder'[request'[v].trace] = v
                      /\ pc'[v] = "recover" => StoredUnder(request[v].key) # {}
    BY <1>1, LogUnchanged DEF CallInv, Reply
  <2>1. CASE v = w
    BY <2>1, <1>1, <1>4 DEF CallInv
  <2>2. CASE v # w
    <3>1. pc[v] \in Locked => request[v].trace \in Trace
      BY EnvelopeAssumption DEF CallInv, Locked, IndexStage
    <3> QED BY <2>2, <3>1, <1>1, <1>2, <1>3 DEF CallInv
  <2> QED BY <2>1, <2>2
<1>8. LogSeqInv'
  <2>1. \A s \in log : s.log_seq < nextLogSeq'
    BY DEF LogSeqInv, TypeOK, StoredEvent
  <2>2. \A v \in Writer : pc'[v] \in HasRow =>
            v # w /\ pc[v] \in HasRow /\ rowSeq'[v] = rowSeq[v]
    BY <1>1, <1>2, <1>4
  <2>3. \A v \in Writer : pc'[v] \in HasRow => rowSeq'[v] < nextLogSeq'
    BY <2>2 DEF LogSeqInv, TypeOK
  <2> QED BY <1>1, <2>1, <2>2, <2>3, LogUnchanged DEF LogSeqInv
<1>9. EntryInv'
  <2>1. \A v \in Writer : /\ pc'[v] \in HasEntry("id_index") => pc[v] \in HasEntry("id_index")
                          /\ pc'[v] \in HasEntry("key_index") => pc[v] \in HasEntry("key_index")
    BY <1>1, <1>2, <1>5
  <2>2. EntryInv' <=> \A v \in Writer :
        /\ pc'[v] \in HasEntry("id_index") =>
              /\ \A s \in log : s.event.id # request[v].id
              /\ \A u \in Writer \ {v} :
                    pc'[u] \in HasEntry("id_index") => request[u].id # request[v].id
        /\ pc'[v] \in HasEntry("key_index") =>
              /\ \A s \in log : s.event.key # request[v].key
              /\ \A u \in Writer \ {v} :
                    pc'[u] \in HasEntry("key_index") => request[u].key # request[v].key
    BY <1>1 DEF EntryInv, HasEntry
  <2> QED BY <2>1, <2>2 DEF EntryInv
<1>10. ChecksStayValid'
  BY <1>1, <1>2, <1>4, LogUnchanged DEF ChecksStayValid
<1> QED BY <1>6, <1>7, <1>8, <1>9, <1>10, LogUnchanged

\* The stages before the row exists hold no index entry and no log_seq.
LEMMA StagesWithoutRow ==
    /\ \A x \in {"idle", "lock", "recover", "lookup", "validate", "insert"} :
          x \notin HasRow /\ x \notin HasEntry("id_index") /\ x \notin HasEntry("key_index")
    /\ \A x \in {"idle", "lock", "recover"} : x \notin Locked
    /\ \A x \in {"lookup", "validate", "insert"} : x \in Locked
    /\ \A x \in {"idle", "lock", "recover", "lookup", "validate"} :
          x \notin {"insert", "commit"} \cup IndexStage
    /\ HasRow \subseteq Locked
    /\ HasRow \subseteq {"insert", "commit"} \cup IndexStage
    /\ HasEntry("key_index") \subseteq HasEntry("id_index")
    /\ HasEntry("id_index") \subseteq HasRow
BY DEF HasRow, HasEntry, Locked, IndexStage

(***************************************************************************)
(* A caller moves to a stage in which it has no row yet.                   *)
(***************************************************************************)
LEMMA RowlessPreserves ==
    ASSUME IInv, NEW w \in Writer, UNCHANGED <<log, nextLogSeq, rowSeq>>,
           NEW x \in {"lock", "lookup", "validate", "insert"},
           pc' = [pc EXCEPT ![w] = x],
           request' \in [Writer -> Envelope \cup {NoEvent}],
           \A v \in Writer \ {w} : request'[v] = request[v],
           TypeOK', CallInv',
           x = "insert" => Follows(request[w]) /\ UNCHANGED request
    PROVE  IInv'
<1> USE DEF IInv
<1>1. pc'[w] = x /\ \A v \in Writer \ {w} : pc'[v] = pc[v]
  BY DEF TypeOK
<1>2. LogSeqInv'
  <2>1. \A v \in Writer : pc'[v] \in HasRow =>
            v # w /\ pc[v] \in HasRow /\ request'[v] = request[v]
    BY <1>1, StagesWithoutRow
  <2> QED BY <2>1, LogUnchanged DEF LogSeqInv, HasRow, IndexStage
<1>3. EntryInv'
  <2>1. \A v \in Writer : pc'[v] \in HasEntry("id_index") \/ pc'[v] \in HasEntry("key_index") =>
            v # w /\ pc[v] = pc'[v] /\ request'[v] = request[v]
    BY <1>1, StagesWithoutRow
  <2>2. \A v \in Writer : pc'[v] \in HasEntry("id_index") =>
              /\ \A s \in log' : s.event.id # request'[v].id
              /\ \A u \in Writer \ {v} :
                    pc'[u] \in HasEntry("id_index") => request'[u].id # request'[v].id
    BY <2>1 DEF EntryInv
  <2>3. \A v \in Writer : pc'[v] \in HasEntry("key_index") =>
              /\ \A s \in log' : s.event.key # request'[v].key
              /\ \A u \in Writer \ {v} :
                    pc'[u] \in HasEntry("key_index") => request'[u].key # request'[v].key
    BY <2>1 DEF EntryInv
  <2> QED BY <2>2, <2>3 DEF EntryInv, HasEntry
<1>4. ChecksStayValid'
  <2> SUFFICES ASSUME NEW v \in Writer, pc'[v] \in {"insert", "commit"} \cup IndexStage
               PROVE  Follows(request[v])'
    BY DEF ChecksStayValid, IndexStage
  <2>1. Follows(request[v]) /\ request'[v] = request[v]
    BY <1>1, StagesWithoutRow DEF ChecksStayValid
  <2> QED BY <2>1, LogUnchanged
<1> QED BY <1>2, <1>3, <1>4, LogUnchanged

LEMMA BeginPreserves ==
    ASSUME IInv, NEW w \in Writer, NEW e \in Envelope, Begin(w, e)
    PROVE  IInv'
<1> USE DEF IInv, Begin
<1>1. \A v \in Writer \ {w} : pc'[v] = pc[v] /\ request'[v] = request[v]
                               /\ answer'[v] = answer[v]
  BY DEF TypeOK
<1>2. pc'[w] = "lock" /\ request'[w] = e /\ answer'[w] = Reply("none")
  BY DEF TypeOK
<1>3. TypeOK'
  <2>1. Reply("none") \in Answer
    BY DEF Answer, Reply, AnswerKind
  <2> QED BY <2>1 DEF TypeOK, Stage, StoredEvent, Answer
<1>4. CallInv'
  <2> SUFFICES ASSUME NEW v \in Writer
               PROVE  /\ pc'[v] # "idle" => request'[v] \in Envelope /\ answer'[v] = Reply("none")
                      /\ pc'[v] \in Locked => lockHolder'[request'[v].trace] = v
                      /\ pc'[v] = "recover" => StoredUnder(request'[v].key) # {}
    BY DEF CallInv, Reply, StoredUnder
  <2> QED BY <1>1, <1>2, StagesWithoutRow DEF CallInv
<1> QED BY <1>1, <1>3, <1>4, RowlessPreserves DEF TypeOK

LEMMA AcquirePreserves ==
    ASSUME IInv, NEW w \in Writer, AcquireTraceLock(w)
    PROVE  IInv'
<1> USE DEF IInv, AcquireTraceLock
<1>1. request[w].trace \in Trace
  BY EnvelopeAssumption DEF CallInv
<1>2. \A v \in Writer \ {w} : pc'[v] = pc[v]
  BY DEF TypeOK
<1>3. \A v \in Writer : pc[v] \in Locked => request[v].trace # request[w].trace
  BY NoWriterAssumption DEF CallInv
<1>4. TypeOK'
  BY DEF TypeOK, Stage, Locked, StoredEvent, Answer
<1>5. CallInv'
  <2> SUFFICES ASSUME NEW v \in Writer
               PROVE  /\ pc'[v] # "idle" => request'[v] \in Envelope /\ answer'[v] = Reply("none")
                      /\ pc'[v] \in Locked => lockHolder'[request'[v].trace] = v
                      /\ pc'[v] = "recover" => StoredUnder(request[v].key) # {}
    BY LogUnchanged DEF CallInv, Reply
  <2>1. CASE v = w
    BY <2>1, <1>1 DEF CallInv, TypeOK
  <2>2. CASE v # w
    BY <2>2, <1>1, <1>2, <1>3 DEF CallInv, TypeOK
  <2> QED BY <2>1, <2>2
<1> QED BY <1>4, <1>5, RowlessPreserves DEF TypeOK

\* KeyIsUnused and Validate.
LEMMA CheckPreserves ==
    ASSUME IInv, NEW w \in Writer, KeyIsUnused(w) \/ Validate(w)
    PROVE  IInv'
<1> USE DEF IInv, KeyIsUnused, Validate, Advance
<1>1. PICK x \in {"validate", "insert"} :
          /\ pc' = [pc EXCEPT ![w] = x]
          /\ pc[w] \in {"lookup", "validate"}
          /\ x = "insert" => Follows(request[w])
  BY DEF Follows
<1>2. TypeOK'
  BY <1>1 DEF TypeOK, Stage, Locked, StoredEvent, Answer
<1>3. CallInv'
  <2> SUFFICES ASSUME NEW v \in Writer
               PROVE  /\ pc'[v] # "idle" => request[v] \in Envelope /\ answer[v] = Reply("none")
                      /\ pc'[v] \in Locked => lockHolder[request[v].trace] = v
                      /\ pc'[v] = "recover" => StoredUnder(request[v].key) # {}
    BY LogUnchanged DEF CallInv, Reply
  <2>1. pc'[v] = IF v = w THEN x ELSE pc[v]
    BY <1>1 DEF TypeOK
  <2> QED BY <2>1, <1>1, StagesWithoutRow DEF CallInv
<1> QED BY <1>1, <1>2, <1>3, RowlessPreserves DEF TypeOK

\* The row is inserted, or the trigger refuses it.
LEMMA InsertPreserves ==
    ASSUME IInv, NEW w \in Writer, Insert(w)
    PROVE  IInv'
<1> USE DEF IInv
<1>1. nextLogSeq' = nextLogSeq + 1 /\ nextLogSeq' \in Nat \ {0} /\ nextLogSeq <= nextLogSeq'
  BY DEF Insert, TypeOK
<1>2. Follows(request[w])
  BY DEF Insert, ChecksStayValid
<1>3. /\ pc[w] = "insert" /\ pc' = [pc EXCEPT ![w] = "id_index"]
      /\ rowSeq' = [rowSeq EXCEPT ![w] = nextLogSeq]
      /\ UNCHANGED <<log, lockHolder, request, answer>>
  BY <1>2 DEF Insert, Advance
<1>4. \A v \in Writer : /\ pc'[v] = IF v = w THEN "id_index" ELSE pc[v]
                        /\ rowSeq'[v] = IF v = w THEN nextLogSeq ELSE rowSeq[v]
  BY <1>3 DEF TypeOK
<1>5. "id_index" \in Locked /\ "id_index" \notin HasEntry("id_index")
      /\ "id_index" \notin HasEntry("key_index") /\ "insert" \in Locked
  BY DEF Locked, IndexStage, HasEntry
<1>6. TypeOK'
  BY <1>1, <1>3 DEF TypeOK, Stage, Locked, IndexStage, StoredEvent, Answer
<1>7. CallInv'
  <2> SUFFICES ASSUME NEW v \in Writer
               PROVE  /\ pc'[v] # "idle" => request[v] \in Envelope /\ answer[v] = Reply("none")
                      /\ pc'[v] \in Locked => lockHolder[request[v].trace] = v
                      /\ pc'[v] = "recover" => StoredUnder(request[v].key) # {}
    BY <1>3, LogUnchanged DEF CallInv, Reply
  <2> QED BY <1>3, <1>4, <1>5 DEF CallInv
<1>8. LogSeqInv'
  <2>1. \A s \in log : s.log_seq \in Nat
    BY DEF TypeOK, StoredEvent
  <2>2. \A s \in log : s.log_seq < nextLogSeq'
    BY <1>1, <2>1 DEF LogSeqInv, TypeOK
  <2>3. ASSUME NEW v \in Writer, pc'[v] \in HasRow
        PROVE  /\ rowSeq'[v] \in Nat \ {0} /\ rowSeq'[v] < nextLogSeq'
               /\ \A s \in log : s.log_seq # rowSeq'[v]
               /\ \A s \in EventsOf(request[v].trace) : s.log_seq < rowSeq'[v]
               /\ \A u \in Writer \ {v} : pc'[u] \in HasRow => rowSeq'[u] # rowSeq'[v]
    <3>1. EventsOf(request[v].trace) \subseteq log
      BY DEF EventsOf
    <3>2. \A u \in Writer \ {w} : pc'[u] \in HasRow => rowSeq'[u] \in Nat \ {0} /\ rowSeq'[u] < nextLogSeq
      BY <1>4 DEF LogSeqInv
    <3>3. CASE v = w
      <4>1. rowSeq'[v] = nextLogSeq /\ nextLogSeq \in Nat \ {0}
        BY <3>3, <1>4 DEF TypeOK
      <4>2. \A s \in log : s.log_seq < nextLogSeq
        BY DEF LogSeqInv
      <4>3. \A u \in Writer \ {v} : pc'[u] \in HasRow => rowSeq'[u] # rowSeq'[v]
        BY <3>2, <3>3, <4>1
      <4> QED BY <3>1, <4>1, <4>2, <4>3, <1>1, <2>1
    <3>4. CASE v # w
      <4>1. pc[v] \in HasRow /\ rowSeq'[v] = rowSeq[v]
        BY <2>3, <3>4, <1>4
      <4>2. \A u \in Writer \ {v} : pc'[u] \in HasRow => rowSeq'[u] # rowSeq'[v]
        BY <3>2, <3>4, <4>1, <1>4 DEF LogSeqInv, TypeOK
      <4>3. rowSeq[v] < nextLogSeq'
        BY <4>1, <1>1 DEF LogSeqInv, TypeOK
      <4> QED BY <4>1, <4>2, <4>3 DEF LogSeqInv
    <3> QED BY <3>3, <3>4
  <2> QED BY <1>3, <2>2, <2>3, LogUnchanged DEF LogSeqInv, HasRow, IndexStage
<1>9. EntryInv'
  <2>1. \A v \in Writer : /\ pc'[v] \in HasEntry("id_index") => pc[v] \in HasEntry("id_index")
                          /\ pc'[v] \in HasEntry("key_index") => pc[v] \in HasEntry("key_index")
    BY <1>4, <1>5
  <2>2. EntryInv' <=> \A v \in Writer :
        /\ pc'[v] \in HasEntry("id_index") =>
              /\ \A s \in log : s.event.id # request[v].id
              /\ \A u \in Writer \ {v} :
                    pc'[u] \in HasEntry("id_index") => request[u].id # request[v].id
        /\ pc'[v] \in HasEntry("key_index") =>
              /\ \A s \in log : s.event.key # request[v].key
              /\ \A u \in Writer \ {v} :
                    pc'[u] \in HasEntry("key_index") => request[u].key # request[v].key
    BY <1>3 DEF EntryInv, HasEntry
  <2> QED BY <2>1, <2>2 DEF EntryInv
<1>10. ChecksStayValid'
  BY <1>2, <1>3, <1>4, LogUnchanged DEF ChecksStayValid
<1> QED BY <1>3, <1>6, <1>7, <1>8, <1>9, <1>10, LogUnchanged

LEMMA EnterIndexPreserves ==
    ASSUME IInv, NEW w \in Writer, EnterIndex(w)
    PROVE  IInv'
<1> USE DEF IInv
<1>1. /\ pc[w] \in IndexStage /\ pc' = [pc EXCEPT ![w] = AfterIndex(pc[w])]
      /\ UNCHANGED <<log, nextLogSeq, lockHolder, request, rowSeq, answer>>
  BY DEF EnterIndex, Advance
<1>2. \A v \in Writer : pc'[v] = IF v = w THEN AfterIndex(pc[w]) ELSE pc[v]
  BY <1>1 DEF TypeOK
<1>3. AfterIndex(pc[w]) \in HasRow /\ pc[w] \in HasRow
  BY <1>1 DEF AfterIndex, HasRow, IndexStage
<1>4. /\ \A s \in log : ~SameEntry(pc[w], s.event, request[w])
      /\ \A v \in Writer \ {w} :
            pc[v] \in HasEntry(pc[w]) => ~SameEntry(pc[w], request[v], request[w])
  BY DEF EnterIndex, CommittedDuplicate, UncommittedDuplicate
<1>5. TypeOK'
  BY <1>1, <1>3 DEF TypeOK, HasRow, Stage, Locked, StoredEvent, Answer
<1>6. CallInv'
  <2> SUFFICES ASSUME NEW v \in Writer
               PROVE  /\ pc'[v] # "idle" => request[v] \in Envelope /\ answer[v] = Reply("none")
                      /\ pc'[v] \in Locked => lockHolder[request[v].trace] = v
                      /\ pc'[v] = "recover" => StoredUnder(request[v].key) # {}
    BY <1>1, LogUnchanged DEF CallInv, Reply
  <2>1. pc[w] \in Locked /\ pc[w] # "idle" /\ AfterIndex(pc[w]) # "recover"
    BY <1>1, <1>3 DEF HasRow, Locked, IndexStage, AfterIndex
  <2> QED BY <1>1, <1>2, <2>1 DEF CallInv
<1>7. LogSeqInv'
  BY <1>1, <1>2, <1>3, LogUnchanged DEF LogSeqInv, HasRow, IndexStage
<1>8. EntryInv'
  <2>1. EntryInv' <=> \A v \in Writer :
        /\ pc'[v] \in HasEntry("id_index") =>
              /\ \A s \in log : s.event.id # request[v].id
              /\ \A u \in Writer \ {v} :
                    pc'[u] \in HasEntry("id_index") => request[u].id # request[v].id
        /\ pc'[v] \in HasEntry("key_index") =>
              /\ \A s \in log : s.event.key # request[v].key
              /\ \A u \in Writer \ {v} :
                    pc'[u] \in HasEntry("key_index") => request[u].key # request[v].key
    BY <1>1 DEF EntryInv, HasEntry
  <2>2. CASE pc[w] = "id_index"
    <3>1. /\ AfterIndex(pc[w]) \in HasEntry("id_index")
          /\ AfterIndex(pc[w]) \notin HasEntry("key_index")
      BY <2>2 DEF AfterIndex, HasEntry
    <3>2. /\ \A s \in log : s.event.id # request[w].id
          /\ \A v \in Writer \ {w} : pc[v] \in HasEntry("id_index") => request[v].id # request[w].id
      BY <2>2, <1>4 DEF SameEntry
    <3> QED BY <2>1, <3>1, <3>2, <1>2 DEF EntryInv
  <2>3. CASE pc[w] = "seq_index"
    <3>1. /\ pc[w] \in HasEntry("id_index") /\ AfterIndex(pc[w]) \in HasEntry("id_index")
          /\ AfterIndex(pc[w]) \notin HasEntry("key_index")
      BY <2>3 DEF AfterIndex, HasEntry
    <3> QED BY <2>1, <3>1, <1>2 DEF EntryInv
  <2>4. CASE pc[w] = "key_index"
    <3>1. /\ pc[w] \in HasEntry("id_index") /\ AfterIndex(pc[w]) \in HasEntry("id_index")
          /\ AfterIndex(pc[w]) \in HasEntry("key_index")
      BY <2>4 DEF AfterIndex, HasEntry
    <3>2. /\ \A s \in log : s.event.key # request[w].key
          /\ \A v \in Writer \ {w} : pc[v] \in HasEntry("key_index") => request[v].key # request[w].key
      BY <2>4, <1>4 DEF SameEntry
    <3> QED BY <2>1, <3>1, <3>2, <1>2 DEF EntryInv
  <2> QED BY <1>1, <2>2, <2>3, <2>4 DEF IndexStage
<1>9. ChecksStayValid'
  BY <1>1, <1>2, LogUnchanged DEF ChecksStayValid
<1> QED BY <1>1, <1>5, <1>6, <1>7, <1>8, <1>9, LogUnchanged

-----------------------------------------------------------------------------
(***************************************************************************)
(* The step that adds to the log.                                          *)
(***************************************************************************)
\* A new row is seen by the readers of its own trace only.
LEMMA LogGrows ==
    ASSUME NEW s, log' = log \cup {s}
    PROVE  /\ \A t : EventsOf(t)' = EventsOf(t) \cup {r \in {s} : r.event.trace = t}
           /\ \A t : t # s.event.trace => TraceSeqs(t)' = TraceSeqs(t)
           /\ TraceSeqs(s.event.trace)' = TraceSeqs(s.event.trace) \cup {s.event.trace_seq}
           /\ \A k : StoredUnder(k) \subseteq StoredUnder(k)'
           /\ \A e : e.trace # s.event.trace => (Follows(e)' <=> Follows(e))
<1>1. \A t : EventsOf(t)' = EventsOf(t) \cup {r \in {s} : r.event.trace = t}
  BY DEF EventsOf
<1>2. \A t : t # s.event.trace => EventsOf(t)' = EventsOf(t)
  BY <1>1
<1>3. \A t : t # s.event.trace => TraceSeqs(t)' = TraceSeqs(t)
  BY <1>2 DEF TraceSeqs
<1>4. TraceSeqs(s.event.trace)' = TraceSeqs(s.event.trace) \cup {s.event.trace_seq}
  <2>1. EventsOf(s.event.trace)' = EventsOf(s.event.trace) \cup {s}
    BY DEF EventsOf
  <2> QED BY <2>1 DEF TraceSeqs
<1>5. \A t : t # s.event.trace => NextTraceSeq(t)' = NextTraceSeq(t)
  BY <1>3 DEF NextTraceSeq
<1>6. \A t : t # s.event.trace => (TraceIsFinished(t)' <=> TraceIsFinished(t))
  BY <1>2 DEF TraceIsFinished
<1>7. \A e : e.trace # s.event.trace => (Follows(e)' <=> Follows(e))
  BY <1>5, <1>6 DEF Follows, ValidSequence, StartsAtZero
<1>8. \A k : StoredUnder(k) \subseteq StoredUnder(k)'
  BY DEF StoredUnder
<1> QED BY <1>1, <1>3, <1>4, <1>7, <1>8

\* What the committing transaction knows of its row, and of the other transactions.
LEMMA CommittedRow ==
    ASSUME IInv, NEW w \in Writer, pc[w] = "commit"
    PROVE  /\ request[w] \in Envelope /\ request[w].trace \in Trace
           /\ rowSeq[w] \in Nat \ {0} /\ rowSeq[w] < nextLogSeq
           /\ Stored(rowSeq[w], request[w]) \in StoredEvent
           /\ Follows(request[w])
           /\ \A s \in log : /\ s.log_seq # rowSeq[w]
                              /\ s.event.id # request[w].id
                              /\ s.event.key # request[w].key
           /\ \A s \in EventsOf(request[w].trace) : s.log_seq < rowSeq[w]
           /\ \A v \in Writer \ {w} : pc[v] \in Locked => request[v].trace # request[w].trace
<1> USE DEF IInv
<1>1. pc[w] \in Locked /\ pc[w] \in HasRow /\ pc[w] # "idle"
      /\ pc[w] \in HasEntry("id_index") /\ pc[w] \in HasEntry("key_index")
  BY DEF Locked, HasRow, HasEntry
<1>2. request[w] \in Envelope /\ request[w].trace \in Trace
  BY <1>1, EnvelopeAssumption DEF CallInv
<1>3. /\ rowSeq[w] \in Nat \ {0} /\ rowSeq[w] < nextLogSeq
      /\ \A s \in log : s.log_seq # rowSeq[w]
      /\ \A s \in EventsOf(request[w].trace) : s.log_seq < rowSeq[w]
  BY <1>1 DEF LogSeqInv
<1>4. Stored(rowSeq[w], request[w]) \in StoredEvent
  BY <1>2, <1>3 DEF Stored, StoredEvent
<1>5. Follows(request[w])
  BY DEF ChecksStayValid
<1>6. \A s \in log : s.event.id # request[w].id /\ s.event.key # request[w].key
  BY <1>1 DEF EntryInv
<1>7. \A v \in Writer \ {w} : pc[v] \in Locked => request[v].trace # request[w].trace
  BY <1>1 DEF CallInv
<1> QED BY <1>2, <1>3, <1>4, <1>5, <1>6, <1>7

\* The traces stay dense and well formed, and names stay unique.
LEMMA CommitKeepsTraces ==
    ASSUME IInv, NEW w \in Writer, pc[w] = "commit",
           log' = log \cup {Stored(rowSeq[w], request[w])}, UNCHANGED request
    PROVE  DenseTraces' /\ TraceInv' /\ UniqueNames'
<1> DEFINE row == Stored(rowSeq[w], request[w])
           t == request[w].trace
           n == NextTraceSeq(t)
<1>1. row.log_seq = rowSeq[w] /\ row.event = request[w]
  BY DEF Stored
<1>2. /\ n \in Nat /\ TraceSeqs(t) = 0 .. (n - 1)
      /\ request[w].trace_seq = n /\ ~TraceIsFinished(t)
      /\ (request[w].type = "TraceStarted") <=> (request[w].trace_seq = 0)
  BY CommittedRow, DenseBelowNext DEF IInv, Follows, ValidSequence, StartsAtZero
<1>3. DenseTraces'
  <2> SUFFICES ASSUME NEW u \in Trace
               PROVE  \E m \in Nat : TraceSeqs(u)' = 0 .. (m - 1)
    BY DEF DenseTraces
  <2>1. CASE u = t
    <3>1. TraceSeqs(t)' = TraceSeqs(t) \cup {n}
      BY <1>1, <1>2, LogGrows
    <3>2. TraceSeqs(t)' = 0 .. ((n + 1) - 1) /\ n + 1 \in Nat
      BY <3>1, <1>2
    <3> QED BY <2>1, <3>2
  <2>2. CASE u # t
    BY <2>2, <1>1, LogGrows DEF IInv, DenseTraces
  <2> QED BY <2>1, <2>2
<1>4. \A s \in EventsOf(t) : /\ s.event.trace_seq \in 0 .. (n - 1)
                             /\ s.event.type # "TraceFinished"
                             /\ s.log_seq < rowSeq[w]
  BY <1>2, CommittedRow DEF TraceSeqs, TraceIsFinished
<1>5. TraceInv'
  <2> SUFFICES ASSUME NEW r \in log \cup {row}, NEW s \in log \cup {row},
                      r.event.trace = s.event.trace
               PROVE  /\ (s.event.type = "TraceStarted") <=> (s.event.trace_seq = 0)
                      /\ r.event.trace_seq = s.event.trace_seq => r = s
                      /\ s.event.type = "TraceFinished" => r.event.trace_seq <= s.event.trace_seq
                      /\ r.event.trace_seq < s.event.trace_seq => r.log_seq < s.log_seq
    BY DEF TraceInv
  <2>1. CASE r \in log /\ s \in log
    BY <2>1 DEF IInv, TraceInv
  <2>2. CASE r = row /\ s \in log
    <3>1. s \in EventsOf(t)
      BY <2>2, <1>1 DEF EventsOf
    <3> QED BY <2>2, <3>1, <1>1, <1>2, <1>4 DEF IInv, TraceInv
  <2>3. CASE r \in log /\ s = row
    <3>1. r \in EventsOf(t)
      BY <2>3, <1>1 DEF EventsOf
    <3> QED BY <2>3, <3>1, <1>1, <1>2, <1>4
  <2>4. CASE r = row /\ s = row
    BY <2>4, <1>1, <1>2
  <2> QED BY <2>1, <2>2, <2>3, <2>4
<1>6. UniqueNames'
  BY <1>1, CommittedRow DEF IInv, UniqueNames
<1> QED BY <1>3, <1>5, <1>6

LEMMA CommitPreserves ==
    ASSUME IInv, NEW w \in Writer, Commit(w)
    PROVE  IInv'
<1> DEFINE row == Stored(rowSeq[w], request[w])
           t == request[w].trace
<1> USE DEF IInv
<1>1. /\ pc[w] = "commit" /\ log' = log \cup {row}
      /\ UNCHANGED <<nextLogSeq, request>> /\ EndTransaction(w, "idle")
      /\ \/ answer' = [answer EXCEPT ![w] = ReplyWith("inserted", row)]
         \/ answer' = [answer EXCEPT ![w] = Reply("storage")]
  BY DEF Commit, Finish, EndTransaction
<1>2. row \in StoredEvent /\ row.event = request[w] /\ row.log_seq = rowSeq[w]
  BY <1>1, CommittedRow DEF Stored
<1>3. \A v \in Writer : /\ pc'[v] = IF v = w THEN "idle" ELSE pc[v]
                        /\ v # w => rowSeq'[v] = rowSeq[v] /\ answer'[v] = answer[v]
                        /\ \A u \in Trace : v # w /\ lockHolder[u] = v => lockHolder'[u] = v
  BY <1>1 DEF EndTransaction, TypeOK
<1>4. TypeOK'
  <2>1. Reply("storage") \in Answer /\ ReplyWith("inserted", row) \in Answer
    BY <1>2, RepliesAreAnswers DEF AnswerKind
  <2>2. log' \subseteq StoredEvent /\ answer' \in [Writer -> Answer]
    BY <1>1, <1>2, <2>1 DEF TypeOK
  <2>3. /\ lockHolder' \in [Trace -> Writer \cup {NoWriter}]
        /\ pc' \in [Writer -> Stage] /\ rowSeq' \in [Writer -> Nat]
        /\ nextLogSeq' \in Nat \ {0} /\ request' \in [Writer -> Envelope \cup {NoEvent}]
    BY <1>1 DEF EndTransaction, TypeOK, Stage
  <2> QED BY <2>2, <2>3 DEF TypeOK, StoredEvent, Answer
<1>5. DenseTraces' /\ TraceInv' /\ UniqueNames'
  BY <1>1, CommitKeepsTraces
<1>6. CallInv'
  <2> SUFFICES ASSUME NEW v \in Writer
               PROVE  /\ pc'[v] # "idle" => request[v] \in Envelope /\ answer'[v] = Reply("none")
                      /\ pc'[v] \in Locked => lockHolder'[request[v].trace] = v
                      /\ pc'[v] = "recover" => StoredUnder(request[v].key)' # {}
    BY <1>1 DEF CallInv, Reply
  <2>1. pc[v] \in Locked => request[v].trace \in Trace
    BY EnvelopeAssumption DEF CallInv, Locked, IndexStage
  <2>2. StoredUnder(request[v].key) # {} => StoredUnder(request[v].key)' # {}
    BY <1>1 DEF StoredUnder
  <2> QED BY <1>3, <2>1, <2>2, StagesWithoutRow DEF CallInv
<1>7. LogSeqInv'
  <2>1. \A s \in log' : s.log_seq < nextLogSeq
    BY <1>1, <1>2, CommittedRow DEF LogSeqInv
  <2>2. ASSUME NEW v \in Writer, pc'[v] \in HasRow
        PROVE  /\ v # w /\ pc[v] \in HasRow /\ rowSeq'[v] = rowSeq[v]
               /\ \A s \in log' : s.log_seq # rowSeq[v]
               /\ EventsOf(request[v].trace)' = EventsOf(request[v].trace)
    <3>1. v # w /\ pc[v] \in HasRow /\ rowSeq'[v] = rowSeq[v]
      BY <2>2, <1>3, StagesWithoutRow
    <3>2. \A s \in log' : s.log_seq # rowSeq[v]
      BY <3>1, <1>1, <1>2, StagesWithoutRow DEF LogSeqInv, HasRow
    <3>3. request[v].trace # t
      BY <3>1, <1>1, CommittedRow, StagesWithoutRow
    <3>4. EventsOf(request[v].trace)' = EventsOf(request[v].trace)
      BY <3>3, <1>1, <1>2 DEF EventsOf
    <3> QED BY <3>1, <3>2, <3>4
  <2> QED BY <1>1, <2>1, <2>2 DEF LogSeqInv, HasRow, IndexStage
<1>8. EntryInv'
  <2>1. \A v \in Writer : pc'[v] \in HasEntry("id_index") =>
            v # w /\ pc[v] = pc'[v] /\ request[w].id # request[v].id
    BY <1>1, <1>3, StagesWithoutRow DEF EntryInv, HasEntry
  <2>2. \A v \in Writer : pc'[v] \in HasEntry("key_index") =>
            v # w /\ pc[v] = pc'[v] /\ request[w].key # request[v].key
    BY <1>1, <1>3, StagesWithoutRow DEF EntryInv, HasEntry
  <2>3. \A v \in Writer : pc'[v] \in HasEntry("id_index") =>
              /\ \A s \in log' : s.event.id # request[v].id
              /\ \A u \in Writer \ {v} :
                    pc'[u] \in HasEntry("id_index") => request[u].id # request[v].id
    BY <2>1, <1>1, <1>2 DEF EntryInv
  <2>4. \A v \in Writer : pc'[v] \in HasEntry("key_index") =>
              /\ \A s \in log' : s.event.key # request[v].key
              /\ \A u \in Writer \ {v} :
                    pc'[u] \in HasEntry("key_index") => request[u].key # request[v].key
    BY <2>2, <1>1, <1>2 DEF EntryInv
  <2> QED BY <1>1, <2>3, <2>4 DEF EntryInv, HasEntry
<1>9. ChecksStayValid'
  <2> SUFFICES ASSUME NEW v \in Writer, pc'[v] \in {"insert", "commit"} \cup IndexStage
               PROVE  Follows(request[v])'
    BY <1>1 DEF ChecksStayValid, IndexStage
  <2>1. v # w /\ pc[v] \in Locked /\ Follows(request[v])
    BY <1>3, StagesWithoutRow DEF ChecksStayValid, Locked
  <2>2. request[v].trace # t
    BY <2>1, <1>1, CommittedRow
  <2> QED BY <2>1, <2>2, <1>1, <1>2, LogGrows
<1> QED BY <1>4, <1>5, <1>6, <1>7, <1>8, <1>9

-----------------------------------------------------------------------------
(***************************************************************************)
(* The remaining steps all end a transaction, and their answer is one.     *)
(***************************************************************************)
LEMMA FinishPreserves ==
    ASSUME IInv, NEW w \in Writer, NEW a \in Answer, Finish(w, a),
           UNCHANGED <<log, nextLogSeq>>
    PROVE  IInv'
<1>1. /\ EndTransaction(w, "idle") /\ answer' \in [Writer -> Answer]
      /\ \A v \in Writer \ {w} : answer'[v] = answer[v]
      /\ nextLogSeq' \in Nat \ {0} /\ nextLogSeq <= nextLogSeq'
  BY DEF Finish, IInv, TypeOK
<1> QED BY <1>1, EndPreserves

\* Reuse, the rejections, unique violations and lost connections.
LEMMA EndingPreserves ==
    ASSUME IInv, NEW w \in Writer,
           Reuse(w) \/ RejectReuse(w) \/ RejectFinished(w) \/ RejectSequence(w)
              \/ UniqueViolation(w) \/ Lose(w)
    PROVE  IInv'
<1>1. \A kind \in AnswerKind : Reply(kind) \in Answer
  BY DEF Reply, Answer
<1>2. CASE Reuse(w)
  <2>1. PICK s \in log : Finish(w, ReplyWith("reused", s))
    BY <1>2 DEF Reuse, StoredUnder
  <2>2. ReplyWith("reused", s) \in Answer
    BY RepliesAreAnswers DEF IInv, TypeOK, AnswerKind
  <2> QED BY <1>2, <2>1, <2>2, FinishPreserves DEF Reuse
<1>3. CASE RejectReuse(w)
  BY <1>1, <1>3, FinishPreserves DEF RejectReuse, AnswerKind
<1>4. CASE RejectFinished(w)
  BY <1>1, <1>4, FinishPreserves DEF RejectFinished, AnswerKind
<1>5. CASE RejectSequence(w)
  BY <1>1, <1>5, FinishPreserves DEF RejectSequence, AnswerKind
<1>6. CASE Lose(w)
  BY <1>1, <1>6, FinishPreserves DEF Lose, AnswerKind
<1>7. CASE UniqueViolation(w) /\ pc[w] # "key_index"
  BY <1>1, <1>7, FinishPreserves DEF UniqueViolation, IndexStage, AnswerKind
<1>8. CASE UniqueViolation(w) /\ pc[w] = "key_index"
  <2>1. EndTransaction(w, "recover") /\ UNCHANGED <<log, nextLogSeq, answer>>
    BY <1>8 DEF UniqueViolation
  <2>2. StoredUnder(request[w].key) # {}
    BY <1>8 DEF UniqueViolation, CommittedDuplicate, SameEntry, StoredUnder
  <2>3. /\ answer' \in [Writer -> Answer] /\ \A v \in Writer \ {w} : answer'[v] = answer[v]
        /\ nextLogSeq' \in Nat \ {0} /\ nextLogSeq <= nextLogSeq'
    BY <2>1 DEF IInv, TypeOK
  <2> QED BY <1>8, <2>1, <2>2, <2>3, EndPreserves
<1> QED BY <1>2, <1>3, <1>4, <1>5, <1>6, <1>7, <1>8

LEMMA StepPreserves == IInv /\ [Next]_vars => IInv'
<1> SUFFICES ASSUME IInv, [Next]_vars PROVE IInv'
  OBVIOUS
<1>1. CASE Next
  <2>1. PICK w \in Writer : \/ \E e \in Envelope : Begin(w, e)
                            \/ AcquireTraceLock(w) \/ Progress(w)
                            \/ EnterIndex(w) \/ Lose(w)
    BY <1>1 DEF Next
  <2> QED BY <2>1, BeginPreserves, AcquirePreserves, CheckPreserves, InsertPreserves,
             EnterIndexPreserves, CommitPreserves, EndingPreserves DEF Progress
<1>2. CASE UNCHANGED vars
  BY <1>2, LogUnchanged DEF vars, IInv, TypeOK, CallInv, LogSeqInv, EntryInv, ChecksStayValid,
     HasRow, IndexStage, HasEntry, Reply, StoredEvent, Answer
<1> QED BY <1>1, <1>2

(***************************************************************************)
(* IInv is an invariant: what a transaction of append_event has checked    *)
(* and reserved is true of the log until its lock is released.             *)
(***************************************************************************)
THEOREM Invariance == Spec => []IInv
BY InitIInv, StepPreserves, PTL DEF Spec

(***************************************************************************)
(* The variables keep their types; with it, every stored row is a valid    *)
(* envelope with a positive log_seq.                                       *)
(***************************************************************************)
THEOREM TypeCorrect == Spec => []TypeOK
BY Invariance, PTL DEF IInv

(***************************************************************************)
(* However appends race, retry and fail, the events of a trace are         *)
(* numbered 0, 1, ..., TraceStarted is the first and TraceFinished the     *)
(* last of them.                                                           *)
(***************************************************************************)
THEOREM TracesWellFormed == Spec => []WellFormedTraces
<1>1. IInv => WellFormedTraces
  <2> SUFFICES ASSUME IInv, NEW s \in log
               PROVE  /\ s.event.type = "TraceStarted" <=> s.event.trace_seq = 0
                      /\ \A i \in 0 .. s.event.trace_seq : i \in TraceSeqs(s.event.trace)
                      /\ \A r \in EventsOf(s.event.trace) :
                            /\ r.event.trace_seq = s.event.trace_seq => r = s
                            /\ s.event.type = "TraceFinished" => r.event.trace_seq <= s.event.trace_seq
    BY DEF WellFormedTraces
  <2>1. s.event.trace \in Trace
    BY EnvelopeAssumption DEF IInv, TypeOK, StoredEvent
  <2>2. PICK n \in Nat : TraceSeqs(s.event.trace) = 0 .. (n - 1)
    BY <2>1 DEF IInv, DenseTraces
  <2>3. s.event.trace_seq \in 0 .. (n - 1)
    BY <2>2 DEF TraceSeqs, EventsOf
  <2>4. \A i \in 0 .. s.event.trace_seq : i \in TraceSeqs(s.event.trace)
    BY <2>2, <2>3
  <2> QED BY <2>4 DEF IInv, TraceInv, EventsOf
<1> QED BY <1>1, Invariance, PTL

(***************************************************************************)
(* No two events share an idempotency key, an event id or a log_seq, also  *)
(* when they belong to traces that are appended to under different locks.  *)
(***************************************************************************)
THEOREM NamesUnique == Spec => []UniqueNames
BY Invariance, PTL DEF IInv

(***************************************************************************)
(* A reader in log_seq order sees the events of a trace in trace_seq order.*)
(***************************************************************************)
THEOREM LogOrdersTraces == Spec => []LogSeqFollowsTraceSeq
<1>1. IInv => LogSeqFollowsTraceSeq
  BY DEF IInv, TraceInv, LogSeqFollowsTraceSeq
<1> QED BY <1>1, Invariance, PTL

(***************************************************************************)
(* The trigger never refuses a row that append_event itself accepted.      *)
(***************************************************************************)
THEOREM NoStaleChecks == Spec => []ChecksStayValid
BY Invariance, PTL DEF IInv

-----------------------------------------------------------------------------
(***************************************************************************)
(* EventStore implements DecisionLog.                                      *)
(***************************************************************************)
\* Both modules read the log in the same way.
LEMMA SameReading ==
    /\ \A k : Abstract!StoredUnder(k) = StoredUnder(k)
    /\ \A t : Abstract!TraceIsFinished(t) <=> TraceIsFinished(t)
    /\ \A t : Abstract!NextTraceSeq(t) = NextTraceSeq(t)
    /\ \A e, s : Abstract!MatchesStored(e, s) <=> MatchesStored(e, s)
    /\ \A e : Abstract!ValidSequence(e) <=> ValidSequence(e)
    /\ \A e : Abstract!Follows(e) <=> Follows(e)
    /\ \A kind : Abstract!Reply(kind) = Reply(kind)
    /\ \A kind, s : Abstract!ReplyWith(kind, s) = ReplyWith(kind, s)
    /\ Abstract!StoredEvent = StoredEvent
<1>1. \A t : Abstract!EventsOf(t) = EventsOf(t)
  BY DEF Abstract!EventsOf, EventsOf
<1>2. \A t : Abstract!TraceSeqs(t) = TraceSeqs(t)
  BY <1>1 DEF Abstract!TraceSeqs, TraceSeqs
<1>3. \A S : Abstract!MaxOf(S) = MaxOf(S)
  BY DEF Abstract!MaxOf, MaxOf
<1>4. \A t : Abstract!NextTraceSeq(t) = NextTraceSeq(t)
  BY <1>2, <1>3 DEF Abstract!NextTraceSeq, NextTraceSeq
<1>5. \A t : Abstract!TraceIsFinished(t) <=> TraceIsFinished(t)
  BY <1>1 DEF Abstract!TraceIsFinished, TraceIsFinished
<1>6. \A e : Abstract!ValidSequence(e) <=> ValidSequence(e)
  BY <1>4 DEF Abstract!ValidSequence, ValidSequence, Abstract!StartsAtZero, StartsAtZero
<1>7. \A e : Abstract!Follows(e) <=> Follows(e)
  BY <1>5, <1>6 DEF Abstract!Follows, Follows
<1> QED BY <1>4, <1>5, <1>6, <1>7 DEF Abstract!StoredUnder, StoredUnder,
       Abstract!MatchesStored, MatchesStored, Abstract!Reply, Reply,
       Abstract!ReplyWith, ReplyWith, Abstract!StoredEvent, StoredEvent

\* A call that ends with a justified answer and an unchanged log responds.
LEMMA FinishResponds ==
    ASSUME IInv, NEW w \in Writer, pc[w] # "idle", NEW a, Finish(w, a), UNCHANGED log,
           Abstract!Justified(request[w], a)
    PROVE  Abstract!Respond(w)
<1>1. answer[w] = Reply("none")
  BY DEF IInv, CallInv
<1>2. answer' = [answer EXCEPT ![w] = a] /\ answer'[w] = a /\ request' = request
  BY DEF Finish, EndTransaction, IInv, TypeOK
<1> QED BY <1>1, <1>2, SameReading DEF Abstract!Respond

\* Every answer that leaves the log alone is justified by it.
LEMMA EndingResponds ==
    ASSUME IInv, NEW w \in Writer,
           Reuse(w) \/ RejectReuse(w) \/ RejectFinished(w) \/ RejectSequence(w)
              \/ (UniqueViolation(w) /\ pc[w] # "key_index") \/ Lose(w)
    PROVE  Abstract!Respond(w)
<1> DEFINE e == request[w]
<1>1. \A kind : Abstract!JustifiedError(e, kind) => Abstract!Justified(e, Reply(kind))
  BY SameReading DEF Abstract!Justified, Reply
<1> USE DEF Abstract!JustifiedError
<1>2. CASE Reuse(w)
  <2>1. PICK s \in StoredUnder(e.key) : MatchesStored(e, s) /\ Finish(w, ReplyWith("reused", s))
    BY <1>2 DEF Reuse
  <2>2. Abstract!Justified(e, ReplyWith("reused", s))
    BY <2>1, SameReading DEF Abstract!Justified, Abstract!JustifiedReuse
  <2> QED BY <1>2, <2>1, <2>2, FinishResponds DEF Reuse
<1>3. CASE RejectReuse(w)
  <2>1. \E s \in StoredUnder(e.key) : ~MatchesStored(e, s)
    BY <1>3 DEF RejectReuse, IInv, CallInv
  <2>2. Abstract!JustifiedError(e, "idempotency_conflict")
    BY <2>1, SameReading
  <2> QED BY <1>1, <1>3, <2>2, FinishResponds DEF RejectReuse
<1>4. CASE RejectFinished(w)
  <2>1. Abstract!JustifiedError(e, "conflict")
    BY <1>4, SameReading DEF RejectFinished
  <2> QED BY <1>1, <1>4, <2>1, FinishResponds DEF RejectFinished
<1>5. CASE RejectSequence(w)
  <2>1. Abstract!JustifiedError(e, "event_sequence_invalid")
    BY <1>5, SameReading DEF RejectSequence, ValidSequence
  <2> QED BY <1>1, <1>5, <2>1, FinishResponds DEF RejectSequence
<1>6. CASE UniqueViolation(w) /\ pc[w] = "id_index"
  <2>1. Abstract!JustifiedError(e, "conflict")
    BY <1>6, SameReading DEF UniqueViolation, CommittedDuplicate, SameEntry
  <2> QED BY <1>1, <1>6, <2>1, FinishResponds DEF UniqueViolation
<1>7. CASE UniqueViolation(w) /\ pc[w] = "seq_index"
  <2>1. PICK s \in log : s.event.trace = e.trace /\ s.event.trace_seq = e.trace_seq
    BY <1>7 DEF UniqueViolation, CommittedDuplicate, SameEntry
  <2>2. Follows(e) /\ e.trace \in Trace
    BY <1>7, EnvelopeAssumption DEF IInv, ChecksStayValid, CallInv, IndexStage
  <2>3. e.trace_seq \in 0 .. (NextTraceSeq(e.trace) - 1)
    BY <2>1, <2>2, DenseBelowNext DEF IInv, TraceSeqs, EventsOf
  <2>4. FALSE
    BY <2>2, <2>3, DenseBelowNext DEF IInv, Follows, ValidSequence
  <2> QED BY <2>4
<1>8. CASE Lose(w)
  BY <1>1, <1>8, FinishResponds DEF Lose
<1> QED BY <1>2, <1>3, <1>4, <1>5, <1>6, <1>7, <1>8 DEF UniqueViolation, IndexStage

LEMMA CommitAccepts ==
    ASSUME IInv, NEW w \in Writer, Commit(w)
    PROVE  Abstract!Accept(w)
<1> DEFINE row == Stored(rowSeq[w], request[w])
<1>1. /\ pc[w] = "commit" /\ log' = log \cup {row} /\ UNCHANGED request
      /\ \/ answer' = [answer EXCEPT ![w] = ReplyWith("inserted", row)]
         \/ answer' = [answer EXCEPT ![w] = Reply("storage")]
  BY DEF Commit, Finish, EndTransaction
<1>2. answer[w] = Reply("none")
  BY <1>1 DEF IInv, CallInv
<1>3. Abstract!Acceptable(request[w])
  BY <1>1, CommittedRow, SameReading DEF Abstract!Acceptable, Abstract!Unused
<1>4. row \in StoredEvent /\ row.event = request[w] /\ \A r \in log : r.log_seq # row.log_seq
  BY <1>1, CommittedRow DEF Stored
<1>5. /\ answer'[w] \in {ReplyWith("inserted", row), Reply("storage")}
      /\ answer' = [answer EXCEPT ![w] = answer'[w]]
  BY <1>1 DEF IInv, TypeOK
<1> QED BY <1>1, <1>2, <1>3, <1>4, <1>5, SameReading DEF Abstract!Accept, Abstract!Insert

LEMMA StepImplements == IInv /\ [Next]_vars => [Abstract!Next]_(Abstract!dlVars)
<1> SUFFICES ASSUME IInv, Next PROVE Abstract!Next \/ UNCHANGED Abstract!dlVars
  BY DEF vars, Abstract!dlVars
<1>1. PICK w \in Writer : \/ \E e \in Envelope : Begin(w, e)
                          \/ AcquireTraceLock(w) \/ Progress(w)
                          \/ EnterIndex(w) \/ Lose(w)
  BY DEF Next
<1>2. ASSUME NEW e \in Envelope, Begin(w, e) PROVE Abstract!Submit(w, e)
  BY <1>2, SameReading DEF Begin, Abstract!Submit
<1>3. CASE AcquireTraceLock(w) \/ KeyIsUnused(w) \/ Validate(w) \/ EnterIndex(w)
  BY <1>3 DEF AcquireTraceLock, KeyIsUnused, Validate, EnterIndex, Advance, Abstract!dlVars
<1>4. CASE Insert(w)
  <2>1. Follows(request[w])
    BY <1>4 DEF Insert, IInv, ChecksStayValid
  <2> QED BY <1>4, <2>1 DEF Insert, Advance, Abstract!dlVars
<1>5. CASE UniqueViolation(w) /\ pc[w] = "key_index"
  BY <1>5 DEF UniqueViolation, EndTransaction, Abstract!dlVars
<1>6. CASE Commit(w)
  BY <1>6, CommitAccepts DEF Abstract!Next
<1>7. CASE Reuse(w) \/ RejectReuse(w) \/ RejectFinished(w) \/ RejectSequence(w)
              \/ (UniqueViolation(w) /\ pc[w] # "key_index") \/ Lose(w)
  BY <1>7, EndingResponds DEF Abstract!Next
<1> QED BY <1>1, <1>2, <1>3, <1>4, <1>5, <1>6, <1>7 DEF Progress, Abstract!Next

(***************************************************************************)
(* For every set of callers and envelopes, the locking, indexing and       *)
(* retrying store behaves as a log in which appends are atomic, and each   *)
(* answer is justified by the log at the moment it is given.               *)
(***************************************************************************)
THEOREM Refinement == Spec => ImplementsDecisionLog
<1>1. Init => Abstract!Init
  BY SameReading DEF Init, Abstract!Init
<1> QED BY <1>1, StepImplements, Invariance, PTL DEF Spec, ImplementsDecisionLog, Abstract!Spec

-----------------------------------------------------------------------------
(***************************************************************************)
(* EventStore implements AppendFeed.                                       *)
(***************************************************************************)
LEMMA SameFeed ==
    /\ \A e : Feed!Follows(e) <=> Follows(e)
    /\ \A n, e : Feed!Stored(n, e) = Stored(n, e)
<1>1. \A t : Feed!EventsOf(t) = EventsOf(t)
  BY DEF Feed!EventsOf, EventsOf
<1>2. \A t : Feed!TraceSeqs(t) = TraceSeqs(t)
  BY <1>1 DEF Feed!TraceSeqs, TraceSeqs
<1>3. \A S : Feed!MaxOf(S) = MaxOf(S)
  BY DEF Feed!MaxOf, MaxOf
<1>4. \A t : Feed!NextTraceSeq(t) = NextTraceSeq(t)
  BY <1>2, <1>3 DEF Feed!NextTraceSeq, NextTraceSeq
<1>5. \A t : Feed!TraceIsFinished(t) <=> TraceIsFinished(t)
  BY <1>1 DEF Feed!TraceIsFinished, TraceIsFinished
<1> QED BY <1>4, <1>5 DEF Feed!Follows, Follows, Feed!ValidSequence, ValidSequence,
           Feed!StartsAtZero, StartsAtZero, Feed!Stored, Stored

\* The transactions with a row, and the rows.
LEMMA UncommittedRows ==
    /\ Uncommitted = {Stored(rowSeq[w], request[w]) : w \in {v \in Writer : pc[v] \in HasRow}}
    /\ Uncommitted' = {Stored(rowSeq'[w], request'[w]) : w \in {v \in Writer : pc'[v] \in HasRow}}
BY DEF Uncommitted, HasRow, IndexStage, Stored

\* Steps in which no caller gains or loses a row.
LEMMA SameRows ==
    ASSUME \A w \in Writer : /\ pc'[w] \in HasRow <=> pc[w] \in HasRow
                             /\ pc[w] \in HasRow => rowSeq'[w] = rowSeq[w] /\ request'[w] = request[w]
    PROVE  Uncommitted' = Uncommitted
BY UncommittedRows

\* A transaction that ends takes its row with it, if it has one.
LEMMA EndingRows ==
    ASSUME IInv, NEW w \in Writer, NEW next \in {"idle", "recover"}, EndTransaction(w, next)
    PROVE  /\ pc[w] \in HasRow => Uncommitted' = Uncommitted \ {Stored(rowSeq[w], request[w])}
           /\ pc[w] \notin HasRow => Uncommitted' = Uncommitted
<1>1. \A v \in Writer : /\ pc'[v] = IF v = w THEN next ELSE pc[v]
                        /\ v # w => rowSeq'[v] = rowSeq[v] /\ request'[v] = request[v]
  BY DEF EndTransaction, IInv, TypeOK
<1>2. next \notin HasRow
  BY StagesWithoutRow
<1>3. ASSUME pc[w] \in HasRow
      PROVE  Uncommitted' = Uncommitted \ {Stored(rowSeq[w], request[w])}
  <2>1. \A v \in Writer \ {w} : pc[v] \in HasRow =>
            Stored(rowSeq[v], request[v]) # Stored(rowSeq[w], request[w])
    BY <1>3 DEF IInv, LogSeqInv, Stored
  <2> QED BY <1>1, <1>2, <2>1, UncommittedRows
<1>4. ASSUME pc[w] \notin HasRow PROVE Uncommitted' = Uncommitted
  BY <1>1, <1>2, <1>4, SameRows
<1> QED BY <1>3, <1>4

LEMMA StepFeeds == IInv /\ [Next]_vars => [Feed!NextFeed]_(Feed!feedVars)
<1> SUFFICES ASSUME IInv, [Next]_vars
             PROVE  Feed!NextFeed \/ UNCHANGED <<log, nextLogSeq, Uncommitted>>
  BY DEF Feed!feedVars
<1>1. CASE UNCHANGED vars
  BY <1>1, SameRows DEF vars
<1>2. CASE \E w \in Writer : (\E e \in Envelope : Begin(w, e)) \/ AcquireTraceLock(w)
                               \/ KeyIsUnused(w) \/ Validate(w) \/ EnterIndex(w)
  <2>1. PICK w \in Writer : (\E e \in Envelope : Begin(w, e)) \/ AcquireTraceLock(w)
                               \/ KeyIsUnused(w) \/ Validate(w) \/ EnterIndex(w)
    BY <1>2
  <2>2. UNCHANGED <<log, nextLogSeq, rowSeq>> /\ \A v \in Writer \ {w} : request'[v] = request[v]
    BY <2>1 DEF Begin, AcquireTraceLock, KeyIsUnused, Validate, EnterIndex, Advance, IInv, TypeOK
  <2>3. \A v \in Writer \ {w} : pc'[v] = pc[v]
    BY <2>1 DEF Begin, AcquireTraceLock, KeyIsUnused, Validate, EnterIndex, Advance, IInv, TypeOK
  <2>4. pc'[w] \in HasRow <=> pc[w] \in HasRow
    BY <2>1 DEF Begin, AcquireTraceLock, KeyIsUnused, Validate, EnterIndex, Advance,
                IInv, TypeOK, HasRow, IndexStage, AfterIndex
  <2>5. pc[w] \in HasRow => request'[w] = request[w]
    BY <2>1 DEF Begin, AcquireTraceLock, KeyIsUnused, Validate, EnterIndex, Advance, HasRow, IndexStage
  <2> QED BY <2>2, <2>3, <2>4, <2>5, SameRows
<1>3. ASSUME NEW w \in Writer, Insert(w) PROVE Feed!NextFeed
  <2>1. /\ pc[w] = "insert" /\ Follows(request[w]) /\ request[w] \in Envelope
        /\ pc' = [pc EXCEPT ![w] = "id_index"] /\ rowSeq' = [rowSeq EXCEPT ![w] = nextLogSeq]
        /\ nextLogSeq' = nextLogSeq + 1 /\ UNCHANGED <<log, request>>
    BY <1>3 DEF Insert, Advance, IInv, ChecksStayValid, CallInv
  <2>2. \A v \in Writer \ {w} : pc[v] \in HasRow => request[v].trace # request[w].trace
    <3>1. pc[w] \in Locked
      BY <2>1, StagesWithoutRow
    <3> QED BY <3>1, StagesWithoutRow DEF IInv, CallInv
  <2>3. \A s \in Uncommitted : s.event.trace # request[w].trace
    BY <2>1, <2>2, StagesWithoutRow, UncommittedRows DEF Stored
  <2>4. Uncommitted' = Uncommitted \cup {Stored(nextLogSeq, request[w])}
    <3>1. \A v \in Writer : /\ pc'[v] = IF v = w THEN "id_index" ELSE pc[v]
                            /\ rowSeq'[v] = IF v = w THEN nextLogSeq ELSE rowSeq[v]
      BY <2>1 DEF IInv, TypeOK
    <3>2. "id_index" \in HasRow /\ pc[w] \notin HasRow
      BY <2>1 DEF HasRow, IndexStage
    <3> QED BY <2>1, <3>1, <3>2, UncommittedRows
  <2>5. Feed!InsertRow(request[w])
    BY <2>1, <2>3, <2>4, SameFeed DEF Feed!InsertRow
  <2> QED BY <2>1, <2>5 DEF Feed!NextFeed
<1>4. ASSUME NEW w \in Writer, Commit(w) PROVE Feed!NextFeed
  <2> DEFINE row == Stored(rowSeq[w], request[w])
  <2>1. /\ pc[w] = "commit" /\ pc[w] \in HasRow /\ log' = log \cup {row}
        /\ UNCHANGED nextLogSeq /\ EndTransaction(w, "idle")
    BY <1>4 DEF Commit, Finish, HasRow
  <2>2. row \in Uncommitted /\ Uncommitted' = Uncommitted \ {row}
    BY <2>1, EndingRows, UncommittedRows
  <2>3. \A r \in log : r.event.key # row.event.key /\ r.event.id # row.event.id
    BY <2>1, CommittedRow DEF Stored
  <2>4. Feed!CommitRow(row)
    BY <2>1, <2>2, <2>3 DEF Feed!CommitRow
  <2> QED BY <2>2, <2>4 DEF Feed!NextFeed
<1>5. ASSUME NEW w \in Writer,
             Reuse(w) \/ RejectReuse(w) \/ RejectFinished(w) \/ RejectSequence(w)
                \/ UniqueViolation(w) \/ Lose(w)
      PROVE  Feed!NextFeed \/ UNCHANGED <<log, nextLogSeq, Uncommitted>>
  <2> DEFINE row == Stored(rowSeq[w], request[w])
  <2>1. /\ UNCHANGED <<log, nextLogSeq>>
        /\ EndTransaction(w, "idle") \/ EndTransaction(w, "recover")
    BY <1>5 DEF Reuse, RejectReuse, RejectFinished, RejectSequence, UniqueViolation, Lose,
                Finish, IndexStage
  <2>2. CASE pc[w] \in HasRow
    <3>1. row \in Uncommitted /\ Uncommitted' = Uncommitted \ {row}
      BY <2>1, <2>2, EndingRows, UncommittedRows
    <3>2. Feed!RollbackRow(row)
      BY <2>1, <3>1 DEF Feed!RollbackRow
    <3> QED BY <3>1, <3>2 DEF Feed!NextFeed
  <2>3. CASE pc[w] \notin HasRow
    BY <2>1, <2>3, EndingRows
  <2> QED BY <2>2, <2>3
<1> QED BY <1>1, <1>2, <1>3, <1>4, <1>5 DEF Next, Progress

(***************************************************************************)
(* Readers see what AppendFeed promises: rows with fresh log_seq, one      *)
(* uncommitted row per trace, each commit the next event of its trace.     *)
(***************************************************************************)
THEOREM FeedRefinement == Spec => ImplementsAppendFeed
<1>1. Init => Feed!InitFeed
  BY UncommittedRows, StagesWithoutRow DEF Init, Feed!InitFeed, HasRow, IndexStage
<1> QED BY <1>1, StepFeeds, Invariance, PTL DEF Spec, ImplementsAppendFeed, Feed!SpecFeed, Feed!feedVars
=============================================================================
