-------------------------- MODULE ProjectionProofs --------------------------
(***************************************************************************)
(* Safety of Projection for every set of runners, traces and envelopes,    *)
(* every batch size and until_log_seq, and any number of overlapping runs, *)
(* rebuilds, crashes and uncommitted rows.                                 *)
(*                                                                         *)
(* The tables do not always follow the log: a batch is read outside the    *)
(* transaction that projects it.  The theorems say which steps can part    *)
(* them (StaleBatchesDiverge, GapsSkip), and which can take the cursor     *)
(* back (StaleBatchesRewind).                                              *)
(*                                                                         *)
(* The proofs have two halves.  Projecting an event later than those of S  *)
(* takes RowsOf(S) to RowsOf(S \cup {s}) (ProjectNext), and projecting one *)
(* of S again changes nothing where rows are written idempotently          *)
(* (ProjectAgain); S has what precedes the event in its trace.  And the    *)
(* holder of the lock has added its part of the batch to the rows of any   *)
(* such S (Adds), since nobody changes the tables under its lock.          *)
(***************************************************************************)
EXTENDS Projection, FiniteSetTheorems, TLAPS

-----------------------------------------------------------------------------
(***************************************************************************)
(* Sets of naturals.                                                       *)
(***************************************************************************)
\* A set of naturals that is closed downwards is an interval.
LEMMA Downset ==
    ASSUME NEW N \in Nat, NEW D \in SUBSET (0 .. N), \A x \in D : 0 .. x \subseteq D
    PROVE  Cardinality(D) \in Nat /\ D = 0 .. (Cardinality(D) - 1)
<1> DEFINE c == Cardinality(D)
<1>1. IsFiniteSet(D) /\ c \in Nat
  <2>1. IsFiniteSet(0 .. N)
    BY FS_Interval
  <2>2. IsFiniteSet(D)
    BY <2>1, FS_Subset
  <2> QED BY <2>2, FS_CardinalityType
<1>2. ASSUME NEW x \in D PROVE x + 1 <= c
  <2>1. Cardinality(0 .. x) = x + 1
    BY FS_Interval
  <2>2. Cardinality(0 .. x) <= Cardinality(D)
    BY <1>1, FS_Subset
  <2> QED BY <2>1, <2>2
<1>3. D \subseteq 0 .. (c - 1)
  BY <1>1, <1>2
<1>4. IsFiniteSet(0 .. (c - 1)) /\ Cardinality(0 .. (c - 1)) = c
  BY <1>1, FS_Interval
<1> QED BY <1>1, <1>3, <1>4, FS_Subset

LEMMA MaxExists ==
    ASSUME NEW S \in SUBSET Nat, S # {}, NEW N \in Nat, \A x \in S : x <= N
    PROVE  MaxOf(S) \in S /\ \A x \in S : x <= MaxOf(S)
<1> DEFINE D == {i \in 0 .. N : \E x \in S : i <= x}
<1>1. D \in SUBSET (0 .. N) /\ \A x \in D : 0 .. x \subseteq D
  OBVIOUS
<1> DEFINE c == Cardinality(D)
<1>2. c \in Nat /\ D = 0 .. (c - 1)
  <2> HIDE DEF D
  <2> QED BY <1>1, Downset
<1>3. S \subseteq D /\ \A i \in D : \E x \in S : i <= x
  OBVIOUS
<1> HIDE DEF c, D
<1>4. c # 0
  <2>1. PICK x \in S : x \in 0 .. (c - 1)
    BY <1>2, <1>3
  <2> QED BY <1>2, <2>1
<1>5. c - 1 \in D /\ \A x \in S : x <= c - 1
  BY <1>2, <1>3, <1>4
<1>6. c - 1 \in S
  BY <1>2, <1>3, <1>5
<1>7. \A m \in S : (\A x \in S : x <= m) => m = c - 1
  BY <1>2, <1>5, <1>6
<1> QED BY <1>5, <1>6, <1>7 DEF MaxOf

LEMMA MinExists ==
    ASSUME NEW S \in SUBSET Nat, S # {}
    PROVE  \E m \in S : \A x \in S : m <= x
<1>1. PICK N \in S : TRUE
  OBVIOUS
<1> DEFINE D == {i \in 0 .. N : \A x \in S : i <= x}
           c == Cardinality(D)
<1>2. D \in SUBSET (0 .. N) /\ 0 \in D
  OBVIOUS
<1>3. \A x \in D : 0 .. x \subseteq D
  OBVIOUS
<1>4. c \in Nat /\ D = 0 .. (c - 1)
  <2> HIDE DEF D
  <2> QED BY <1>2, <1>3, Downset
<1>5. \A i \in D : \A x \in S : i <= x
  OBVIOUS
<1>6. \A i \in 0 .. N : (\A x \in S : i <= x) => i \in D
  OBVIOUS
<1> HIDE DEF c, D
<1>7. c # 0 /\ c \notin D /\ c - 1 \in D
  BY <1>2, <1>4
<1>8. CASE \A x \in S : x # c - 1
  <2>1. \A x \in S : c <= x
    BY <1>4, <1>5, <1>7, <1>8
  <2>2. c \in 0 .. N
    BY <1>1, <1>4, <2>1
  <2> QED BY <1>6, <1>7, <2>1, <2>2
<1>9. CASE c - 1 \in S
  BY <1>5, <1>7, <1>9
<1> QED BY <1>8, <1>9

-----------------------------------------------------------------------------
(***************************************************************************)
(* The log, with any number of uncommitted rows.                           *)
(***************************************************************************)
\* The trace_seq of a trace are an initial segment of the naturals.
DenseTraces == \A t \in Trace : \E n \in Nat : TraceSeqs(t) = 0 .. (n - 1)

\* What a committed event says about the committed events of its trace.
TraceInv ==
    \A r, s \in log :
        /\ StartsAtZero(s.event)
        /\ r.event.trace = s.event.trace =>
              /\ r.event.trace_seq <= s.event.trace_seq <=> r.log_seq <= s.log_seq
              /\ s.event.type = "TraceFinished" => r.log_seq <= s.log_seq

\* A log_seq is used once, and an uncommitted row is the next of its trace.
InsertedInv ==
    /\ \A s \in log \cup inserted : s.log_seq < nextLogSeq
    /\ \A r, s \in log \cup inserted : r.log_seq = s.log_seq => r = s
    /\ \A s \in inserted :
          /\ Follows(s.event)
          /\ s \notin log
          /\ \A r \in EventsOf(s.event.trace) : r.log_seq < s.log_seq
          /\ \A r \in inserted : r.event.trace = s.event.trace => r = s

FeedInv ==
    /\ log \cup inserted \subseteq StoredEvent
    /\ nextLogSeq \in Nat \ {0}
    /\ IsFiniteSet(log)
    /\ DenseTraces
    /\ TraceInv
    /\ InsertedInv

\* What is known of a stored event.
LEMMA StoredTypes ==
    ASSUME NEW s \in StoredEvent
    PROVE  /\ s.log_seq \in Nat \ {0} /\ s.event \in Envelope
           /\ s.event.trace \in Trace /\ s.event.trace_seq \in Nat
           /\ s.event.type \in EventType
           /\ s.event.id \in EventId /\ s.event.content \in Content
BY EnvelopeAssumption DEF StoredEvent

LEMMA NextOfDense ==
    ASSUME NEW t, NEW n \in Nat, TraceSeqs(t) = 0 .. (n - 1)
    PROVE  NextTraceSeq(t) = n
<1>1. CASE n = 0
  BY <1>1 DEF NextTraceSeq
<1>2. CASE n # 0
  <2>1. n - 1 \in TraceSeqs(t) /\ \A i \in TraceSeqs(t) : i <= n - 1
    BY <1>2
  <2>2. MaxOf(TraceSeqs(t)) = n - 1
    <3>1. ASSUME NEW m \in TraceSeqs(t), \A i \in TraceSeqs(t) : i <= m
          PROVE  m = n - 1
      <4>1. m \in 0 .. (n - 1) /\ n - 1 <= m
        BY <2>1, <3>1
      <4> QED BY <4>1
    <3> QED BY <2>1, <3>1 DEF MaxOf
  <2> QED BY <1>2, <2>1, <2>2 DEF NextTraceSeq
<1> QED BY <1>1, <1>2

\* What is read from the log is the same when the log is.
LEMMA LogUnchanged ==
    ASSUME UNCHANGED log
    PROVE  /\ \A t : EventsOf(t)' = EventsOf(t)
           /\ \A t : TraceSeqs(t)' = TraceSeqs(t)
           /\ \A e : Follows(e)' <=> Follows(e)
           /\ DenseTraces' <=> DenseTraces
           /\ TraceInv' <=> TraceInv
<1>1. \A t : EventsOf(t)' = EventsOf(t)
  BY DEF EventsOf
<1>2. \A t : TraceSeqs(t)' = TraceSeqs(t)
  BY <1>1 DEF TraceSeqs
<1>3. \A t : NextTraceSeq(t)' = NextTraceSeq(t)
  BY <1>2 DEF NextTraceSeq
<1>4. \A t : TraceIsFinished(t)' <=> TraceIsFinished(t)
  BY <1>1 DEF TraceIsFinished
<1>5. \A e : Follows(e)' <=> Follows(e)
  BY <1>3, <1>4 DEF Follows, ValidSequence, StartsAtZero
<1> QED BY <1>1, <1>2, <1>5 DEF DenseTraces, TraceInv, StartsAtZero

\* What is read from the log when row s has been added.
LEMMA LogGrows ==
    ASSUME NEW s, log' = log \cup {s}
    PROVE  /\ \A t : EventsOf(t)' = EventsOf(t) \cup {r \in {s} : r.event.trace = t}
           /\ \A t : t # s.event.trace => EventsOf(t)' = EventsOf(t) /\ TraceSeqs(t)' = TraceSeqs(t)
           /\ TraceSeqs(s.event.trace)' = TraceSeqs(s.event.trace) \cup {s.event.trace_seq}
           /\ \A e : e.trace # s.event.trace => (Follows(e)' <=> Follows(e))
<1>1. \A t : EventsOf(t)' = EventsOf(t) \cup {r \in {s} : r.event.trace = t}
  BY DEF EventsOf
<1>2. \A t : t # s.event.trace => EventsOf(t)' = EventsOf(t)
  BY <1>1
<1>3. EventsOf(s.event.trace)' = EventsOf(s.event.trace) \cup {s}
  BY <1>1
<1>4. \A t : t # s.event.trace => TraceSeqs(t)' = TraceSeqs(t)
  BY <1>2 DEF TraceSeqs
<1>5. TraceSeqs(s.event.trace)' = TraceSeqs(s.event.trace) \cup {s.event.trace_seq}
  BY <1>3 DEF TraceSeqs
<1>6. \A t : t # s.event.trace => NextTraceSeq(t)' = NextTraceSeq(t)
  BY <1>4 DEF NextTraceSeq
<1>7. \A t : t # s.event.trace => (TraceIsFinished(t)' <=> TraceIsFinished(t))
  BY <1>2 DEF TraceIsFinished
<1>8. \A e : e.trace # s.event.trace => (Follows(e)' <=> Follows(e))
  BY <1>6, <1>7 DEF Follows, ValidSequence, StartsAtZero
<1> QED BY <1>1, <1>2, <1>4, <1>5, <1>8

LEMMA SegmentGrows == \A n \in Nat : 0 .. (n - 1) \cup {n} = 0 .. ((n + 1) - 1)
OBVIOUS

-----------------------------------------------------------------------------
(***************************************************************************)
(* FeedInv is an invariant of the feed.                                    *)
(***************************************************************************)
LEMMA InitFeedInv == InitFeed => FeedInv
<1> SUFFICES ASSUME InitFeed PROVE FeedInv
  OBVIOUS
<1> USE DEF InitFeed
<1>1. DenseTraces
  <2>1. \A t \in Trace : TraceSeqs(t) = {}
    BY DEF TraceSeqs, EventsOf
  <2>2. 0 .. (0 - 1) = {} /\ 0 \in Nat
    OBVIOUS
  <2> QED BY <2>1, <2>2 DEF DenseTraces
<1>2. IsFiniteSet(log)
  BY FS_EmptySet
<1> QED BY <1>1, <1>2 DEF FeedInv, TraceInv, InsertedInv

LEMMA InsertRowPreserves ==
    ASSUME FeedInv, NEW e \in Envelope, InsertRow(e)
    PROVE  FeedInv'
<1> USE DEF FeedInv
<1> DEFINE row == Stored(nextLogSeq, e)
<1>1. /\ UNCHANGED log /\ inserted' = inserted \cup {row} /\ nextLogSeq' = nextLogSeq + 1
      /\ row.event = e /\ row.log_seq = nextLogSeq /\ row \in StoredEvent
      /\ Follows(e) /\ \A s \in inserted : s.event.trace # e.trace
  BY DEF InsertRow, Stored, StoredEvent
<1>2. \A s \in log \cup inserted : s.log_seq < nextLogSeq /\ s.log_seq \in Nat
  BY DEF InsertedInv, StoredEvent
<1>3. (log \cup inserted)' \subseteq StoredEvent /\ nextLogSeq' \in Nat \ {0}
  BY <1>1 DEF StoredEvent
<1>4. InsertedInv'
  <2>1. \A s \in (log \cup inserted)' : s.log_seq < nextLogSeq'
    BY <1>1, <1>2
  <2>2. \A r, s \in (log \cup inserted)' : r.log_seq = s.log_seq => r = s
    BY <1>1, <1>2 DEF InsertedInv
  <2>3. ASSUME NEW s \in inserted'
        PROVE  /\ Follows(s.event)' /\ s \notin log'
               /\ \A r \in EventsOf(s.event.trace)' : r.log_seq < s.log_seq
               /\ \A r \in inserted' : r.event.trace = s.event.trace => r = s
    <3>1. CASE s = row
      <4>1. \A r \in EventsOf(e.trace) : r.log_seq < row.log_seq
        BY <1>1, <1>2 DEF EventsOf
      <4> QED BY <1>1, <1>2, <3>1, <4>1, LogUnchanged
    <3>2. CASE s \in inserted
      BY <1>1, <3>2, LogUnchanged DEF InsertedInv
    <3> QED BY <1>1, <3>1, <3>2
  <2> QED BY <2>1, <2>2, <2>3 DEF InsertedInv
<1> QED BY <1>1, <1>3, <1>4, LogUnchanged

\* An uncommitted row follows the committed ones.
LEMMA InsertedFollows ==
    ASSUME FeedInv, NEW s \in inserted
    PROVE  /\ s \in StoredEvent /\ s \notin log
           /\ s.event.trace \in Trace /\ s.event.trace_seq \in Nat
           /\ TraceSeqs(s.event.trace) = 0 .. (s.event.trace_seq - 1)
           /\ StartsAtZero(s.event)
           /\ \A r \in EventsOf(s.event.trace) : /\ r.event.trace_seq < s.event.trace_seq
                                                 /\ r.log_seq < s.log_seq
                                                 /\ r.event.type # "TraceFinished"
<1> USE DEF FeedInv
<1>1. s \in StoredEvent /\ s.event.trace \in Trace /\ s.event.trace_seq \in Nat
  BY StoredTypes
<1>2. Follows(s.event) /\ s \notin log /\ \A r \in EventsOf(s.event.trace) : r.log_seq < s.log_seq
  BY DEF InsertedInv
<1>3. PICK n \in Nat : TraceSeqs(s.event.trace) = 0 .. (n - 1)
  BY <1>1 DEF DenseTraces
<1>4. n = s.event.trace_seq
  BY <1>2, <1>3, NextOfDense DEF Follows, ValidSequence
<1>5. \A r \in EventsOf(s.event.trace) : r.event.trace_seq \in 0 .. (n - 1)
  BY <1>3 DEF TraceSeqs
<1>6. \A r \in EventsOf(s.event.trace) : r.event.type # "TraceFinished"
  BY <1>2 DEF Follows, TraceIsFinished
<1> QED BY <1>1, <1>2, <1>3, <1>4, <1>5, <1>6 DEF Follows, ValidSequence

LEMMA CommitRowPreserves ==
    ASSUME FeedInv, NEW s \in inserted, CommitRow(s)
    PROVE  FeedInv'
<1> USE DEF FeedInv
<1> DEFINE t == s.event.trace
<1>1. log' = log \cup {s} /\ inserted' = inserted \ {s} /\ UNCHANGED nextLogSeq
  BY DEF CommitRow
<1>2. /\ s \in StoredEvent /\ s \notin log /\ t \in Trace /\ s.event.trace_seq \in Nat
      /\ TraceSeqs(t) = 0 .. (s.event.trace_seq - 1) /\ StartsAtZero(s.event)
      /\ \A r \in EventsOf(t) : /\ r.event.trace_seq < s.event.trace_seq
                                /\ r.log_seq < s.log_seq
                                /\ r.event.type # "TraceFinished"
  BY InsertedFollows
<1>3. IsFiniteSet(log')
  BY <1>1, FS_AddElement
<1>4. DenseTraces'
  <2> SUFFICES ASSUME NEW u \in Trace PROVE \E n \in Nat : TraceSeqs(u)' = 0 .. (n - 1)
    BY DEF DenseTraces
  <2>1. CASE u = t
    <3>1. TraceSeqs(u)' = 0 .. (s.event.trace_seq - 1) \cup {s.event.trace_seq}
      BY <1>1, <1>2, <2>1, LogGrows
    <3>2. TraceSeqs(u)' = 0 .. ((s.event.trace_seq + 1) - 1)
      BY <1>2, <3>1, SegmentGrows
    <3>3. s.event.trace_seq + 1 \in Nat
      BY <1>2
    <3> QED BY <3>2, <3>3
  <2>2. CASE u # t
    BY <1>1, <2>2, LogGrows DEF DenseTraces
  <2> QED BY <2>1, <2>2
<1>5. TraceInv'
  <2>1. \A r \in log : r.event.trace_seq \in Nat /\ r.log_seq \in Nat /\ s.log_seq \in Nat
    BY <1>2, StoredTypes
  <2>2. \A r \in log : r.event.trace = t => /\ r.event.trace_seq < s.event.trace_seq
                                            /\ r.log_seq < s.log_seq
                                            /\ r.event.type # "TraceFinished"
    BY <1>2 DEF EventsOf
  <2>3. \A r \in log \cup {s} : StartsAtZero(r.event)
    BY <1>2 DEF TraceInv
  <2>4. ASSUME NEW q \in log \cup {s}, NEW r \in log \cup {s}, q.event.trace = r.event.trace
        PROVE  /\ q.event.trace_seq <= r.event.trace_seq <=> q.log_seq <= r.log_seq
               /\ r.event.type = "TraceFinished" => q.log_seq <= r.log_seq
    <3>1. CASE q \in log /\ r \in log
      BY <2>4, <3>1 DEF TraceInv
    <3>2. CASE q = s /\ r = s
      BY <1>2, <2>1, <3>2 DEF StoredEvent
    <3>3. CASE q = s /\ r \in log
      BY <1>2, <2>1, <2>2, <2>4, <3>3
    <3>4. CASE q \in log /\ r = s
      BY <1>2, <2>1, <2>2, <2>4, <3>4
    <3> QED BY <3>1, <3>2, <3>3, <3>4
  <2> QED BY <1>1, <2>3, <2>4 DEF TraceInv, StartsAtZero
<1>6. InsertedInv'
  <2>1. ASSUME NEW u \in inserted'
        PROVE  /\ Follows(u.event)' /\ u \notin log'
               /\ \A r \in EventsOf(u.event.trace)' : r.log_seq < u.log_seq
               /\ \A r \in inserted' : r.event.trace = u.event.trace => r = u
    <3>1. u \in inserted /\ u # s /\ u.event.trace # t
      BY <1>1, <2>1 DEF InsertedInv
    <3>2. EventsOf(u.event.trace)' = EventsOf(u.event.trace) /\ (Follows(u.event)' <=> Follows(u.event))
      BY <1>1, <3>1, LogGrows
    <3> QED BY <1>1, <3>1, <3>2 DEF InsertedInv
  <2> QED BY <1>1, <2>1 DEF InsertedInv
<1> QED BY <1>1, <1>2, <1>3, <1>4, <1>5, <1>6

\* Appends, and the steps of the runners, which leave the feed alone.
LEMMA FeedPreserves == FeedInv /\ (Append \/ UNCHANGED feedVars) => FeedInv'
<1> SUFFICES ASSUME FeedInv, Append \/ UNCHANGED feedVars PROVE FeedInv'
  OBVIOUS
<1>1. CASE UNCHANGED feedVars \/ \E s \in inserted : RollbackRow(s)
  <2>1. UNCHANGED <<log, nextLogSeq>> /\ inserted' \subseteq inserted
    BY <1>1 DEF RollbackRow, feedVars
  <2> QED BY <2>1, LogUnchanged DEF FeedInv, InsertedInv
<1>2. CASE \E e \in Envelope : InsertRow(e)
  BY <1>2, InsertRowPreserves
<1>3. CASE \E s \in inserted : CommitRow(s)
  BY <1>3, CommitRowPreserves
<1> QED BY <1>1, <1>2, <1>3 DEF Append

-----------------------------------------------------------------------------
(***************************************************************************)
(* Types.                                                                  *)
(***************************************************************************)
Summary == [trace : Trace, finished : BOOLEAN, count : Nat, last : Nat]

Rows == [items : SUBSET [item : Trace \cup Content \cup EventId, log_seq : Nat],
         summaries : SUBSET Summary,
         policies : SUBSET StoredEvent,
         precedents : SUBSET StoredEvent]

Run == [stage : Stage, since : Nat, until : Nat, tracker : [Trace -> Nat],
        batch : SUBSET StoredEvent, todo : SUBSET StoredEvent, rows : Rows]

TypeInv ==
    /\ FeedInv
    /\ projection \in Projection
    /\ tables \in Rows
    /\ cursor \in Nat
    /\ failures \subseteq Nat
    /\ lock \in Runner \cup {NoRunner}
    /\ run \in [Runner -> Run]
    /\ \A r \in Runner : run[r].todo \subseteq run[r].batch /\ run[r].batch \subseteq log
    /\ \A r \in Runner : run[r].stage \in {"lock", "project"} => run[r].batch # {}
    /\ faults \in 0 .. MaxFaults

LEMMA CountedRow ==
    ASSUME NEW r \in Summary, NEW n \in Nat
    PROVE  /\ [r EXCEPT !.count = @ + 1, !.last = n] \in Summary
           /\ [r EXCEPT !.count = @ + 1, !.last = n] =
                 [trace |-> r.trace, finished |-> r.finished, count |-> r.count + 1, last |-> n]
<1> DEFINE c == [r EXCEPT !.count = @ + 1]
<1>1. /\ c \in Summary
      /\ c = [trace |-> r.trace, finished |-> r.finished, count |-> r.count + 1, last |-> r.last]
  BY DEF Summary
<1>2. [r EXCEPT !.count = @ + 1, !.last = n] = [c EXCEPT !.last = n]
  BY DEF Summary
<1> HIDE DEF c
<1>3. [c EXCEPT !.last = n] =
          [trace |-> c.trace, finished |-> c.finished, count |-> c.count, last |-> n]
  BY <1>1 DEF Summary
<1>4. [trace |-> r.trace, finished |-> r.finished, count |-> r.count + 1, last |-> n] \in Summary
  BY DEF Summary
<1> QED BY <1>1, <1>2, <1>3, <1>4

LEMMA NoRowsType == NoRows \in Rows
BY DEF NoRows, Rows

LEMMA IdleType == Idle \in Run
BY NoRowsType DEF Idle, Run, Stage

LEMMA ProjectRowType ==
    ASSUME TypeInv, NEW rows \in Rows, NEW s \in StoredEvent
    PROVE  ProjectRow(rows, s) \in Rows
<1> USE DEF Rows
<1>1. /\ s.log_seq \in Nat /\ s.event.trace \in Trace
      /\ s.event.id \in EventId /\ s.event.content \in Content
  BY StoredTypes
<1>2. EventsOf(s.event.trace) \subseteq StoredEvent
  BY DEF TypeInv, FeedInv, EventsOf
<1>3. ProjectGraph(rows, s) \in Rows
  BY <1>1 DEF ProjectGraph, Emitted
<1>4. ProjectSummary(rows, s) \in Rows
  <2> DEFINE t == s.event.trace
             mine == {r \in rows.summaries : r.trace = t}
             counted == {[r EXCEPT !.count = @ + 1, !.last = s.log_seq] : r \in mine}
  <2>1. counted \subseteq Summary
    <3> SUFFICES ASSUME NEW r \in mine
                 PROVE  [r EXCEPT !.count = @ + 1, !.last = s.log_seq] \in Summary
      OBVIOUS
    <3>1. r \in Summary
      OBVIOUS
    <3> HIDE DEF mine
    <3> QED BY <1>1, <3>1, CountedRow
  <2>2. {[r EXCEPT !.finished = TRUE] : r \in counted} \subseteq Summary
    <3> SUFFICES ASSUME NEW r \in counted PROVE [r EXCEPT !.finished = TRUE] \in Summary
      OBVIOUS
    <3>1. r \in Summary
      BY <2>1
    <3> QED BY <3>1 DEF Summary
  <2>3. [trace |-> t, finished |-> FALSE, count |-> 1, last |-> s.log_seq] \in Summary
    BY <1>1 DEF Summary
  <2>4. rows.summaries \ mine \subseteq Summary
    OBVIOUS
  <2>5. \A X \in SUBSET Summary : [rows EXCEPT !.summaries = X] \in Rows
    OBVIOUS
  <2> HIDE DEF Rows, mine, counted
  <2>6. CASE s.event.type = "TraceStarted"
    <3> DEFINE new == (rows.summaries \ mine) \cup
                        IF mine = {} THEN {[trace |-> t, finished |-> FALSE, count |-> 1,
                                            last |-> s.log_seq]}
                        ELSE counted
    <3>1. new \in SUBSET Summary
      BY <2>1, <2>3, <2>4
    <3>2. ProjectSummary(rows, s) = [rows EXCEPT !.summaries = new]
      BY <2>6 DEF ProjectSummary, mine, counted
    <3> QED BY <2>5, <3>1, <3>2
  <2>7. CASE s.event.type = "TraceFinished"
    <3> DEFINE new == (rows.summaries \ mine) \cup {[r EXCEPT !.finished = TRUE] : r \in counted}
    <3>1. new \in SUBSET Summary
      BY <2>2, <2>4
    <3>2. ProjectSummary(rows, s) = [rows EXCEPT !.summaries = new]
      BY <2>7 DEF ProjectSummary, mine, counted
    <3> QED BY <2>5, <3>1, <3>2
  <2>8. CASE s.event.type \notin {"TraceStarted", "TraceFinished"}
    BY <2>8 DEF ProjectSummary
  <2> QED BY <2>6, <2>7, <2>8
<1>5. ProjectPrecedent(rows, s) \in Rows
  BY <1>2 DEF ProjectPrecedent
<1> HIDE DEF Rows
<1> QED BY <1>3, <1>4, <1>5, ProjectionAssumption DEF ProjectRow, TypeInv

LEMMA TrackerType ==
    ASSUME FeedInv, NEW n \in Nat
    PROVE  TrackerAt(n) \in [Trace -> Nat]
<1> SUFFICES ASSUME NEW t \in Trace
             PROVE  LET seqs == {s.event.trace_seq : s \in UpTo(n) \cap EventsOf(t)}
                    IN  (IF seqs = {} THEN 0 ELSE MaxOf(seqs) + 1) \in Nat
  BY DEF TrackerAt
<1> DEFINE seqs == {s.event.trace_seq : s \in UpTo(n) \cap EventsOf(t)}
<1>1. PICK m \in Nat : TraceSeqs(t) = 0 .. (m - 1)
  BY DEF FeedInv, DenseTraces
<1>2. seqs \in SUBSET Nat /\ \A x \in seqs : x <= m
  BY <1>1 DEF TraceSeqs
<1> HIDE DEF seqs
<1>3. seqs # {} => MaxOf(seqs) \in Nat
  BY <1>2, MaxExists
<1> QED BY <1>3 DEF seqs

\* The last log_seq of a batch.
LEMMA LastType ==
    ASSUME FeedInv, NEW B \in SUBSET log, B # {}
    PROVE  /\ LastOf(B) \in Nat /\ LastOf(B) < nextLogSeq
           /\ \E s \in B : s.log_seq = LastOf(B)
           /\ \A s \in B : s.log_seq <= LastOf(B)
<1> DEFINE N == {s.log_seq : s \in B}
<1>1. N \in SUBSET Nat /\ N # {} /\ nextLogSeq \in Nat /\ \A n \in N : n < nextLogSeq
  BY StoredTypes DEF FeedInv, InsertedInv
<1>2. \A n \in N : n <= nextLogSeq
  BY <1>1
<1> HIDE DEF N
<1>3. MaxOf(N) \in N /\ \A n \in N : n <= MaxOf(N)
  BY <1>1, <1>2, MaxExists
<1>4. LastOf(B) = MaxOf(N)
  BY DEF LastOf, N
<1>5. LastOf(B) \in Nat /\ LastOf(B) < nextLogSeq
  BY <1>1, <1>3, <1>4
<1> QED BY <1>3, <1>4, <1>5 DEF N

\* A step of runner r, which leaves the feed alone.
LEMMA MoveType ==
    ASSUME TypeInv, NEW r \in Runner, NEW new \in Run,
           new.todo \subseteq new.batch, new.batch \subseteq log,
           new.stage \in {"lock", "project"} => new.batch # {},
           Become(r, new), UNCHANGED <<feedVars, projection>>,
           tables' \in Rows, cursor' \in Nat, failures' \subseteq Nat,
           lock' \in Runner \cup {NoRunner}, faults' \in 0 .. MaxFaults
    PROVE  TypeInv'
<1>1. FeedInv'
  BY FeedPreserves DEF TypeInv
<1>2. log' = log /\ projection' = projection
  BY DEF feedVars
<1>3. /\ run' \in [Runner -> Run]
      /\ \A q \in Runner : run'[q].todo \subseteq run'[q].batch /\ run'[q].batch \subseteq log'
      /\ \A q \in Runner : run'[q].stage \in {"lock", "project"} => run'[q].batch # {}
  BY <1>2 DEF TypeInv, Become
<1> QED BY <1>1, <1>2, <1>3 DEF TypeInv

LEMMA InitTypeInv == Init => TypeInv
<1>1. Idle.batch = {} /\ Idle.todo = {} /\ Idle.stage = "idle"
  BY DEF Idle
<1> QED BY <1>1, InitFeedInv, NoRowsType, IdleType, ProjectionAssumption DEF Init, TypeInv

LEMMA StageNames ==
    \A x \in {"idle", "clear", "cursor", "tracker", "fetch", "lock", "project", "find", "report",
           "stopped"} : x \in Stage
BY DEF Stage

LEMMA NextTypeInv == TypeInv /\ [Next]_vars => TypeInv'
<1> SUFFICES ASSUME TypeInv, [Next]_vars PROVE TypeInv'
  OBVIOUS
<1>1. CASE UNCHANGED vars \/ Append
  <2>1. FeedInv' /\ UNCHANGED scopeVars
    BY <1>1, FeedPreserves DEF TypeInv, vars, Append
  <2>2. log \subseteq log'
    BY <1>1 DEF vars, feedVars, Append, InsertRow, CommitRow, RollbackRow
  <2> QED BY <2>1, <2>2 DEF TypeInv, scopeVars
<1>2. ASSUME NEW r \in Runner, Next!2!(r) PROVE TypeInv'
  <2> DEFINE me == run[r]
  <2>1. /\ me \in Run /\ me.todo \subseteq me.batch /\ me.batch \subseteq log
        /\ log \subseteq StoredEvent
        /\ me.stage \in {"lock", "project"} => me.batch # {}
    BY DEF TypeInv, FeedInv
  <2>2. /\ tables \in Rows /\ cursor \in Nat /\ failures \subseteq Nat
        /\ lock \in Runner \cup {NoRunner} /\ faults \in 0 .. MaxFaults
    BY DEF TypeInv
  <2>3. Unlock(r) => lock' \in Runner \cup {NoRunner}
    BY <2>2 DEF Unlock
  <2>4. \A s \in log : /\ s \in StoredEvent /\ s.log_seq \in Nat /\ s.event.trace \in Trace
    BY <2>1, StoredTypes
  <2>0. Idle.batch = {} /\ Idle.todo = {} /\ Idle.stage = "idle"
    BY DEF Idle
  <2>5. \A n \in Nat, st \in Stage :
          /\ [Idle EXCEPT !.stage = st, !.since = n] \in Run
          /\ [Idle EXCEPT !.stage = st, !.since = n].batch = {}
          /\ [Idle EXCEPT !.stage = st, !.since = n].todo = {}
          /\ [Idle EXCEPT !.stage = st, !.since = n].stage = st
    BY <2>0, IdleType DEF Run
  <2>18. \A s \in log : /\ Halted(r, s) \in Run /\ Halted(r, s).batch = {} /\ Halted(r, s).todo = {}
                       /\ Halted(r, s).stage \in {"idle", "report"}
    <3>1. ASSUME NEW s \in log
          PROVE  /\ Halted(r, s) \in Run /\ Halted(r, s).batch = {} /\ Halted(r, s).todo = {}
                 /\ Halted(r, s).stage \in {"idle", "report"}
      <4> DEFINE new == [Idle EXCEPT !.stage = "report", !.since = s.log_seq]
      <4>1. s.log_seq \in Nat /\ "report" \in Stage
        BY <2>4, StageNames
      <4>2. new \in Run /\ new.batch = {} /\ new.todo = {} /\ new.stage = "report"
        BY <2>5, <4>1
      <4>3. Halted(r, s) = new \/ Halted(r, s) = Idle
        BY DEF Halted
      <4> HIDE DEF new
      <4> QED BY <2>0, <4>2, <4>3, IdleType
    <3> QED BY <3>1
  <2>19. LET new == [Idle EXCEPT !.stage = "stopped"]
         IN  new \in Run /\ new.todo = {} /\ new.batch = {} /\ new.stage = "stopped"
    BY <2>0, IdleType, StageNames DEF Run
  <2>6. faults < MaxFaults => faults + 1 \in 0 .. MaxFaults
    BY <2>2, ProjectionAssumption
  <2> USE <2>1, <2>2 DEF Move
  <2>7. CASE \E mode \in Modes[r], until \in Until : Start(r, mode, until)
    <3>1. PICK mode \in Modes[r], until \in Until : Start(r, mode, until)
      BY <2>7
    <3> DEFINE st == IF mode = "rebuild" THEN "clear" ELSE "cursor"
               new == [Idle EXCEPT !.stage = st, !.until = until]
    <3>2. st \in Stage /\ st \notin {"lock", "project"} /\ until \in Nat
      BY ProjectionAssumption, StageNames
    <3>3. new \in Run /\ new.batch = {} /\ new.todo = {} /\ new.stage = st
      BY <2>0, <3>2, IdleType, StageNames DEF Run
    <3>4. Become(r, new)
      BY <3>1 DEF Start
    <3> HIDE DEF new, st
    <3> QED BY <3>1, <3>2, <3>3, <3>4, MoveType DEF Start
  <2>8. CASE Clear(r)
    <3> DEFINE new == [me EXCEPT !.stage = "cursor"]
    <3>1. /\ new \in Run /\ new.batch = me.batch
          /\ new.todo = me.todo /\ new.stage = "cursor"
      BY StageNames DEF Run
    <3>0. Become(r, new)
      BY <2>8 DEF Clear
    <3> HIDE DEF new
    <3> QED BY <2>8, <3>0, <3>1, MoveType, NoRowsType DEF Clear
  <2>9. CASE AcquireProjectionLock(r)
    <3> DEFINE new == [me EXCEPT !.stage = "project", !.rows = tables]
    <3>1. /\ new \in Run /\ new.batch = me.batch
          /\ new.todo = me.todo /\ new.stage = "project"
      BY StageNames DEF Run
    <3>0. Become(r, new)
      BY <2>9 DEF AcquireProjectionLock
    <3> HIDE DEF new
    <3> QED BY <2>9, <3>0, <3>1, MoveType DEF AcquireProjectionLock
  <2>10. CASE ReadCursor(r)
    <3> DEFINE new == [me EXCEPT !.stage = "tracker", !.since = cursor]
    <3>1. /\ new \in Run /\ new.batch = me.batch
          /\ new.todo = me.todo /\ new.stage = "tracker"
      BY StageNames DEF Run
    <3>0. Become(r, new)
      BY <2>10 DEF ReadCursor
    <3> HIDE DEF new
    <3> QED BY <2>10, <3>0, <3>1, MoveType DEF ReadCursor
  <2>11. CASE LoadTracker(r)
    <3> DEFINE tr == TrackerAt(me.since)
               new == [me EXCEPT !.stage = "fetch", !.tracker = tr]
    <3>1. tr \in [Trace -> Nat]
      BY TrackerType DEF TypeInv, Run
    <3> HIDE DEF tr
    <3>2. /\ new \in Run /\ new.batch = me.batch
          /\ new.todo = me.todo /\ new.stage = "fetch"
      BY <3>1, StageNames DEF Run
    <3>0. Become(r, new)
      BY <2>11 DEF LoadTracker, tr
    <3> HIDE DEF new
    <3> QED BY <2>11, <3>0, <3>2, MoveType DEF LoadTracker
  <2>12. CASE ReadBatch(r)
    <3> DEFINE b == BatchAfter(me.since, me.until)
               new == [me EXCEPT !.stage = "lock", !.batch = b, !.todo = b]
    <3>1. b \subseteq log
      BY DEF BatchAfter, UpTo
    <3>2. Become(r, IF b = {} THEN Idle ELSE new)
      BY <2>12 DEF ReadBatch
    <3> HIDE DEF b
    <3>3. new \in Run /\ new.batch = b /\ new.todo = b /\ new.stage = "lock"
      BY <3>1, StageNames DEF Run
    <3> HIDE DEF new
    <3> QED BY <2>12, <3>1, <3>2, <3>3, MoveType, IdleType DEF ReadBatch, Idle
  <2>13. CASE ProjectEvent(r)
    <3>1. PICK s \in me.todo : ProjectEvent(r)!(s)
      BY <2>13 DEF ProjectEvent
    <3>0. s \in log
      OBVIOUS
    <3>2. CASE s.event.trace_seq = me.tracker[s.event.trace]
      <4> DEFINE d == me.todo \ {s}
                 tr == [me.tracker EXCEPT ![s.event.trace] = @ + 1]
                 rw == ProjectRow(me.rows, s)
                 new == [me EXCEPT !.todo = d, !.tracker = tr, !.rows = rw]
      <4>1. rw \in Rows
        BY <2>4, <3>0, ProjectRowType DEF Run
      <4>2. tr \in [Trace -> Nat]
        BY <2>4, <3>0 DEF Run
      <4>3. d \subseteq me.batch /\ d \in SUBSET StoredEvent
        OBVIOUS
      <4>4. Become(r, new)
        BY <3>1, <3>2
      <4>8. me.stage = "project"
        BY <3>1, <3>2
      <4> HIDE DEF d, tr, rw
      <4>5. new \in Run /\ new.batch = me.batch /\ new.todo = d /\ new.stage = "project"
        BY <4>1, <4>2, <4>3, <4>8 DEF Run
      <4> HIDE DEF new
      <4>6. me.batch # {}
        BY <3>0
      <4>7. UNCHANGED <<feedVars, projection, tables, cursor, failures, lock, faults>>
        BY <3>1, <3>2
      <4> HIDE DEF me
      <4> QED BY <4>3, <4>4, <4>5, <4>6, <4>7, MoveType
    <3>3. CASE s.event.trace_seq # me.tracker[s.event.trace]
      BY <2>18, <3>0, <3>1, <3>3, MoveType
    <3> QED BY <3>2, <3>3
  <2>14. CASE CommitBatch(r)
    <3> DEFINE n == LastOf(me.batch)
               new == [me EXCEPT !.stage = "fetch", !.since = n, !.batch = {}, !.rows = NoRows]
    <3>1. n \in Nat
      BY <2>14, LastType DEF CommitBatch, TypeInv
    <3> HIDE DEF n
    <3>2. new \in Run /\ new.batch = {} /\ new.todo = me.todo /\ new.stage = "fetch"
      BY <3>1, NoRowsType, StageNames DEF Run
    <3>3. me.rows \in Rows /\ me.todo = {}
      BY <2>14 DEF Run, CommitBatch
    <3>0. Become(r, new)
      BY <2>14 DEF CommitBatch, NextBatch, n
    <3>4. cursor' = n
      BY <2>14 DEF CommitBatch, n
    <3> HIDE DEF new
    <3> QED BY <2>14, <3>0, <3>1, <3>2, <3>3, <3>4, MoveType DEF CommitBatch
  <2>15. CASE RecordFailure(r)
    <3>2. me.since \in Nat
      BY DEF Run
    <3> QED BY <2>15, <2>19, <3>2, MoveType DEF RecordFailure
  <2>16. CASE FailTerminally(r)
    <3>1. CASE \E s \in me.todo : Become(r, Halted(r, s))
      BY <2>3, <2>6, <2>16, <2>18, <3>1, MoveType DEF FailTerminally
    <3>2. CASE Become(r, Blamed(r))
      <4> DEFINE n == IF me.stage \in {"lock", "project"} THEN me.since ELSE 0
      <4>1. n \in Nat
        BY DEF Run
      <4>2. Blamed(r) = [Idle EXCEPT !.stage = "find", !.since = n]
        BY DEF Blamed
      <4> HIDE DEF n
      <4>3. /\ Blamed(r) \in Run /\ Blamed(r).batch = {} /\ Blamed(r).todo = {}
            /\ Blamed(r).stage = "find"
        <5>1. "find" \in Stage
          BY StageNames
        <5> DEFINE new == [Idle EXCEPT !.stage = "find", !.since = n]
        <5>2. new \in Run /\ new.batch = {} /\ new.todo = {} /\ new.stage = "find"
          BY <2>5, <4>1, <5>1
        <5> HIDE DEF new
        <5>3. Blamed(r) = new
          BY <4>2 DEF new
        <5> QED BY <5>2, <5>3
      <4>4. /\ lock' \in Runner \cup {NoRunner} /\ faults' \in 0 .. MaxFaults
            /\ UNCHANGED <<feedVars, projection, tables, cursor, failures>>
        BY <2>3, <2>6, <2>16 DEF FailTerminally
      <4> HIDE DEF me
      <4> QED BY <3>2, <4>3, <4>4, MoveType
    <3> QED BY <2>16, <3>1, <3>2 DEF FailTerminally
  <2>20. CASE FindFailedEvent(r)
    <3>1. \/ Become(r, [Idle EXCEPT !.stage = "stopped"])
          \/ \E s \in log : Become(r, Halted(r, s))
      BY <2>20 DEF FindFailedEvent
    <3>2. UNCHANGED <<feedVars, projection, faults, tables, cursor, failures, lock>>
      BY <2>20 DEF FindFailedEvent
    <3> QED BY <2>18, <2>19, <3>1, <3>2, MoveType
  <2>21. CASE FindNone(r)
    BY <2>6, <2>19, <2>21, MoveType DEF FindNone
  <2>17. CASE Crash(r)
    BY <2>3, <2>6, <2>17, MoveType, IdleType DEF Crash, Idle
  <2> QED BY <1>2, <2>7, <2>8, <2>9, <2>10, <2>11, <2>12, <2>13, <2>14, <2>15, <2>16, <2>17,
             <2>20, <2>21 DEF Progress
<1> QED BY <1>1, <1>2 DEF Next

(***************************************************************************)
(* The types of the variables; a batch only holds rows of the log.         *)
(***************************************************************************)
THEOREM TypeCorrect == Spec => []TypeOK
<1>1. TypeInv => TypeOK
  <2> SUFFICES ASSUME TypeInv PROVE TypeOK
    OBVIOUS
  <2>1. \A x \in Rows : IsRows(x)
    BY DEF Rows, IsRows, Summary
  <2> QED BY <2>1 DEF TypeInv, FeedInv, TypeOK, Run
<1> QED BY <1>1, InitTypeInv, NextTypeInv, PTL DEF Spec

-----------------------------------------------------------------------------
(***************************************************************************)
(* Projecting the next event of the log.                                   *)
(***************************************************************************)
\* The events of X could all be in one log.
Coherent(X) ==
    /\ \A s \in X : StartsAtZero(s.event)
    /\ \A r, s \in X :
          /\ r.log_seq = s.log_seq => r = s
          /\ r.event.trace = s.event.trace =>
                /\ r.event.trace_seq <= s.event.trace_seq <=> r.log_seq <= s.log_seq
                /\ s.event.type = "TraceFinished" => r.log_seq <= s.log_seq

\* S may be projected before s: it has all that precedes s in its trace.
IsHistory(S, s) ==
    /\ S \in SUBSET StoredEvent /\ IsFiniteSet(S)
    /\ s \in log
    /\ Coherent(S \cup log)
    /\ \A r \in EventsOf(s.event.trace) : r.log_seq < s.log_seq => r \in S

\* ... and s is later than all of S.
Precedes(S, s) == IsHistory(S, s) /\ \A r \in S : r.log_seq < s.log_seq

LEMMA PrecedesTypes ==
    ASSUME FeedInv, NEW S, NEW s, Precedes(S, s)
    PROVE  /\ S \subseteq StoredEvent /\ s \in StoredEvent /\ IsFiniteSet(S)
           /\ s.log_seq \in Nat /\ s \notin S
           /\ \A r \in S : r.log_seq \in Nat /\ r.log_seq < s.log_seq
<1>1. S \subseteq StoredEvent /\ s \in StoredEvent
  BY DEF FeedInv, Precedes, IsHistory
<1>2. \A r \in S \cup {s} : r.log_seq \in Nat
  BY <1>1, StoredTypes
<1> QED BY <1>1, <1>2 DEF Precedes, IsHistory

\* The events of the trace of s up to s, which S and the log have alike.
LEMMA TraceOf ==
    ASSUME FeedInv, NEW S, NEW s, IsHistory(S, s)
    PROVE  \A r : /\ r.event.trace = s.event.trace
                  /\ r.log_seq <= s.log_seq
                  => (r \in S \cup {s} <=> r \in log \/ r = s)
<1> SUFFICES ASSUME NEW r, r.event.trace = s.event.trace, r.log_seq <= s.log_seq
             PROVE  r \in S \cup {s} <=> r \in log \/ r = s
  OBVIOUS
<1> DEFINE t == s.event.trace
           X == S \cup log
<1>1. s \in log /\ Coherent(X) /\ \A q \in EventsOf(t) : q.log_seq < s.log_seq => q \in S
  BY DEF IsHistory
<1>2. X \subseteq StoredEvent
  BY DEF IsHistory, FeedInv
<1>3. \A q \in X : q.log_seq \in Nat /\ q.event.trace_seq \in Nat /\ q.event.trace \in Trace
  BY <1>2, StoredTypes
<1>4. ASSUME r \in log PROVE r \in S \cup {s}
  <2>1. CASE r.log_seq < s.log_seq
    BY <1>1, <1>4, <2>1 DEF EventsOf
  <2>2. CASE ~(r.log_seq < s.log_seq)
    <3>1. r.log_seq = s.log_seq
      BY <1>1, <1>3, <1>4, <2>2
    <3> QED BY <1>1, <1>4, <3>1 DEF Coherent
  <2> QED BY <2>1, <2>2
<1>5. ASSUME r \in S PROVE r \in log
  <2>1. r.event.trace_seq <= s.event.trace_seq
    BY <1>1, <1>5 DEF Coherent
  <2>2. PICK n \in Nat : TraceSeqs(t) = 0 .. (n - 1)
    BY <1>1, <1>3 DEF FeedInv, DenseTraces
  <2>3. s.event.trace_seq \in TraceSeqs(t)
    BY <1>1 DEF TraceSeqs, EventsOf
  <2>4. s.event.trace_seq \in Nat /\ r.event.trace_seq \in Nat
    BY <1>1, <1>3, <1>5
  <2>5. r.event.trace_seq \in TraceSeqs(t)
    BY <2>1, <2>2, <2>3, <2>4
  <2>6. PICK q \in log : q.event.trace = t /\ q.event.trace_seq = r.event.trace_seq
    BY <2>5 DEF TraceSeqs, EventsOf
  <2>7. q.log_seq <= r.log_seq /\ r.log_seq <= q.log_seq
    <3>1. q.event.trace_seq <= r.event.trace_seq /\ r.event.trace_seq <= q.event.trace_seq
      BY <2>4, <2>6
    <3> QED BY <1>1, <1>5, <2>6, <3>1 DEF Coherent
  <2>8. q.log_seq \in Nat /\ r.log_seq \in Nat
    BY <1>3, <1>5
  <2>9. q.log_seq = r.log_seq
    BY <2>7, <2>8
  <2> QED BY <1>1, <1>5, <2>9 DEF Coherent
<1> QED BY <1>1, <1>4, <1>5

Items(S) == UNION {{[item |-> i, log_seq |-> s.log_seq] :
                       i \in {j \in Emitted(s.event) :
                                \A r \in Earlier(s, S) : j \notin Emitted(r.event)}} : s \in S}

\* Whatever an event of S emits is among the items of S, with its first emitter.
LEMMA KnownItems ==
    ASSUME NEW S, \A r \in S : r.log_seq \in Nat
    PROVE  \A j : j \in {x.item : x \in Items(S)} <=> \E r \in S : j \in Emitted(r.event)
<1> DEFINE First(r, j) == j \in Emitted(r.event) /\ \A q \in Earlier(r, S) : j \notin Emitted(q.event)
<1>1. \A x : x \in Items(S) <=> \E r \in S : \E j \in Emitted(r.event) :
                                   First(r, j) /\ x = [item |-> j, log_seq |-> r.log_seq]
  BY DEF Items
<1>2. ASSUME NEW j PROVE (j \in {x.item : x \in Items(S)}) <=> \E r \in S : j \in Emitted(r.event)
  <2>1. ASSUME NEW r \in S, j \in Emitted(r.event) PROVE  \E x \in Items(S) : x.item = j
    <3> DEFINE N == {q.log_seq : q \in {p \in S : j \in Emitted(p.event)}}
    <3>1. N \in SUBSET Nat /\ N # {}
      BY <2>1
    <3>2. PICK q \in S : j \in Emitted(q.event) /\ \A n \in N : q.log_seq <= n
      <4> HIDE DEF N
      <4>1. PICK m \in N : \A n \in N : m <= n
        BY <3>1, MinExists
      <4> QED BY <4>1 DEF N
    <3>3. First(q, j)
      BY <3>2 DEF Earlier
    <3> HIDE DEF First, N
    <3>4. [item |-> j, log_seq |-> q.log_seq] \in Items(S)
      BY <1>1, <3>2, <3>3
    <3> QED BY <3>4
  <2>2. ASSUME NEW x \in Items(S), x.item = j PROVE \E r \in S : j \in Emitted(r.event)
    <3> HIDE DEF First
    <3>1. PICK r \in S : \E i \in Emitted(r.event) : x = [item |-> i, log_seq |-> r.log_seq]
      BY <1>1
    <3> QED BY <2>2, <3>1
  <2> QED BY <2>1, <2>2
<1> QED BY <1>2

LEMMA ItemsNext ==
    ASSUME FeedInv, NEW S, NEW s, Precedes(S, s)
    PROVE  Items(S \cup {s}) =
             Items(S) \cup {[item |-> i, log_seq |-> s.log_seq] :
                               i \in Emitted(s.event) \ {x.item : x \in Items(S)}}
<1> DEFINE First(r, B, j) == j \in Emitted(r.event) /\ \A q \in Earlier(r, B) : j \notin Emitted(q.event)
<1>1. /\ s.log_seq \in Nat /\ s \notin S
      /\ \A r \in S : r.log_seq \in Nat /\ r.log_seq < s.log_seq
  BY PrecedesTypes
<1>2. \A B, x : (x \in Items(B)) <=> \E r \in B : \E j \in Emitted(r.event) :
                                      First(r, B, j) /\ x = [item |-> j, log_seq |-> r.log_seq]
  BY DEF Items
<1>3. Earlier(s, S \cup {s}) = S /\ \A r \in S : Earlier(r, S \cup {s}) = Earlier(r, S)
  BY <1>1 DEF Earlier
<1>4. \A j : j \in {x.item : x \in Items(S)} <=> \E r \in S : j \in Emitted(r.event)
  BY <1>1, KnownItems
<1>5. \A j \in Emitted(s.event) : First(s, S \cup {s}, j) <=> (j \notin {x.item : x \in Items(S)})
  BY <1>3, <1>4
<1>6. \A r \in S : \A j : First(r, S \cup {s}, j) <=> First(r, S, j)
  BY <1>3
<1> HIDE DEF First
<1>7. ASSUME NEW x
      PROVE  (x \in Items(S \cup {s})) <=>
               x \in (Items(S) \cup {[item |-> i, log_seq |-> s.log_seq] :
                                       i \in Emitted(s.event) \ {y.item : y \in Items(S)}})
  <2> DEFINE new == {[item |-> i, log_seq |-> s.log_seq] :
                        i \in Emitted(s.event) \ {y.item : y \in Items(S)}}
  <2>1. x \in new <=> \E j \in Emitted(s.event) :
                         First(s, S \cup {s}, j) /\ x = [item |-> j, log_seq |-> s.log_seq]
    BY <1>5
  <2> HIDE DEF new
  <2>2. x \in Items(S) <=> \E r \in S : \E j \in Emitted(r.event) :
                         First(r, S \cup {s}, j) /\ x = [item |-> j, log_seq |-> r.log_seq]
    <3>1. x \in Items(S) <=> \E r \in S : \E j \in Emitted(r.event) :
                         First(r, S, j) /\ x = [item |-> j, log_seq |-> r.log_seq]
      BY <1>2
    <3>2. \A r \in S : \A j \in Emitted(r.event) : First(r, S \cup {s}, j) <=> First(r, S, j)
      BY <1>6
    <3> QED BY <3>1, <3>2, Zenon
  <2>3. x \in Items(S \cup {s}) <=> \E r \in S \cup {s} : \E j \in Emitted(r.event) :
                         First(r, S \cup {s}, j) /\ x = [item |-> j, log_seq |-> r.log_seq]
    BY <1>2
  <2>4. x \in Items(S \cup {s}) <=> x \in Items(S) \cup new
    BY <2>1, <2>2, <2>3
  <2> QED BY <2>4 DEF new
<1> QED BY <1>7

\* What the events before s say about its trace.
LEMMA TraceBefore ==
    ASSUME FeedInv, NEW S, NEW s, Precedes(S, s)
    PROVE  /\ s.event.type = "TraceStarted" => \A r \in S : r.event.trace # s.event.trace
           /\ s.event.type # "TraceStarted" =>
                 \E r \in S : r.event.trace = s.event.trace /\ r.event.type = "TraceStarted"
           /\ \A r \in S : r.event.trace = s.event.trace => r.event.type # "TraceFinished"
           /\ s.event.type = "TraceFinished" =>
                 EventsOf(s.event.trace) = {r \in S \cup {s} : r.event.trace = s.event.trace}
<1> DEFINE t == s.event.trace
           X == S \cup log
<1>1. /\ s \in log /\ Coherent(X) /\ \A r \in S : r.log_seq < s.log_seq
      /\ \A r \in EventsOf(t) : r.log_seq < s.log_seq => r \in S
  BY DEF Precedes, IsHistory
<1>2. X \subseteq StoredEvent
  BY DEF Precedes, IsHistory, FeedInv
<1>3. \A r \in X : r.log_seq \in Nat /\ r.event.trace_seq \in Nat /\ r.event.trace \in Trace
  BY <1>2, StoredTypes
<1>4. \A r \in X : r.event.type = "TraceStarted" <=> r.event.trace_seq = 0
  BY <1>1 DEF Coherent, StartsAtZero
<1>5. \A r, q \in X :
         r.event.trace = q.event.trace =>
            /\ r.event.trace_seq <= q.event.trace_seq <=> r.log_seq <= q.log_seq
            /\ q.event.type = "TraceFinished" => r.log_seq <= q.log_seq
  BY <1>1 DEF Coherent
<1>6. ASSUME s.event.type = "TraceStarted", NEW r \in S, r.event.trace = t PROVE FALSE
  <2>1. s.event.trace_seq = 0
    BY <1>1, <1>4, <1>6
  <2>2. s.event.trace_seq <= r.event.trace_seq
    BY <1>3, <2>1
  <2>3. s.log_seq <= r.log_seq
    BY <1>1, <1>5, <1>6, <2>2
  <2> QED BY <1>1, <1>3, <2>3
<1>7. ASSUME s.event.type # "TraceStarted"
      PROVE  \E r \in S : r.event.trace = t /\ r.event.type = "TraceStarted"
  <2>1. s.event.trace_seq # 0
    BY <1>1, <1>4, <1>7
  <2>2. PICK n \in Nat : TraceSeqs(t) = 0 .. (n - 1)
    BY <1>1, <1>3 DEF FeedInv, DenseTraces
  <2>3. s.event.trace_seq \in 0 .. (n - 1)
    BY <1>1, <2>2 DEF TraceSeqs, EventsOf
  <2>4. 0 \in TraceSeqs(t)
    BY <2>2, <2>3
  <2>5. PICK r \in log : r.event.trace = t /\ r.event.trace_seq = 0
    BY <2>4 DEF TraceSeqs, EventsOf
  <2>6. ~(s.event.trace_seq <= r.event.trace_seq)
    BY <1>1, <1>3, <2>1, <2>5
  <2>7. ~(s.log_seq <= r.log_seq)
    BY <1>1, <1>5, <2>5, <2>6
  <2>8. r.log_seq < s.log_seq
    BY <1>1, <1>3, <2>7
  <2>9. r \in S
    BY <1>1, <2>5, <2>8 DEF EventsOf
  <2> QED BY <1>4, <2>5, <2>9
<1>8. ASSUME NEW r \in S, r.event.trace = t, r.event.type = "TraceFinished" PROVE FALSE
  <2>1. s.log_seq <= r.log_seq
    BY <1>1, <1>5, <1>8
  <2> QED BY <1>1, <1>3, <2>1
<1>9. ASSUME s.event.type = "TraceFinished"
      PROVE  EventsOf(t) = {r \in S \cup {s} : r.event.trace = t}
  <2>1. \A r \in EventsOf(t) : r.log_seq <= s.log_seq
    BY <1>1, <1>5, <1>9 DEF EventsOf
  <2>2. \A r \in S \cup {s} : r.log_seq <= s.log_seq
    BY <1>1, <1>3
  <2>3. \A r : r.event.trace = t /\ r.log_seq <= s.log_seq => (r \in S \cup {s} <=> r \in log)
    BY <1>1, TraceOf DEF Precedes
  <2> QED BY <2>1, <2>2, <2>3 DEF EventsOf
<1> QED BY <1>6, <1>7, <1>8, <1>9

StartedIn(S) == {s.event.trace : s \in {r \in S : r.event.type = "TraceStarted"}}

SummaryOf(S, t) ==
    [trace |-> t,
     finished |-> \E s \in Counted(S, t) : s.event.type = "TraceFinished",
     count |-> Cardinality(Counted(S, t)),
     last |-> MaxOf({s.log_seq : s \in Counted(S, t)})]

Summaries(S) == {SummaryOf(S, t) : t \in StartedIn(S)}

LEMMA MaxIsLast ==
    ASSUME NEW N, NEW n \in Nat, \A m \in N : m \in Nat /\ m < n
    PROVE  MaxOf(N \cup {n}) = n
<1>1. n \in N \cup {n} /\ \A m \in N \cup {n} : m <= n
  OBVIOUS
<1>2. \A m \in N \cup {n} : (\A x \in N \cup {n} : x <= m) => m = n
  BY <1>1
<1> QED BY <1>1, <1>2 DEF MaxOf

\* The summary of the event's trace, when the event counts.
LEMMA SummaryNext ==
    ASSUME FeedInv, NEW S, NEW s, Precedes(S, s), s.event.type # "Step"
    PROVE  LET t == s.event.trace
               C == Counted(S, t)
           IN  /\ Cardinality(C) \in Nat
               /\ SummaryOf(S \cup {s}, t).trace = t
               /\ SummaryOf(S \cup {s}, t) =
                    [trace |-> t, finished |-> s.event.type = "TraceFinished",
                     count |-> Cardinality(C) + 1, last |-> s.log_seq]
<1> DEFINE t == s.event.trace
           C == Counted(S, t)
           Seqs(B) == {r.log_seq : r \in B}
<1>1. /\ IsFiniteSet(S) /\ s.log_seq \in Nat /\ s \notin S
      /\ \A r \in S : r.log_seq \in Nat /\ r.log_seq < s.log_seq
  BY PrecedesTypes
<1>2. Counted(S \cup {s}, t) = C \cup {s} /\ s \notin C /\ C \subseteq S
  BY <1>1 DEF Counted
<1>3. IsFiniteSet(C)
  BY <1>1, <1>2, FS_Subset
<1>4. Cardinality(C) \in Nat /\ Cardinality(C \cup {s}) = Cardinality(C) + 1
  BY <1>2, <1>3, FS_AddElement, FS_CardinalityType
<1>5. Seqs(C \cup {s}) = Seqs(C) \cup {s.log_seq} /\ \A m \in Seqs(C) : m \in Nat /\ m < s.log_seq
  BY <1>1, <1>2
<1>6. MaxOf(Seqs(C \cup {s})) = s.log_seq
  <2> HIDE DEF Seqs
  <2> QED BY <1>1, <1>5, MaxIsLast
<1>7. (\E r \in C \cup {s} : r.event.type = "TraceFinished") <=> s.event.type = "TraceFinished"
  BY TraceBefore DEF Counted
<1> QED BY <1>2, <1>4, <1>6, <1>7 DEF SummaryOf

\* Another event of the trace does not change its summary.
LEMMA SummaryUnchanged ==
    ASSUME FeedInv, NEW S, NEW s, Precedes(S, s), NEW t,
           t # s.event.trace \/ s.event.type = "Step"
    PROVE  SummaryOf(S \cup {s}, t) = SummaryOf(S, t)
<1>1. Counted(S \cup {s}, t) = Counted(S, t)
  BY DEF Counted
<1> QED BY <1>1 DEF SummaryOf

LEMMA SummariesNext ==
    ASSUME FeedInv, NEW S, NEW s, Precedes(S, s), NEW i, NEW p, NEW q, NEW rows,
           rows = [items |-> i, summaries |-> Summaries(S), policies |-> p, precedents |-> q]
    PROVE  ProjectSummary(rows, s) = [rows EXCEPT !.summaries = Summaries(S \cup {s})]
<1> DEFINE t == s.event.trace
           mine == {r \in rows.summaries : r.trace = t}
           rest == rows.summaries \ mine
           counted == {[r EXCEPT !.count = @ + 1, !.last = s.log_seq] : r \in mine}
           new == SummaryOf(S \cup {s}, t)
<1>1. s.event.type \in EventType /\ \A u : SummaryOf(S, u).trace = u
  BY PrecedesTypes, StoredTypes DEF SummaryOf
<1>2. /\ mine = {SummaryOf(S, u) : u \in StartedIn(S) \cap {t}}
      /\ rest = {SummaryOf(S, u) : u \in StartedIn(S) \ {t}}
  BY <1>1 DEF Summaries
<1>3. \A u \in StartedIn(S) \ {t} : SummaryOf(S \cup {s}, u) = SummaryOf(S, u)
  BY SummaryUnchanged
<1>4. CASE s.event.type = "TraceStarted"
  <2>1. mine = {} /\ StartedIn(S \cup {s}) = (StartedIn(S) \ {t}) \cup {t}
    BY <1>2, <1>4, TraceBefore DEF StartedIn
  <2>2. Counted(S, t) = {}
    BY <1>4, TraceBefore DEF Counted
  <2>3. Cardinality({}) = 0
    BY FS_EmptySet
  <2>4. new = [trace |-> t, finished |-> FALSE, count |-> 1, last |-> s.log_seq]
    <3>1. (s.event.type = "TraceFinished") = FALSE /\ 0 + 1 = 1
      BY <1>4
    <3>2. s.event.type # "Step"
      BY <1>4
    <3> QED BY <2>2, <2>3, <3>1, <3>2, SummaryNext
  <2>5. Summaries(S \cup {s}) = rest \cup {new}
    <3> HIDE DEF new, rest
    <3> QED BY <1>2, <1>3, <2>1 DEF Summaries, new
  <2>6. ProjectSummary(rows, s) =
          [rows EXCEPT !.summaries = rest \cup
             {[trace |-> t, finished |-> FALSE, count |-> 1, last |-> s.log_seq]}]
    BY <1>4, <2>1 DEF ProjectSummary
  <2> HIDE DEF rest, new
  <2> QED BY <2>4, <2>5, <2>6
<1>5. CASE s.event.type = "TraceFinished"
  <2>1. t \in StartedIn(S) /\ StartedIn(S \cup {s}) = (StartedIn(S) \ {t}) \cup {t}
    BY <1>5, TraceBefore DEF StartedIn
  <2>2. mine = {SummaryOf(S, t)}
    BY <1>2, <2>1
  <2>3. new = [trace |-> t, finished |-> TRUE, count |-> Cardinality(Counted(S, t)) + 1,
               last |-> s.log_seq]
    BY <1>5, SummaryNext
  <2>4. {[r EXCEPT !.finished = TRUE] : r \in counted} = {new}
    <3> DEFINE old == SummaryOf(S, t)
               grown == [old EXCEPT !.count = @ + 1, !.last = s.log_seq]
    <3>1. counted = {grown}
      <4> HIDE DEF mine
      <4> QED BY <2>2
    <3>2. old = [trace |-> t, finished |-> old.finished, count |-> Cardinality(Counted(S, t)),
                 last |-> old.last]
      BY DEF SummaryOf
    <3> HIDE DEF old
    <3>3. \A b : [grown EXCEPT !.finished = b] =
                    [trace |-> t, finished |-> b, count |-> Cardinality(Counted(S, t)) + 1,
                     last |-> s.log_seq]
      <4> DEFINE c == Cardinality(Counted(S, t))
                 longer == [old EXCEPT !.count = @ + 1]
      <4> HIDE DEF c
      <4>1. longer = [trace |-> t, finished |-> old.finished, count |-> c + 1, last |-> old.last]
        BY <3>2 DEF c
      <4>2. grown = [longer EXCEPT !.last = s.log_seq]
        BY <3>2
      <4> HIDE DEF longer, grown
      <4>3. grown = [trace |-> t, finished |-> old.finished, count |-> c + 1, last |-> s.log_seq]
        BY <4>1, <4>2
      <4> QED BY <4>3 DEF c
    <3> HIDE DEF counted, grown, new
    <3>4. [grown EXCEPT !.finished = TRUE] = new
      BY <2>3, <3>3, Zenon
    <3> QED BY <3>1, <3>4
  <2>5. Summaries(S \cup {s}) = rest \cup {new}
    <3> HIDE DEF new, rest
    <3> QED BY <1>2, <1>3, <2>1 DEF Summaries, new
  <2>6. ProjectSummary(rows, s) =
          [rows EXCEPT !.summaries = rest \cup {[r EXCEPT !.finished = TRUE] : r \in counted}]
    BY <1>5 DEF ProjectSummary
  <2> HIDE DEF rest, new, counted
  <2> QED BY <2>4, <2>5, <2>6
<1>6. CASE s.event.type = "Step"
  <2>1. StartedIn(S \cup {s}) = StartedIn(S)
    BY <1>6 DEF StartedIn
  <2>2. \A u : SummaryOf(S \cup {s}, u) = SummaryOf(S, u)
    BY <1>6, SummaryUnchanged
  <2>3. Summaries(S \cup {s}) = rows.summaries
    BY <2>1, <2>2 DEF Summaries
  <2>4. ProjectSummary(rows, s) = rows
    BY <1>6 DEF ProjectSummary
  <2> QED BY <2>3, <2>4
<1> QED BY <1>1, <1>4, <1>5, <1>6 DEF EventType

Precedents(S) ==
    {s \in S : /\ s.event.type = "Step"
               /\ \E r \in S : r.event.trace = s.event.trace /\ r.event.type = "TraceFinished"}

LEMMA PrecedentsNext ==
    ASSUME FeedInv, NEW S, NEW s, Precedes(S, s)
    PROVE  Precedents(S \cup {s}) =
             IF s.event.type = "TraceFinished"
             THEN {r \in Precedents(S) : r.event.trace # s.event.trace}
                     \cup {r \in EventsOf(s.event.trace) : r.event.type = "Step"}
             ELSE Precedents(S)
<1>1. CASE s.event.type = "TraceFinished"
  <2>1. {r \in EventsOf(s.event.trace) : r.event.type = "Step"} =
          {r \in S : r.event.trace = s.event.trace /\ r.event.type = "Step"}
    BY <1>1, TraceBefore
  <2> QED BY <1>1, <2>1 DEF Precedents
<1>2. CASE s.event.type # "TraceFinished"
  BY <1>2, TraceBefore DEF Precedents
<1> QED BY <1>1, <1>2

(***************************************************************************)
(* Projecting the event that follows S takes the rows of S to those of S   *)
(* with it, in each of the three projections.                              *)
(***************************************************************************)
LEMMA ProjectNext ==
    ASSUME FeedInv, projection \in Projection, NEW S, NEW s, Precedes(S, s)
    PROVE  ProjectRow(RowsOf(S), s) = RowsOf(S \cup {s})
<1> DEFINE B == S \cup {s}
<1>1. projection \in {"context_graph", "trace_summary", "precedent_index"}
  BY ProjectionAssumption
<1>2. \A X : RowsOf(X) =
        [items |-> IF projection # "context_graph" THEN {} ELSE Items(X),
         summaries |-> IF projection # "trace_summary" THEN {} ELSE Summaries(X),
         policies |-> IF projection # "precedent_index" THEN {} ELSE {r \in X : r.event.type = "Step"},
         precedents |-> IF projection # "precedent_index" THEN {} ELSE Precedents(X)]
  BY DEF RowsOf, Items, Summaries, SummaryOf, StartedIn, Precedents
<1>3. s.event.type \in EventType
  BY PrecedesTypes, StoredTypes
<1>4. CASE projection = "context_graph"
  <2>1. RowsOf(S) = [items |-> Items(S), summaries |-> {}, policies |-> {}, precedents |-> {}]
    BY <1>2, <1>4
  <2>2. RowsOf(B) = [items |-> Items(B), summaries |-> {}, policies |-> {}, precedents |-> {}]
    BY <1>2, <1>4
  <2>3. ProjectRow(RowsOf(S), s) = ProjectGraph(RowsOf(S), s)
    BY <1>4 DEF ProjectRow
  <2>4. ProjectGraph(RowsOf(S), s) = [RowsOf(S) EXCEPT !.items = Items(B)]
    <3> DEFINE rows == RowsOf(S)
               new == {[item |-> i, log_seq |-> s.log_seq] :
                          i \in Emitted(s.event) \ {x.item : x \in rows.items}}
    <3>1. rows.items = Items(S)
      BY <2>1
    <3>2. ProjectGraph(rows, s) = [rows EXCEPT !.items = rows.items \cup new]
      BY <2>1 DEF ProjectGraph
    <3>3. Items(S) \cup new = Items(B)
      BY <3>1, ItemsNext
    <3> HIDE DEF new, rows
    <3>4. ProjectGraph(rows, s) = [rows EXCEPT !.items = Items(B)]
      BY <3>1, <3>2, <3>3
    <3> QED BY <3>4 DEF rows
  <2> QED BY <2>1, <2>2, <2>3, <2>4
<1>5. CASE projection = "trace_summary"
  <2>1. RowsOf(S) = [items |-> {}, summaries |-> Summaries(S), policies |-> {}, precedents |-> {}]
    BY <1>2, <1>5
  <2>2. RowsOf(B) = [items |-> {}, summaries |-> Summaries(B), policies |-> {}, precedents |-> {}]
    BY <1>2, <1>5
  <2>3. ProjectRow(RowsOf(S), s) = ProjectSummary(RowsOf(S), s)
    BY <1>5 DEF ProjectRow
  <2>4. ProjectSummary(RowsOf(S), s) = [RowsOf(S) EXCEPT !.summaries = Summaries(B)]
    BY <2>1, SummariesNext
  <2> QED BY <2>1, <2>2, <2>3, <2>4
<1>6. CASE projection = "precedent_index"
  <2> DEFINE P(X) == {r \in X : r.event.type = "Step"}
  <2>1. \A X : RowsOf(X) = [items |-> {}, summaries |-> {}, policies |-> P(X),
                            precedents |-> Precedents(X)]
    BY <1>2, <1>6
  <2>2. ProjectRow(RowsOf(S), s) = ProjectPrecedent(RowsOf(S), s)
    BY <1>6 DEF ProjectRow
  <2>3. CASE s.event.type = "Step"
    <3>1. ProjectPrecedent(RowsOf(S), s) = [RowsOf(S) EXCEPT !.policies = P(B)]
      BY <2>1, <2>3 DEF ProjectPrecedent
    <3>2. Precedents(B) = Precedents(S)
      BY <2>3, PrecedentsNext
    <3> QED BY <2>1, <2>2, <3>1, <3>2
  <2>4. CASE s.event.type = "TraceFinished"
    <3>1. ProjectPrecedent(RowsOf(S), s) = [RowsOf(S) EXCEPT !.precedents = Precedents(B)]
      BY <2>1, <2>4, PrecedentsNext DEF ProjectPrecedent
    <3>2. P(B) = P(S)
      BY <2>4
    <3> QED BY <2>1, <2>2, <3>1, <3>2
  <2>5. CASE s.event.type = "TraceStarted"
    <3>1. ProjectPrecedent(RowsOf(S), s) = RowsOf(S)
      BY <2>5 DEF ProjectPrecedent
    <3>2. P(B) = P(S) /\ Precedents(B) = Precedents(S)
      BY <2>5, PrecedentsNext
    <3> QED BY <2>1, <2>2, <3>1, <3>2
  <2> QED BY <1>3, <2>3, <2>4, <2>5 DEF EventType
<1> QED BY <1>1, <1>4, <1>5, <1>6

\* Projecting an event of S again changes nothing, where rows are written
\* idempotently.
LEMMA ProjectAgain ==
    ASSUME FeedInv, projection \in {"context_graph", "precedent_index"},
           NEW S, NEW s \in S, IsHistory(S, s)
    PROVE  ProjectRow(RowsOf(S), s) = RowsOf(S)
<1> DEFINE t == s.event.trace
<1>1. S \subseteq StoredEvent /\ s \in log /\ Coherent(S \cup log)
  BY DEF IsHistory
<1>2. \A r \in S : r.log_seq \in Nat
  BY <1>1, StoredTypes
<1>3. CASE projection = "context_graph"
  <2> DEFINE rows == RowsOf(S)
             new == {[item |-> i, log_seq |-> s.log_seq] :
                        i \in Emitted(s.event) \ {x.item : x \in rows.items}}
  <2>1. rows = [items |-> Items(S), summaries |-> {}, policies |-> {}, precedents |-> {}]
    BY <1>3 DEF RowsOf, Items
  <2>2. ProjectRow(rows, s) = [rows EXCEPT !.items = rows.items \cup new]
    BY <1>3, <2>1 DEF ProjectRow, ProjectGraph
  <2>3. Emitted(s.event) \subseteq {x.item : x \in Items(S)}
    BY <1>2, KnownItems
  <2>4. new = {}
    BY <2>1, <2>3
  <2> HIDE DEF new
  <2>5. [rows EXCEPT !.items = rows.items \cup {}] = rows
    BY <2>1
  <2> QED BY <2>2, <2>4, <2>5
<1>4. CASE projection = "precedent_index"
  <2> DEFINE P == {r \in S : r.event.type = "Step"}
             Q == Precedents(S)
  <2>1. RowsOf(S) = [items |-> {}, summaries |-> {}, policies |-> P, precedents |-> Q]
    BY <1>4 DEF RowsOf, Precedents
  <2>2. ProjectRow(RowsOf(S), s) = ProjectPrecedent(RowsOf(S), s)
    BY <1>4 DEF ProjectRow
  <2>3. CASE s.event.type = "Step"
    <3>1. P \cup {s} = P
      BY <2>3
    <3> HIDE DEF P, Q
    <3>2. ProjectPrecedent(RowsOf(S), s) = [RowsOf(S) EXCEPT !.policies = P \cup {s}]
      BY <2>1, <2>3 DEF ProjectPrecedent
    <3> QED BY <2>1, <2>2, <3>1, <3>2
  <2>4. CASE s.event.type = "TraceFinished"
    <3>1. \A r \in S \cup log : r.event.trace = t => r.log_seq <= s.log_seq
      BY <1>1, <2>4 DEF Coherent
    <3>2. \A r : r.event.trace = t => (r \in EventsOf(t) <=> r \in S)
      BY <1>1, <3>1, TraceOf DEF EventsOf
    <3> DEFINE X == {r \in Q : r.event.trace # t} \cup {r \in EventsOf(t) : r.event.type = "Step"}
    <3>3. X = Q
      BY <2>4, <3>2 DEF Precedents, EventsOf
    <3> HIDE DEF P, Q
    <3>4. ProjectPrecedent(RowsOf(S), s) = [RowsOf(S) EXCEPT !.precedents = X]
      BY <2>1, <2>4 DEF ProjectPrecedent
    <3> HIDE DEF X
    <3>5. [RowsOf(S) EXCEPT !.precedents = X] = RowsOf(S)
      BY <2>1, <3>3
    <3> QED BY <2>2, <3>4, <3>5
  <2>5. CASE s.event.type \notin {"Step", "TraceFinished"}
    BY <2>2, <2>5 DEF ProjectPrecedent
  <2> QED BY <2>3, <2>4, <2>5
<1> QED BY <1>3, <1>4

\* The rows of a set of events only depend on the name of the projection.
LEMMA RowsUnchanged ==
    ASSUME UNCHANGED projection
    PROVE  \A S : RowsOf(S)' = RowsOf(S)
BY DEF RowsOf

LEMMA NothingProjected == ASSUME FeedInv PROVE UpTo(0) = {} /\ RowsOf({}) = NoRows
<1>1. UpTo(0) = {}
  BY DEF UpTo, FeedInv, StoredEvent
<1>2. RowsOf({}) = NoRows
  BY DEF RowsOf, NoRows
<1> QED BY <1>1, <1>2

LEMMA LogIsCoherent == FeedInv => Coherent(log)
BY DEF FeedInv, TraceInv, InsertedInv, Coherent

-----------------------------------------------------------------------------
(***************************************************************************)
(* What the holder of the lock has projected, however stale its batch is:  *)
(* whichever events S the tables are the rows of, the rows of the holder   *)
(* are those of S and of its part of the batch, if each event of that part *)
(* is later than S, or may be projected again.                             *)
(***************************************************************************)
Joins(D, S) ==
    \A s \in D :
        /\ \/ s \in S /\ projection # "trace_summary"
           \/ \A r \in S : r.log_seq < s.log_seq
        /\ \A r \in EventsOf(s.event.trace) : r.log_seq < s.log_seq => r \in S \cup D

Adds(D, rows) ==
    \A S \in SUBSET StoredEvent :
        IsFiniteSet(S) /\ Coherent(S \cup log) /\ Joins(D, S) /\ tables = RowsOf(S)
        => rows = RowsOf(S \cup D)

InOrder(D, B) == \A s \in D : \A q \in B : s.log_seq < q.log_seq

BatchInv(x) ==
    /\ x.stage \in {"lock", "project"} => \A s \in x.batch : x.since < s.log_seq
    /\ x.stage = "lock" => x.todo = x.batch
    /\ x.stage = "project" => InOrder(x.batch \ x.todo, x.todo)

HolderInv(x, r) == x.stage = "project" => lock = r /\ Adds(x.batch \ x.todo, x.rows)

CursorInLog == cursor = 0 \/ \E s \in log : s.log_seq = cursor

Inv ==
    /\ TypeInv
    /\ nextLogSeq <= MaxLogSeq + 1
    /\ CursorInLog
    /\ \A r \in Runner : BatchInv(run[r]) /\ HolderInv(run[r], r)

LEMMA InitInv == Init => Inv
<1> SUFFICES ASSUME Init PROVE Inv
  OBVIOUS
<1>1. \A r \in Runner : run[r].stage = "idle"
  BY DEF Init, Idle
<1>2. nextLogSeq = 1 /\ MaxLogSeq \in Nat /\ cursor = 0
  BY ProjectionAssumption DEF Init, InitFeed
<1> QED BY <1>1, <1>2, InitTypeInv DEF Inv, BatchInv, HolderInv, CursorInLog

\* A growing log asks more of S.
LEMMA AddsKept ==
    ASSUME UNCHANGED <<projection, tables>>, log \subseteq log'
    PROVE  \A D, rows : Adds(D, rows) => Adds(D, rows)'
<1>1. \A S : RowsOf(S)' = RowsOf(S)
  BY RowsUnchanged
<1>2. \A t : EventsOf(t) \subseteq EventsOf(t)'
  BY DEF EventsOf
<1>3. ASSUME NEW S PROVE Coherent(S \cup log)' => Coherent(S \cup log)
  BY DEF Coherent, StartsAtZero
<1>4. ASSUME NEW D, NEW S PROVE Joins(D, S)' => Joins(D, S)
  BY <1>2 DEF Joins
<1> SUFFICES ASSUME NEW D, NEW rows, Adds(D, rows), NEW S \in SUBSET StoredEvent,
                    IsFiniteSet(S), Coherent(S \cup log)', Joins(D, S)', tables' = RowsOf(S)'
             PROVE  rows = RowsOf(S \cup D)'
  BY DEF Adds
<1>5. Coherent(S \cup log) /\ Joins(D, S) /\ tables = RowsOf(S)
  BY <1>1, <1>3, <1>4
<1>6. rows = RowsOf(S \cup D)
  BY <1>5 DEF Adds
<1> QED BY <1>1, <1>6

LEMMA AppendInv ==
    ASSUME Inv, TypeInv', Append
    PROVE  Inv'
<1>1. UNCHANGED <<projection, tables, cursor, lock, run>> /\ log \subseteq log'
  BY DEF Append, scopeVars, InsertRow, CommitRow, RollbackRow
<1>2. nextLogSeq' <= MaxLogSeq + 1
  <2>1. nextLogSeq \in Nat /\ MaxLogSeq \in Nat /\ nextLogSeq <= MaxLogSeq + 1
    BY ProjectionAssumption DEF Inv, TypeInv, FeedInv
  <2>2. \/ nextLogSeq' = nextLogSeq
        \/ nextLogSeq <= MaxLogSeq /\ nextLogSeq' = nextLogSeq + 1
    BY DEF Append, InsertRow, CommitRow, RollbackRow
  <2> QED BY <2>1, <2>2
<1>3. \A D, rows : Adds(D, rows) => Adds(D, rows)'
  BY <1>1, AddsKept
<1>4. \A r \in Runner : BatchInv(run[r])' /\ HolderInv(run[r], r)'
  BY <1>1, <1>3 DEF Inv, BatchInv, HolderInv, InOrder
<1>5. CursorInLog'
  BY <1>1 DEF Inv, CursorInLog
<1> QED BY <1>2, <1>4, <1>5 DEF Inv

\* A step of runner r, which leaves the feed alone.
LEMMA MoveInv ==
    ASSUME Inv, TypeInv', NEW r \in Runner, NEW new, Become(r, new),
           UNCHANGED <<feedVars, projection>>,
           lock' = lock \/ lock \in {r, NoRunner},
           UNCHANGED tables \/ lock \in {r, NoRunner},
           CursorInLog',
           BatchInv(new),
           new.stage = "project" =>
              lock' = r /\ UNCHANGED tables /\ Adds(new.batch \ new.todo, new.rows)
    PROVE  Inv'
<1>1. log' = log /\ nextLogSeq' = nextLogSeq /\ projection' = projection
  BY DEF feedVars
<1>2. run'[r] = new /\ \A q \in Runner \ {r} : run'[q] = run[q]
  BY DEF Become, Inv, TypeInv
<1>3. UNCHANGED tables => \A D, rows : Adds(D, rows) => Adds(D, rows)'
  BY <1>1, AddsKept
<1>4. ASSUME NEW q \in Runner PROVE BatchInv(run[q])'
  BY <1>2 DEF Inv, BatchInv, InOrder
<1>5. ASSUME NEW q \in Runner PROVE HolderInv(run[q], q)'
  <2>1. CASE q = r
    BY <1>2, <1>3, <2>1 DEF HolderInv
  <2>2. CASE q # r
    <3>1. HolderInv(run[q], q)
      BY DEF Inv
    <3>2. run[q].stage = "project" => lock' = q /\ UNCHANGED tables
      BY <2>2, <3>1, ProjectionAssumption DEF HolderInv
    <3> QED BY <1>2, <1>3, <2>2, <3>1, <3>2 DEF HolderInv
  <2> QED BY <2>1, <2>2
<1> QED BY <1>1, <1>4, <1>5 DEF Inv

\* The next event of a batch adds itself to the rows of its runner.
LEMMA ProjectAdds ==
    ASSUME Inv, NEW r \in Runner, run[r].stage = "project",
           NEW s \in run[r].todo, IsNext(r, s)
    PROVE  /\ InOrder((run[r].batch \ run[r].todo) \cup {s}, run[r].todo \ {s})
           /\ Adds((run[r].batch \ run[r].todo) \cup {s}, ProjectRow(run[r].rows, s))
<1> DEFINE D == run[r].batch \ run[r].todo
           B == run[r].todo
           rows == run[r].rows
<1>1. /\ B \subseteq run[r].batch /\ run[r].batch \subseteq log
      /\ FeedInv /\ projection \in Projection
      /\ s \in B /\ D \subseteq log
  BY DEF Inv, TypeInv
<1>2. InOrder(D, B) /\ Adds(D, rows)
  BY DEF Inv, BatchInv, HolderInv
<1>3. /\ \A q \in log : q \in StoredEvent /\ q.log_seq \in Nat
      /\ \A p, q \in log : p.log_seq = q.log_seq => p = q
      /\ log \subseteq StoredEvent
  BY <1>1, StoredTypes DEF FeedInv, InsertedInv
<1>4. \A q \in B \ {s} : s.log_seq < q.log_seq
  <2>1. \A q \in B : ~(q.log_seq < s.log_seq)
    BY DEF IsNext, Earlier
  <2> QED BY <1>1, <1>3, <2>1
<1> HIDE DEF D, B, rows
<1>5. InOrder(D \cup {s}, B \ {s})
  BY <1>1, <1>2, <1>4 DEF InOrder
<1>6. ASSUME NEW S \in SUBSET StoredEvent, IsFiniteSet(S), Coherent(S \cup log),
             Joins(D \cup {s}, S), tables = RowsOf(S)
      PROVE  ProjectRow(rows, s) = RowsOf(S \cup (D \cup {s}))
  <2>1. \A q \in D : q.log_seq < s.log_seq
    BY <1>1, <1>2 DEF InOrder
  <2>2. Joins(D, S)
    <3> SUFFICES ASSUME NEW q \in D, NEW p \in EventsOf(q.event.trace), p.log_seq < q.log_seq
                 PROVE  p \in S \cup D
      BY <1>6 DEF Joins
    <3>1. p \in S \cup (D \cup {s})
      BY <1>6 DEF Joins
    <3>2. p.log_seq \in Nat /\ q.log_seq \in Nat /\ s.log_seq \in Nat
      BY <1>1, <1>3 DEF EventsOf
    <3>3. p # s
      BY <2>1, <3>2
    <3> QED BY <3>1, <3>3
  <2>3. rows = RowsOf(S \cup D)
    BY <1>2, <1>6, <2>2 DEF Adds
  <2> DEFINE T == S \cup D
  <2>4. IsHistory(T, s)
    <3>1. IsFiniteSet(T)
      <4>1. IsFiniteSet(D)
        BY <1>1, FS_Subset DEF FeedInv
      <4> QED BY <1>6, <4>1, FS_Union
    <3>2. T \cup log = S \cup log /\ T \in SUBSET StoredEvent
      BY <1>1, <1>3
    <3>3. Coherent(T \cup log)
      BY <1>6, <3>2
    <3>4. s \in log
      BY <1>1
    <3>5. \A p \in EventsOf(s.event.trace) : p.log_seq < s.log_seq => p \in T
      <4>1. \A p \in EventsOf(s.event.trace) :
               p.log_seq < s.log_seq => p \in S \cup (D \cup {s})
        BY <1>6 DEF Joins
      <4>2. \A p \in EventsOf(s.event.trace) : p.log_seq < s.log_seq => p # s
        BY <1>1, <1>3
      <4> QED BY <4>1, <4>2
    <3> HIDE DEF T
    <3> QED BY <3>1, <3>2, <3>3, <3>4, <3>5 DEF IsHistory
  <2>5. S \cup (D \cup {s}) = T \cup {s}
    OBVIOUS
  <2>6. CASE s \in S /\ projection # "trace_summary"
    <3>1. projection \in {"context_graph", "precedent_index"}
      BY <1>1, <2>6, ProjectionAssumption
    <3>2. s \in T /\ T \cup {s} = T
      BY <2>6
    <3> HIDE DEF T
    <3>3. ProjectRow(RowsOf(T), s) = RowsOf(T)
      BY <1>1, <2>4, <3>1, <3>2, ProjectAgain
    <3> QED BY <2>3, <2>5, <3>2, <3>3 DEF T
  <2>7. CASE \A p \in S : p.log_seq < s.log_seq
    <3>1. \A p \in T : p.log_seq < s.log_seq
      BY <2>1, <2>7
    <3> HIDE DEF T
    <3>2. ProjectRow(RowsOf(T), s) = RowsOf(T \cup {s})
      BY <1>1, <2>4, <3>1, ProjectNext DEF Precedes
    <3> QED BY <2>3, <2>5, <3>2 DEF T
  <2> QED BY <1>6, <2>6, <2>7 DEF Joins
<1>7. Adds(D \cup {s}, ProjectRow(rows, s))
  BY <1>6 DEF Adds
<1> QED BY <1>5, <1>7 DEF D, B, rows

LEMMA NextInv == Inv /\ [Next]_vars => Inv'
<1> SUFFICES ASSUME Inv, [Next]_vars PROVE Inv'
  OBVIOUS
<1>1. TypeInv /\ TypeInv' /\ CursorInLog
  BY NextTypeInv DEF Inv
<1>2. CASE UNCHANGED vars
  <2>1. UNCHANGED <<log, nextLogSeq, projection, tables, cursor, lock, run>>
    BY <1>2 DEF vars, feedVars, scopeVars
  <2>2. \A D, rows : Adds(D, rows) => Adds(D, rows)'
    BY <2>1, AddsKept
  <2>3. \A r \in Runner : BatchInv(run[r])' /\ HolderInv(run[r], r)'
    BY <2>1, <2>2 DEF Inv, BatchInv, HolderInv, InOrder
  <2> QED BY <1>1, <2>1, <2>3 DEF Inv, CursorInLog
<1>3. CASE Append
  BY <1>1, <1>3, AppendInv
<1>4. ASSUME NEW r \in Runner, Next!2!(r) PROVE Inv'
  <2> DEFINE me == run[r]
  <2>1. /\ me \in Run /\ me.todo \subseteq me.batch /\ me.batch \in SUBSET log
        /\ \A s \in log : s.log_seq \in Nat
        /\ cursor \in Nat
    BY <1>1, StoredTypes DEF TypeInv, FeedInv
  <2>2. BatchInv(me) /\ HolderInv(me, r)
    BY DEF Inv
  <2>3. \A x : x.stage \notin {"lock", "project"} => BatchInv(x)
    BY DEF BatchInv
  <2>4. Unlock(r) => lock' = lock \/ lock \in {r, NoRunner}
    BY DEF Unlock
  <2>5. Idle \in Run /\ Idle.stage = "idle"
    BY IdleType DEF Idle
  <2>6. \A n, st : [Idle EXCEPT !.stage = st, !.since = n].stage = st
    BY <2>5 DEF Run
  <2>7. \A s : Halted(r, s).stage \notin {"lock", "project"}
    BY <2>5, <2>6 DEF Halted
  <2>8. [Idle EXCEPT !.stage = "stopped"].stage = "stopped"
    BY <2>5 DEF Run
  <2>9. UNCHANGED <<log, cursor>> => CursorInLog'
    BY <1>1 DEF CursorInLog
  <2>10. ASSUME NEW new, Become(r, new), new.stage \notin {"lock", "project"},
                UNCHANGED <<feedVars, projection, tables, cursor>>,
                lock' = lock \/ lock \in {r, NoRunner}
         PROVE  Inv'
    <3>1. CursorInLog' /\ UNCHANGED <<feedVars, projection>>
      BY <2>9, <2>10 DEF feedVars
    <3> HIDE DEF me
    <3> QED BY <1>1, <2>3, <2>10, <3>1, MoveInv
  <2>11. CASE \E mode \in Modes[r], until \in Until : Start(r, mode, until)
    <3>1. PICK mode \in Modes[r], until \in Until : Start(r, mode, until)
      BY <2>11
    <3> DEFINE st == IF mode = "rebuild" THEN "clear" ELSE "cursor"
               new == [Idle EXCEPT !.stage = st, !.until = until]
    <3>2. new.stage \notin {"lock", "project"}
      BY <2>5 DEF Run
    <3>3. Become(r, new)
      BY <3>1 DEF Start
    <3>4. UNCHANGED <<feedVars, projection, tables, cursor, lock>>
      BY <3>1 DEF Start
    <3> HIDE DEF new, me
    <3> QED BY <2>10, <3>2, <3>3, <3>4
  <2>12. CASE Clear(r)
    <3> DEFINE new == [me EXCEPT !.stage = "cursor"]
    <3>1. new.stage = "cursor"
      BY <2>1 DEF Run
    <3>2. /\ Become(r, new) /\ UNCHANGED <<feedVars, projection, lock>>
          /\ lock = NoRunner /\ cursor' = 0
      BY <2>12 DEF Clear, Move
    <3>3. CursorInLog'
      BY <3>2 DEF CursorInLog
    <3> HIDE DEF new, me
    <3> QED BY <1>1, <2>3, <3>1, <3>2, <3>3, MoveInv
  <2>13. CASE AcquireProjectionLock(r)
    <3> DEFINE new == [me EXCEPT !.stage = "project", !.rows = tables]
    <3>1. /\ new.stage = "project" /\ new.rows = tables /\ new.since = me.since
          /\ new.batch = me.batch /\ new.todo = me.todo
      BY <2>1 DEF Run
    <3>2. /\ Become(r, new) /\ UNCHANGED <<feedVars, projection, tables, cursor>>
          /\ lock = NoRunner /\ lock' = r /\ me.stage = "lock"
      BY <2>13 DEF AcquireProjectionLock, Move
    <3>3. me.todo = me.batch
      BY <2>2, <3>2 DEF BatchInv
    <3> HIDE DEF new
    <3>4. BatchInv(new)
      BY <2>2, <3>1, <3>2, <3>3 DEF BatchInv, InOrder
    <3>5. Adds(new.batch \ new.todo, new.rows)
      <4>1. new.batch \ new.todo = {} /\ new.rows = tables
        BY <3>1, <3>3
      <4>2. \A S : S \cup {} = S
        OBVIOUS
      <4>3. Adds({}, tables)
        BY <4>2 DEF Adds
      <4> QED BY <4>1, <4>3
    <3>6. CursorInLog' /\ UNCHANGED <<feedVars, projection, tables>>
      BY <2>9, <3>2 DEF feedVars
    <3> HIDE DEF me
    <3> QED BY <1>1, <3>2, <3>4, <3>5, <3>6, MoveInv
  <2>14. CASE ReadCursor(r)
    <3> DEFINE new == [me EXCEPT !.stage = "tracker", !.since = cursor]
    <3>1. new.stage = "tracker"
      BY <2>1 DEF Run
    <3>2. Become(r, new) /\ UNCHANGED <<feedVars, projection, tables, cursor, lock>>
      BY <2>14 DEF ReadCursor, Move
    <3> HIDE DEF new, me
    <3> QED BY <2>10, <3>1, <3>2
  <2>15. CASE LoadTracker(r)
    <3> DEFINE tr == TrackerAt(me.since)
               new == [me EXCEPT !.stage = "fetch", !.tracker = tr]
    <3> HIDE DEF tr
    <3>1. new.stage = "fetch"
      BY <2>1 DEF Run
    <3>2. Become(r, new) /\ UNCHANGED <<feedVars, projection, tables, cursor, lock>>
      BY <2>15 DEF LoadTracker, Move, tr
    <3> HIDE DEF new, me
    <3> QED BY <2>10, <3>1, <3>2
  <2>16. CASE ReadBatch(r)
    <3> DEFINE b == BatchAfter(me.since, me.until)
               new == [me EXCEPT !.stage = "lock", !.batch = b, !.todo = b]
    <3>1. Become(r, IF b = {} THEN Idle ELSE new)
      BY <2>16 DEF ReadBatch, Move
    <3>2. UNCHANGED <<feedVars, projection, tables, cursor, lock>>
      BY <2>16 DEF ReadBatch, Move
    <3>3. CASE b = {}
      <4> HIDE DEF b, new, me
      <4> QED BY <2>5, <2>10, <3>1, <3>2, <3>3
    <3>4. CASE b # {}
      <4>1. \A s \in b : me.since < s.log_seq
        BY <2>1 DEF BatchAfter, UpTo, Run
      <4> HIDE DEF b
      <4>2. /\ new.stage = "lock" /\ new.batch = b /\ new.todo = b /\ new.since = me.since
        BY <2>1 DEF Run
      <4>3. Become(r, new)
        BY <3>1, <3>4
      <4> HIDE DEF new
      <4>4. BatchInv(new)
        BY <4>1, <4>2 DEF BatchInv
      <4>5. CursorInLog'
        BY <2>9, <3>2 DEF feedVars
      <4>6. new.stage # "project" /\ UNCHANGED <<feedVars, projection>>
        BY <3>2, <4>2
      <4> HIDE DEF me
      <4> QED BY <1>1, <3>2, <4>3, <4>4, <4>5, <4>6, MoveInv
    <3> QED BY <3>3, <3>4
  <2>17. CASE ProjectEvent(r)
    <3>1. PICK s \in me.todo : ProjectEvent(r)!(s)
      BY <2>17 DEF ProjectEvent
    <3>2. /\ me.stage = "project" /\ IsNext(r, s)
          /\ UNCHANGED <<feedVars, projection, tables, cursor, failures>>
      BY <3>1 DEF Move
    <3>3. lock = r
      BY <2>2, <3>2 DEF HolderInv
    <3>4. CASE s.event.trace_seq = me.tracker[s.event.trace]
      <4> DEFINE d == me.todo \ {s}
                 tr == [me.tracker EXCEPT ![s.event.trace] = @ + 1]
                 rw == ProjectRow(me.rows, s)
                 new == [me EXCEPT !.todo = d, !.tracker = tr, !.rows = rw]
      <4>1. Become(r, new)
        BY <3>1, <3>4 DEF Move
      <4>2. lock' = lock
        BY <3>1, <3>4
      <4>3. /\ InOrder((me.batch \ me.todo) \cup {s}, d)
            /\ Adds((me.batch \ me.todo) \cup {s}, rw)
        BY <3>2, ProjectAdds
      <4>4. me.batch \ d = (me.batch \ me.todo) \cup {s}
        BY <2>1
      <4> HIDE DEF d, tr, rw
      <4>5. /\ new.stage = "project" /\ new.batch = me.batch /\ new.todo = d /\ new.rows = rw
            /\ new.since = me.since
        BY <2>1, <3>2 DEF Run
      <4> HIDE DEF new
      <4>6. BatchInv(new)
        <5>1. \A q \in new.batch : new.since < q.log_seq
          BY <2>2, <3>2, <4>5 DEF BatchInv
        <5>2. InOrder(new.batch \ new.todo, new.todo)
          BY <4>3, <4>4, <4>5
        <5> QED BY <4>5, <5>1, <5>2 DEF BatchInv
      <4>7. Adds(new.batch \ new.todo, new.rows)
        BY <4>3, <4>4, <4>5
      <4>8. CursorInLog'
        BY <2>9, <3>2 DEF feedVars
      <4>9. lock' = r /\ UNCHANGED <<feedVars, projection, tables>>
        BY <3>2, <3>3, <4>2
      <4> HIDE DEF me
      <4> QED BY <1>1, <3>3, <4>1, <4>6, <4>7, <4>8, <4>9, MoveInv
    <3>5. CASE s.event.trace_seq # me.tracker[s.event.trace]
      <4>1. Become(r, Halted(r, s))
        BY <3>1, <3>5 DEF Move
      <4> HIDE DEF me
      <4> QED BY <2>7, <2>10, <3>2, <3>3, <4>1
    <3> QED BY <3>4, <3>5
  <2>18. CASE CommitBatch(r)
    <3> DEFINE n == LastOf(me.batch)
               new == [me EXCEPT !.stage = "fetch", !.since = n, !.batch = {}, !.rows = NoRows]
    <3>1. /\ me.stage = "project" /\ UNCHANGED <<feedVars, projection>> /\ cursor' = n
          /\ Become(r, new)
      BY <2>18 DEF CommitBatch, NextBatch, Move
    <3>2. lock = r
      BY <2>2, <3>1 DEF HolderInv
    <3>3. \E s \in log : s.log_seq = n
      <4>1. me.batch # {}
        BY <1>1, <3>1 DEF TypeInv
      <4> QED BY <1>1, <2>1, <4>1, LastType DEF TypeInv
    <3> HIDE DEF n
    <3>4. new.stage = "fetch"
      BY <2>1 DEF Run
    <3>5. CursorInLog'
      BY <3>1, <3>3 DEF CursorInLog, feedVars
    <3> HIDE DEF new, me
    <3> QED BY <1>1, <2>3, <3>1, <3>2, <3>4, <3>5, MoveInv
  <2>19. CASE FindFailedEvent(r)
    <3>1. \/ Become(r, [Idle EXCEPT !.stage = "stopped"])
          \/ \E s \in log : Become(r, Halted(r, s))
      BY <2>19 DEF FindFailedEvent, Move
    <3>2. UNCHANGED <<feedVars, projection, tables, cursor, lock>>
      BY <2>19 DEF FindFailedEvent, Move
    <3> HIDE DEF me
    <3>3. CASE Become(r, [Idle EXCEPT !.stage = "stopped"])
      BY <2>8, <2>10, <3>2, <3>3
    <3>4. CASE \E s \in log : Become(r, Halted(r, s))
      BY <2>7, <2>10, <3>2, <3>4
    <3> QED BY <3>1, <3>3, <3>4
  <2>20. CASE RecordFailure(r)
    <3>1. Become(r, [Idle EXCEPT !.stage = "stopped"])
      BY <2>20 DEF RecordFailure, Move
    <3>2. UNCHANGED <<feedVars, projection, tables, cursor, lock>>
      BY <2>20 DEF RecordFailure, Move
    <3> HIDE DEF me
    <3> QED BY <2>8, <2>10, <3>1, <3>2
  <2>21. CASE FailTerminally(r)
    <3>1. Become(r, Blamed(r)) \/ \E s \in me.todo : Become(r, Halted(r, s))
      BY <2>21 DEF FailTerminally
    <3>2. UNCHANGED <<feedVars, projection, tables, cursor>> /\ Unlock(r)
      BY <2>21 DEF FailTerminally
    <3>3. Blamed(r).stage = "find"
      <4> DEFINE n == IF run[r].stage \in {"lock", "project"} THEN run[r].since ELSE 0
      <4>1. Blamed(r) = [Idle EXCEPT !.stage = "find", !.since = n]
        BY DEF Blamed
      <4> HIDE DEF n
      <4> QED BY <2>6, <4>1
    <3> HIDE DEF me
    <3>4. CASE Become(r, Blamed(r))
      BY <2>4, <2>10, <3>2, <3>3, <3>4
    <3>5. CASE \E s \in me.todo : Become(r, Halted(r, s))
      BY <2>4, <2>7, <2>10, <3>2, <3>5
    <3> QED BY <3>1, <3>4, <3>5
  <2>22. CASE FindNone(r)
    <3>1. Become(r, [Idle EXCEPT !.stage = "stopped"])
      BY <2>22 DEF FindNone, Move
    <3>2. UNCHANGED <<feedVars, projection, tables, cursor, lock>>
      BY <2>22 DEF FindNone, Move
    <3> HIDE DEF me
    <3> QED BY <2>8, <2>10, <3>1, <3>2
  <2>23. CASE Crash(r)
    <3>1. Become(r, Idle) /\ UNCHANGED <<feedVars, projection, tables, cursor>> /\ Unlock(r)
      BY <2>23 DEF Crash
    <3> HIDE DEF me
    <3> QED BY <2>4, <2>5, <2>10, <3>1
  <2> QED BY <1>4, <2>11, <2>12, <2>13, <2>14, <2>15, <2>16, <2>17, <2>18, <2>19, <2>20,
             <2>21, <2>22, <2>23 DEF Progress
<1> QED BY <1>1, <1>2, <1>3, <1>4 DEF Next

-----------------------------------------------------------------------------
(***************************************************************************)
(* The steps that change the log, the tables or the cursor.                *)
(***************************************************************************)
LEMMA Changes ==
    ASSUME [Next]_vars
    PROVE  \/ UNCHANGED <<log, projection, tables, cursor>>
           \/ /\ \E s \in inserted : log' = log \cup {s}
              /\ UNCHANGED <<projection, tables, cursor>>
           \/ \E r \in Runner : Clear(r) \/ CommitBatch(r)
<1>1. CASE UNCHANGED vars
  BY <1>1 DEF vars, feedVars, scopeVars
<1>2. CASE Append
  BY <1>2 DEF Append, scopeVars, InsertRow, CommitRow, RollbackRow
<1>3. ASSUME NEW r \in Runner, Next!2!(r)
      PROVE  UNCHANGED <<log, projection, tables, cursor>> \/ Clear(r) \/ CommitBatch(r)
  BY <1>3 DEF Start, AcquireProjectionLock, Progress, ReadCursor, LoadTracker, ReadBatch,
              ProjectEvent, FindFailedEvent, FindNone, RecordFailure, FailTerminally, Crash,
              Move, feedVars
<1> QED BY <1>1, <1>2, <1>3 DEF Next

\* What a commit does to the tables, when they were the rows of S.
LEMMA CommitAdds ==
    ASSUME Inv, NEW r \in Runner, CommitBatch(r),
           NEW S \in SUBSET log, tables = RowsOf(S), Joins(run[r].batch, S)
    PROVE  tables' = RowsOf(S \cup run[r].batch)
<1>1. run[r].stage = "project" /\ run[r].todo = {} /\ tables' = run[r].rows
  BY DEF CommitBatch, Move
<1>2. Adds(run[r].batch, run[r].rows)
  <2>1. Adds(run[r].batch \ run[r].todo, run[r].rows)
    BY <1>1 DEF Inv, HolderInv
  <2>2. run[r].batch \ run[r].todo = run[r].batch
    BY <1>1
  <2> QED BY <2>1, <2>2
<1>3. FeedInv
  BY DEF Inv, TypeInv
<1>4. IsFiniteSet(S) /\ S \in SUBSET StoredEvent
  BY <1>3, FS_Subset DEF FeedInv
<1>5. Coherent(S \cup log)
  <2>1. S \cup log = log
    OBVIOUS
  <2> QED BY <1>3, <2>1, LogIsCoherent
<1> QED BY <1>1, <1>2, <1>4, <1>5 DEF Adds

\* The holder of the lock commits what follows the cursor it has read.
LEMMA CommitFacts ==
    ASSUME Inv, NEW r \in Runner, CommitBatch(r)
    PROVE  /\ lock = r /\ lock \in Runner
           /\ cursor' = LastOf(run[r].batch) /\ run[r].since \in Nat
           /\ LastOf(run[r].batch) \in Nat /\ LastOf(run[r].batch) <= MaxLogSeq
           /\ run[r].batch \subseteq log
           /\ \A s \in run[r].batch : /\ s.log_seq \in Nat /\ run[r].since < s.log_seq
                                      /\ s.log_seq <= LastOf(run[r].batch)
           /\ run[r].since < LastOf(run[r].batch)
           /\ UNCHANGED <<log, projection>>
<1>1. /\ run[r].stage = "project" /\ cursor' = LastOf(run[r].batch)
      /\ UNCHANGED <<log, projection>>
  BY DEF CommitBatch, Move, feedVars
<1>2. lock = r
  BY <1>1 DEF Inv, HolderInv
<1>3. \A s \in run[r].batch : run[r].since < s.log_seq
  BY <1>1 DEF Inv, BatchInv
<1>4. run[r].batch # {} /\ run[r].batch \in SUBSET log /\ FeedInv /\ run[r].since \in Nat
  BY <1>1 DEF Inv, TypeInv, Run
<1>5. \A s \in run[r].batch : s.log_seq \in Nat
  BY <1>4, StoredTypes DEF FeedInv
<1> DEFINE n == LastOf(run[r].batch)
<1>6. /\ n \in Nat /\ n < nextLogSeq
      /\ \E s \in run[r].batch : s.log_seq = n
      /\ \A s \in run[r].batch : s.log_seq <= n
  BY <1>4, LastType
<1> HIDE DEF n
<1>7. n <= MaxLogSeq
  <2>1. nextLogSeq \in Nat /\ MaxLogSeq \in Nat /\ nextLogSeq <= MaxLogSeq + 1
    BY <1>4, ProjectionAssumption DEF Inv, FeedInv
  <2> QED BY <1>6, <2>1
<1>8. run[r].since < n
  BY <1>3, <1>6
<1> QED BY <1>1, <1>2, <1>3, <1>4, <1>5, <1>6, <1>7, <1>8 DEF n

\* A batch without a gap joins any prefix of the log that reaches to it.
LEMMA BatchJoins ==
    ASSUME Inv, NEW r \in Runner, CommitBatch(r), ~HasGap(r), NEW m \in Nat, run[r].since <= m,
           m = run[r].since \/ projection # "trace_summary"
    PROVE  /\ Joins(run[r].batch, UpTo(m))
           /\ UpTo(m) \cup run[r].batch =
                 UpTo(IF m <= LastOf(run[r].batch) THEN LastOf(run[r].batch) ELSE m)
<1> DEFINE B == run[r].batch
           n == LastOf(B)
           since == run[r].since
<1>1. /\ n \in Nat /\ since \in Nat /\ B \subseteq log
      /\ \A s \in B : s.log_seq \in Nat /\ since < s.log_seq /\ s.log_seq <= n
  BY CommitFacts
<1>2. UpTo(n) \ UpTo(since) = B
  BY DEF HasGap
<1>3. \A s \in log : s.log_seq \in Nat
  BY StoredTypes DEF Inv, TypeInv, FeedInv
<1>4. since <= m /\ (m = since \/ projection # "trace_summary")
  OBVIOUS
<1> HIDE DEF B, n, since
<1>5. \A s \in log : s.log_seq <= n => s \in B \/ s.log_seq <= since
  BY <1>2 DEF UpTo
<1>6. Joins(B, UpTo(m))
  <2>1. ASSUME NEW s \in B
        PROVE  \/ s \in UpTo(m) /\ projection # "trace_summary"
               \/ \A q \in UpTo(m) : q.log_seq < s.log_seq
    <3>1. CASE s.log_seq <= m
      BY <1>1, <1>4, <3>1 DEF UpTo
    <3>2. CASE ~(s.log_seq <= m)
      BY <1>1, <1>3, <3>2 DEF UpTo
    <3> QED BY <3>1, <3>2
  <2>2. ASSUME NEW s \in B, NEW q \in EventsOf(s.event.trace), q.log_seq < s.log_seq
        PROVE  q \in UpTo(m) \cup B
    <3>1. q \in log /\ q.log_seq \in Nat
      BY <1>3 DEF EventsOf
    <3>2. q.log_seq <= n
      BY <1>1, <2>2, <3>1
    <3>3. q \in B \/ q.log_seq <= since
      BY <1>5, <3>1, <3>2
    <3> QED BY <1>1, <1>4, <3>1, <3>3 DEF UpTo
  <2> QED BY <2>1, <2>2 DEF Joins
<1>7. UpTo(m) \cup B = UpTo(IF m <= n THEN n ELSE m)
  BY <1>1, <1>3, <1>4, <1>5 DEF UpTo
<1> QED BY <1>6, <1>7 DEF B, n, since

-----------------------------------------------------------------------------
(***************************************************************************)
(* However many runners overlap, crash or rebuild: the tables stop being   *)
(* those of the log up to the cursor only when a row becomes visible       *)
(* behind the cursor, or in the commit of a batch that somebody else has   *)
(* moved the cursor away from, or that misses a row.                       *)
(***************************************************************************)
THEOREM StaleBatchesDiverge == Spec => OnlyStaleBatchesDiverge
<1>1. ASSUME Inv, [Next]_vars, RowsMatchLog, ~RowsMatchLog',
             ~\E s \in log' \ log : s.log_seq <= cursor
      PROVE  lock \in Runner /\ (IsStale(lock) \/ HasGap(lock))
  <2>1. tables = RowsOf(UpTo(cursor)) /\ cursor \in Nat /\ FeedInv
    BY <1>1 DEF RowsMatchLog, Inv, TypeInv
  <2>2. CASE UNCHANGED <<log, projection, tables, cursor>>
    <3>1. UpTo(cursor)' = UpTo(cursor)
      BY <2>2 DEF UpTo
    <3>2. RowsOf(UpTo(cursor))' = RowsOf(UpTo(cursor))
      BY <2>2, <3>1, RowsUnchanged
    <3> QED BY <1>1, <2>1, <2>2, <3>2 DEF RowsMatchLog
  <2>3. CASE (\E s \in inserted : log' = log \cup {s}) /\ UNCHANGED <<projection, tables, cursor>>
    <3>1. UpTo(cursor)' = UpTo(cursor)
      BY <1>1, <2>3 DEF UpTo
    <3>2. RowsOf(UpTo(cursor))' = RowsOf(UpTo(cursor))
      BY <2>3, <3>1, RowsUnchanged
    <3> QED BY <1>1, <2>1, <2>3, <3>2 DEF RowsMatchLog
  <2>4. ASSUME NEW r \in Runner, Clear(r) PROVE FALSE
    <3>1. tables' = NoRows /\ cursor' = 0 /\ UNCHANGED <<log, projection>>
      BY <2>4 DEF Clear, Move, feedVars
    <3>2. UpTo(cursor)' = UpTo(0) /\ UpTo(0) = {} /\ RowsOf({}) = NoRows
      BY <2>1, <3>1, NothingProjected DEF UpTo
    <3>3. RowsOf(UpTo(cursor))' = NoRows
      BY <3>1, <3>2, RowsUnchanged
    <3> QED BY <1>1, <3>1, <3>3 DEF RowsMatchLog
  <2>5. ASSUME NEW r \in Runner, CommitBatch(r), ~IsStale(r), ~HasGap(r) PROVE FALSE
    <3>1. /\ cursor' = LastOf(run[r].batch) /\ UNCHANGED <<log, projection>>
          /\ run[r].since < LastOf(run[r].batch) /\ LastOf(run[r].batch) \in Nat
      BY <1>1, <2>5, CommitFacts
    <3>2. run[r].since = cursor
      BY <2>5 DEF IsStale
    <3> DEFINE n == LastOf(run[r].batch)
    <3>3. Joins(run[r].batch, UpTo(cursor)) /\ UpTo(cursor) \cup run[r].batch = UpTo(n)
      <4>1. /\ Joins(run[r].batch, UpTo(cursor))
            /\ UpTo(cursor) \cup run[r].batch = UpTo(IF cursor <= n THEN n ELSE cursor)
        BY <1>1, <2>1, <2>5, <3>2, BatchJoins
      <4>2. cursor <= n
        BY <2>1, <3>1, <3>2
      <4> QED BY <4>1, <4>2
    <3>4. UpTo(cursor) \in SUBSET log
      BY DEF UpTo
    <3>5. tables' = RowsOf(UpTo(n))
      BY <1>1, <2>1, <2>5, <3>3, <3>4, CommitAdds
    <3> HIDE DEF n
    <3>6. UpTo(cursor)' = UpTo(n)
      BY <3>1 DEF UpTo, n
    <3>7. RowsOf(UpTo(cursor))' = RowsOf(UpTo(n))
      BY <3>1, <3>6, RowsUnchanged
    <3> QED BY <1>1, <3>5, <3>7 DEF RowsMatchLog
  <2>6. ASSUME NEW r \in Runner, CommitBatch(r) PROVE lock = r
    BY <1>1, <2>6, CommitFacts
  <2> QED BY <1>1, <2>2, <2>3, <2>4, <2>5, <2>6, Changes
<1>2. Inv /\ [Next]_vars
      => [RowsMatchLog /\ ~RowsMatchLog'
          => \/ \E s \in log' \ log : s.log_seq <= cursor
             \/ lock \in Runner /\ (IsStale(lock) \/ HasGap(lock))]_vars
  BY <1>1
<1> QED BY <1>2, InitInv, NextInv, PTL DEF Spec, OnlyStaleBatchesDiverge

(***************************************************************************)
(* The cursor moves back when the scope is cleared, the tables with it, or *)
(* in the commit of a batch that was read before the cursor moved.         *)
(***************************************************************************)
THEOREM StaleBatchesRewind == Spec => OnlyStaleRewinds
<1>1. ASSUME Inv, [Next]_vars, cursor' < cursor
      PROVE  \/ cursor' = 0 /\ tables' = NoRows
             \/ lock \in Runner /\ IsStale(lock)
  <2>1. cursor \in Nat
    BY <1>1 DEF Inv, TypeInv
  <2>2. PICK r \in Runner : Clear(r) \/ CommitBatch(r)
    BY <1>1, <2>1, Changes
  <2>3. CASE Clear(r)
    BY <2>3 DEF Clear
  <2>4. CASE CommitBatch(r)
    <3>1. /\ lock = r /\ cursor' = LastOf(run[r].batch) /\ run[r].since \in Nat
          /\ LastOf(run[r].batch) \in Nat /\ run[r].since < LastOf(run[r].batch)
      BY <1>1, <2>4, CommitFacts
    <3>2. run[r].since # cursor
      BY <1>1, <2>1, <3>1
    <3> QED BY <3>1, <3>2 DEF IsStale
  <2> QED BY <2>2, <2>3, <2>4
<1>2. Inv /\ [Next]_vars
      => [cursor' < cursor => \/ cursor' = 0 /\ tables' = NoRows
                              \/ lock \in Runner /\ IsStale(lock)]_vars
  BY <1>1
<1> QED BY <1>2, InitInv, NextInv, PTL DEF Spec, OnlyStaleRewinds

(***************************************************************************)
(* Where rows are written idempotently, overlapping runs alone skip no     *)
(* event: it takes a row that becomes visible out of order, a batch with a *)
(* gap, or one that was read after events the tables no longer have.       *)
(***************************************************************************)
THEOREM GapsSkip == Spec => OnlyGapsSkip
<1>1. ASSUME Inv, [Next]_vars, NothingSkipped, ~NothingSkipped',
             ~\E s \in log' \ log, r \in log : s.log_seq < r.log_seq,
             projection # "trace_summary"
      PROVE  lock \in Runner /\ (HasGap(lock) \/ ~Reaches(run[lock].since))
  <2>1. cursor \in Nat /\ FeedInv /\ MaxLogSeq \in Nat /\ CursorInLog
    BY <1>1, ProjectionAssumption DEF Inv, TypeInv
  <2>2. \A s \in log \cup inserted : s.log_seq \in Nat \ {0}
    BY <2>1, StoredTypes DEF FeedInv
  <2>3. PICK m \in cursor .. MaxLogSeq : tables = RowsOf(UpTo(m))
    BY <1>1 DEF NothingSkipped, Reaches
  <2>4. \A k \in cursor' .. MaxLogSeq : tables' # RowsOf(UpTo(k))'
    BY <1>1 DEF NothingSkipped, Reaches
  <2>5. CASE UNCHANGED <<log, projection, tables, cursor>>
    <3>1. UpTo(m)' = UpTo(m)
      BY <2>5 DEF UpTo
    <3>2. RowsOf(UpTo(m))' = RowsOf(UpTo(m))
      BY <2>5, <3>1, RowsUnchanged
    <3> QED BY <2>3, <2>4, <2>5, <3>2
  <2>6. CASE (\E s \in inserted : log' = log \cup {s}) /\ UNCHANGED <<projection, tables, cursor>>
    <3>1. PICK s \in inserted : log' = log \cup {s}
      BY <2>6
    <3>2. s.log_seq \in Nat \ {0} /\ s \notin log
      BY <2>1, <2>2 DEF FeedInv, InsertedInv
    <3>3. \A r \in log : r.log_seq < s.log_seq
      <4>1. \A r \in log : ~(s.log_seq < r.log_seq)
        BY <1>1, <3>1, <3>2
      <4>2. \A r \in log : r.log_seq # s.log_seq
        BY <2>1, <3>2 DEF FeedInv, InsertedInv
      <4> QED BY <2>2, <3>2, <4>1, <4>2
    <3> DEFINE k == IF s.log_seq <= m THEN s.log_seq - 1 ELSE m
    <3>4. k \in cursor .. MaxLogSeq
      <4>1. cursor <= s.log_seq - 1
        <5>1. CASE cursor = 0
          BY <3>2, <5>1
        <5>2. CASE \E r \in log : r.log_seq = cursor
          BY <2>1, <3>2, <3>3, <5>2
        <5> QED BY <2>1, <5>1, <5>2 DEF CursorInLog
      <4> QED BY <2>1, <2>3, <3>2, <4>1
    <3>5. UpTo(k)' = UpTo(m)
      <4>1. UpTo(k)' = {r \in log \cup {s} : r.log_seq <= k}
        BY <3>1 DEF UpTo
      <4>2. ~(s.log_seq <= k) /\ \A r \in log : r.log_seq <= k <=> r.log_seq <= m
        BY <2>1, <2>2, <2>3, <3>2, <3>3
      <4> HIDE DEF k
      <4> QED BY <4>1, <4>2 DEF UpTo
    <3> HIDE DEF k
    <3>6. RowsOf(UpTo(k))' = RowsOf(UpTo(m))
      BY <2>6, <3>5, RowsUnchanged
    <3> QED BY <2>3, <2>4, <2>6, <3>4, <3>6
  <2>7. ASSUME NEW r \in Runner, Clear(r) PROVE FALSE
    <3>1. tables' = NoRows /\ cursor' = 0 /\ UNCHANGED <<log, projection>>
      BY <2>7 DEF Clear, Move, feedVars
    <3>2. UpTo(0)' = UpTo(0) /\ UpTo(0) = {} /\ RowsOf({}) = NoRows
      BY <2>1, <3>1, NothingProjected DEF UpTo
    <3>3. RowsOf(UpTo(0))' = NoRows
      BY <3>1, <3>2, RowsUnchanged
    <3> QED BY <2>1, <2>4, <3>1, <3>3
  <2>8. ASSUME NEW r \in Runner, CommitBatch(r), ~HasGap(r), Reaches(run[r].since) PROVE FALSE
    <3>1. /\ cursor' = LastOf(run[r].batch) /\ UNCHANGED <<log, projection>>
          /\ LastOf(run[r].batch) \in Nat /\ LastOf(run[r].batch) <= MaxLogSeq
          /\ run[r].since \in Nat
      BY <1>1, <2>8, CommitFacts
    <3>2. PICK j \in run[r].since .. MaxLogSeq : tables = RowsOf(UpTo(j))
      BY <2>8 DEF Reaches
    <3> DEFINE n == LastOf(run[r].batch)
    <3>3. j \in Nat /\ run[r].since <= j
      BY <3>1, <3>2
    <3>0. PICK k \in Nat : k = IF j <= n THEN n ELSE j
      BY <3>1, <3>3
    <3>4. Joins(run[r].batch, UpTo(j)) /\ UpTo(j) \cup run[r].batch = UpTo(k)
      BY <3>0, <1>1, <2>8, <3>3, BatchJoins
    <3>5. UpTo(j) \in SUBSET log
      BY DEF UpTo
    <3>6. tables' = RowsOf(UpTo(k))
      BY <1>1, <2>8, <3>2, <3>4, <3>5, CommitAdds
    <3>7. k \in cursor' .. MaxLogSeq
      BY <2>1, <3>0, <3>1, <3>2, <3>3
    <3> HIDE DEF n
    <3>8. UpTo(k)' = UpTo(k)
      BY <3>1 DEF UpTo
    <3>9. RowsOf(UpTo(k))' = RowsOf(UpTo(k))
      BY <3>1, <3>8, RowsUnchanged
    <3> QED BY <2>4, <3>6, <3>7, <3>9
  <2>9. ASSUME NEW r \in Runner, CommitBatch(r) PROVE lock = r
    BY <1>1, <2>9, CommitFacts
  <2> QED BY <1>1, <2>5, <2>6, <2>7, <2>8, <2>9, Changes
<1>2. Inv /\ [Next]_vars
      => [NothingSkipped /\ ~NothingSkipped'
          => \/ \E s \in log' \ log, r \in log : s.log_seq < r.log_seq
             \/ lock \in Runner /\ (HasGap(lock) \/ ~Reaches(run[lock].since))
             \/ projection = "trace_summary"]_vars
  BY <1>1
<1> QED BY <1>2, InitInv, NextInv, PTL DEF Spec, OnlyGapsSkip
=============================================================================
