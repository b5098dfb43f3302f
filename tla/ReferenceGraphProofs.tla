------------------------ MODULE ReferenceGraphProofs ------------------------
(***************************************************************************)
(* For any traces, scripts, batch sizes and length of the log: what the    *)
(* process holds in memory is what a prefix of the log leads to, and so    *)
(* are the tables unless a rebuild failed.                                 *)
(*                                                                         *)
(* The tables are defined twice: TablesUpTo says at once what they are     *)
(* after n events, the handlers change them event by event.  TablesNext    *)
(* is the step between the two, BatchProjected the induction over a batch  *)
(* of any size and from any tables.  LogInv is what the projector needs of *)
(* the store so as to reject no event but one whose hash is not that of    *)
(* what is read back.  GraphInv holds whatever fails: the memory and every *)
(* cursor are at such a prefix.  Under it, StepsStay says that no other    *)
(* step than a rebuild that fails takes the process out of InStep.         *)
(*                                                                         *)
(* The queries answer from tables in step that caught up.  Ranks, Ordered  *)
(* and ListsOnce say what ORDER BY returns; ReadingInv, that pages read so *)
(* far are the front of the edges in that order; Knows, that each depth    *)
(* of the walk reaches what is as near, or is truncated and lacks some.    *)
(*                                                                         *)
(* The library's induction takes an operator, which cannot be instantiated *)
(* here; IntervalInduction takes a set.                                    *)
(***************************************************************************)
EXTENDS ReferenceQueries, FiniteSetTheorems, SequenceTheorems, WellFoundedInduction, TLAPS

\* The payloads of the scripts.
Offerable == UNION {Range(s) : s \in UNION {Scripts[t] : t \in Trace}}

Event == [log_seq : Nat, trace : Trace, trace_seq : Nat, type : ALL_EVENT_TYPES,
          about : {p.about : p \in Offerable}, with : {p.with : p \in Offerable},
          payload_hash : Offerable]

EventsUpTo(n, t) == {log[i] : i \in {j \in 1 .. n : log[j].trace = t}}

\* The i-th event of the log, as append_event leaves it.
WellFormed(i) ==
    LET e == log[i]
    IN  /\ e.log_seq = i
        /\ e.trace_seq = NextAfter(EventsUpTo(i - 1, e.trace))
        /\ e.type = "TraceStarted" <=> e.trace_seq = 0
        /\ e.about # None
        /\ e.type = "PolicyEvaluated" => HasPolicy(e.about)
        /\ e.type = "ExceptionRequested" => HasPolicy(e.with)
        /\ \E p \in Payloads(e.trace) : e.type = p.type /\ e.about = p.about /\ e.with = p.with

\* The events of a trace are in the order of trace_seq, and none follows its end.
InOrder(i, j) ==
    i < j /\ log[i].trace = log[j].trace =>
        log[i].trace_seq < log[j].trace_seq /\ log[i].type # "TraceFinished"

LogInv ==
    /\ log \in Seq(Event) /\ Len(log) <= MaxLogSeq
    /\ \A i \in 1 .. Len(log) : WellFormed(i)
    /\ \A i, j \in 1 .. Len(log) : InOrder(i, j)

\* None of the first n events is one the projector rejects.
Verified(n) == \A i \in 1 .. n : verify_payload_hash(log[i])

\* The records have their fields.
GraphTyped ==
    /\ memory = [alive |-> memory.alive, cursor |-> memory.cursor, tracker |-> memory.tracker]
    /\ memory.alive \in BOOLEAN
    /\ call.state \in {"none", "projecting", "failed", "rejected", "aborted"}
    /\ call = Projecting(call.since, call.until, call.size, call.target) \/ call.state # "projecting"

\* The memory is that of the first m events, and the call goes on from there.
RunAt(m) ==
    /\ memory.cursor = m
    /\ memory.tracker = load_trace_seq_tracker(m)
    /\ Verified(m)
    /\ call.state = "projecting" =>
          /\ memory.alive
          /\ call.since = m
          /\ call.size \in Nat \ {0}
          /\ call.until \in {0, call.target}
          /\ call.target \in 1 .. Len(log)

RunInv ==
    /\ \E m \in 0 .. Len(log) : RunAt(m)
    /\ call.state = "rejected" => \E i \in 1 .. Len(log) : ~verify_payload_hash(log[i])

\* The cursor of tables, whatever else they hold.
Cursored(tables) ==
    /\ "cursor" \in DOMAIN tables
    /\ \E n \in 0 .. Len(log) : tables.cursor = n /\ Verified(n)

GraphInv ==
    /\ LogInv /\ GraphTyped /\ RunInv
    /\ Cursored(db)
    /\ undo # None => Cursored(undo)

\* InStep, at a given cursor.
InStepAt(c) ==
    /\ undo = None
    /\ db = TablesUpTo(c)
    /\ memory.alive => memory.cursor = c /\ memory.tracker = load_trace_seq_tracker(c)

-----------------------------------------------------------------------------
(***************************************************************************)
(* Induction over an interval: were something missing from S, so would be  *)
(* what is minimal among it.                                               *)
(***************************************************************************)
LEMMA IntervalInduction ==
    ASSUME NEW N \in Nat, NEW S, 0 \in S, \A n \in 1 .. N : n - 1 \in S => n \in S
    PROVE  0 .. N \subseteq S
<1> SUFFICES ASSUME 0 .. N \ S # {} PROVE FALSE
  OBVIOUS
<1> DEFINE R == OpToRel(<, Nat)
           T == 0 .. N \ S
<1>1. IsWellFoundedOn(R, Nat)
  BY NatLessThanWellFounded DEF OpToRel
<1>2. T \subseteq Nat /\ T # {}
  OBVIOUS
<1>3. \A x, y \in Nat : <<x, y>> \in R <=> x < y
  BY DEF OpToRel
<1> HIDE DEF R, T
<1>4. PICK m \in T : \A y \in T : <<y, m>> \notin R
  BY <1>1, <1>2, WFMin
<1>5. m \in 0 .. N /\ m \notin S
  BY <1>4 DEF T
<1>6. m \in 1 .. N /\ m - 1 \in 0 .. N /\ m - 1 < m
  BY <1>5
<1>7. m - 1 \in T
  BY <1>5, <1>6 DEF T
<1>8. m \in Nat /\ m - 1 \in Nat /\ <<m - 1, m>> \notin R
  BY <1>4, <1>6, <1>7
<1> QED BY <1>3, <1>6, <1>8


-----------------------------------------------------------------------------
(***************************************************************************)
(* One event.  Every node it makes has the row a placeholder would have.   *)
(***************************************************************************)
LEMMA EmitsPlaceholders ==
    ASSUME NEW e, e.type \in ALL_EVENT_TYPES
    PROVE  \A r \in emit(e).nodes : r = Placeholder(r.id, e)
<1>1. \A kind, ref : kind # "trace" =>
          NodeRow(make_node_id(kind, ref), e) = Placeholder(make_node_id(kind, ref), e)
  BY DEF NodeRow, Placeholder, make_node_id
<1>2. NodeRow(TraceNode(e), e) = Placeholder(TraceNode(e), e)
  BY DEF NodeRow, Placeholder, TraceNode, make_node_id
<1>3. \A id : NodeRow(id, e).id = id
  BY DEF NodeRow
<1>4. \A edgeType, kind : /\ EmitFromTrace(e, edgeType, kind).nodes =
                                {NodeRow(make_node_id(kind, e.about), e)}
  BY DEF EmitFromTrace, Emission
<1>5. \/ e.type = "TraceStarted" /\ emit(e) = emit_trace_started(e)
      \/ e.type = "InputObserved" /\ emit(e) = emit_input_observed(e)
      \/ e.type = "EntityObserved" /\ emit(e) = emit_entity_observed(e)
      \/ e.type = "PolicyEvaluated" /\ emit(e) = emit_policy_evaluated(e)
      \/ e.type = "ExceptionRequested" /\ emit(e) = emit_exception_requested(e)
      \/ e.type = "ApprovalRecorded" /\ emit(e) = emit_approval_recorded(e)
      \/ e.type = "PrecedentCited" /\ emit(e) = emit_precedent_cited(e)
      \/ e.type = "ActionProposed" /\ emit(e) = emit_action_proposed(e)
      \/ e.type = "ActionCommitted" /\ emit(e) = emit_action_committed(e)
      \/ e.type = "TraceFinished" /\ emit(e) = emit_trace_finished(e)
  BY DEF emit, ALL_EVENT_TYPES
<1>6. \A r \in emit(e).nodes :
          \/ r = NodeRow(TraceNode(e), e)
          \/ \E kind, ref : kind # "trace" /\ r = NodeRow(make_node_id(kind, ref), e)
  BY <1>4, <1>5
     DEF emit_trace_started, emit_input_observed, emit_entity_observed, emit_policy_evaluated,
         emit_exception_requested, emit_approval_recorded, emit_precedent_cited,
         emit_action_proposed, emit_action_committed, emit_trace_finished, Emission
<1> QED BY <1>1, <1>2, <1>3, <1>6

Tables(nodes, edges, summaries, policies, precedents, cursor) ==
    [nodes |-> nodes, edges |-> edges, summaries |-> summaries, policies |-> policies,
     precedents |-> precedents, cursor |-> cursor]

LEMMA EmissionInserted ==
    ASSUME NEW e, e.type \in ALL_EVENT_TYPES, NEW nodes, NEW edges, NEW summaries,
           NEW policies, NEW precedents, NEW cursor,
           NEW mentioned, \A id : id \in mentioned <=> \E r \in nodes : r.id = id
    PROVE  insert_emission(Tables(nodes, edges, summaries, policies, precedents, cursor), e) =
               Tables(nodes \cup {Placeholder(id, e) : id \in Mentions(e) \ mentioned},
                      edges \cup emit(e).edges, summaries, policies, precedents, cursor)
<1> DEFINE d == Tables(nodes, edges, summaries, policies, precedents, cursor)
           rows == emit(e).nodes
           ends == Ends(emit(e).edges)
           d1 == insert_nodes(d, rows)
           d2 == ensure_nodes_exist(d1, emit(e).edges, e)
           ids == Mentions(e) \ mentioned
           new == {Placeholder(id, e) : id \in ids}
           n1 == nodes \cup {r \in rows : \A n \in nodes : n.id # r.id}
           n2 == n1 \cup {r \in {Placeholder(id, e) : id \in ends} : \A n \in n1 : n.id # r.id}
<1>1. d1 = [d EXCEPT !.nodes = n1] /\ d1.nodes = n1
  BY DEF insert_nodes, Tables
<1>2. d2 = [d1 EXCEPT !.nodes = n2]
  <2> HIDE DEF d1, n1
  <2> QED BY <1>1 DEF ensure_nodes_exist, insert_nodes
<1>3. insert_emission(d, e) = [d EXCEPT !.nodes = n2, !.edges = edges \cup emit(e).edges]
  <2>1. insert_emission(d, e) = [d2 EXCEPT !.edges = @ \cup emit(e).edges]
    BY DEF insert_emission, insert_edges
  <2> HIDE DEF d1, n1, d2, n2
  <2> QED BY <1>1, <1>2, <2>1 DEF Tables
<1>4. \A r \in rows : r = Placeholder(r.id, e)
  BY EmitsPlaceholders
<1>5. \A id : Placeholder(id, e).id = id
  BY DEF Placeholder, NodeRow
<1>6. \A id : id \in Mentions(e) <=> id \in ends \/ \E r \in rows : r.id = id
  BY DEF Mentions
<1> HIDE DEF rows, ends, d1, d2
<1>7. ASSUME NEW r \in n2
      PROVE  r \in nodes \cup new
  <2>1. CASE r \in n1
    BY <1>4, <1>6, <2>1
  <2>2. CASE r \notin n1
    BY <1>5, <1>6, <2>2
  <2> QED BY <2>1, <2>2
<1>8. ASSUME NEW id \in Mentions(e), id \notin mentioned
      PROVE  Placeholder(id, e) \in n2
  <2>1. \A n \in nodes : n.id # id
    BY <1>8
  <2>2. CASE \E r \in rows : r.id = id
    BY <1>4, <2>1, <2>2
  <2>3. CASE ~ \E r \in rows : r.id = id
    <3>1. id \in ends /\ \A n \in n1 : n.id # id
      BY <1>6, <1>8, <2>1, <2>3
    <3> QED BY <1>5, <3>1
  <2> QED BY <2>2, <2>3
<1>9. n2 = nodes \cup new
  BY <1>7, <1>8
<1> HIDE DEF n2, new
<1> QED BY <1>3, <1>9 DEF Tables, new

-----------------------------------------------------------------------------
(***************************************************************************)
(* The log, up to some event.                                              *)
(***************************************************************************)
LEMMA LogFacts ==
    ASSUME LogInv
    PROVE  /\ Len(log) \in Nat
           /\ DOMAIN log = 1 .. Len(log)
           /\ \A i \in 1 .. Len(log) :
                  /\ log[i].trace \in Trace /\ log[i].trace_seq \in Nat
                  /\ log[i].type \in ALL_EVENT_TYPES
                  /\ log[i].log_seq = i
<1>1. Len(log) \in Nat /\ DOMAIN log = 1 .. Len(log) /\ \A i \in 1 .. Len(log) : log[i] \in Event
  BY DEF LogInv
<1>2. \A i \in 1 .. Len(log) : log[i].log_seq = i
  BY DEF LogInv, WellFormed
<1> QED BY <1>1, <1>2 DEF Event

LEMMA EventsNext ==
    ASSUME LogInv, NEW n \in 0 .. Len(log) - 1, NEW t
    PROVE  EventsUpTo(n + 1, t) = EventsUpTo(n, t) \cup (IF log[n + 1].trace = t THEN {log[n + 1]} ELSE {})
<1>1. n \in Nat /\ \A i : i \in 1 .. n + 1 <=> i \in 1 .. n \/ i = n + 1
  BY LogFacts
<1> QED BY <1>1 DEF EventsUpTo

\* The next trace_seq of the trace of an event, and of another trace.
LEMMA NextAfterEvent ==
    ASSUME LogInv, NEW n \in 0 .. Len(log) - 1, NEW t
    PROVE  NextAfter(EventsUpTo(n + 1, t)) =
               IF log[n + 1].trace = t THEN log[n + 1].trace_seq + 1 ELSE NextAfter(EventsUpTo(n, t))
<1> DEFINE e == log[n + 1]
           seqs == {x.trace_seq : x \in EventsUpTo(n + 1, t)}
<1>1. n + 1 \in 1 .. Len(log) /\ n \in Nat /\ e.trace_seq \in Nat
  BY LogFacts
<1>2. CASE e.trace = t
  <2>1. e \in EventsUpTo(n + 1, t)
    BY <1>1, <1>2, EventsNext
  <2>2. ASSUME NEW x \in EventsUpTo(n + 1, t)
        PROVE  x.trace_seq \in Nat /\ x.trace_seq <= e.trace_seq
    <3>1. PICK i \in 1 .. n + 1 : x = log[i] /\ log[i].trace = t
      BY DEF EventsUpTo
    <3>2. i \in 1 .. Len(log) /\ x.trace_seq \in Nat
      BY <1>1, <3>1, LogFacts
    <3>3. CASE i = n + 1
      BY <1>1, <3>1, <3>3
    <3>4. CASE i < n + 1
      <4>1. x.trace_seq < e.trace_seq
        BY <1>1, <1>2, <3>1, <3>2, <3>4 DEF LogInv, InOrder
      <4> QED BY <1>1, <3>2, <4>1
    <3> QED BY <1>1, <3>1, <3>3, <3>4
  <2>3. e.trace_seq \in seqs /\ \A y \in seqs : y \in Nat /\ y <= e.trace_seq
    BY <2>1, <2>2
  <2> HIDE DEF seqs
  <2>4. Max(seqs) = e.trace_seq
    BY <1>1, <2>3 DEF Max
  <2> QED BY <1>2, <2>1, <2>4 DEF NextAfter, seqs
<1>3. CASE e.trace # t
  <2>1. EventsUpTo(n + 1, t) = EventsUpTo(n, t)
    <3>1. EventsUpTo(n + 1, t) = EventsUpTo(n, t) \cup {}
      BY <1>3, EventsNext
    <3> QED BY <3>1
  <2> HIDE DEF e
  <2> QED BY <1>3, <2>1 DEF e
<1> QED BY <1>2, <1>3

LEMMA NextBounds ==
    ASSUME LogInv, NEW t
    PROVE  \A n \in 0 .. Len(log) :
               /\ NextAfter(EventsUpTo(n, t)) \in Nat
               /\ \A e \in EventsUpTo(n, t) : e.trace_seq < NextAfter(EventsUpTo(n, t))
<1> DEFINE Fine(n) == /\ NextAfter(EventsUpTo(n, t)) \in Nat
                      /\ \A e \in EventsUpTo(n, t) : e.trace_seq < NextAfter(EventsUpTo(n, t))
           S == {n \in 0 .. Len(log) : Fine(n)}
<1>1. Len(log) \in Nat
  BY LogFacts
<1>2. 0 \in S
  BY <1>1 DEF EventsUpTo, NextAfter
<1>3. ASSUME NEW n \in 1 .. Len(log), n - 1 \in S
      PROVE  n \in S
  <2> DEFINE m == n - 1
  <2>1. m \in 0 .. Len(log) - 1 /\ m + 1 = n /\ Fine(m) /\ log[n].trace_seq \in Nat
    BY <1>1, <1>3, LogFacts
  <2> HIDE DEF m
  <2>2. NextAfter(EventsUpTo(n, t)) =
            IF log[n].trace = t THEN log[n].trace_seq + 1 ELSE NextAfter(EventsUpTo(m, t))
    BY <2>1, NextAfterEvent
  <2>3. EventsUpTo(n, t) = EventsUpTo(m, t) \cup (IF log[n].trace = t THEN {log[n]} ELSE {})
    BY <2>1, EventsNext
  <2>4. CASE log[n].trace # t
    <3>1. EventsUpTo(n, t) = EventsUpTo(m, t)
      BY <2>3, <2>4
    <3> QED BY <1>1, <2>1, <3>1
  <2>5. CASE log[n].trace = t
    <3>1. log[n].trace_seq = NextAfter(EventsUpTo(m, t))
      BY <1>1, <2>1, <2>5 DEF LogInv, WellFormed, m
    <3>2. \A e \in EventsUpTo(m, t) : e.trace_seq \in Nat
      <4>1. \A i \in 1 .. m : i \in 1 .. Len(log)
        BY <1>1, <2>1
      <4> QED BY <4>1, LogFacts DEF EventsUpTo
    <3> DEFINE next == NextAfter(EventsUpTo(n, t))
    <3>3. next = log[n].trace_seq + 1 /\ next \in Nat
      BY <2>1, <2>2, <2>5
    <3> HIDE DEF next
    <3>4. \A e \in EventsUpTo(m, t) : e.trace_seq < next
      BY <2>1, <3>1, <3>2, <3>3
    <3>5. \A e \in EventsUpTo(n, t) : e.trace_seq < next
      BY <2>1, <2>3, <3>3, <3>4
    <3> QED BY <1>1, <3>3, <3>5 DEF next
  <2> QED BY <2>4, <2>5
<1> HIDE DEF Fine
<1>4. 0 .. Len(log) \subseteq S
  <2> HIDE DEF S
  <2> QED BY <1>1, <1>2, <1>3, IntervalInduction
<1> QED BY <1>4 DEF Fine

\* Every trace that has events has its first, a TraceStarted.
LEMMA TraceIsStarted ==
    ASSUME LogInv, NEW n \in 1 .. Len(log)
    PROVE  \E i \in 1 .. n : log[i].trace = log[n].trace /\ log[i].type = "TraceStarted"
<1> DEFINE t == log[n].trace
           S == {k \in 0 .. Len(log) :
                    (\E i \in 1 .. k : log[i].trace = t)
                        => \E i \in 1 .. k : log[i].trace = t /\ log[i].type = "TraceStarted"}
<1>1. Len(log) \in Nat
  BY LogFacts
<1>2. 0 \in S
  BY <1>1
<1>3. ASSUME NEW k \in 1 .. Len(log), k - 1 \in S
      PROVE  k \in S
  <2>1. CASE \E i \in 1 .. k - 1 : log[i].trace = t
    BY <1>1, <1>3, <2>1
  <2>2. CASE log[k].trace = t /\ ~ \E i \in 1 .. k - 1 : log[i].trace = t
    <3>1. EventsUpTo(k - 1, t) = {}
      BY <2>2 DEF EventsUpTo
    <3>2. log[k].type = "TraceStarted"
      BY <2>2, <3>1 DEF LogInv, WellFormed, NextAfter
    <3> QED BY <1>1, <2>2, <3>2
  <2>3. CASE ~ \E i \in 1 .. k : log[i].trace = t
    BY <2>3
  <2> QED BY <1>1, <2>1, <2>2, <2>3
<1> HIDE DEF t
<1>4. 0 .. Len(log) \subseteq S
  <2> HIDE DEF S
  <2> QED BY <1>1, <1>2, <1>3, IntervalInduction
<1>5. n \in S
  BY <1>1, <1>4
<1> QED BY <1>1, <1>5 DEF t

\* The first event of a trace in the log is the only TraceStarted, and has none before it.
LEMMA StartIsFirst ==
    ASSUME LogInv, NEW i \in 1 .. Len(log), log[i].type = "TraceStarted",
           NEW j \in 1 .. Len(log), log[j].trace = log[i].trace
    PROVE  /\ ~(j < i)
           /\ log[j].type = "TraceStarted" => j = i
<1>1. /\ log[i].trace_seq = 0 /\ log[j].trace_seq \in Nat
      /\ log[j].type = "TraceStarted" => log[j].trace_seq = 0
  BY LogFacts DEF LogInv, WellFormed
<1>2. InOrder(i, j) /\ InOrder(j, i) /\ i \in Nat /\ j \in Nat
  BY LogFacts DEF LogInv
<1> QED BY <1>1, <1>2 DEF InOrder

LEMMA EntityOfTrace ==
    ASSUME LogInv, NEW i \in 1 .. Len(log), log[i].type = "TraceStarted"
    PROVE  PrimaryEntity(get_trace_events(log[i].trace)) = log[i].about
<1> DEFINE events == get_trace_events(log[i].trace)
<1>1. log[i] \in events
  BY LogFacts DEF get_trace_events, Range
<1>2. ASSUME NEW x \in events, x.type = "TraceStarted"
      PROVE  x = log[i]
  <2>1. PICK j \in 1 .. Len(log) : x = log[j] /\ log[j].trace = log[i].trace
    BY LogFacts DEF get_trace_events, Range
  <2> QED BY <1>2, <2>1, StartIsFirst
<1>3. (CHOOSE x \in events : x.type = "TraceStarted") = log[i]
  BY <1>1, <1>2
<1> QED BY <1>3 DEF PrimaryEntity

-----------------------------------------------------------------------------
(***************************************************************************)
(* The tables, after one more event.                                       *)
(***************************************************************************)
LEMMA GraphNext ==
    ASSUME LogInv, NEW n \in 0 .. Len(log) - 1
    PROVE  LET e == log[n + 1]
           IN  /\ NodesUpTo(n + 1) = NodesUpTo(n) \cup
                      {Placeholder(id, e) : id \in Mentions(e) \ MentionedUpTo(n)}
               /\ MentionedUpTo(n + 1) = MentionedUpTo(n) \cup Mentions(e)
               /\ EdgesUpTo(n + 1) = EdgesUpTo(n) \cup emit(e).edges
<1> DEFINE New(i) == {Placeholder(id, log[i]) : id \in Mentions(log[i]) \ MentionedUpTo(i - 1)}
<1>1. n \in Nat /\ n + 1 \in Nat /\ (n + 1) - 1 = n
      /\ \A i : i \in 1 .. n + 1 <=> i \in 1 .. n \/ i = n + 1
  BY LogFacts
<1>2. MentionedUpTo(n + 1) = MentionedUpTo(n) \cup Mentions(log[n + 1])
  BY <1>1 DEF MentionedUpTo
<1>3. EdgesUpTo(n + 1) = EdgesUpTo(n) \cup emit(log[n + 1]).edges
  BY <1>1 DEF EdgesUpTo
<1>4. \A m : NodesUpTo(m) = UNION {New(i) : i \in 1 .. m}
  BY DEF NodesUpTo
<1>5. New(n + 1) = {Placeholder(id, log[n + 1]) : id \in Mentions(log[n + 1]) \ MentionedUpTo(n)}
  BY <1>1
<1> HIDE DEF New
<1>6. NodesUpTo(n + 1) = NodesUpTo(n) \cup New(n + 1)
  BY <1>1, <1>4
<1> QED BY <1>2, <1>3, <1>5, <1>6

LEMMA MentionedAreNodes ==
    ASSUME LogInv
    PROVE  \A n \in 0 .. Len(log) :
               \A id : id \in MentionedUpTo(n) <=> \E r \in NodesUpTo(n) : r.id = id
<1> DEFINE Fine(n) == \A id : id \in MentionedUpTo(n) <=> \E r \in NodesUpTo(n) : r.id = id
           S == {n \in 0 .. Len(log) : Fine(n)}
<1>1. Len(log) \in Nat
  BY LogFacts
<1>2. 0 \in S
  BY <1>1 DEF MentionedUpTo, NodesUpTo
<1>3. ASSUME NEW n \in 1 .. Len(log), n - 1 \in S
      PROVE  n \in S
  <2> DEFINE m == n - 1
             e == log[n]
             new == {Placeholder(id, e) : id \in Mentions(e) \ MentionedUpTo(m)}
  <2>1. m \in 0 .. Len(log) - 1 /\ m + 1 = n /\ Fine(m)
    BY <1>1, <1>3
  <2> HIDE DEF m
  <2>2. /\ NodesUpTo(n) = NodesUpTo(m) \cup new
        /\ MentionedUpTo(n) = MentionedUpTo(m) \cup Mentions(e)
    BY <2>1, GraphNext
  <2>3. \A id : Placeholder(id, e).id = id
    BY DEF Placeholder, NodeRow
  <2> HIDE DEF e
  <2>4. \A id : (\E r \in new : r.id = id) <=> id \in Mentions(e) \ MentionedUpTo(m)
    BY <2>3
  <2> HIDE DEF new
  <2>5. Fine(n)
    BY <2>1, <2>2, <2>4
  <2> QED BY <1>3, <2>5
<1> HIDE DEF Fine
<1>4. 0 .. Len(log) \subseteq S
  <2> HIDE DEF S
  <2> QED BY <1>1, <1>2, <1>3, IntervalInduction
<1> QED BY <1>4 DEF Fine

LEMMA PoliciesNext ==
    ASSUME LogInv, NEW n \in 0 .. Len(log) - 1
    PROVE  LET e == log[n + 1]
           IN  PoliciesUpTo(n + 1) = PoliciesUpTo(n) \cup
                   (IF e.type = "PolicyEvaluated"
                    THEN {[trace |-> e.trace, policy |-> e.about, log_seq |-> e.log_seq]} ELSE {})
<1> DEFINE Row(i) == [trace |-> log[i].trace, policy |-> log[i].about, log_seq |-> i]
<1>1. log[n + 1].log_seq = n + 1 /\ \A i : i \in 1 .. n + 1 <=> i \in 1 .. n \/ i = n + 1
  BY LogFacts
<1>2. \A m : PoliciesUpTo(m) = {Row(i) : i \in {j \in 1 .. m : log[j].type = "PolicyEvaluated"}}
  BY DEF PoliciesUpTo
<1>3. Row(n + 1) = [trace |-> log[n + 1].trace, policy |-> log[n + 1].about,
                    log_seq |-> log[n + 1].log_seq]
  BY <1>1
<1> HIDE DEF Row
<1> QED BY <1>1, <1>2, <1>3

\* Until its TraceFinished a trace has no outcome; after it, that one.
LEMMA FinishNext ==
    ASSUME LogInv, NEW n \in 0 .. Len(log) - 1, NEW t
    PROVE  /\ FinishOf(t, n + 1) =
                  IF log[n + 1].type = "TraceFinished" /\ log[n + 1].trace = t
                  THEN {n + 1} ELSE FinishOf(t, n)
           /\ log[n + 1].trace = t => FinishOf(t, n) = {}
<1>1. /\ n \in Nat /\ n + 1 \in 1 .. Len(log)
      /\ \A i : i \in 1 .. n + 1 <=> i \in 1 .. n \/ i = n + 1
      /\ \A i \in 1 .. n : i \in 1 .. Len(log) /\ i < n + 1
  BY LogFacts
<1>2. log[n + 1].trace = t => FinishOf(t, n) = {}
  BY <1>1 DEF FinishOf, LogInv, InOrder
<1> QED BY <1>1, <1>2 DEF FinishOf

LEMMA SummaryTrace ==
    ASSUME NEW n, NEW e
    PROVE  /\ SummaryUpTo(n, e).trace = e.trace
           /\ SummaryUpTo(n, e).entity = e.about
BY DEF SummaryUpTo

\* Outcomes are never absent.
LEMMA SummaryOutcome ==
    ASSUME LogInv, NEW n \in 0 .. Len(log), NEW e
    PROVE  SummaryUpTo(n, e).outcome = None <=> FinishOf(e.trace, n) = {}
<1>1. CASE FinishOf(e.trace, n) = {}
  BY <1>1 DEF SummaryUpTo
<1>2. CASE FinishOf(e.trace, n) # {}
  <2> DEFINE i == CHOOSE i \in FinishOf(e.trace, n) : TRUE
  <2>1. i \in FinishOf(e.trace, n)
    BY <1>2
  <2> HIDE DEF i
  <2>2. i \in 1 .. Len(log)
    BY <2>1, LogFacts DEF FinishOf
  <2>3. log[i].about # None
    BY <2>2 DEF LogInv, WellFormed
  <2> QED BY <1>2, <2>3 DEF SummaryUpTo, i
<1> QED BY <1>1, <1>2

Starts(n) == {j \in 1 .. n : log[j].type = "TraceStarted"}

LEMMA StartsNext ==
    ASSUME LogInv, NEW n \in 0 .. Len(log) - 1
    PROVE  /\ Starts(n + 1) = IF log[n + 1].type = "TraceStarted" THEN Starts(n) \cup {n + 1}
                              ELSE Starts(n)
           /\ Starts(n) \subseteq 1 .. Len(log)
           /\ n + 1 \notin Starts(n)
<1>1. /\ n \in Nat /\ n + 1 \in 1 .. Len(log)
      /\ \A i : i \in 1 .. n + 1 <=> i \in 1 .. n \/ i = n + 1
      /\ \A i \in 1 .. n : i \in 1 .. Len(log) /\ i # n + 1
  BY LogFacts
<1> QED BY <1>1 DEF Starts

LEMMA StartKeepsSummaries ==
    ASSUME LogInv, NEW n \in 0 .. Len(log) - 1, log[n + 1].type # "TraceFinished"
    PROVE  LET e == log[n + 1]
           IN  /\ SummariesUpTo(n + 1) = SummariesUpTo(n) \cup
                      (IF e.type = "TraceStarted"
                       THEN {[trace |-> e.trace, entity |-> e.about, outcome |-> None,
                              event_count |-> 1, last_log_seq |-> e.log_seq]} ELSE {})
               /\ e.type = "TraceStarted" => \A s \in SummariesUpTo(n) : s.trace # e.trace
<1> DEFINE e == log[n + 1]
<1>1. \A t : FinishOf(t, n + 1) = FinishOf(t, n)
  BY FinishNext
<1>2. \A f : SummaryUpTo(n + 1, f) = SummaryUpTo(n, f)
  <2> SUFFICES ASSUME NEW f
               PROVE  SummaryUpTo(n + 1, f) = SummaryUpTo(n, f)
    OBVIOUS
  <2>1. FinishOf(f.trace, n + 1) = FinishOf(f.trace, n)
    BY <1>1
  <2> QED BY <2>1, Zenon DEF SummaryUpTo
<1>3. \A m : SummariesUpTo(m) = {SummaryUpTo(m, log[i]) : i \in Starts(m)}
  BY DEF SummariesUpTo, Starts
<1>4. FinishOf(e.trace, n) = {}
  BY FinishNext
<1>5. SummaryUpTo(n, e) = [trace |-> e.trace, entity |-> e.about, outcome |-> None,
                           event_count |-> 1, last_log_seq |-> e.log_seq]
  BY <1>4 DEF SummaryUpTo
<1>6. ASSUME e.type = "TraceStarted", NEW i \in Starts(n)
      PROVE  log[i].trace # e.trace
  <2>1. i \in 1 .. Len(log) /\ i < n + 1 /\ n + 1 \in 1 .. Len(log)
    BY LogFacts DEF Starts
  <2> QED BY <1>6, <2>1, StartIsFirst
<1>7. e.type = "TraceStarted" => \A s \in SummariesUpTo(n) : s.trace # e.trace
  BY <1>3, <1>6, SummaryTrace
<1> HIDE DEF e
<1>8. SummariesUpTo(n + 1) = {SummaryUpTo(n, log[i]) : i \in Starts(n + 1)}
  BY <1>2, <1>3
<1>9. CASE e.type = "TraceStarted"
  <2>1. Starts(n + 1) = Starts(n) \cup {n + 1}
    BY <1>9, StartsNext DEF e
  <2>2. SummariesUpTo(n + 1) = SummariesUpTo(n) \cup {SummaryUpTo(n, e)}
    BY <1>3, <1>8, <2>1 DEF e
  <2> QED BY <1>5, <1>7, <1>9, <2>2 DEF e
<1>10. CASE e.type # "TraceStarted"
  <2>1. Starts(n + 1) = Starts(n)
    BY <1>10, StartsNext DEF e
  <2>2. SummariesUpTo(n + 1) = SummariesUpTo(n)
    BY <1>3, <1>8, <2>1
  <2> QED BY <1>10, <2>2 DEF e
<1> QED BY <1>9, <1>10

LEMMA SummaryFinished ==
    ASSUME NEW t, NEW entity, NEW seq, NEW outcome, NEW e, e.about = outcome
    PROVE  finished_summary([trace |-> t, entity |-> entity, outcome |-> None,
                             event_count |-> 1, last_log_seq |-> seq], e)
             = [trace |-> t, entity |-> entity, outcome |-> outcome,
                event_count |-> 2, last_log_seq |-> e.log_seq]
<1> DEFINE s == [trace |-> t, entity |-> entity, outcome |-> None, event_count |-> 1, last_log_seq |-> seq]
           s1 == [trace |-> t, entity |-> entity, outcome |-> outcome, event_count |-> 1, last_log_seq |-> seq]
           s2 == [trace |-> t, entity |-> entity, outcome |-> outcome, event_count |-> 2, last_log_seq |-> seq]
<1>1. [s EXCEPT !.outcome = outcome] = s1 /\ s.event_count + 1 = 2
  OBVIOUS
<1>2. [s1 EXCEPT !.event_count = 2] = s2
  OBVIOUS
<1>3. [s2 EXCEPT !.last_log_seq = e.log_seq] = [trace |-> t, entity |-> entity, outcome |-> outcome,
                                                event_count |-> 2, last_log_seq |-> e.log_seq]
  OBVIOUS
<1> HIDE DEF s, s1, s2
<1>4. finished_summary(s, e) = [[[s EXCEPT !.outcome = outcome] EXCEPT !.event_count = s.event_count + 1]
                                   EXCEPT !.last_log_seq = e.log_seq]
  BY DEF finished_summary
<1> QED BY <1>1, <1>2, <1>3, <1>4 DEF s

LEMMA FinishUpdatesSummaries ==
    ASSUME LogInv, NEW n \in 0 .. Len(log) - 1, log[n + 1].type = "TraceFinished"
    PROVE  LET e == log[n + 1]
           IN  SummariesUpTo(n + 1) =
                   {IF s.trace = e.trace THEN finished_summary(s, e) ELSE s : s \in SummariesUpTo(n)}
<1> DEFINE e == log[n + 1]
           Updated(s) == IF s.trace = e.trace THEN finished_summary(s, e) ELSE s
<1>1. \A m : SummariesUpTo(m) = {SummaryUpTo(m, log[i]) : i \in Starts(m)}
  BY DEF SummariesUpTo, Starts
<1>2. Starts(n + 1) = Starts(n)
  BY StartsNext
<1>3. ASSUME NEW f
      PROVE  SummaryUpTo(n + 1, f) = Updated(SummaryUpTo(n, f))
  <2>1. CASE f.trace = e.trace
    <3>1. FinishOf(f.trace, n) = {} /\ FinishOf(f.trace, n + 1) = {n + 1}
      BY <2>1, FinishNext
    <3>2. (CHOOSE i \in FinishOf(f.trace, n + 1) : TRUE) = n + 1
      BY <3>1
    <3>3. SummaryUpTo(n, f) = [trace |-> f.trace, entity |-> f.about, outcome |-> None,
                               event_count |-> 1, last_log_seq |-> f.log_seq]
      BY <3>1 DEF SummaryUpTo
    <3>4. SummaryUpTo(n + 1, f) = [trace |-> f.trace, entity |-> f.about, outcome |-> e.about,
                                   event_count |-> 2, last_log_seq |-> e.log_seq]
      BY <3>1, <3>2 DEF SummaryUpTo
    <3>5. Updated(SummaryUpTo(n, f)) = finished_summary(SummaryUpTo(n, f), e)
      BY <2>1, SummaryTrace
    <3>6. finished_summary(SummaryUpTo(n, f), e) = SummaryUpTo(n + 1, f)
      <4> HIDE DEF e
      <4> QED BY <3>3, <3>4, SummaryFinished
    <3> QED BY <3>5, <3>6
  <2>2. CASE f.trace # e.trace
    <3>1. FinishOf(f.trace, n + 1) = FinishOf(f.trace, n)
      BY <2>2, FinishNext
    <3>2. SummaryUpTo(n + 1, f) = SummaryUpTo(n, f)
      BY <3>1, Zenon DEF SummaryUpTo
    <3> QED BY <2>2, <3>2, SummaryTrace
  <2> QED BY <2>1, <2>2
<1>4. SummariesUpTo(n + 1) = {Updated(s) : s \in SummariesUpTo(n)}
  <2> HIDE DEF Updated
  <2> QED BY <1>1, <1>2, <1>3
<1> QED BY <1>4

Indexed(t) ==
    {f \in get_trace_events(t) : f.type \in {"PolicyEvaluated", "ExceptionRequested"}}

IsPrecedent(n, r) ==
    \E s \in SummariesUpTo(n) : /\ s.outcome # None
                                /\ \E x \in Indexed(s.trace) : r = PrecedentRow(x, s.entity)

LEMMA PrecedentFacts ==
    ASSUME NEW n
    PROVE  /\ \A r : r \in PrecedentsUpTo(n) <=> IsPrecedent(n, r)
           /\ \A t : \A x \in Indexed(t) : \A entity : PrecedentRow(x, entity).trace = t
<1>1. \A t : \A x \in Indexed(t) : \A entity : PrecedentRow(x, entity).trace = t
  BY DEF Indexed, get_trace_events, PrecedentRow
<1>2. PrecedentsUpTo(n) = UNION {{PrecedentRow(x, s.entity) : x \in Indexed(s.trace)}
                                   : s \in {x \in SummariesUpTo(n) : x.outcome # None}}
  BY DEF PrecedentsUpTo, Indexed
<1>3. ASSUME NEW r
      PROVE  r \in PrecedentsUpTo(n) <=> IsPrecedent(n, r)
  <2> DEFINE Rows(s) == {PrecedentRow(x, s.entity) : x \in Indexed(s.trace)}
  <2>1. PrecedentsUpTo(n) = UNION {Rows(s) : s \in {x \in SummariesUpTo(n) : x.outcome # None}}
    BY <1>2
  <2>2. \A s : r \in Rows(s) <=> \E x \in Indexed(s.trace) : r = PrecedentRow(x, s.entity)
    OBVIOUS
  <2> HIDE DEF Rows
  <2> QED BY <2>1, <2>2 DEF IsPrecedent
<1> QED BY <1>1, <1>3

LEMMA OthersKeepPrecedents ==
    ASSUME LogInv, NEW n \in 0 .. Len(log) - 1, log[n + 1].type # "TraceFinished"
    PROVE  PrecedentsUpTo(n + 1) = PrecedentsUpTo(n)
<1>1. \A s : s.outcome # None => (s \in SummariesUpTo(n + 1) <=> s \in SummariesUpTo(n))
  BY StartKeepsSummaries
<1>2. \A r : IsPrecedent(n + 1, r) <=> IsPrecedent(n, r)
  BY <1>1 DEF IsPrecedent
<1>3. \A r : r \in PrecedentsUpTo(n + 1) <=> r \in PrecedentsUpTo(n)
  BY <1>2, PrecedentFacts
<1> QED BY <1>3

LEMMA FinishBuildsPrecedents ==
    ASSUME LogInv, NEW n \in 0 .. Len(log) - 1, log[n + 1].type = "TraceFinished"
    PROVE  LET t == log[n + 1].trace
           IN  PrecedentsUpTo(n + 1) =
                   {r \in PrecedentsUpTo(n) : r.trace # t}
                     \cup {PrecedentRow(x, PrimaryEntity(get_trace_events(t))) : x \in Indexed(t)}
<1> DEFINE e == log[n + 1]
           t == e.trace
           entity == PrimaryEntity(get_trace_events(t))
<1>1. n + 1 \in 1 .. Len(log) /\ Len(log) \in Nat
  BY LogFacts
<1>2. PICK i \in 1 .. n + 1 : log[i].trace = t /\ log[i].type = "TraceStarted"
  BY <1>1, TraceIsStarted
<1>3. i \in Starts(n) /\ i \in 1 .. Len(log)
  BY <1>1, <1>2 DEF Starts
<1>4. entity = log[i].about
  BY <1>2, <1>3, EntityOfTrace
<1>5. \A m : SummariesUpTo(m) = {SummaryUpTo(m, log[k]) : k \in Starts(m)}
  BY DEF SummariesUpTo, Starts
<1>6. Starts(n + 1) = Starts(n) /\ Starts(n) \subseteq 1 .. Len(log)
  BY StartsNext
<1>7. ASSUME NEW k \in Starts(n)
      PROVE  log[k].trace = t <=> k = i
  <2>1. k \in 1 .. Len(log) /\ log[k].type = "TraceStarted"
    BY <1>6 DEF Starts
  <2> QED BY <1>2, <1>3, <2>1, StartIsFirst
<1>8. ASSUME NEW k \in Starts(n)
      PROVE  LET f == log[k]
             IN  /\ SummaryUpTo(n + 1, f).outcome # None
                        <=> k = i \/ SummaryUpTo(n, f).outcome # None
                 /\ k = i => SummaryUpTo(n, f).outcome = None
  <2>1. n \in 0 .. Len(log) /\ n + 1 \in 0 .. Len(log)
    BY <1>1
  <2>2. FinishOf(log[k].trace, n + 1) = IF log[k].trace = t THEN {n + 1} ELSE FinishOf(log[k].trace, n)
    BY FinishNext
  <2>3. FinishOf(t, n) = {}
    BY FinishNext
  <2> HIDE DEF e
  <2> QED BY <1>7, <2>1, <2>2, <2>3, SummaryOutcome
<1> HIDE DEF e, entity
<1> DEFINE f(k) == log[k]
<1> DEFINE Has(m, r) == \E k \in Starts(n) : /\ SummaryUpTo(m, f(k)).outcome # None
                                            /\ \E x \in Indexed(f(k).trace) : r = PrecedentRow(x, f(k).about)
<1>9. ASSUME NEW m \in {n, n + 1}, NEW r
      PROVE  r \in PrecedentsUpTo(m) <=> Has(m, r)
  <2>1. SummariesUpTo(m) = {SummaryUpTo(m, f(k)) : k \in Starts(n)}
    BY <1>5, <1>6
  <2>2. \A k : SummaryUpTo(m, f(k)).trace = f(k).trace /\ SummaryUpTo(m, f(k)).entity = f(k).about
    BY SummaryTrace
  <2> HIDE DEF f
  <2>3. r \in PrecedentsUpTo(m) <=> IsPrecedent(m, r)
    BY PrecedentFacts
  <2> QED BY <2>1, <2>2, <2>3 DEF IsPrecedent
<1>10. ASSUME NEW r
       PROVE  r \in PrecedentsUpTo(n + 1) <=>
                  \/ r \in PrecedentsUpTo(n)
                  \/ \E x \in Indexed(t) : r = PrecedentRow(x, entity)
  <2>1. f(i).trace = t /\ f(i).about = entity /\ i \in Starts(n)
    BY <1>2, <1>3, <1>4
  <2>2. \A k \in Starts(n) : /\ SummaryUpTo(n + 1, f(k)).outcome # None
                                   <=> k = i \/ SummaryUpTo(n, f(k)).outcome # None
                             /\ k = i => SummaryUpTo(n, f(k)).outcome = None
    BY <1>8
  <2> HIDE DEF f
  <2>3. /\ r \in PrecedentsUpTo(n) <=> Has(n, r)
        /\ r \in PrecedentsUpTo(n + 1) <=> Has(n + 1, r)
    <3> HIDE DEF Has
    <3> QED BY <1>9
  <2> QED BY <2>1, <2>2, <2>3
<1>11. \A r \in PrecedentsUpTo(n) : r.trace # t
  BY <1>7, <1>8, <1>9, PrecedentFacts
<1>12. PrecedentsUpTo(n + 1) = {r \in PrecedentsUpTo(n) : r.trace # t}
                                 \cup {PrecedentRow(x, entity) : x \in Indexed(t)}
  BY <1>10, <1>11
<1> QED BY <1>12 DEF e, entity

-----------------------------------------------------------------------------
(***************************************************************************)
(* Projecting an event of the log is refused for its hash alone, and makes *)
(* of the tables of the log those of the log up to it.                     *)
(***************************************************************************)
LEMMA EmissionNext ==
    ASSUME LogInv, NEW n \in 0 .. Len(log) - 1
    PROVE  insert_emission(TablesUpTo(n), log[n + 1]) =
               Tables(NodesUpTo(n + 1), EdgesUpTo(n + 1), SummariesUpTo(n), PoliciesUpTo(n),
                      PrecedentsUpTo(n), n)
<1> DEFINE e == log[n + 1]
<1>1. n \in 0 .. Len(log) /\ n + 1 \in 1 .. Len(log)
  BY LogFacts
<1>2. e.type \in ALL_EVENT_TYPES
  BY <1>1, LogFacts
<1>3. \A id : id \in MentionedUpTo(n) <=> \E r \in NodesUpTo(n) : r.id = id
  BY <1>1, MentionedAreNodes
<1> DEFINE new == {Placeholder(id, e) : id \in Mentions(e) \ MentionedUpTo(n)}
<1>4. insert_emission(Tables(NodesUpTo(n), EdgesUpTo(n), SummariesUpTo(n), PoliciesUpTo(n),
                             PrecedentsUpTo(n), n), e)
        = Tables(NodesUpTo(n) \cup new, EdgesUpTo(n) \cup emit(e).edges, SummariesUpTo(n),
                 PoliciesUpTo(n), PrecedentsUpTo(n), n)
  <2> HIDE DEF e
  <2> QED BY <1>2, <1>3, EmissionInserted
<1>5. NodesUpTo(n) \cup new = NodesUpTo(n + 1) /\ EdgesUpTo(n) \cup emit(e).edges = EdgesUpTo(n + 1)
  BY GraphNext
<1>6. TablesUpTo(n) = Tables(NodesUpTo(n), EdgesUpTo(n), SummariesUpTo(n), PoliciesUpTo(n),
                             PrecedentsUpTo(n), n)
  BY DEF TablesUpTo, Tables
<1> HIDE DEF new
<1> QED BY <1>4, <1>5, <1>6

LEMMA IndexesNext ==
    ASSUME LogInv, NEW n \in 0 .. Len(log) - 1, NEW nodes, NEW edges
    PROVE  update_indexes(Tables(nodes, edges, SummariesUpTo(n), PoliciesUpTo(n), PrecedentsUpTo(n), n),
                          log[n + 1], get_trace_events(log[n + 1].trace))
             = Tables(nodes, edges, SummariesUpTo(n + 1), PoliciesUpTo(n + 1), PrecedentsUpTo(n + 1), n)
<1> DEFINE e == log[n + 1]
           events == get_trace_events(e.trace)
           before == Tables(nodes, edges, SummariesUpTo(n), PoliciesUpTo(n), PrecedentsUpTo(n), n)
<1>1. CASE e.type = "TraceStarted"
  <2>1. /\ SummariesUpTo(n + 1) = SummariesUpTo(n) \cup
              {[trace |-> e.trace, entity |-> e.about, outcome |-> None,
                event_count |-> 1, last_log_seq |-> e.log_seq]}
        /\ \A s \in SummariesUpTo(n) : s.trace # e.trace
    BY <1>1, StartKeepsSummaries
  <2>2. PoliciesUpTo(n + 1) = PoliciesUpTo(n)
    <3>1. PoliciesUpTo(n + 1) = PoliciesUpTo(n) \cup {}
      BY <1>1, PoliciesNext
    <3> QED BY <3>1
  <2>3. PrecedentsUpTo(n + 1) = PrecedentsUpTo(n)
    BY <1>1, OthersKeepPrecedents
  <2>4. update_indexes(before, e, events) = on_trace_started(before, e)
    BY <1>1 DEF update_indexes
  <2> HIDE DEF e
  <2>5. on_trace_started(before, e) = [before EXCEPT !.summaries = SummariesUpTo(n + 1)]
    <3>1. before.summaries = SummariesUpTo(n)
      BY DEF Tables
    <3> HIDE DEF before
    <3>2. on_trace_started(before, e) =
              [before EXCEPT !.summaries = before.summaries \cup
                  {[trace |-> e.trace, entity |-> e.about, outcome |-> None,
                    event_count |-> 1, last_log_seq |-> e.log_seq]}]
      BY <2>1, <3>1, Zenon DEF on_trace_started
    <3> QED BY <2>1, <3>1, <3>2
  <2> QED BY <2>2, <2>3, <2>4, <2>5 DEF Tables, e
<1>2. CASE e.type = "PolicyEvaluated"
  <2>1. SummariesUpTo(n + 1) = SummariesUpTo(n)
    <3>1. SummariesUpTo(n + 1) = SummariesUpTo(n) \cup {}
      BY <1>2, StartKeepsSummaries
    <3> QED BY <3>1
  <2>2. PoliciesUpTo(n + 1) = PoliciesUpTo(n) \cup
            {[trace |-> e.trace, policy |-> e.about, log_seq |-> e.log_seq]}
    BY <1>2, PoliciesNext
  <2>3. PrecedentsUpTo(n + 1) = PrecedentsUpTo(n)
    BY <1>2, OthersKeepPrecedents
  <2>4. update_indexes(before, e, events) = on_policy_evaluated(before, e)
    BY <1>2 DEF update_indexes
  <2> HIDE DEF e
  <2>5. on_policy_evaluated(before, e) = [before EXCEPT !.policies = PoliciesUpTo(n + 1)]
    BY <2>2 DEF on_policy_evaluated, Tables
  <2> QED BY <2>1, <2>3, <2>4, <2>5 DEF Tables, e
<1>3. CASE e.type = "TraceFinished"
  <2>1. SummariesUpTo(n + 1) =
            {IF s.trace = e.trace THEN finished_summary(s, e) ELSE s : s \in SummariesUpTo(n)}
    BY <1>3, FinishUpdatesSummaries
  <2>2. PoliciesUpTo(n + 1) = PoliciesUpTo(n)
    <3>1. PoliciesUpTo(n + 1) = PoliciesUpTo(n) \cup {}
      BY <1>3, PoliciesNext
    <3> QED BY <3>1
  <2>3. PrecedentsUpTo(n + 1) = {r \in PrecedentsUpTo(n) : r.trace # e.trace}
            \cup {PrecedentRow(x, PrimaryEntity(events)) :
                     x \in {f \in events : f.type \in {"PolicyEvaluated", "ExceptionRequested"}}}
    BY <1>3, FinishBuildsPrecedents DEF Indexed
  <2>4. update_indexes(before, e, events) = on_trace_finished(before, e, events)
    BY <1>3 DEF update_indexes
  <2> HIDE DEF e, events
  <2>5. on_trace_finished(before, e, events) =
            build_precedent_index([before EXCEPT !.summaries = SummariesUpTo(n + 1)], e.trace, events)
    BY <2>1 DEF on_trace_finished, Tables
  <2>6. [before EXCEPT !.summaries = SummariesUpTo(n + 1)] =
            Tables(nodes, edges, SummariesUpTo(n + 1), PoliciesUpTo(n), PrecedentsUpTo(n), n)
    BY DEF Tables
  <2>7. build_precedent_index(Tables(nodes, edges, SummariesUpTo(n + 1), PoliciesUpTo(n),
                                     PrecedentsUpTo(n), n), e.trace, events)
          = Tables(nodes, edges, SummariesUpTo(n + 1), PoliciesUpTo(n), PrecedentsUpTo(n + 1), n)
    <3> DEFINE d == Tables(nodes, edges, SummariesUpTo(n + 1), PoliciesUpTo(n), PrecedentsUpTo(n), n)
    <3>1. d.precedents = PrecedentsUpTo(n)
      BY DEF Tables
    <3>2. [d EXCEPT !.precedents = PrecedentsUpTo(n + 1)] =
              Tables(nodes, edges, SummariesUpTo(n + 1), PoliciesUpTo(n), PrecedentsUpTo(n + 1), n)
      BY DEF Tables
    <3> HIDE DEF d
    <3>3. build_precedent_index(d, e.trace, events) = [d EXCEPT !.precedents = PrecedentsUpTo(n + 1)]
      BY <2>3, <3>1, Zenon DEF build_precedent_index
    <3> QED BY <3>2, <3>3 DEF d
  <2> HIDE DEF before
  <2> QED BY <2>2, <2>4, <2>5, <2>6, <2>7 DEF e, events, before
<1>4. CASE e.type \notin {"TraceStarted", "PolicyEvaluated", "TraceFinished"}
  <2>1. SummariesUpTo(n + 1) = SummariesUpTo(n)
    <3>1. SummariesUpTo(n + 1) = SummariesUpTo(n) \cup {}
      BY <1>4, StartKeepsSummaries
    <3> QED BY <3>1
  <2>2. PoliciesUpTo(n + 1) = PoliciesUpTo(n)
    <3>1. PoliciesUpTo(n + 1) = PoliciesUpTo(n) \cup {}
      BY <1>4, PoliciesNext
    <3> QED BY <3>1
  <2>3. PrecedentsUpTo(n + 1) = PrecedentsUpTo(n)
    BY <1>4, OthersKeepPrecedents
  <2>4. update_indexes(before, e, events) = before
    BY <1>4 DEF update_indexes
  <2> QED BY <2>1, <2>2, <2>3, <2>4
<1> QED BY <1>1, <1>2, <1>3, <1>4

LEMMA EventIsIndexed ==
    ASSUME LogInv, NEW n \in 0 .. Len(log) - 1
    PROVE  CanIndex(log[n + 1], get_trace_events(log[n + 1].trace))
<1>1. n + 1 \in 1 .. Len(log) /\ DOMAIN log = 1 .. Len(log)
  BY LogFacts
<1>2. ASSUME NEW f \in get_trace_events(log[n + 1].trace) \cup {log[n + 1]}
      PROVE  \E i \in 1 .. Len(log) : f = log[i]
  BY <1>1 DEF get_trace_events, Range
<1>3. \A i \in 1 .. Len(log) :
          /\ log[i].type = "PolicyEvaluated" => HasPolicy(log[i].about)
          /\ log[i].type = "ExceptionRequested" => HasPolicy(log[i].with)
  BY DEF LogInv, WellFormed
<1> DEFINE e == log[n + 1]
           events == get_trace_events(e.trace)
           indexed == IF e.type = "TraceFinished" THEN events ELSE {e}
<1>4. ASSUME NEW f \in indexed
      PROVE  /\ f.type = "PolicyEvaluated" => HasPolicy(f.about)
             /\ f.type = "ExceptionRequested" => HasPolicy(f.with)
  <2>1. f \in get_trace_events(log[n + 1].trace) \cup {log[n + 1]}
    OBVIOUS
  <2> HIDE DEF indexed
  <2>2. PICK i \in 1 .. Len(log) : f = log[i]
    BY <1>2, <2>1
  <2> QED BY <1>3, <2>2
<1> HIDE DEF e, events
<1> QED BY <1>4 DEF CanIndex, e, events

LEMMA TrackerNext ==
    ASSUME LogInv, NEW n \in 0 .. Len(log) - 1
    PROVE  LET e == log[n + 1]
           IN  /\ load_trace_seq_tracker(n)[e.trace] = e.trace_seq
               /\ load_trace_seq_tracker(n + 1) =
                      [load_trace_seq_tracker(n) EXCEPT ![e.trace] = e.trace_seq + 1]
<1> DEFINE e == log[n + 1]
<1>1. n + 1 \in 1 .. Len(log) /\ (n + 1) - 1 = n /\ e.trace \in Trace
  BY LogFacts
<1>2. \A m : load_trace_seq_tracker(m) = [t \in Trace |-> NextAfter(EventsUpTo(m, t))]
  BY DEF load_trace_seq_tracker, EventsUpTo
<1>3. e.trace_seq = NextAfter(EventsUpTo(n, e.trace))
  BY <1>1 DEF LogInv, WellFormed
<1>4. \A t : NextAfter(EventsUpTo(n + 1, t)) =
                IF e.trace = t THEN e.trace_seq + 1 ELSE NextAfter(EventsUpTo(n, t))
  BY NextAfterEvent
<1> HIDE DEF e
<1> QED BY <1>1, <1>2, <1>3, <1>4 DEF e

\* Whatever the tables are, an event that is verified moves the cursor by one.
LEMMA EventProjects ==
    ASSUME LogInv, NEW n \in 0 .. Len(log) - 1, NEW tables, "cursor" \in DOMAIN tables,
           NEW p, p = [db |-> tables, cursor |-> n, tracker |-> load_trace_seq_tracker(n)]
    PROVE  LET e == log[n + 1]
               new == update_indexes(insert_emission(tables, e), e, get_trace_events(e.trace))
           IN  /\ ~verify_payload_hash(e) => project_event_in_tx(p, e) = Rejected
               /\ verify_payload_hash(e) =>
                    /\ "cursor" \in DOMAIN new
                    /\ project_event_in_tx(p, e) =
                         [db |-> [new EXCEPT !.cursor = n + 1], cursor |-> n + 1,
                          tracker |-> load_trace_seq_tracker(n + 1)]
<1> DEFINE e == log[n + 1]
           events == get_trace_events(e.trace)
           inserted == insert_emission(tables, e)
           new == update_indexes(inserted, e, events)
<1>1. n \in Nat /\ e.log_seq = n + 1
  BY LogFacts
<1>2. CanIndex(e, events)
  BY EventIsIndexed
<1>3. /\ load_trace_seq_tracker(n)[e.trace] = e.trace_seq
      /\ load_trace_seq_tracker(n + 1) = [load_trace_seq_tracker(n) EXCEPT ![e.trace] = e.trace_seq + 1]
  BY TrackerNext
<1>4. p.db = tables /\ p.cursor = n /\ p.tracker = load_trace_seq_tracker(n)
  OBVIOUS
<1>5. p # Rejected
  BY <1>1, <1>4 DEF Rejected
<1>6. check_trace_seq(p, e)
  BY <1>3, <1>4 DEF check_trace_seq
<1>7. DOMAIN inserted = DOMAIN tables
  <2>1. \A d, rows : DOMAIN insert_nodes(d, rows) = DOMAIN d
    BY DEF insert_nodes
  <2> QED BY <2>1 DEF insert_emission, insert_edges, ensure_nodes_exist
<1>8. DOMAIN new = DOMAIN inserted
  <2> HIDE DEF inserted, events, e
  <2>1. DOMAIN on_trace_started(inserted, e) = DOMAIN inserted
    BY DEF on_trace_started
  <2>2. DOMAIN on_policy_evaluated(inserted, e) = DOMAIN inserted
    BY DEF on_policy_evaluated
  <2>3. DOMAIN on_trace_finished(inserted, e, events) = DOMAIN inserted
    BY DEF on_trace_finished, build_precedent_index
  <2> QED BY <2>1, <2>2, <2>3 DEF update_indexes
<1> HIDE DEF e, events, inserted
<1>9. ~verify_payload_hash(e) => project_event_in_tx(p, e) = Rejected
  BY DEF project_event_in_tx
<1>10. verify_payload_hash(e) =>
           project_event_in_tx(p, e) =
               [db |-> [new EXCEPT !.cursor = e.log_seq], cursor |-> e.log_seq,
                tracker |-> [p.tracker EXCEPT ![e.trace] = e.trace_seq + 1]]
  BY <1>2, <1>4, <1>5, <1>6 DEF project_event_in_tx, inserted, events
<1> HIDE DEF new
<1>11. verify_payload_hash(e) =>
           project_event_in_tx(p, e) =
               [db |-> [new EXCEPT !.cursor = n + 1], cursor |-> n + 1,
                tracker |-> load_trace_seq_tracker(n + 1)]
  BY <1>1, <1>3, <1>4, <1>10
<1> QED BY <1>7, <1>8, <1>9, <1>11 DEF new, inserted, events, e

\* If they are those of the first n events, they become those of the first n + 1.
LEMMA TablesNext ==
    ASSUME LogInv, NEW n \in 0 .. Len(log) - 1
    PROVE  LET e == log[n + 1]
               new == update_indexes(insert_emission(TablesUpTo(n), e), e, get_trace_events(e.trace))
           IN  [new EXCEPT !.cursor = n + 1] = TablesUpTo(n + 1)
<1> DEFINE e == log[n + 1]
           new == update_indexes(insert_emission(TablesUpTo(n), e), e, get_trace_events(e.trace))
<1>1. new = Tables(NodesUpTo(n + 1), EdgesUpTo(n + 1), SummariesUpTo(n + 1), PoliciesUpTo(n + 1),
                   PrecedentsUpTo(n + 1), n)
  BY EmissionNext, IndexesNext
<1> HIDE DEF new
<1>2. [new EXCEPT !.cursor = n + 1] = TablesUpTo(n + 1)
  BY <1>1 DEF Tables, TablesUpTo
<1> QED BY <1>2 DEF new

-----------------------------------------------------------------------------
(***************************************************************************)
(* A batch.  What it makes of any tables, from the first m events to the   *)
(* next: the projection is Rejected as soon as an event is not verified.   *)
(***************************************************************************)
IsProjection(p, n, m, tables) ==
    /\ p = [db |-> p.db, cursor |-> m, tracker |-> load_trace_seq_tracker(m)]
    /\ "cursor" \in DOMAIN p.db
    /\ m > n => p.db.cursor = m
    /\ tables = TablesUpTo(n) => p.db = TablesUpTo(m)

LEMMA ProjectionsExist ==
    ASSUME NEW events, Len(events) \in Nat
    PROVE  \A start : \E v :
               /\ v[0] = start
               /\ \A n \in 1 .. Len(events) : v[n] = project_event_in_tx(v[n - 1], events[n])
               /\ ProjectFrom(start, events) = v[Len(events)]
<1> TAKE start
<1> DEFINE N == Len(events)
           Is(k, h) == h = [n \in 0 .. k |-> IF n = 0 THEN start ELSE project_event_in_tx(h[n - 1], events[n])]
           a == CHOOSE h : Is(N, h)
           S == {k \in 0 .. N : \E h : Is(k, h)}
<1>1. ProjectFrom(start, events) = a[N]
  BY DEF ProjectFrom
<1> HIDE DEF N
<1>2. N \in Nat
  BY DEF N
<1>3. 0 \in S
  <2> DEFINE h == [n \in 0 .. 0 |-> start]
  <2>1. \A n \in 0 .. 0 : n = 0
    OBVIOUS
  <2>2. h = [n \in 0 .. 0 |-> IF n = 0 THEN start ELSE project_event_in_tx(h[n - 1], events[n])]
    BY <2>1
  <2>3. \E g : Is(0, g)
    BY <2>2
  <2> HIDE DEF Is
  <2> QED BY <1>2, <2>3
<1>4. ASSUME NEW k \in 1 .. N, k - 1 \in S
      PROVE  k \in S
  <2>1. k \in 0 .. N /\ k \in Nat
    BY <1>2
  <2>2. PICK g : Is(k - 1, g)
    BY <1>4
  <2> DEFINE h == [n \in 0 .. k |-> IF n = k THEN project_event_in_tx(g[k - 1], events[k]) ELSE g[n]]
             F(n) == IF n = 0 THEN start ELSE project_event_in_tx(h[n - 1], events[n])
             G(n) == IF n = 0 THEN start ELSE project_event_in_tx(g[n - 1], events[n])
  <2>3. \A n \in 0 .. k - 1 : h[n] = g[n]
    BY <2>1
  <2>4. h[k] = project_event_in_tx(g[k - 1], events[k])
    BY <2>1
  <2>5. \A n \in 0 .. k - 1 : g[n] = G(n)
    <3> HIDE DEF h
    <3> QED BY <2>2
  <2>6. h = [n \in 0 .. k |-> h[n]]
    OBVIOUS
  <2> HIDE DEF h
  <2>7. ASSUME NEW n \in 0 .. k
        PROVE  h[n] = F(n)
    <3>1. CASE n = 0
      BY <2>1, <2>3, <2>5, <3>1
    <3>2. CASE n \in 1 .. k - 1
      <4>1. n - 1 \in 0 .. k - 1 /\ n \in 0 .. k - 1 /\ n # 0
        BY <2>1, <3>2
      <4>2. h[n - 1] = g[n - 1] /\ h[n] = G(n)
        BY <2>3, <2>5, <4>1
      <4> QED BY <4>1, <4>2
    <3>3. CASE n = k
      <4>1. k - 1 \in 0 .. k - 1 /\ k # 0
        BY <2>1
      <4>2. h[k - 1] = g[k - 1]
        BY <2>3, <4>1
      <4> QED BY <2>4, <3>3, <4>1, <4>2
    <3> QED BY <2>1, <3>1, <3>2, <3>3
  <2>8. h = [n \in 0 .. k |-> F(n)]
    <3> HIDE DEF F
    <3> QED BY <2>6, <2>7
  <2>9. Is(k, h)
    BY <2>8
  <2> HIDE DEF Is
  <2> QED BY <2>1, <2>9
<1>5. N \in S
  <2>1. 0 .. N \subseteq S
    <3> HIDE DEF S
    <3> QED BY <1>2, <1>3, <1>4, IntervalInduction
  <2> HIDE DEF S
  <2> QED BY <1>2, <2>1
<1>6. Is(N, a)
  <2>1. \E h : Is(N, h)
    BY <1>5
  <2> HIDE DEF Is
  <2> QED BY <2>1
<1> HIDE DEF a
<1>7. a[0] = start
  BY <1>2, <1>6
<1>8. \A n \in 1 .. N : a[n] = project_event_in_tx(a[n - 1], events[n])
  <2> SUFFICES ASSUME NEW n \in 1 .. N PROVE a[n] = project_event_in_tx(a[n - 1], events[n])
    OBVIOUS
  <2>1. n \in 0 .. N /\ n # 0
    BY <1>2
  <2> QED BY <1>6, <2>1
<1> QED BY <1>1, <1>7, <1>8 DEF N

LEMMA BatchProjected ==
    ASSUME LogInv, NEW n \in 0 .. Len(log), NEW k \in 0 .. Len(log) - n, NEW events,
           Len(events) = k, \A i \in 1 .. k : events[i] = log[n + i],
           Verified(n), NEW tables, "cursor" \in DOMAIN tables,
           NEW start, start = [db |-> tables, cursor |-> n, tracker |-> load_trace_seq_tracker(n)]
    PROVE  /\ Verified(n + k) => IsProjection(ProjectFrom(start, events), n, n + k, tables)
           /\ ~Verified(n + k) => ProjectFrom(start, events) = Rejected
<1>1. n \in Nat /\ k \in Nat /\ Len(log) \in Nat
  BY LogFacts
<1>2. \A from : \E a : /\ a[0] = from
                       /\ \A m \in 1 .. Len(events) : a[m] = project_event_in_tx(a[m - 1], events[m])
                       /\ ProjectFrom(from, events) = a[Len(events)]
  <2>1. Len(events) \in Nat
    BY <1>1
  <2> QED BY ONLY <2>1, ProjectionsExist
<1> PICK a : /\ a[0] = start
             /\ \A m \in 1 .. Len(events) : a[m] = project_event_in_tx(a[m - 1], events[m])
             /\ ProjectFrom(start, events) = a[Len(events)]
  BY ONLY <1>2
<1> DEFINE Holds(m) == /\ Verified(n + m) => IsProjection(a[m], n, n + m, tables)
                       /\ ~Verified(n + m) => a[m] = Rejected
           S == {m \in 0 .. k : Holds(m)}
<1>3. 0 \in S
  <2>1. n + 0 = n /\ ~(n > n) /\ 0 \in 0 .. k
    BY <1>1
  <2>2. start.db = tables
    OBVIOUS
  <2>3. IsProjection(start, n, n, tables)
    BY <2>1, <2>2 DEF IsProjection
  <2> QED BY <1>2, <2>1, <2>3
<1>4. ASSUME NEW m \in 1 .. k, m - 1 \in S
      PROVE  m \in S
  <2> DEFINE j == n + (m - 1)
             e == log[j + 1]
  <2>1. j \in 0 .. Len(log) - 1 /\ j + 1 = n + m /\ j \in Nat /\ n <= j /\ n + m > n /\ m \in 0 .. k
    BY <1>1
  <2>2. a[m] = project_event_in_tx(a[m - 1], e) /\ Holds(m - 1)
    BY <1>4, <2>1
  <2> HIDE DEF Holds
  <2>3. /\ Verified(j) => IsProjection(a[m - 1], n, j, tables)
        /\ ~Verified(j) => a[m - 1] = Rejected
    BY <2>2 DEF Holds
  <2> HIDE DEF j
  <2>4. Verified(j + 1) <=> Verified(j) /\ verify_payload_hash(e)
    <3>1. \A i : i \in 1 .. j + 1 <=> i \in 1 .. j \/ i = j + 1
      BY <2>1
    <3> QED BY <3>1 DEF Verified
  <2>5. CASE ~Verified(j)
    <3>1. a[m] = Rejected
      BY <2>2, <2>3, <2>5 DEF project_event_in_tx
    <3> QED BY <2>1, <2>4, <2>5, <3>1 DEF Holds
  <2>6. CASE Verified(j)
    <3> DEFINE d == a[m - 1].db
               new == update_indexes(insert_emission(d, e), e, get_trace_events(e.trace))
    <3>1. /\ a[m - 1] = [db |-> d, cursor |-> j, tracker |-> load_trace_seq_tracker(j)]
          /\ "cursor" \in DOMAIN d
          /\ tables = TablesUpTo(n) => d = TablesUpTo(j)
      BY <2>3, <2>6 DEF IsProjection
    <3>2. /\ ~verify_payload_hash(e) => project_event_in_tx(a[m - 1], e) = Rejected
          /\ verify_payload_hash(e) =>
               /\ "cursor" \in DOMAIN new
               /\ project_event_in_tx(a[m - 1], e) =
                    [db |-> [new EXCEPT !.cursor = j + 1], cursor |-> j + 1,
                     tracker |-> load_trace_seq_tracker(j + 1)]
      <4> HIDE DEF d
      <4> QED BY <2>1, <3>1, EventProjects
    <3>3. d = TablesUpTo(j) => [new EXCEPT !.cursor = j + 1] = TablesUpTo(j + 1)
      <4> HIDE DEF d
      <4>1. LET up == update_indexes(insert_emission(TablesUpTo(j), e), e, get_trace_events(e.trace))
            IN  [up EXCEPT !.cursor = j + 1] = TablesUpTo(j + 1)
        BY <2>1, TablesNext
      <4> QED BY <4>1
    <3> HIDE DEF d, new
    <3>4. CASE ~verify_payload_hash(e)
      BY <2>1, <2>2, <2>4, <3>2, <3>4 DEF Holds
    <3>5. CASE verify_payload_hash(e)
      <4> DEFINE after == [new EXCEPT !.cursor = j + 1]
      <4>1. "cursor" \in DOMAIN after /\ after.cursor = j + 1
        BY <3>2, <3>5
      <4> HIDE DEF after
      <4>2. a[m] = [db |-> after, cursor |-> j + 1, tracker |-> load_trace_seq_tracker(j + 1)]
        BY <2>2, <3>2, <3>5 DEF after
      <4>3. tables = TablesUpTo(n) => after = TablesUpTo(j + 1)
        BY <3>1, <3>3 DEF after
      <4>4. IsProjection(a[m], n, j + 1, tables)
        BY <4>1, <4>2, <4>3 DEF IsProjection
      <4>5. Verified(n + m)
        BY <2>1, <2>4, <2>6, <3>5
      <4> QED BY <2>1, <4>4, <4>5 DEF Holds
    <3> QED BY <3>4, <3>5
  <2> QED BY <2>5, <2>6
<1>5. 0 .. k \subseteq S
  <2> HIDE DEF S
  <2> QED BY <1>1, <1>3, <1>4, IntervalInduction
<1>6. Holds(k)
  BY <1>1, <1>5
<1> QED BY <1>2, <1>6

\* What list_events returns: the next events, as many as are asked for and there are.
LEMMA ListEvents ==
    ASSUME LogInv, NEW since \in 0 .. Len(log), NEW until \in 0 .. Len(log), NEW limit \in Nat
    PROVE  LET batch == list_events(since, until, limit)
           IN  \E k \in 0 .. Len(log) - since :
                   /\ Len(batch) = k
                   /\ \A i \in 1 .. k : batch[i] = log[since + i]
                   /\ batch = << >> <=> k = 0
                   /\ \/ k = limit
                      \/ since + k = Len(log)
                      \/ until # 0 /\ since + k >= until
<1> DEFINE bounds == {since + limit, Len(log), IF until = 0 THEN Len(log) ELSE until}
           top == Min(bounds)
           batch == SubSeq(log, since + 1, top)
           k == IF top < since THEN 0 ELSE top - since
<1>1. Len(log) \in Nat /\ log \in Seq(Event)
  BY DEF LogInv
<1>2. top \in bounds /\ \A b \in bounds : top <= b
  <2>1. \E x \in bounds : \A b \in bounds : x <= b
    BY <1>1
  <2> HIDE DEF bounds
  <2> QED BY <2>1 DEF Min
<1> HIDE DEF top
<1>3. top \in 0 .. Len(log)
  BY <1>1, <1>2
<1>4. k \in 0 .. Len(log) - since /\ top - (since + 1) + 1 = top - since
  BY <1>1, <1>3
<1>5. Len(batch) = k /\ batch \in Seq(Event)
  BY <1>1, <1>3
<1>6. \A i \in 1 .. k : batch[i] = log[since + i]
  BY <1>1, <1>3
<1>7. batch = << >> <=> k = 0
  <2> HIDE DEF batch, k
  <2>1. batch = << >> => Len(batch) = 0
    OBVIOUS
  <2>2. Len(batch) = 0 => batch = << >>
    BY <1>5
  <2> QED BY <1>5, <2>1, <2>2
<1>8. \/ k = limit
      \/ since + k = Len(log)
      \/ until # 0 /\ since + k >= until
  BY <1>1, <1>2, <1>3
<1>9. list_events(since, until, limit) = batch
  BY DEF list_events, top
<1> HIDE DEF batch, k
<1> QED BY <1>4, <1>5, <1>6, <1>7, <1>8, <1>9

-----------------------------------------------------------------------------
(***************************************************************************)
(* An append: the store keeps the log well formed, and the tables of what  *)
(* was in the log before stay as they are.                                 *)
(***************************************************************************)
LEMMA AllEvents ==
    ASSUME LogInv, NEW t
    PROVE  get_trace_events(t) = EventsUpTo(Len(log), t)
BY LogFacts DEF get_trace_events, EventsUpTo, Range

LEMMA EventAppended ==
    ASSUME LogInv, NEW t \in Trace, NEW p \in Offered(t), append_event(t, p)
    PROVE  /\ StoredEvent(t, p) \in Event
           /\ log' \in Seq(Event)
           /\ Len(log') = Len(log) + 1 /\ Len(log') <= MaxLogSeq
           /\ p \in Payloads(t)
           /\ \A i \in 1 .. Len(log) : log'[i] = log[i]
           /\ log'[Len(log) + 1] = StoredEvent(t, p)
<1>1. get_next_trace_seq(t) \in Nat
  BY LogFacts, AllEvents, NextBounds DEF get_next_trace_seq
<1>2. p \in Offerable /\ p \in UNION {Range(s) : s \in Scripts[t]}
  <2> DEFINE n == get_next_trace_seq(t)
  <2>1. PICK s \in Scripts[t] : n < Len(s) /\ p = s[n + 1]
    BY DEF Offered
  <2>2. s \in Seq(Range(s))
    BY ReferenceGraphAssumption
  <2>3. n + 1 \in DOMAIN s
    <3> HIDE DEF n
    <3> QED BY <1>1, <2>1, <2>2 DEF n
  <2>4. p \in Range(s)
    BY <2>1, <2>3 DEF Range
  <2> QED BY <2>4 DEF Offerable
<1>3. /\ validate_payload_schema(p) /\ p.type \in ALL_EVENT_TYPES
      /\ Len(log) < MaxLogSeq
  BY DEF append_event, Accepts, validate_payload_schema
<1>4. StoredEvent(t, p) \in Event
  BY <1>1, <1>2, <1>3, LogFacts DEF StoredEvent, Event, compute_payload_hash
<1>5. log \in Seq(Event) /\ log' = Append(log, StoredEvent(t, p))
  BY DEF LogInv, append_event
<1>6. p \in Payloads(t)
  BY <1>2, <1>3 DEF Payloads
<1>7. Len(log) + 1 <= MaxLogSeq
  BY <1>3, LogFacts, ReferenceGraphAssumption
<1> QED BY <1>4, <1>5, <1>6, <1>7

LEMMA LogKept ==
    ASSUME LogInv, NEW t \in Trace, NEW p \in Offered(t), append_event(t, p)
    PROVE  LogInv'
<1> DEFINE e == StoredEvent(t, p)
           N == Len(log)
<1>1. /\ log' \in Seq(Event) /\ Len(log') = N + 1 /\ N \in Nat /\ log'[N + 1] = e
      /\ Len(log') <= MaxLogSeq /\ p \in Payloads(t)
      /\ \A i \in 1 .. N : log'[i] = log[i]
  BY EventAppended, LogFacts
<1>2. \A n \in 0 .. N : \A u : EventsUpTo(n, u)' = EventsUpTo(n, u)
  <2>1. \A n \in 0 .. N : \A i \in 1 .. n : log'[i] = log[i]
    BY <1>1
  <2> QED BY <2>1 DEF EventsUpTo
<1>3. /\ e.log_seq = N + 1 /\ e.trace = t /\ e.type = p.type /\ e.about = p.about /\ e.with = p.with
      /\ e.trace_seq = NextAfter(EventsUpTo(N, t))
  BY AllEvents DEF StoredEvent, get_next_trace_seq
<1>4. /\ validate_payload_schema(p) /\ ~is_trace_finished(t)
      /\ p.type = "TraceStarted" <=> get_next_trace_seq(t) = 0
  BY DEF append_event, Accepts
<1> HIDE DEF e
<1>5. ASSUME NEW i \in 1 .. Len(log')
      PROVE  WellFormed(i)'
  <2>1. CASE i \in 1 .. N
    <3>1. WellFormed(i) /\ log'[i] = log[i] /\ i - 1 \in 0 .. N
      BY <1>1, <2>1 DEF LogInv
    <3>2. EventsUpTo(i - 1, log[i].trace)' = EventsUpTo(i - 1, log'[i].trace)
      BY <1>2, <3>1
    <3> QED BY <3>1, <3>2 DEF WellFormed
  <2>2. CASE i = N + 1
    <3>1. log'[i] = e /\ i - 1 = N /\ i - 1 \in 0 .. N
      BY <1>1, <2>2
    <3>2. EventsUpTo(i - 1, log[i].trace)' = EventsUpTo(i - 1, t)
      BY <1>2, <1>3, <3>1
    <3>3. e.type = "TraceStarted" <=> e.trace_seq = 0
      BY <1>3, <1>4, AllEvents DEF get_next_trace_seq
    <3>4. /\ e.about # None
          /\ e.type = "PolicyEvaluated" => HasPolicy(e.about)
          /\ e.type = "ExceptionRequested" => HasPolicy(e.with)
      BY <1>3, <1>4 DEF validate_payload_schema
    <3>5. \E x \in Payloads(e.trace) : e.type = x.type /\ e.about = x.about /\ e.with = x.with
      BY <1>1, <1>3
    <3> QED BY <1>3, <2>2, <3>1, <3>2, <3>3, <3>4, <3>5 DEF WellFormed
  <2> QED BY <1>1, <2>1, <2>2
<1>6. ASSUME NEW i \in 1 .. Len(log'), NEW j \in 1 .. Len(log')
      PROVE  InOrder(i, j)'
  <2>1. CASE i \in 1 .. N /\ j \in 1 .. N
    BY <1>1, <2>1 DEF LogInv, InOrder
  <2>2. CASE j = N + 1
    <3> SUFFICES ASSUME i \in 1 .. N, log[i].trace = t
                 PROVE  log[i].trace_seq < e.trace_seq /\ log[i].type # "TraceFinished"
      BY <1>1, <1>3, <2>2 DEF InOrder
    <3>1. log[i] \in EventsUpTo(N, t)
      BY DEF EventsUpTo
    <3>2. log[i].trace_seq < e.trace_seq
      BY <1>1, <1>3, <3>1, NextBounds
    <3>3. log[i] \in get_trace_events(t)
      BY <3>1, AllEvents
    <3> QED BY <1>4, <3>2, <3>3 DEF is_trace_finished
  <2>3. CASE i = N + 1 /\ j \in 1 .. N
    BY <1>1, <2>3 DEF InOrder
  <2> QED BY <1>1, <2>1, <2>2, <2>3
<1> QED BY <1>1, <1>5, <1>6 DEF LogInv

LEMMA TablesKept ==
    ASSUME LogInv, NEW t \in Trace, NEW p \in Offered(t), append_event(t, p)
    PROVE  \A n \in 0 .. Len(log) :
               /\ TablesUpTo(n)' = TablesUpTo(n)
               /\ load_trace_seq_tracker(n)' = load_trace_seq_tracker(n)
               /\ Verified(n)' <=> Verified(n)
<1> DEFINE N == Len(log)
<1>1. /\ Len(log') = N + 1 /\ N \in Nat /\ log'[N + 1] = StoredEvent(t, p)
      /\ \A i \in 1 .. N : log'[i] = log[i]
  BY EventAppended, LogFacts
<1>2. LogInv'
  BY LogKept
<1> SUFFICES ASSUME NEW n \in 0 .. N
             PROVE  /\ TablesUpTo(n)' = TablesUpTo(n)
                    /\ load_trace_seq_tracker(n)' = load_trace_seq_tracker(n)
                    /\ Verified(n)' <=> Verified(n)
  OBVIOUS
<1>3. \A i \in 1 .. n : log'[i] = log[i]
  BY <1>1
<1>4. \A u : EventsUpTo(n, u)' = EventsUpTo(n, u)
  BY <1>3 DEF EventsUpTo
<1>5. load_trace_seq_tracker(n)' = load_trace_seq_tracker(n)
  <2>1. load_trace_seq_tracker(n) = [u \in Trace |-> NextAfter(EventsUpTo(n, u))]
    BY DEF load_trace_seq_tracker, EventsUpTo
  <2>2. load_trace_seq_tracker(n)' = [u \in Trace |-> NextAfter(EventsUpTo(n, u)')]
    BY DEF load_trace_seq_tracker, EventsUpTo
  <2> QED BY <1>4, <2>1, <2>2
<1>6. EdgesUpTo(n)' = EdgesUpTo(n)
  BY <1>3 DEF EdgesUpTo
<1>7. \A i \in 1 .. n : MentionedUpTo(i - 1)' = MentionedUpTo(i - 1)
  BY <1>1, <1>3 DEF MentionedUpTo
<1>8. NodesUpTo(n)' = NodesUpTo(n)
  BY <1>3, <1>7 DEF NodesUpTo
<1>9. PoliciesUpTo(n)' = PoliciesUpTo(n)
  BY <1>3 DEF PoliciesUpTo
<1>10. \A u : FinishOf(u, n)' = FinishOf(u, n)
  BY <1>3 DEF FinishOf
<1>11. ASSUME NEW e
       PROVE  SummaryUpTo(n, e)' = SummaryUpTo(n, e)
  <2> DEFINE finish == FinishOf(e.trace, n)
             i == CHOOSE i \in finish : TRUE
  <2>1. finish # {} => log'[i] = log[i]
    BY <1>3 DEF FinishOf
  <2>2. FinishOf(e.trace, n)' = finish
    BY <1>10
  <2>3. CASE finish = {}
    BY <2>2, <2>3 DEF SummaryUpTo
  <2>4. CASE finish # {}
    <3>1. (CHOOSE j \in FinishOf(e.trace, n) : TRUE)' = i
      BY <2>2, Zenon
    <3>2. log[CHOOSE j \in FinishOf(e.trace, n) : TRUE]' = log[i]
      BY <2>1, <2>4, <3>1
    <3> HIDE DEF finish
    <3> QED BY <2>2, <2>4, <3>2, Zenon DEF SummaryUpTo, finish
  <2> QED BY <2>3, <2>4
<1>12. SummariesUpTo(n)' = SummariesUpTo(n)
  BY <1>3, <1>11 DEF SummariesUpTo
<1>13. ASSUME NEW s \in SummariesUpTo(n), s.outcome # None
       PROVE  Indexed(s.trace)' = Indexed(s.trace)
  <2>1. PICK k \in 1 .. n : s = SummaryUpTo(n, log[k])
    BY DEF SummariesUpTo
  <2>2. FinishOf(s.trace, n) # {}
    <3>1. s.trace = log[k].trace
      BY <2>1, SummaryTrace
    <3>2. SummaryUpTo(n, log[k]).outcome # None
      BY <1>13, <2>1
    <3>3. FinishOf(log[k].trace, n) # {}
      BY <3>2, SummaryOutcome
    <3> QED BY <3>1, <3>3
  <2>3. PICK i \in 1 .. n : log[i].trace = s.trace /\ log[i].type = "TraceFinished"
    BY <2>2 DEF FinishOf
  <2>4. log'[N + 1].trace # s.trace
    <3>1. i \in 1 .. Len(log') /\ N + 1 \in 1 .. Len(log') /\ i < N + 1
      BY <1>1
    <3> QED BY <1>2, <1>3, <2>3, <3>1 DEF LogInv, InOrder
  <2>5. get_trace_events(s.trace)' = {log'[j] : j \in {l \in 1 .. N + 1 : log'[l].trace = s.trace}}
    <3>1. DOMAIN log' = 1 .. N + 1
      BY <1>1, <1>2, LogFacts
    <3> QED BY <3>1 DEF get_trace_events, Range
  <2>6. get_trace_events(s.trace) = {log[j] : j \in {l \in 1 .. N : log[l].trace = s.trace}}
    BY LogFacts DEF get_trace_events, Range
  <2>7. \A l : l \in 1 .. N + 1 <=> l \in 1 .. N \/ l = N + 1
    BY <1>1
  <2>8. get_trace_events(s.trace)' = get_trace_events(s.trace)
    BY <1>1, <2>4, <2>5, <2>6, <2>7
  <2> QED BY <2>8 DEF Indexed
<1>14. PrecedentsUpTo(n)' = PrecedentsUpTo(n)
  <2> DEFINE Finished == {x \in SummariesUpTo(n) : x.outcome # None}
             Rows(s) == {PrecedentRow(x, s.entity) : x \in Indexed(s.trace)}
  <2>1. Finished' = Finished
    BY <1>12
  <2>2. \A s \in Finished : Rows(s)' = Rows(s)
    BY <1>13
  <2>3. PrecedentsUpTo(n) = UNION {Rows(s) : s \in Finished}
    BY DEF PrecedentsUpTo, Indexed
  <2>4. PrecedentsUpTo(n)' = UNION {Rows(s)' : s \in Finished'}
    BY DEF PrecedentsUpTo, Indexed
  <2> HIDE DEF Finished, Rows
  <2> QED BY <2>1, <2>2, <2>3, <2>4
<1>15. Verified(n)' <=> Verified(n)
  BY <1>3 DEF Verified
<1> QED BY <1>5, <1>6, <1>8, <1>9, <1>12, <1>14, <1>15 DEF TablesUpTo

LEMMA LogUnchanged ==
    ASSUME log' = log
    PROVE  /\ LogInv' <=> LogInv
           /\ Len(log)' = Len(log)
           /\ \A n : /\ TablesUpTo(n)' = TablesUpTo(n)
                     /\ load_trace_seq_tracker(n)' = load_trace_seq_tracker(n)
                     /\ Verified(n)' <=> Verified(n)
<1>1. Len(log)' = Len(log)
  OBVIOUS
<1>2. \A n, t : EventsUpTo(n, t)' = EventsUpTo(n, t)
  BY DEF EventsUpTo
<1>3. \A i : WellFormed(i)' <=> WellFormed(i)
  BY <1>2 DEF WellFormed
<1>4. \A i, j : InOrder(i, j)' <=> InOrder(i, j)
  BY DEF InOrder
<1>5. LogInv' <=> LogInv
  BY <1>3, <1>4 DEF LogInv
<1>6. \A t : get_trace_events(t)' = get_trace_events(t)
  BY DEF get_trace_events
<1>7. ASSUME NEW n
      PROVE  /\ TablesUpTo(n)' = TablesUpTo(n)
             /\ load_trace_seq_tracker(n)' = load_trace_seq_tracker(n)
  <2>1. load_trace_seq_tracker(n)' = load_trace_seq_tracker(n)
    BY DEF load_trace_seq_tracker
  <2>2. EdgesUpTo(n)' = EdgesUpTo(n)
    BY DEF EdgesUpTo
  <2>3. \A i : MentionedUpTo(i)' = MentionedUpTo(i)
    BY DEF MentionedUpTo
  <2>4. NodesUpTo(n)' = NodesUpTo(n)
    BY <2>3 DEF NodesUpTo
  <2>5. PoliciesUpTo(n)' = PoliciesUpTo(n)
    BY DEF PoliciesUpTo
  <2>6. \A e : SummaryUpTo(n, e)' = SummaryUpTo(n, e)
    <3>1. \A t : FinishOf(t, n)' = FinishOf(t, n)
      BY DEF FinishOf
    <3>2. ASSUME NEW t
          PROVE  (CHOOSE i \in FinishOf(t, n) : TRUE)' = CHOOSE i \in FinishOf(t, n) : TRUE
      <4>1. FinishOf(t, n)' = FinishOf(t, n)
        BY <3>1
      <4> QED BY <4>1, Zenon
    <3>3. ASSUME NEW e
          PROVE  SummaryUpTo(n, e)' = SummaryUpTo(n, e)
      <4> DEFINE i == CHOOSE i \in FinishOf(e.trace, n) : TRUE
      <4>1. i' = i
        BY <3>2
      <4> HIDE DEF i
      <4>2. log[i]' = log[i]
        BY <4>1
      <4> QED BY <3>1, <4>2 DEF SummaryUpTo, i
    <3> QED BY <3>3
  <2>7. SummariesUpTo(n)' = SummariesUpTo(n)
    BY <2>6 DEF SummariesUpTo
  <2>8. PrecedentsUpTo(n)' = PrecedentsUpTo(n)
    BY <1>6, <2>7 DEF PrecedentsUpTo
  <2> QED BY <2>1, <2>2, <2>4, <2>5, <2>7, <2>8 DEF TablesUpTo
<1>8. \A n : Verified(n)' <=> Verified(n)
  BY DEF Verified
<1> QED BY <1>1, <1>5, <1>7, <1>8

-----------------------------------------------------------------------------
(***************************************************************************)
(* The inductive invariant.                                                *)
(***************************************************************************)
LEMMA NothingProjected ==
    /\ TablesUpTo(0) = EmptyTables
    /\ load_trace_seq_tracker(0) = [t \in Trace |-> 0]
    /\ Verified(0)
<1>1. \A i : i \notin 1 .. 0
  OBVIOUS
<1>2. NodesUpTo(0) = {} /\ EdgesUpTo(0) = {} /\ SummariesUpTo(0) = {} /\ PoliciesUpTo(0) = {}
  BY <1>1 DEF NodesUpTo, EdgesUpTo, SummariesUpTo, PoliciesUpTo
<1>3. PrecedentsUpTo(0) = {}
  BY <1>2 DEF PrecedentsUpTo
<1>4. TablesUpTo(0) = EmptyTables
  BY <1>2, <1>3 DEF TablesUpTo, EmptyTables
<1>5. load_trace_seq_tracker(0) = [t \in Trace |-> 0]
  <2>1. \A t : EventsUpTo(0, t) = {}
    BY <1>1 DEF EventsUpTo
  <2>2. NextAfter({}) = 0
    BY DEF NextAfter
  <2>3. load_trace_seq_tracker(0) = [t \in Trace |-> NextAfter(EventsUpTo(0, t))]
    BY DEF load_trace_seq_tracker, EventsUpTo
  <2> QED BY <2>1, <2>2, <2>3
<1> QED BY <1>1, <1>4, <1>5 DEF Verified

LEMMA GraphInit == Init => GraphInv
<1> SUFFICES ASSUME Init PROVE GraphInv
  OBVIOUS
<1>1. log = << >> /\ Len(log) = 0 /\ 0 \in 0 .. Len(log)
  BY DEF Init
<1>2. LogInv
  BY <1>1, ReferenceGraphAssumption DEF LogInv
<1>3. GraphTyped
  BY DEF Init, GraphTyped, Dead, NoCall
<1>4. RunAt(0) /\ call.state # "rejected"
  BY NothingProjected DEF Init, RunAt, Dead, NoCall
<1>5. Cursored(db) /\ undo = None
  BY <1>1, NothingProjected DEF Init, Cursored, EmptyTables
<1> QED BY <1>1, <1>2, <1>3, <1>4, <1>5 DEF GraphInv, RunInv

\* What the cursors say of the log is true of the log with an event more, or as it is.
LEMMA LogGrows ==
    ASSUME LogInv,
           log' = log \/ \E t \in Trace : \E p \in Offered(t) : append_event(t, p)
    PROVE  /\ LogInv' /\ Len(log) \in Nat /\ Len(log') \in Nat /\ Len(log) <= Len(log')
           /\ \A i \in 1 .. Len(log) : log'[i] = log[i]
           /\ \A n \in 0 .. Len(log) :
                  /\ n \in 0 .. Len(log')
                  /\ TablesUpTo(n)' = TablesUpTo(n)
                  /\ load_trace_seq_tracker(n)' = load_trace_seq_tracker(n)
                  /\ Verified(n)' <=> Verified(n)
<1>1. Len(log) \in Nat
  BY LogFacts
<1>2. CASE log' = log
  BY <1>1, <1>2, LogUnchanged
<1>3. CASE \E t \in Trace : \E p \in Offered(t) : append_event(t, p)
  <2>1. PICK t \in Trace : \E p \in Offered(t) : append_event(t, p)
    BY <1>3
  <2>2. PICK p \in Offered(t) : append_event(t, p)
    BY <2>1
  <2>3. LogInv' /\ Len(log') = Len(log) + 1 /\ \A i \in 1 .. Len(log) : log'[i] = log[i]
    BY <2>2, LogKept, EventAppended
  <2>4. \A n \in 0 .. Len(log) :
            /\ TablesUpTo(n)' = TablesUpTo(n)
            /\ load_trace_seq_tracker(n)' = load_trace_seq_tracker(n)
            /\ Verified(n)' <=> Verified(n)
    BY <2>2, TablesKept
  <2> QED BY <1>1, <2>3, <2>4
<1> QED BY <1>2, <1>3

\* The next batch: what it is, and what the projector makes of it.
LEMMA NextBatchProjected ==
    ASSUME GraphInv, NEW m \in 0 .. Len(log), RunAt(m), call.state = "projecting"
    PROVE  \E k \in 0 .. Len(log) - m :
               /\ NextBatch = << >> <=> k = 0
               /\ k = call.size \/ m + k = Len(log) \/ (call.until # 0 /\ m + k >= call.until)
               /\ Verified(m + k) => IsProjection(project_events_in_tx(NextBatch), m, m + k, db)
               /\ ~Verified(m + k) => project_events_in_tx(NextBatch) = Rejected
               /\ k # 0 => Last(NextBatch).log_seq = m + k
<1>1. LogInv /\ Len(log) \in Nat
  BY LogFacts DEF GraphInv
<1>2. /\ call.since = m /\ call.until \in 0 .. Len(log) /\ call.size \in Nat
      /\ memory.cursor = m /\ memory.tracker = load_trace_seq_tracker(m) /\ Verified(m)
  BY <1>1 DEF RunAt
<1> DEFINE batch == list_events(m, call.until, call.size)
<1>3. NextBatch = batch
  BY <1>2 DEF NextBatch
<1>4. PICK k \in 0 .. Len(log) - m :
          /\ Len(batch) = k
          /\ \A i \in 1 .. k : batch[i] = log[m + i]
          /\ batch = << >> <=> k = 0
          /\ k = call.size \/ m + k = Len(log) \/ (call.until # 0 /\ m + k >= call.until)
  <2>1. \A until \in 0 .. Len(log), limit \in Nat :
            LET next == list_events(m, until, limit)
            IN  \E k \in 0 .. Len(log) - m :
                    /\ Len(next) = k
                    /\ \A i \in 1 .. k : next[i] = log[m + i]
                    /\ next = << >> <=> k = 0
                    /\ k = limit \/ m + k = Len(log) \/ (until # 0 /\ m + k >= until)
    BY <1>1, ListEvents
  <2>2. call.until \in 0 .. Len(log) /\ call.size \in Nat
    BY <1>2
  <2> QED BY ONLY <2>1, <2>2
<1> HIDE DEF batch
<1> DEFINE start == [db |-> db, cursor |-> m, tracker |-> load_trace_seq_tracker(m)]
<1>5. /\ Verified(m + k) => IsProjection(ProjectFrom(start, batch), m, m + k, db)
      /\ ~Verified(m + k) => ProjectFrom(start, batch) = Rejected
  <2>1. "cursor" \in DOMAIN db
    BY DEF GraphInv, Cursored
  <2>2. PICK tables : tables = db
    OBVIOUS
  <2>3. PICK from : from = [db |-> tables, cursor |-> m, tracker |-> load_trace_seq_tracker(m)]
    OBVIOUS
  <2>4. /\ Verified(m + k) => IsProjection(ProjectFrom(from, batch), m, m + k, tables)
        /\ ~Verified(m + k) => ProjectFrom(from, batch) = Rejected
    BY <1>1, <1>2, <1>4, <2>1, <2>2, <2>3, BatchProjected
  <2> QED BY <2>2, <2>3, <2>4
<1>6. project_events_in_tx(batch) = ProjectFrom(start, batch)
  BY <1>2 DEF project_events_in_tx
<1> HIDE DEF start
<1>7. ASSUME k # 0
      PROVE  Last(batch).log_seq = m + k
  <2>1. Last(batch) = log[m + k] /\ m + k \in 1 .. Len(log)
    BY <1>1, <1>4, <1>7 DEF Last
  <2> QED BY <1>1, <2>1, LogFacts
<1> QED BY <1>3, <1>4, <1>5, <1>6, <1>7

\* A batch takes cursor and call from m to m + k, unless one of its events is rejected.
LEMMA BatchStep ==
    ASSUME GraphInv, NEW m \in 0 .. Len(log), RunAt(m), ProjectBatch
    PROVE  \E k \in 1 .. Len(log) - m :
               /\ UNCHANGED <<log, undo>>
               /\ ~Verified(m + k) =>
                     UNCHANGED <<db, memory>> /\ call' = [NoCall EXCEPT !.state = "rejected"]
               /\ Verified(m + k) =>
                     /\ "cursor" \in DOMAIN db' /\ db'.cursor = m + k
                     /\ db = TablesUpTo(m) => db' = TablesUpTo(m + k)
                     /\ memory' = [alive |-> TRUE, cursor |-> m + k,
                                   tracker |-> load_trace_seq_tracker(m + k)]
                     /\ IF call.until # 0 /\ m + k >= call.until
                        THEN call' = NoCall
                        ELSE call' = Projecting(m + k, call.until, call.size, call.target)
<1>1. call.state = "projecting" /\ NextBatch # << >>
  BY DEF ProjectBatch, Begin
<1> DEFINE p == project_events_in_tx(NextBatch)
           last == Last(NextBatch).log_seq
<1>2. PICK k \in 0 .. Len(log) - m :
          /\ NextBatch = << >> <=> k = 0
          /\ Verified(m + k) => IsProjection(p, m, m + k, db)
          /\ ~Verified(m + k) => p = Rejected
          /\ k # 0 => last = m + k
  BY <1>1, NextBatchProjected
<1>3. m \in Nat /\ k \in 1 .. Len(log) - m /\ m + k \in Nat /\ m + k > m
  <2>1. Len(log) \in Nat
    BY LogFacts DEF GraphInv
  <2> QED BY <1>1, <1>2, <2>1
<1>4. /\ IF p = Rejected
         THEN Raise("rejected") /\ UNCHANGED <<db, memory>>
         ELSE /\ db' = p.db
              /\ memory' = [memory EXCEPT !.cursor = p.cursor, !.tracker = p.tracker]
              /\ IF call.until # 0 /\ last >= call.until
                 THEN call' = NoCall
                 ELSE call' = [call EXCEPT !.since = last]
      /\ UNCHANGED <<log, undo>>
  BY DEF ProjectBatch
<1>5. /\ call = Projecting(call.since, call.until, call.size, call.target)
      /\ memory = [alive |-> memory.alive, cursor |-> memory.cursor, tracker |-> memory.tracker]
      /\ memory.alive
  BY <1>1 DEF GraphInv, GraphTyped, RunAt
<1> HIDE DEF p, last
<1>6. last = m + k
  BY <1>2, <1>3
<1>7. CASE ~Verified(m + k)
  BY <1>2, <1>3, <1>4, <1>7 DEF Raise
<1>8. CASE Verified(m + k)
  <2>1. /\ p = [db |-> p.db, cursor |-> m + k, tracker |-> load_trace_seq_tracker(m + k)]
        /\ "cursor" \in DOMAIN p.db /\ p.db.cursor = m + k
        /\ db = TablesUpTo(m) => p.db = TablesUpTo(m + k)
    BY <1>2, <1>3, <1>8 DEF IsProjection
  <2> DEFINE d == p.db
  <2> HIDE DEF d
  <2>2. p = [db |-> d, cursor |-> m + k, tracker |-> load_trace_seq_tracker(m + k)]
    BY <2>1 DEF d
  <2>3. p.cursor = m + k /\ p.tracker = load_trace_seq_tracker(m + k)
    BY <2>2
  <2>4. p # Rejected
    BY <1>3, <2>3 DEF Rejected
  <2>5. /\ db' = p.db
        /\ memory' = [memory EXCEPT !.cursor = p.cursor, !.tracker = p.tracker]
        /\ IF call.until # 0 /\ last >= call.until
           THEN call' = NoCall
           ELSE call' = [call EXCEPT !.since = last]
    BY <1>4, <2>4
  <2>6. memory' = [alive |-> TRUE, cursor |-> m + k, tracker |-> load_trace_seq_tracker(m + k)]
    <3>1. memory' = [alive |-> memory.alive, cursor |-> p.cursor, tracker |-> p.tracker]
      BY <1>5, <2>5
    <3> QED BY <1>5, <2>3, <3>1 DEF GraphInv, GraphTyped
  <2>7. [call EXCEPT !.since = last] = Projecting(m + k, call.until, call.size, call.target)
    BY <1>5, <1>6 DEF Projecting
  <2>8. "cursor" \in DOMAIN db' /\ db'.cursor = m + k /\ (db = TablesUpTo(m) => db' = TablesUpTo(m + k))
    BY <2>1, <2>5
  <2> QED BY <1>3, <1>4, <1>6, <1>8, <2>5, <2>6, <2>7, <2>8
<1> QED BY <1>7, <1>8

\* No batch is left only when the memory is where the call wanted it.
LEMMA LastBatch ==
    ASSUME GraphInv, NEW m \in 0 .. Len(log), RunAt(m), NoBatchIsLeft
    PROVE  memory.alive /\ memory.cursor = m /\ m >= call.target
<1>1. call.state = "projecting" /\ NextBatch = << >>
  BY DEF NoBatchIsLeft
<1>2. PICK k \in 0 .. Len(log) - m :
          /\ NextBatch = << >> <=> k = 0
          /\ k = call.size \/ m + k = Len(log) \/ (call.until # 0 /\ m + k >= call.until)
  BY <1>1, NextBatchProjected
<1>3. /\ memory.alive /\ memory.cursor = m
      /\ call.size # 0 /\ call.until \in {0, call.target} /\ call.target \in 1 .. Len(log)
  BY <1>1 DEF RunAt
<1> QED BY <1>1, <1>2, <1>3

\* What remains of the tables when some of them are deleted.
LEMMA DeletedCursor ==
    ASSUME GraphInv, NEW k
    PROVE  Cursored(Deleted(k))
<1>1. "cursor" \in DOMAIN db /\ Cursored(db) /\ Len(log) \in Nat
  BY LogFacts DEF GraphInv, Cursored
<1>2. "cursor" \in DOMAIN Deleted(k)
  BY <1>1 DEF Deleted
<1>3. Deleted(k).cursor = 0 \/ Deleted(k).cursor = db.cursor
  BY <1>1 DEF Deleted, EmptyTables
<1>4. 0 \in 0 .. Len(log) /\ Verified(0)
  BY <1>1, NothingProjected
<1> QED BY <1>1, <1>2, <1>3, <1>4 DEF Cursored

\* A step that leaves the log alone, or appends to it.
LEMMA StepTo ==
    ASSUME GraphInv,
           log' = log \/ \E t \in Trace : \E p \in Offered(t) : append_event(t, p),
           GraphTyped',
           NEW m \in 0 .. Len(log), memory'.cursor = m, Verified(m),
           memory'.tracker = load_trace_seq_tracker(m),
           call'.state = "projecting" =>
               /\ memory'.alive
               /\ call'.since = m
               /\ call'.size \in Nat \ {0}
               /\ call'.until \in {0, call'.target}
               /\ call'.target \in 1 .. Len(log'),
           call'.state = "rejected" => \E i \in 1 .. Len(log) : ~verify_payload_hash(log[i]),
           Cursored(db'),
           undo' # None => Cursored(undo')
    PROVE  GraphInv'
<1>1. /\ LogInv' /\ Len(log) \in Nat /\ Len(log') \in Nat /\ Len(log) <= Len(log')
      /\ \A i \in 1 .. Len(log) : log'[i] = log[i]
      /\ \A n \in 0 .. Len(log) :
             /\ n \in 0 .. Len(log')
             /\ load_trace_seq_tracker(n)' = load_trace_seq_tracker(n)
             /\ Verified(n)' <=> Verified(n)
  <2>1. LogInv
    BY DEF GraphInv
  <2> QED BY <2>1, LogGrows
<1>2. RunAt(m)' /\ m \in 0 .. Len(log')
  BY <1>1 DEF RunAt
<1>3. call'.state = "rejected" => \E i \in 1 .. Len(log') : ~verify_payload_hash(log'[i])
  BY <1>1
<1>4. ASSUME NEW tables, Cursored(tables)
      PROVE  Cursored(tables)'
  BY <1>1, <1>4 DEF Cursored
<1>5. Cursored(db)'
  <2>1. PICK tables : tables = db'
    OBVIOUS
  <2>2. Cursored(tables)'
    BY <1>4, <2>1
  <2> QED BY <2>1, <2>2 DEF Cursored
<1>6. undo' # None => Cursored(undo)'
  <2>1. PICK tables : tables = undo'
    OBVIOUS
  <2>2. undo' # None => Cursored(tables)'
    BY <1>4, <2>1
  <2> QED BY <2>1, <2>2 DEF Cursored
<1>7. RunInv'
  BY <1>2, <1>3 DEF RunInv
<1> QED BY <1>1, <1>5, <1>6, <1>7 DEF GraphInv

\* A step that changes the call alone, the memory or the tables being those of a transaction undone.
LEMMA CallTo ==
    ASSUME GraphInv,
           log' = log \/ \E t \in Trace : \E p \in Offered(t) : append_event(t, p),
           memory' = memory,
           \/ UNCHANGED <<db, undo>>
           \/ db' = db /\ undo' = None
           \/ db' = Committed /\ undo' = None,
           \/ call' = call
           \/ call'.state \in {"none", "failed", "aborted"}
           \/ /\ memory.alive
              /\ \E until, size, target :
                     /\ call' = Projecting(memory.cursor, until, size, target)
                     /\ size \in Nat \ {0} /\ until \in {0, target} /\ target \in 1 .. Len(log')
    PROVE  GraphInv'
<1>1. PICK m \in 0 .. Len(log) : RunAt(m)
  BY DEF GraphInv, RunInv
<1>2. /\ memory.cursor = m /\ Verified(m) /\ memory.tracker = load_trace_seq_tracker(m)
      /\ call.state = "projecting" =>
            /\ memory.alive
            /\ call.since = m
            /\ call.size \in Nat \ {0}
            /\ call.until \in {0, call.target}
            /\ call.target \in 1 .. Len(log)
  BY <1>1 DEF RunAt
<1>3. Cursored(db) /\ (undo # None => Cursored(undo)) /\ Cursored(Committed)
  BY DEF GraphInv, Committed
<1>4. Cursored(db') /\ (undo' # None => Cursored(undo'))
  <2>1. db' = db \/ db' = Committed
    OBVIOUS
  <2>2. undo' = undo \/ undo' = None
    OBVIOUS
  <2> HIDE DEF Committed
  <2> QED BY <1>3, <2>1, <2>2
<1>5. Len(log) \in Nat /\ Len(log') \in Nat /\ Len(log) <= Len(log')
  BY LogGrows DEF GraphInv
<1>6. GraphTyped /\ RunInv
  BY DEF GraphInv
<1>7. CASE call' = call
  <2>1. GraphTyped'
    BY <1>6, <1>7 DEF GraphTyped
  <2>2. call'.state = "rejected" => \E i \in 1 .. Len(log) : ~verify_payload_hash(log[i])
    BY <1>6, <1>7 DEF RunInv
  <2>3. call'.state = "projecting" =>
            /\ memory'.alive
            /\ call'.since = m
            /\ call'.size \in Nat \ {0}
            /\ call'.until \in {0, call'.target}
            /\ call'.target \in 1 .. Len(log')
    BY <1>2, <1>5, <1>7
  <2> QED BY <1>2, <1>4, <2>1, <2>2, <2>3, StepTo
<1>8. CASE call'.state \in {"none", "failed", "aborted"}
  <2>1. GraphTyped'
    BY <1>6, <1>8 DEF GraphTyped
  <2> QED BY <1>2, <1>4, <1>8, <2>1, StepTo
<1>9. CASE /\ memory.alive
           /\ \E until, size, target :
                  /\ call' = Projecting(memory.cursor, until, size, target)
                  /\ size \in Nat \ {0} /\ until \in {0, target} /\ target \in 1 .. Len(log')
  <2>1. PICK until, size, target :
            /\ call' = Projecting(m, until, size, target)
            /\ size \in Nat \ {0} /\ until \in {0, target} /\ target \in 1 .. Len(log')
    BY <1>2, <1>9
  <2>2. /\ call'.state = "projecting" /\ call'.since = m /\ call'.until = until
        /\ call'.size = size /\ call'.target = target
    BY <2>1 DEF Projecting
  <2>3. GraphTyped'
    BY <1>6, <2>1, <2>2 DEF GraphTyped
  <2> QED BY <1>2, <1>4, <1>9, <2>1, <2>2, <2>3, StepTo
<1> QED BY <1>7, <1>8, <1>9

LEMMA GraphStep == GraphInv /\ [Next]_vars => GraphInv'
<1> SUFFICES ASSUME GraphInv, [Next]_vars
             PROVE  GraphInv'
  OBVIOUS
<1>1. PICK m \in 0 .. Len(log) : RunAt(m)
  BY DEF GraphInv, RunInv
<1>2. LogInv /\ Len(log) \in Nat /\ m \in Nat /\ memory.cursor = m
  BY <1>1, LogFacts DEF GraphInv, RunAt
<1>3. ASSUME NEW t \in Trace, DoAppend(t)
      PROVE  GraphInv'
  <2>1. PICK p \in Offered(t) : append_event(t, p)
    BY <1>3 DEF DoAppend
  <2>2. Len(log') \in 1 .. Len(log') /\ DefaultBatchSize \in Nat \ {0}
    BY <1>2, <2>1, EventAppended, ReferenceGraphAssumption
  <2>3. /\ memory.alive
        /\ call' = Projecting(memory.cursor, Len(log'), DefaultBatchSize, Len(log'))
        /\ UNCHANGED <<db, memory>> /\ undo' = None
    BY <1>3 DEF DoAppend, Idle
  <2> QED BY <2>1, <2>2, <2>3, CallTo
<1>4. ASSUME NEW t \in Trace, OtherAppend(t)
      PROVE  GraphInv'
  BY <1>4, CallTo DEF OtherAppend
<1>5. ASSUME NEW n \in 1 .. MaxLogSeq, RetryAppend(n)
      PROVE  GraphInv'
  <2>1. /\ memory.alive /\ n \in 1 .. Len(log)
        /\ call' = Projecting(memory.cursor, n, DefaultBatchSize, n)
        /\ UNCHANGED <<log, db, undo, memory>>
    BY <1>5 DEF RetryAppend, Idle
  <2> QED BY <2>1, CallTo, ReferenceGraphAssumption
<1>6. ASSUME NEW size \in BatchSizes, sync_projections(size)
      PROVE  GraphInv'
  <2>1. /\ memory.alive /\ memory.cursor < Len(log)
        /\ call' = Projecting(memory.cursor, 0, size, Len(log))
        /\ UNCHANGED <<log, db, undo, memory>>
    BY <1>6 DEF sync_projections, Idle
  <2>2. Len(log) \in 1 .. Len(log') /\ size \in Nat \ {0}
    BY <1>2, <2>1, ReferenceGraphAssumption
  <2> QED BY <2>1, <2>2, CallTo
<1>7. Cursored(db) /\ Cursored(Committed) /\ \A k : Cursored(Deleted(k))
  BY DeletedCursor DEF GraphInv, Committed
<1>8. /\ Reset = [alive |-> TRUE, cursor |-> 0, tracker |-> load_trace_seq_tracker(0)]
      /\ Dead = [alive |-> FALSE, cursor |-> 0, tracker |-> load_trace_seq_tracker(0)]
      /\ Verified(0) /\ 0 \in 0 .. Len(log)
  <2> DEFINE zero == load_trace_seq_tracker(0)
  <2>1. zero = [t \in Trace |-> 0] /\ Verified(0) /\ 0 \in 0 .. Len(log)
    BY <1>2, NothingProjected
  <2> HIDE DEF zero
  <2>2. Dead = [alive |-> FALSE, cursor |-> 0, tracker |-> zero]
    BY <2>1 DEF Dead
  <2>3. Reset = [alive |-> TRUE, cursor |-> 0, tracker |-> zero]
    <3>1. ASSUME NEW d, NEW b, d = [alive |-> FALSE, cursor |-> 0, tracker |-> zero]
          PROVE  [d EXCEPT !.alive = b] = [alive |-> b, cursor |-> 0, tracker |-> zero]
      BY <3>1
    <3> HIDE DEF Dead
    <3> QED BY <2>2, <3>1, Zenon DEF Reset
  <2> QED BY <2>1, <2>2, <2>3 DEF zero
<1>9. ASSUME NEW size \in BatchSizes, replay_projections(size)
      PROVE  GraphInv'
  <2>1. /\ log # << >> /\ db' = Deleted(Len(Deletes)) /\ undo' = None
        /\ memory' = Reset
        /\ call' = Projecting(0, 0, size, Len(log))
        /\ UNCHANGED log
    BY <1>9 DEF replay_projections, rebuild
  <2>2. Len(log) \in 1 .. Len(log') /\ size \in Nat \ {0}
    BY <1>2, <2>1, ReferenceGraphAssumption DEF LogInv
  <2>3. Cursored(db')
    BY <1>7, <2>1
  <2>4. GraphTyped'
    BY <1>8, <2>1 DEF GraphTyped, Projecting
  <2> QED BY <1>8, <2>1, <2>2, <2>3, <2>4, StepTo DEF Projecting
<1>10. ASSUME NEW k, RebuildFailsSqlite(k)
       PROVE  GraphInv'
  <2>1. /\ call' = [NoCall EXCEPT !.state = "failed"] /\ UNCHANGED log
        /\ memory' = Reset \/ memory' = memory
        /\ \/ db' = Deleted(k) /\ undo' = Committed
           \/ db' = Committed /\ undo' = None
    BY <1>10 DEF RebuildFailsSqlite, RebuildRaises, Raise
  <2>2. Cursored(db') /\ (undo' # None => Cursored(undo'))
    <3> HIDE DEF Committed, Deleted, Cursored
    <3> QED BY <1>7, <2>1
  <2>3. CASE memory' = memory
    <3>1. GraphTyped'
      BY <2>1, <2>3 DEF GraphInv, GraphTyped, NoCall
    <3>2. Verified(m) /\ memory.tracker = load_trace_seq_tracker(m)
      BY <1>1 DEF RunAt
    <3>3. call'.state = "failed"
      BY <2>1 DEF NoCall
    <3> QED BY <1>2, <2>1, <2>2, <2>3, <3>1, <3>2, <3>3, StepTo
  <2>4. CASE memory' = Reset
    <3>1. GraphTyped'
      BY <1>8, <2>1, <2>4 DEF GraphTyped, NoCall
    <3>2. call'.state = "failed"
      BY <2>1 DEF NoCall
    <3>3. memory'.cursor = 0 /\ memory'.tracker = load_trace_seq_tracker(0)
      BY <1>8, <2>4
    <3> QED BY <1>8, <2>1, <2>2, <3>1, <3>2, <3>3, StepTo
  <2> QED BY <2>1, <2>3, <2>4
<1>11. CASE RebuildFailsPostgres
  <2>1. call'.state \in {"failed", "aborted"} /\ UNCHANGED <<log, db, undo, memory>>
    BY <1>11 DEF RebuildFailsPostgres, RebuildRaises, Raise, NoCall
  <2> QED BY <2>1, CallTo
<1>12. CASE AppendFails \/ BeginFails
  <2>1. call'.state = "failed" /\ UNCHANGED <<log, memory>> /\ undo' = None /\ db' = Committed
    BY <1>12 DEF AppendFails, BeginFails, Raise, NoCall, Committed
  <2> QED BY <2>1, CallTo
<1>13. CASE NoBatchIsLeft \/ BatchFails
  <2>1. call'.state \in {"none", "failed"} /\ UNCHANGED <<log, db, undo, memory>>
    BY <1>13 DEF NoBatchIsLeft, BatchFails, Raise, NoCall
  <2> QED BY <2>1, CallTo
<1>14. CASE ProjectBatch
  <2>1. PICK k \in 1 .. Len(log) - m :
            /\ UNCHANGED <<log, undo>>
            /\ ~Verified(m + k) =>
                  UNCHANGED <<db, memory>> /\ call' = [NoCall EXCEPT !.state = "rejected"]
            /\ Verified(m + k) =>
                  /\ "cursor" \in DOMAIN db' /\ db'.cursor = m + k
                  /\ memory' = [alive |-> TRUE, cursor |-> m + k,
                                tracker |-> load_trace_seq_tracker(m + k)]
                  /\ IF call.until # 0 /\ m + k >= call.until
                     THEN call' = NoCall
                     ELSE call' = Projecting(m + k, call.until, call.size, call.target)
    BY <1>1, <1>14, BatchStep
  <2> DEFINE n == m + k
  <2>2. n \in 0 .. Len(log)
    BY <1>2
  <2>3. call.state = "projecting" /\ (undo # None => Cursored(undo))
    BY <1>14 DEF ProjectBatch, GraphInv
  <2>4. CASE ~Verified(n)
    <3>1. UNCHANGED <<log, undo, db, memory>> /\ call' = [NoCall EXCEPT !.state = "rejected"]
      BY <2>1, <2>4
    <3>2. GraphTyped'
      BY <3>1 DEF GraphInv, GraphTyped, NoCall
    <3>3. \E i \in 1 .. Len(log) : ~verify_payload_hash(log[i])
      <4>1. \A i \in 1 .. n : i \in 1 .. Len(log)
        BY <1>2, <2>2
      <4> HIDE DEF n
      <4> QED BY <2>4, <4>1 DEF Verified
    <3>4. Verified(m) /\ memory.tracker = load_trace_seq_tracker(m)
      BY <1>1 DEF RunAt
    <3>5. call'.state = "rejected"
      BY <3>1 DEF NoCall
    <3>6. Cursored(db') /\ (undo' # None => Cursored(undo'))
      BY <1>7, <2>3, <3>1
    <3> QED BY <1>2, <3>1, <3>2, <3>3, <3>4, <3>5, <3>6, StepTo
  <2>5. CASE Verified(n)
    <3>1. /\ memory' = [alive |-> TRUE, cursor |-> n, tracker |-> load_trace_seq_tracker(n)]
          /\ call' = NoCall \/ call' = Projecting(n, call.until, call.size, call.target)
          /\ "cursor" \in DOMAIN db' /\ db'.cursor = n
          /\ UNCHANGED <<log, undo>>
      BY <2>1, <2>5
    <3>2. GraphTyped'
      BY <3>1 DEF GraphTyped, NoCall, Projecting
    <3>3. /\ call.size \in Nat \ {0}
          /\ call.until \in {0, call.target}
          /\ call.target \in 1 .. Len(log)
      BY <1>1, <2>3 DEF RunAt
    <3> HIDE DEF n
    <3>4. memory'.alive /\ memory'.cursor = n /\ memory'.tracker = load_trace_seq_tracker(n)
      BY <3>1
    <3>5. /\ call'.state # "rejected"
          /\ call'.state = "projecting" =>
              /\ call'.since = n
              /\ call'.size \in Nat \ {0}
              /\ call'.until \in {0, call'.target}
              /\ call'.target \in 1 .. Len(log')
      BY <3>1, <3>3 DEF NoCall, Projecting
    <3>6. Cursored(db')
      BY <2>2, <2>5, <3>1 DEF Cursored
    <3>7. undo' # None => Cursored(undo')
      BY <2>3, <3>1
    <3> QED BY <2>2, <2>5, <3>1, <3>2, <3>4, <3>5, <3>6, <3>7, StepTo
  <2> QED BY <2>4, <2>5
<1>15. CASE Crash
  <2>1. memory' = Dead /\ call' = NoCall /\ UNCHANGED log /\ db' = Committed /\ undo' = None
    BY <1>15 DEF Crash
  <2>2. GraphTyped'
    BY <1>8, <2>1 DEF GraphTyped, NoCall
  <2>3. call'.state = "none" /\ memory'.cursor = 0 /\ memory'.tracker = load_trace_seq_tracker(0)
    BY <1>8, <2>1 DEF NoCall
  <2>4. Cursored(db')
    <3> HIDE DEF Committed, Cursored
    <3> QED BY <1>7, <2>1
  <2> QED BY <1>8, <2>1, <2>2, <2>3, <2>4, StepTo
<1>16. CASE Restart
  <2>1. PICK n \in 0 .. Len(log) : db.cursor = n /\ Verified(n)
    BY <1>7 DEF Cursored
  <2>2. /\ memory' = [alive |-> TRUE, cursor |-> n, tracker |-> load_trace_seq_tracker(n)]
        /\ UNCHANGED <<log, db, undo, call>> /\ ~memory.alive
    BY <1>16, <2>1 DEF Restart, load_cursor
  <2>3. call.state # "projecting"
    BY <1>1, <2>2 DEF RunAt
  <2>4. GraphTyped'
    BY <2>2 DEF GraphInv, GraphTyped
  <2>5. call'.state = "rejected" => \E i \in 1 .. Len(log) : ~verify_payload_hash(log[i])
    BY <2>2 DEF GraphInv, RunInv
  <2>6. Cursored(db') /\ (undo' # None => Cursored(undo'))
    BY <1>7, <2>2 DEF GraphInv
  <2>7. memory'.cursor = n /\ memory'.tracker = load_trace_seq_tracker(n)
    BY <2>2
  <2> QED BY <2>1, <2>2, <2>3, <2>4, <2>5, <2>6, <2>7, StepTo
<1>17. CASE UNCHANGED vars
  <2>1. UNCHANGED <<log, db, undo, memory, call>>
    BY <1>17 DEF vars
  <2> QED BY <2>1, CallTo
<1> QED BY <1>3, <1>4, <1>5, <1>6, <1>9, <1>10, <1>11, <1>12, <1>13, <1>14, <1>15, <1>16, <1>17
        DEF Next, RebuildFails

-----------------------------------------------------------------------------
(***************************************************************************)
(* Reading the tables changes nothing of them: what holds of the projector *)
(* holds of the projector with its readers, which is what TLC checks.      *)
(***************************************************************************)
LEMMA QueriesRefine == QuerySpec => Spec
<1>1. QueryInit => Init
  BY DEF QueryInit
<1>2. [QueryNext]_queryVars => [Next]_vars
  BY DEF QueryNext, queryVars, StartReading, ReadPage
<1> QED BY <1>1, <1>2, PTL DEF QuerySpec, Spec

(***************************************************************************)
(* Whatever fails, a rebuild too: the log is well formed, the memory of    *)
(* the process is that of some first events of it and a call goes on from  *)
(* there, and no cursor has passed an event the projector rejects          *)
(* (append_event, project_events_in_tx, rebuild, load_trace_seq_tracker).  *)
(***************************************************************************)
THEOREM GraphInvariance == Spec => []GraphInv
BY GraphInit, GraphStep, PTL DEF Spec

LEMMA MismatchesStop == GraphInv => OnlyMismatchesStop
<1> SUFFICES ASSUME GraphInv PROVE OnlyMismatchesStop
  OBVIOUS
<1>1. PICK m \in 0 .. Len(log) : RunAt(m)
  BY DEF GraphInv, RunInv
<1>2. PICK n \in 0 .. Len(log) : db.cursor = n /\ Verified(n)
  BY DEF GraphInv, Cursored
<1>3. memory.cursor = m /\ Verified(m)
  BY <1>1 DEF RunAt
<1>4. Len(log) \in Nat
  BY LogFacts DEF GraphInv
<1>5. ASSUME NEW i \in Mismatched, NEW c \in 0 .. Len(log), Verified(c)
      PROVE  c < i
  <2>1. i \in 1 .. Len(log) /\ ~verify_payload_hash(log[i])
    BY DEF Mismatched
  <2>2. i \notin 1 .. c
    BY <1>5, <2>1 DEF Verified
  <2> QED BY <1>4, <2>1, <2>2
<1>6. call.state = "rejected" => Mismatched # {}
  BY DEF GraphInv, RunInv, Mismatched
<1>7. \A i \in Mismatched : m < i /\ n < i
  BY <1>2, <1>3, <1>5
<1> QED BY <1>2, <1>3, <1>6, <1>7 DEF OnlyMismatchesStop

(***************************************************************************)
(* The one event the store accepts and project_event_in_tx raises an       *)
(* exception for is one whose payload is read back with another hash; its  *)
(* trace_seq is the one expected and the policies it or, at the end of the *)
(* trace, the others name have an id and a version.  No cursor passes it.  *)
(***************************************************************************)
THEOREM MismatchesAloneStop == QuerySpec => []OnlyMismatchesStop
BY QueriesRefine, GraphInvariance, MismatchesStop, PTL

-----------------------------------------------------------------------------
(***************************************************************************)
(* In step: the tables are TablesUpTo the cursor.                          *)
(***************************************************************************)
LEMMA InStepIsAt == InStep <=> \E c : InStepAt(c)
<1>1. \A c : TablesUpTo(c).cursor = c
  BY DEF TablesUpTo
<1>2. ASSUME InStep
      PROVE  \E c : InStepAt(c)
  <2>1. PICK c : c = db.cursor
    OBVIOUS
  <2>2. InStepAt(c)
    BY <1>2, <2>1 DEF InStep, InStepAt
  <2> QED BY <2>2
<1>3. ASSUME NEW c, InStepAt(c)
      PROVE  InStep
  <2>1. db.cursor = c
    BY <1>1, <1>3 DEF InStepAt
  <2> QED BY <1>3, <2>1 DEF InStep, InStepAt
<1> QED BY <1>2, <1>3

LEMMA InStepIsAtAfterwards == InStep' <=> (\E c : InStepAt(c))'
BY InStepIsAt, PTL

LEMMA InStepInit == Init => InStep
<1>1. Init => InStepAt(0)
  BY NothingProjected DEF Init, InStepAt, Dead
<1> QED BY <1>1, InStepIsAt

\* The log as one batch.
LEMMA WholeLogProjected ==
    ASSUME LogInv, Verified(Len(log))
    PROVE  load_replay_store(list_events(0, 0, Len(log))).db = TablesUpTo(Len(log))
<1>1. \A since \in 0 .. Len(log), until \in 0 .. Len(log), limit \in Nat :
          LET batch == list_events(since, until, limit)
          IN  \E k \in 0 .. Len(log) - since :
                  /\ Len(batch) = k
                  /\ \A i \in 1 .. k : batch[i] = log[since + i]
                  /\ batch = << >> <=> k = 0
                  /\ \/ k = limit
                     \/ since + k = Len(log)
                     \/ until # 0 /\ since + k >= until
  BY ListEvents
<1>2. 0 \in 0 .. Len(log) /\ Len(log) \in Nat
  BY LogFacts
<1> DEFINE batch == list_events(0, 0, Len(log))
           N == Len(log)
<1>3. /\ Len(batch) = N
      /\ \A i \in 1 .. N : batch[i] = log[0 + i]
  <2>1. PICK k \in 0 .. Len(log) - 0 :
            /\ Len(batch) = k
            /\ \A i \in 1 .. k : batch[i] = log[0 + i]
            /\ batch = << >> <=> k = 0
            /\ \/ k = Len(log)
               \/ 0 + k = Len(log)
               \/ 0 # 0 /\ 0 + k >= 0
    BY <1>1, <1>2
  <2>2. k = N
    BY <2>1
  <2> QED BY <2>1, <2>2
<1>4. N \in 0 .. Len(log) - 0 /\ 0 + N = N
  BY <1>2
<1> HIDE DEF batch
<1> DEFINE empty == EmptyTables
           start == [db |-> empty, cursor |-> 0, tracker |-> load_trace_seq_tracker(0)]
<1>5. "cursor" \in DOMAIN empty /\ empty = TablesUpTo(0) /\ Verified(0)
  BY NothingProjected DEF EmptyTables
<1> HIDE DEF empty
<1>6. start = [db |-> empty, cursor |-> 0, tracker |-> load_trace_seq_tracker(0)]
  OBVIOUS
<1> HIDE DEF start
<1>7. Verified(0 + N)
  BY <1>4
<1> HIDE DEF N
<1>8. IsProjection(ProjectFrom(start, batch), 0, 0 + N, empty)
  BY <1>2, <1>3, <1>4, <1>5, <1>6, <1>7, BatchProjected
<1>9. ProjectFrom(start, batch).db = TablesUpTo(N)
  BY <1>4, <1>5, <1>8 DEF IsProjection
<1>10. load_replay_store(batch) = ProjectFrom(start, batch)
  BY NothingProjected DEF load_replay_store, start, empty
<1> QED BY <1>9, <1>10 DEF batch, N

LEMMA MatchesLog ==
    GraphInv => (InStep /\ db.cursor = Len(log) => cmd_replay = full_projection_digest(db))
<1> SUFFICES ASSUME GraphInv, InStep, db.cursor = Len(log)
             PROVE  cmd_replay = full_projection_digest(db)
  OBVIOUS
<1>1. LogInv /\ Verified(Len(log))
  BY DEF GraphInv, Cursored
<1>2. db = TablesUpTo(Len(log))
  BY DEF InStep
<1>3. load_replay_store(list_events(0, 0, Len(log))).db = db
  BY <1>1, <1>2, WholeLogProjected
<1> QED BY <1>3 DEF cmd_replay

LEMMA StepsStay ==
    GraphInv /\ [Next]_vars =>
        [InStep /\ ~InStep' => \E k \in FailingDeletes : RebuildFailsSqlite(k)]_vars
<1> SUFFICES ASSUME GraphInv, InStep, Next
             PROVE  InStep' \/ \E k \in FailingDeletes : RebuildFailsSqlite(k)
  OBVIOUS
<1>1. PICK c : InStepAt(c)
  BY InStepIsAt
<1>2. undo = None /\ db = TablesUpTo(c) /\ db.cursor = c
  BY <1>1 DEF InStepAt, TablesUpTo
<1>3. c \in 0 .. Len(log) /\ LogInv /\ Len(log) \in Nat
  BY <1>2, LogFacts DEF GraphInv, Cursored
<1>4. ASSUME log' = log \/ \E t \in Trace : \E p \in Offered(t) : append_event(t, p),
             undo' = None, db' = db, memory' = memory \/ ~memory'.alive
      PROVE  InStep'
  <2>1. TablesUpTo(c)' = TablesUpTo(c) /\ load_trace_seq_tracker(c)' = load_trace_seq_tracker(c)
    BY <1>3, <1>4, LogGrows
  <2>2. InStepAt(c)'
    BY <1>1, <1>4, <2>1 DEF InStepAt
  <2> QED BY <2>2, InStepIsAtAfterwards
<1>5. ASSUME UNCHANGED log, undo' = None, NEW d, db' = TablesUpTo(d),
             memory' = [alive |-> TRUE, cursor |-> d, tracker |-> load_trace_seq_tracker(d)]
      PROVE  InStep'
  <2>1. TablesUpTo(d)' = TablesUpTo(d) /\ load_trace_seq_tracker(d)' = load_trace_seq_tracker(d)
    BY <1>5, LogUnchanged
  <2>2. memory'.cursor = d /\ memory'.tracker = load_trace_seq_tracker(d)
    BY <1>5
  <2>3. InStepAt(d)'
    BY <1>5, <2>1, <2>2 DEF InStepAt
  <2> QED BY <2>3, InStepIsAtAfterwards
<1>6. CASE \E t \in Trace : DoAppend(t) \/ OtherAppend(t)
  BY <1>2, <1>4, <1>6 DEF DoAppend, OtherAppend
<1>7. CASE \/ \E n \in 1 .. MaxLogSeq : RetryAppend(n)
           \/ \E size \in BatchSizes : sync_projections(size)
           \/ NoBatchIsLeft \/ BatchFails \/ RebuildFailsPostgres
  BY <1>2, <1>4, <1>7 DEF RetryAppend, sync_projections, NoBatchIsLeft, BatchFails,
                          RebuildFailsPostgres, RebuildRaises
<1>8. CASE AppendFails \/ BeginFails
  BY <1>2, <1>8 DEF AppendFails, BeginFails
<1>9. CASE Crash
  BY <1>2, <1>4, <1>9 DEF Crash, Committed, Dead
<1>10. ASSUME NEW size \in BatchSizes, replay_projections(size)
       PROVE  InStep'
  <2>1. db' = Deleted(Len(Deletes)) /\ memory' = Reset /\ undo' = None /\ UNCHANGED log
    BY <1>10 DEF replay_projections, rebuild
  <2>2. DOMAIN db = DOMAIN EmptyTables
    BY <1>2 DEF TablesUpTo, EmptyTables
  <2>3. \A x \in DOMAIN EmptyTables : \E i \in 1 .. Len(Deletes) : Deletes[i] = x
    BY DEF EmptyTables, Deletes
  <2>4. EmptyTables = [x \in DOMAIN EmptyTables |-> EmptyTables[x]]
    BY DEF EmptyTables
  <2>5. Deleted(Len(Deletes)) = EmptyTables
    <3>1. \A x \in DOMAIN EmptyTables :
              (IF \E i \in 1 .. Len(Deletes) : Deletes[i] = x THEN EmptyTables[x] ELSE db[x])
                  = EmptyTables[x]
      BY <2>3
    <3> HIDE DEF EmptyTables, Deletes
    <3> QED BY <2>2, <2>4, <3>1 DEF Deleted
  <2> QED BY <1>5, <2>1, <2>5, NothingProjected DEF Reset, Dead
<1>11. CASE ProjectBatch
  <2>1. PICK m \in 0 .. Len(log) : RunAt(m)
    BY DEF GraphInv, RunInv
  <2>2. m = c
    <3>1. memory.alive /\ memory.cursor = m
      BY <1>11, <2>1 DEF ProjectBatch, RunAt
    <3> QED BY <1>1, <3>1 DEF InStepAt
  <2>3. PICK k \in 1 .. Len(log) - m :
            /\ UNCHANGED <<log, undo>>
            /\ ~Verified(m + k) => UNCHANGED <<db, memory>>
            /\ Verified(m + k) =>
                  /\ db = TablesUpTo(m) => db' = TablesUpTo(m + k)
                  /\ memory' = [alive |-> TRUE, cursor |-> m + k,
                                tracker |-> load_trace_seq_tracker(m + k)]
    BY <1>11, <2>1, BatchStep
  <2>4. CASE ~Verified(m + k)
    BY <1>2, <1>4, <2>3, <2>4
  <2>5. CASE Verified(m + k)
    <3> DEFINE d == m + k
    <3>1. db' = TablesUpTo(d) /\ undo' = None /\ UNCHANGED log
      BY <1>2, <2>2, <2>3, <2>5
    <3>2. memory' = [alive |-> TRUE, cursor |-> d, tracker |-> load_trace_seq_tracker(d)]
      BY <2>3, <2>5
    <3> HIDE DEF d
    <3> QED BY <1>5, <3>1, <3>2
  <2> QED BY <2>4, <2>5
<1>12. CASE Restart
  <2>1. /\ memory' = [alive |-> TRUE, cursor |-> c, tracker |-> load_trace_seq_tracker(c)]
        /\ UNCHANGED <<log, db, undo>>
    BY <1>2, <1>12 DEF Restart, load_cursor
  <2> QED BY <1>2, <1>5, <2>1
<1> QED BY <1>6, <1>7, <1>8, <1>9, <1>10, <1>11, <1>12 DEF Next, RebuildFails

(***************************************************************************)
(* However the events got into batches and whatever failed or died, tables *)
(* and memory stay those of the log up to the cursor unless the rebuild of *)
(* the SQLite projector fails, and return to that with a replay;           *)
(* cmd_replay then prints the digests of a projection that caught up.      *)
(***************************************************************************)
THEOREM ProjectionIsOfTheLog == QuerySpec => ProjectionMatchesLog
<1>1. GraphInv /\ [Next]_vars =>
          [InStep /\ ~InStep' => \E k \in FailingDeletes : RebuildFailsSqlite(k)]_vars
  BY StepsStay
<1> QED BY <1>1, QueriesRefine, GraphInvariance, MatchesLog, PTL DEF Spec, ProjectionMatchesLog

LEMMA CallsEnd ==
    GraphInv /\ [Next]_vars =>
        (call.state = "projecting" /\ call'.state = "none" /\ memory'.alive
            => memory'.cursor >= call.target)
<1> SUFFICES ASSUME GraphInv, [Next]_vars,
                    call.state = "projecting", call'.state = "none", memory'.alive
             PROVE  memory'.cursor >= call.target
  OBVIOUS
<1>1. PICK m \in 0 .. Len(log) : RunAt(m)
  BY DEF GraphInv, RunInv
<1>2. call' # call /\ ~Idle
  BY DEF Idle
<1>3. ~Crash /\ ~BatchFails /\ ~BeginFails
  BY DEF Crash, BatchFails, BeginFails, Raise, Dead, NoCall
<1>4. NoBatchIsLeft \/ ProjectBatch
  BY <1>2, <1>3 DEF Next, vars, DoAppend, OtherAppend, RetryAppend, sync_projections, AppendFails,
                    RebuildFails, RebuildFailsSqlite, RebuildFailsPostgres, RebuildRaises,
                    replay_projections, Restart
<1>5. CASE NoBatchIsLeft
  <2>1. memory' = memory
    BY <1>5 DEF NoBatchIsLeft
  <2> QED BY <1>1, <1>5, <2>1, LastBatch
<1>6. CASE ProjectBatch
  <2>1. PICK k \in 1 .. Len(log) - m :
            /\ ~Verified(m + k) => call' = [NoCall EXCEPT !.state = "rejected"]
            /\ Verified(m + k) =>
                  /\ memory' = [alive |-> TRUE, cursor |-> m + k,
                                tracker |-> load_trace_seq_tracker(m + k)]
                  /\ IF call.until # 0 /\ m + k >= call.until
                     THEN call' = NoCall
                     ELSE call' = Projecting(m + k, call.until, call.size, call.target)
    BY <1>1, <1>6, BatchStep
  <2>2. Verified(m + k)
    BY <2>1 DEF NoCall
  <2>3. call.until # 0 /\ m + k >= call.until
    BY <2>1, <2>2 DEF Projecting
  <2>4. call.until = call.target
    BY <1>1, <2>3 DEF RunAt
  <2> QED BY <2>1, <2>2, <2>3, <2>4
<1> QED BY <1>4, <1>5, <1>6

(***************************************************************************)
(* append_event, sync and replay return with the event they appended, or   *)
(* the log as it was at the call, projected.                               *)
(***************************************************************************)
THEOREM CallsReturnCaughtUp == QuerySpec => CallsEndCaughtUp
<1>1. GraphInv /\ [Next]_vars =>
          [call.state = "projecting" /\ call'.state = "none" /\ memory'.alive
              => memory'.cursor >= call.target]_vars
  BY CallsEnd
<1> QED BY <1>1, QueriesRefine, GraphInvariance, PTL DEF Spec, CallsEndCaughtUp

-----------------------------------------------------------------------------
(***************************************************************************)
(* ORDER BY: in a finite set with a strict total order R every rank is     *)
(* that of one element.                                                    *)
(***************************************************************************)
Before(S, R, x) == {y \in S : <<y, x>> \in R}

StrictOrder(S, R) ==
    /\ \A x, y \in S : <<x, y>> \in R <=> x # y /\ <<y, x>> \notin R
    /\ \A x, y, z \in S : <<x, y>> \in R /\ <<y, z>> \in R => <<x, z>> \in R

LEMMA Ranks ==
    ASSUME NEW S, IsFiniteSet(S), NEW R, StrictOrder(S, R)
    PROVE  /\ Cardinality(S) \in Nat
           /\ \A x \in S : Cardinality(Before(S, R, x)) \in 0 .. Cardinality(S) - 1
           /\ \A x, y \in S : <<x, y>> \in R =>
                  Cardinality(Before(S, R, x)) < Cardinality(Before(S, R, y))
           /\ \A i \in 1 .. Cardinality(S) : \E x \in S : Cardinality(Before(S, R, x)) = i - 1
<1> DEFINE N == Cardinality(S)
           rank == [x \in S |-> Cardinality(Before(S, R, x))]
<1>1. N \in Nat
  BY FS_CardinalityType
<1>2. \A x \in S : IsFiniteSet(Before(S, R, x)) /\ Cardinality(Before(S, R, x)) \in Nat
  <2> SUFFICES ASSUME NEW x \in S
               PROVE  IsFiniteSet(Before(S, R, x)) /\ Cardinality(Before(S, R, x)) \in Nat
    OBVIOUS
  <2>1. Before(S, R, x) \in SUBSET S
    BY DEF Before
  <2>2. IsFiniteSet(Before(S, R, x))
    BY <2>1, FS_Subset
  <2> QED BY <2>2, FS_CardinalityType
<1>3. ASSUME NEW x \in S, NEW T, IsFiniteSet(T), Before(S, R, x) \subseteq T, x \in T
      PROVE  Cardinality(Before(S, R, x)) < Cardinality(T)
  <2>1. x \notin Before(S, R, x)
    BY DEF Before, StrictOrder
  <2>2. Before(S, R, x) \in SUBSET T
    BY <1>3
  <2>3. /\ Cardinality(Before(S, R, x)) <= Cardinality(T)
        /\ Cardinality(T) = Cardinality(Before(S, R, x)) => T = Before(S, R, x)
    BY <1>3, <2>2, FS_Subset
  <2>4. Cardinality(T) \in Nat
    BY <1>3, FS_CardinalityType
  <2> QED BY <1>2, <1>3, <2>1, <2>3, <2>4
<1>4. \A x \in S : Cardinality(Before(S, R, x)) \in 0 .. N - 1
  <2> SUFFICES ASSUME NEW x \in S
               PROVE  Cardinality(Before(S, R, x)) \in 0 .. N - 1
    OBVIOUS
  <2>1. Before(S, R, x) \subseteq S
    BY DEF Before
  <2>2. Cardinality(Before(S, R, x)) < N
    BY <1>3, <2>1
  <2> QED BY <1>1, <1>2, <2>2
<1>5. \A x, y \in S : <<x, y>> \in R =>
          Cardinality(Before(S, R, x)) < Cardinality(Before(S, R, y))
  <2> SUFFICES ASSUME NEW x \in S, NEW y \in S, <<x, y>> \in R
               PROVE  Cardinality(Before(S, R, x)) < Cardinality(Before(S, R, y))
    OBVIOUS
  <2>1. Before(S, R, x) \subseteq Before(S, R, y) /\ x \in Before(S, R, y)
    BY DEF Before, StrictOrder
  <2> QED BY <1>2, <1>3, <2>1
<1>6. rank \in [S -> 0 .. N - 1]
  BY <1>4
<1>7. \A x, y \in S : rank[x] = rank[y] => x = y
  <2> SUFFICES ASSUME NEW x \in S, NEW y \in S, x # y
               PROVE  rank[x] # rank[y]
    OBVIOUS
  <2>1. <<x, y>> \in R \/ <<y, x>> \in R
    BY DEF StrictOrder
  <2>2. rank[x] < rank[y] \/ rank[y] < rank[x]
    BY <1>5, <2>1
  <2>3. rank[x] \in Nat /\ rank[y] \in Nat
    BY <1>2
  <2> HIDE DEF rank
  <2> QED BY <2>2, <2>3
<1>8. IsFiniteSet(0 .. N - 1) /\ Cardinality(0 .. N - 1) = N
  <2>1. 0 \in Int /\ N - 1 \in Int
    BY <1>1
  <2>2. IsFiniteSet(0 .. N - 1)
    BY <2>1, FS_Interval
  <2>3. Cardinality(0 .. N - 1) = IF 0 > N - 1 THEN 0 ELSE (N - 1) - 0 + 1
    BY <2>1, FS_Interval
  <2> QED BY <1>1, <2>2, <2>3
<1> HIDE DEF rank
<1>9. rank \in Injection(S, 0 .. N - 1)
  BY <1>6, <1>7 DEF Injection, IsInjective
<1>10. rank \in Surjection(S, 0 .. N - 1)
  BY <1>8, <1>9, FS_Injection
<1>11. \A k \in 0 .. N - 1 : \E x \in S : rank[x] = k
  BY <1>10 DEF Surjection
<1>12. \A i \in 1 .. N : \E x \in S : Cardinality(Before(S, R, x)) = i - 1
  <2>1. \A i \in 1 .. N : i - 1 \in 0 .. N - 1
    BY <1>1
  <2> QED BY <1>11, <2>1 DEF rank
<1> QED BY <1>1, <1>4, <1>5, <1>12

Lists(o, S, R) ==
    /\ o \in Seq(S)
    /\ \A x \in S : \E i \in 1 .. Len(o) : o[i] = x
    /\ \A i, j \in 1 .. Len(o) : i < j => <<o[i], o[j]>> \in R

LEMMA Ordered ==
    ASSUME NEW S, IsFiniteSet(S), NEW R, StrictOrder(S, R), NEW o \in [1 .. Cardinality(S) -> S],
           \A i \in 1 .. Cardinality(S) : Cardinality(Before(S, R, o[i])) = i - 1
    PROVE  Lists(o, S, R) /\ Len(o) = Cardinality(S) /\ Cardinality(S) \in Nat
<1> DEFINE N == Cardinality(S)
           Rank(x) == Cardinality(Before(S, R, x))
<1>1. /\ N \in Nat
      /\ \A x \in S : Rank(x) \in 0 .. N - 1
      /\ \A x, y \in S : <<x, y>> \in R => Rank(x) < Rank(y)
      /\ \A i \in 1 .. N : \E x \in S : Rank(x) = i - 1
  BY Ranks
<1>2. \A i \in 1 .. N : o[i] \in S /\ Rank(o[i]) = i - 1
  BY <1>1
<1> HIDE DEF Rank, N
<1>3. o \in [1 .. N -> S]
  BY DEF N
<1>4. o \in Seq(S) /\ Len(o) = N
  BY <1>1, <1>3
<1>5. ASSUME NEW x \in S, NEW y \in S, Rank(x) <= Rank(y), x # y
      PROVE  <<x, y>> \in R
  <2>1. Rank(x) \in Nat /\ Rank(y) \in Nat
    BY <1>1
  <2>2. <<y, x>> \notin R
    BY <1>1, <1>5, <2>1
  <2> QED BY <1>5, <2>2 DEF StrictOrder
<1>6. ASSUME NEW x \in S
      PROVE  \E i \in 1 .. N : o[i] = x
  <2> DEFINE i == Rank(x) + 1
  <2>1. i \in 1 .. N /\ i - 1 = Rank(x)
    BY <1>1
  <2>2. o[i] \in S /\ Rank(o[i]) = Rank(x)
    BY <1>2, <2>1
  <2>3. o[i] = x
    <3> HIDE DEF i
    <3>1. Rank(o[i]) <= Rank(x) /\ Rank(x) <= Rank(o[i])
      BY <1>1, <2>2
    <3> SUFFICES ASSUME o[i] # x PROVE FALSE
      OBVIOUS
    <3>2. <<x, o[i]>> \in R /\ <<o[i], x>> \in R
      BY <1>5, <2>2, <3>1
    <3> QED BY <2>2, <3>2 DEF StrictOrder
  <2> QED BY <2>1, <2>3
<1>7. ASSUME NEW i \in 1 .. N, NEW j \in 1 .. N, i < j
      PROVE  <<o[i], o[j]>> \in R
  <2>1. o[i] \in S /\ o[j] \in S /\ Rank(o[i]) = i - 1 /\ Rank(o[j]) = j - 1
    BY <1>2
  <2>2. Rank(o[i]) <= Rank(o[j]) /\ o[i] # o[j]
    BY <1>1, <1>7, <2>1
  <2> QED BY <1>5, <2>1, <2>2
<1> QED BY <1>1, <1>4, <1>6, <1>7 DEF N, Lists

-----------------------------------------------------------------------------
(***************************************************************************)
(* The precedents.                                                         *)
(***************************************************************************)
LEMMA MaxOf ==
    ASSUME NEW N \in Nat, NEW S, S \subseteq 1 .. N, S # {}
    PROVE  Max(S) \in S /\ \A y \in S : y <= Max(S)
<1> DEFINE Below(k) == S \cap 1 .. k
           T == {k \in 0 .. N : Below(k) # {} => \E x \in Below(k) : \A y \in Below(k) : y <= x}
<1>1. 0 \in T
  OBVIOUS
<1>2. ASSUME NEW k \in 1 .. N, k - 1 \in T
      PROVE  k \in T
  <2>1. \A y : y \in 1 .. k <=> y \in 1 .. k - 1 \/ y = k
    OBVIOUS
  <2>2. CASE k \in S
    <3>1. k \in Below(k) /\ \A y \in Below(k) : y <= k
      BY <2>2
    <3> QED BY <3>1
  <2>3. CASE k \notin S
    <3>1. Below(k) = Below(k - 1)
      BY <2>1, <2>3
    <3> QED BY <1>2, <3>1
  <2> QED BY <2>2, <2>3
<1>3. N \in T
  <2>1. 0 .. N \subseteq T
    <3> HIDE DEF T
    <3> QED BY <1>1, <1>2, IntervalInduction
  <2> QED BY <2>1
<1>4. Below(N) = S
  OBVIOUS
<1>5. \E x \in S : \A y \in S : x >= y
  BY <1>3, <1>4
<1> QED BY <1>5 DEF Max

FinishedSummaries == {s \in SummariesUpTo(Len(log)) : s.outcome # None}

\* A trace has one summary, and the outcome of its last event.
LEMMA FinishedFacts ==
    ASSUME LogInv
    PROVE  /\ \A s \in FinishedSummaries :
                  LET i == s.last_log_seq
                  IN  /\ i \in 1 .. Len(log)
                      /\ log[i].type = "TraceFinished" /\ log[i].trace = s.trace
                      /\ s.outcome = log[i].about
                      /\ s.entity = PrimaryEntity(get_trace_events(s.trace))
           /\ \A i \in 1 .. Len(log) : log[i].type = "TraceFinished" =>
                  \E s \in FinishedSummaries : s.last_log_seq = i
           /\ \A r, s \in FinishedSummaries : r.trace = s.trace => r = s
<1> DEFINE N == Len(log)
<1>1. N \in Nat /\ N \in 0 .. Len(log)
  BY LogFacts
<1>2. ASSUME NEW s \in FinishedSummaries
      PROVE  \E k \in 1 .. N : log[k].type = "TraceStarted" /\ s = SummaryUpTo(N, log[k])
  BY DEF FinishedSummaries, SummariesUpTo
<1>3. ASSUME NEW k \in 1 .. N, log[k].type = "TraceStarted", NEW i \in 1 .. N,
             log[i].type = "TraceFinished", log[i].trace = log[k].trace
      PROVE  SummaryUpTo(N, log[k]) = [trace |-> log[k].trace, entity |-> log[k].about,
                                       outcome |-> log[i].about, event_count |-> 2, last_log_seq |-> i]
  <2>1. FinishOf(log[k].trace, N) = {i}
    <3>1. \A j \in 1 .. N : log[j].trace = log[i].trace /\ log[j].type = "TraceFinished" => j = i
      BY <1>1, <1>3 DEF LogInv, InOrder
    <3> QED BY <1>3, <3>1 DEF FinishOf
  <2>2. (CHOOSE j \in FinishOf(log[k].trace, N) : TRUE) = i
    BY <2>1
  <2>3. log[i].log_seq = i
    BY LogFacts
  <2> QED BY <2>1, <2>2, <2>3 DEF SummaryUpTo
<1>4. ASSUME NEW s \in FinishedSummaries
      PROVE  \E k, i \in 1 .. N :
                 /\ log[k].type = "TraceStarted" /\ log[i].type = "TraceFinished"
                 /\ log[i].trace = log[k].trace
                 /\ s = [trace |-> log[k].trace, entity |-> log[k].about,
                         outcome |-> log[i].about, event_count |-> 2, last_log_seq |-> i]
  <2>1. PICK k \in 1 .. N : log[k].type = "TraceStarted" /\ s = SummaryUpTo(N, log[k])
    BY <1>2
  <2>2. SummaryUpTo(N, log[k]).outcome # None
    BY <2>1 DEF FinishedSummaries
  <2>3. FinishOf(log[k].trace, N) # {}
    BY <1>1, <2>2, SummaryOutcome
  <2>4. PICK i \in 1 .. N : log[i].trace = log[k].trace /\ log[i].type = "TraceFinished"
    BY <2>3 DEF FinishOf
  <2> QED BY <1>3, <2>1, <2>4
<1>5. ASSUME NEW s \in FinishedSummaries
      PROVE  LET i == s.last_log_seq
             IN  /\ i \in 1 .. N
                 /\ log[i].type = "TraceFinished" /\ log[i].trace = s.trace
                 /\ s.outcome = log[i].about
                 /\ s.entity = PrimaryEntity(get_trace_events(s.trace))
  <2>1. PICK k, i \in 1 .. N :
            /\ log[k].type = "TraceStarted" /\ log[i].type = "TraceFinished"
            /\ log[i].trace = log[k].trace
            /\ s = [trace |-> log[k].trace, entity |-> log[k].about,
                    outcome |-> log[i].about, event_count |-> 2, last_log_seq |-> i]
    BY <1>4
  <2>2. PrimaryEntity(get_trace_events(log[k].trace)) = log[k].about
    BY <2>1, EntityOfTrace
  <2> QED BY <2>1, <2>2
<1>6. ASSUME NEW i \in 1 .. N, log[i].type = "TraceFinished"
      PROVE  \E s \in FinishedSummaries : s.last_log_seq = i
  <2>1. PICK k \in 1 .. i : log[k].trace = log[i].trace /\ log[k].type = "TraceStarted"
    BY TraceIsStarted
  <2>2. k \in 1 .. N
    BY <1>1
  <2> DEFINE s == SummaryUpTo(N, log[k])
  <2>3. s = [trace |-> log[k].trace, entity |-> log[k].about,
             outcome |-> log[i].about, event_count |-> 2, last_log_seq |-> i]
    BY <1>3, <1>6, <2>1, <2>2
  <2>4. log[i].about # None
    BY DEF LogInv, WellFormed
  <2>5. s \in SummariesUpTo(N)
    BY <2>1, <2>2 DEF SummariesUpTo
  <2> HIDE DEF s
  <2> QED BY <2>3, <2>4, <2>5 DEF FinishedSummaries
<1>7. ASSUME NEW r \in FinishedSummaries, NEW s \in FinishedSummaries, r.trace = s.trace
      PROVE  r = s
  <2>1. PICK k \in 1 .. N : log[k].type = "TraceStarted" /\ r = SummaryUpTo(N, log[k])
    BY <1>2
  <2>2. PICK l \in 1 .. N : log[l].type = "TraceStarted" /\ s = SummaryUpTo(N, log[l])
    BY <1>2
  <2>3. log[k].trace = r.trace /\ log[l].trace = s.trace
    BY <2>1, <2>2, SummaryTrace
  <2>4. k = l
    BY <1>7, <2>1, <2>2, <2>3, StartIsFirst
  <2> QED BY <2>1, <2>2, <2>4
<1> QED BY <1>5, <1>6, <1>7

LEMMA LastEvents ==
    ASSUME LogInv, NEW A, A \subseteq FinishedSummaries
    PROVE  /\ IsFiniteSet(A)
           /\ Cardinality({s.last_log_seq : s \in A}) = Cardinality(A)
<1> DEFINE T == {s.last_log_seq : s \in A}
           f == [s \in A |-> s.last_log_seq]
<1>1. Len(log) \in Nat /\ IsFiniteSet(1 .. Len(log))
  BY LogFacts, FS_Interval
<1>2. T \in SUBSET (1 .. Len(log))
  BY FinishedFacts
<1>3. IsFiniteSet(T)
  BY <1>1, <1>2, FS_Subset
<1>4. f \in [A -> T]
  OBVIOUS
<1>5. \A r, s \in A : f[r] = f[s] => r = s
  BY FinishedFacts
<1>6. \A x \in T : \E s \in A : f[s] = x
  OBVIOUS
<1> HIDE DEF f, T
<1>7. f \in Injection(A, T) /\ f \in Surjection(A, T)
  BY <1>4, <1>5, <1>6 DEF Injection, IsInjective, Surjection
<1>8. IsFiniteSet(A)
  BY <1>3, <1>7, FS_Injection
<1>9. Cardinality(A) = Cardinality(T)
  BY <1>3, <1>7, FS_Injection
<1> QED BY <1>8, <1>9 DEF T

\* The index entry of the i-th event, in a trace with that entity.
EntryOf(i, entity) == PrecedentRow(log[i], entity)

LEMMA EntryFields ==
    ASSUME LogInv, NEW i \in 1 .. Len(log), NEW entity
    PROVE  /\ EntryOf(i, entity).trace = log[i].trace
           /\ EntryOf(i, entity).log_seq = i
           /\ log[i].type = "PolicyEvaluated" => /\ EntryOf(i, entity).policy = log[i].about
                                                 /\ EntryOf(i, entity).exception = None
           /\ log[i].type = "ExceptionRequested" => /\ EntryOf(i, entity).policy = log[i].with
                                                    /\ EntryOf(i, entity).exception # None
<1>1. log[i].log_seq = i /\ log[i].about # None
  BY LogFacts DEF LogInv, WellFormed
<1> QED BY <1>1 DEF EntryOf, PrecedentRow

LEMMA PolicyRowsOfTrace ==
    ASSUME LogInv, db = TablesUpTo(Len(log)), NEW q, NEW s \in FinishedSummaries
    PROVE  \A r : r \in PolicyRows(q, s.trace) <=>
                      \E i \in Uses(q, s.trace, "PolicyEvaluated")
                                 \cup Uses(q, s.trace, "ExceptionRequested") : r = EntryOf(i, s.entity)
<1> DEFINE t == s.trace
           N == Len(log)
<1>1. db.precedents = PrecedentsUpTo(N)
  BY DEF TablesUpTo
<1>2. ASSUME NEW r
      PROVE  r \in PrecedentsUpTo(N) /\ r.trace = t
                 <=> \E x \in Indexed(t) : r = PrecedentRow(x, s.entity)
  <2>1. r \in PrecedentsUpTo(N) <=> IsPrecedent(N, r)
    BY PrecedentFacts
  <2>2. \A u : \A x \in Indexed(u) : \A entity : PrecedentRow(x, entity).trace = u
    BY PrecedentFacts
  <2>3. IsPrecedent(N, r) <=> \E o \in FinishedSummaries : \E x \in Indexed(o.trace) : r = PrecedentRow(x, o.entity)
    BY DEF IsPrecedent, FinishedSummaries
  <2>4. \A o \in FinishedSummaries : o.trace = t => o = s
    BY FinishedFacts
  <2> QED BY <2>1, <2>2, <2>3, <2>4
<1>3. \A x : x \in Indexed(t) <=> \E i \in 1 .. N : /\ x = log[i] /\ log[i].trace = t
                                                    /\ log[i].type \in {"PolicyEvaluated", "ExceptionRequested"}
  BY LogFacts DEF Indexed, get_trace_events, Range
<1>4. ASSUME NEW i \in 1 .. N, log[i].trace = t,
             log[i].type \in {"PolicyEvaluated", "ExceptionRequested"}
      PROVE  PolicyMatches(q, EntryOf(i, s.entity).policy) <=>
                 i \in Uses(q, t, "PolicyEvaluated") \cup Uses(q, t, "ExceptionRequested")
  BY <1>4, EntryFields DEF Uses
<1>5. \A i \in Uses(q, t, "PolicyEvaluated") \cup Uses(q, t, "ExceptionRequested") :
          /\ i \in 1 .. N /\ log[i].trace = t
          /\ log[i].type \in {"PolicyEvaluated", "ExceptionRequested"}
  BY DEF Uses
<1> DEFINE U == Uses(q, t, "PolicyEvaluated") \cup Uses(q, t, "ExceptionRequested")
<1> HIDE DEF U, t
<1>6. ASSUME NEW r
      PROVE  r \in PolicyRows(q, t) <=> \E i \in U : r = EntryOf(i, s.entity)
  <2>1. r \in PolicyRows(q, t) <=> (r \in PrecedentsUpTo(N) /\ r.trace = t) /\ PolicyMatches(q, r.policy)
    BY <1>1 DEF PolicyRows
  <2>2. r \in PrecedentsUpTo(N) /\ r.trace = t <=>
            \E i \in 1 .. N : /\ r = EntryOf(i, s.entity) /\ log[i].trace = t
                              /\ log[i].type \in {"PolicyEvaluated", "ExceptionRequested"}
    BY <1>2, <1>3 DEF EntryOf
  <2> QED BY <1>4, <1>5, <2>1, <2>2 DEF U
<1> QED BY <1>6 DEF U, t

\* The entry of the last exception, or else of the last evaluation, outranks all others.
LEMMA BestIsLast ==
    ASSUME LogInv, db = TablesUpTo(Len(log)), NEW q, NEW s \in FinishedSummaries,
           q.policy_id # None, PolicyRows(q, s.trace) # {}
    PROVE  BestRow(q, s.trace).policy = PolicyOf(q, s.trace)
<1> DEFINE t == s.trace
           exceptions == Uses(q, t, "ExceptionRequested")
           evaluations == Uses(q, t, "PolicyEvaluated")
           U == evaluations \cup exceptions
           m == IF exceptions # {} THEN Max(exceptions) ELSE Max(evaluations)
           Entry(i) == EntryOf(i, s.entity)
           rows == PolicyRows(q, t)
<1>1. \A r : r \in rows <=> \E i \in U : r = Entry(i)
  BY PolicyRowsOfTrace
<1>2. U # {}
  BY <1>1
<1>3. /\ exceptions \subseteq 1 .. Len(log) /\ evaluations \subseteq 1 .. Len(log)
      /\ \A i \in exceptions : log[i].type = "ExceptionRequested"
      /\ \A i \in evaluations : log[i].type = "PolicyEvaluated"
  BY DEF Uses
<1>4. /\ Len(log) \in Nat
      /\ \A i \in U : Entry(i).log_seq = i
      /\ \A i \in exceptions : Entry(i).policy = log[i].with /\ Entry(i).exception # None
      /\ \A i \in evaluations : Entry(i).policy = log[i].about /\ Entry(i).exception = None
  BY <1>3, EntryFields, LogFacts
<1>5. /\ exceptions # {} => Max(exceptions) \in exceptions /\ \A i \in exceptions : i <= Max(exceptions)
      /\ evaluations # {} => Max(evaluations) \in evaluations /\ \A i \in evaluations : i <= Max(evaluations)
  BY <1>3, <1>4, MaxOf
<1> HIDE DEF exceptions, evaluations, Entry, rows
<1>6. /\ m \in U
      /\ exceptions # {} => m \in exceptions /\ \A i \in exceptions : i <= m
      /\ exceptions = {} => m \in evaluations /\ \A i \in evaluations : i <= m
  BY <1>2, <1>5
<1> HIDE DEF m
<1>7. U \subseteq Nat
  BY <1>3, <1>4
<1>8. ASSUME NEW i \in U, i # m
      PROVE  outranks(Entry(m), Entry(i)) /\ ~outranks(Entry(i), Entry(m))
  <2>1. CASE exceptions # {} /\ i \in exceptions
    <3>1. i < m
      BY <1>6, <1>7, <1>8, <2>1
    <3> QED BY <1>4, <1>6, <1>7, <2>1, <3>1 DEF outranks
  <2>2. CASE exceptions # {} /\ i \notin exceptions
    BY <1>4, <1>6, <2>2 DEF outranks
  <2>3. CASE exceptions = {}
    <3>1. i < m
      BY <1>6, <1>7, <1>8, <2>3
    <3> QED BY <1>4, <1>6, <1>7, <2>3, <3>1 DEF outranks
  <2> QED BY <2>1, <2>2, <2>3
<1> DEFINE Best(r) == r \in rows /\ \A x \in rows \ {r} : outranks(r, x)
<1>9. Best(Entry(m))
  BY <1>1, <1>6, <1>8
<1>10. ASSUME NEW r, Best(r)
       PROVE  r = Entry(m)
  <2> SUFFICES ASSUME r # Entry(m) PROVE FALSE
    OBVIOUS
  <2>1. PICK i \in U : r = Entry(i)
    BY <1>1, <1>10
  <2>2. outranks(r, Entry(m))
    BY <1>9, <1>10
  <2> QED BY <1>8, <2>1, <2>2
<1>11. BestRow(q, t) = Entry(m)
  <2>1. (CHOOSE r \in rows : \A x \in rows \ {r} : outranks(r, x)) = Entry(m)
    BY <1>9, <1>10
  <2> QED BY <2>1 DEF BestRow, rows
<1>12. PolicyOf(q, t) = IF exceptions # {} THEN log[m].with ELSE log[m].about
  BY DEF PolicyOf, m, exceptions, evaluations
<1> QED BY <1>4, <1>6, <1>11, <1>12

LEMMA AnswersFromLog ==
    ASSUME GraphInv, Answers, InStep
    PROVE  LogInv /\ db = TablesUpTo(Len(log)) /\ Len(log) \in Nat
<1>1. PICK c \in 0 .. Len(log) : db.cursor = c
  BY DEF GraphInv, Cursored
<1>2. LogInv /\ Len(log) \in Nat
  BY LogFacts DEF GraphInv
<1>3. memory.cursor = c /\ db = TablesUpTo(c)
  BY <1>1 DEF InStep, Answers, Idle
<1>4. ~(c < Len(log))
  BY <1>3 DEF Answers, is_stale, get_last_log_seq
<1>5. c = Len(log)
  BY <1>2, <1>4
<1> QED BY <1>2, <1>3, <1>5

LEMMA MinOf ==
    ASSUME NEW a \in Nat, NEW b \in Nat
    PROVE  Min({a, b}) = IF a <= b THEN a ELSE b
<1> DEFINE m == IF a <= b THEN a ELSE b
<1>1. \A x \in {a, b} : (\A y \in {a, b} : x <= y) <=> x = m
  OBVIOUS
<1> HIDE DEF m
<1>2. m \in {a, b}
  BY DEF m
<1> QED BY <1>1, <1>2 DEF Min, m

LatestFirst(A) == OrderBy(A, LAMBDA r, s : r.last_log_seq > s.last_log_seq)

\* The n-th of some finished traces is the one of which n - 1 finished later.
LEMMA FinishedLastFirst ==
    ASSUME LogInv, NEW A, A \subseteq FinishedSummaries
    PROVE  LET o == LatestFirst(A)
               T == {s.last_log_seq : s \in A}
           IN  /\ Len(o) = Cardinality(T) /\ Cardinality(T) \in Nat
               /\ \A n \in 1 .. Len(o) :
                      o[n] \in A /\ Cardinality({j \in T : j > o[n].last_log_seq}) = n - 1
<1> DEFINE R == {p \in A \X A : p[1].last_log_seq > p[2].last_log_seq}
           o == LatestFirst(A)
           N == Cardinality(A)
           T == {s.last_log_seq : s \in A}
           Later(x) == {s \in A : s.last_log_seq > x.last_log_seq}
<1>1. \A s \in A : s.last_log_seq \in Nat
  BY LogFacts, FinishedFacts
<1>2. \A r, s \in A : r.last_log_seq = s.last_log_seq => r = s
  BY FinishedFacts
<1>3. \A r, s \in A : <<r, s>> \in R <=> r.last_log_seq > s.last_log_seq
  OBVIOUS
<1>4. \A x \in A : Before(A, R, x) = Later(x)
  BY <1>3 DEF Before
<1>5. StrictOrder(A, R)
  <2> HIDE DEF R
  <2> QED BY <1>1, <1>2, <1>3 DEF StrictOrder
<1>6. IsFiniteSet(A) /\ Cardinality(T) = N
  BY LastEvents
<1>7. N \in Nat /\ \A i \in 1 .. N : \E x \in A : Cardinality(Before(A, R, x)) = i - 1
  BY <1>5, <1>6, Ranks
<1>8. o = [i \in 1 .. N |-> CHOOSE r \in A : Cardinality(Later(r)) = i - 1]
  BY DEF LatestFirst, OrderBy
<1> HIDE DEF N, R, o
<1>9. \A i \in 1 .. N : o[i] \in A /\ Cardinality(Later(o[i])) = i - 1
  <2> SUFFICES ASSUME NEW i \in 1 .. N PROVE o[i] \in A /\ Cardinality(Later(o[i])) = i - 1
    OBVIOUS
  <2>1. \E x \in A : Cardinality(Later(x)) = i - 1
    BY <1>4, <1>7
  <2>2. o[i] = CHOOSE r \in A : Cardinality(Later(r)) = i - 1
    BY <1>8
  <2> HIDE DEF Later
  <2> QED BY <2>1, <2>2
<1>10. Len(o) = N
  <2>1. o \in [1 .. N -> A]
    BY <1>8, <1>9
  <2>2. o \in Seq(A)
    BY <1>7, <2>1
  <2> QED BY <1>7, <2>1, <2>2
<1>11. \A x \in A : Cardinality({j \in T : j > x.last_log_seq}) = Cardinality(Later(x))
  <2> SUFFICES ASSUME NEW x \in A
               PROVE  Cardinality({j \in T : j > x.last_log_seq}) = Cardinality(Later(x))
    OBVIOUS
  <2>1. {j \in T : j > x.last_log_seq} = {s.last_log_seq : s \in Later(x)}
    OBVIOUS
  <2>2. Later(x) \subseteq FinishedSummaries
    OBVIOUS
  <2> QED BY <2>1, <2>2, LastEvents
<1> HIDE DEF T, Later
<1>12. \A n \in 1 .. Len(o) : o[n] \in A /\ Cardinality({j \in T : j > o[n].last_log_seq}) = n - 1
  BY <1>9, <1>10, <1>11
<1> QED BY <1>6, <1>7, <1>10, <1>12 DEF T, o

Found(q) ==
    {s \in db.summaries : SummaryMatches(q, s) /\ (q.policy_id = None \/ PolicyRows(q, s.trace) # {})}

\* The summaries found are those of the traces whose end matches.
LEMMA FoundIsMatching ==
    ASSUME LogInv, db = TablesUpTo(Len(log)), NEW q
    PROVE  /\ Found(q) \subseteq FinishedSummaries
           /\ {s.last_log_seq : s \in Found(q)} = Matching(q)
<1>1. db.summaries = SummariesUpTo(Len(log))
  BY DEF TablesUpTo
<1>2. Found(q) \subseteq FinishedSummaries
  BY <1>1 DEF Found, FinishedSummaries, SummaryMatches
<1>3. ASSUME NEW s \in FinishedSummaries
      PROVE  s \in Found(q) <=> s.last_log_seq \in Matching(q)
  <2> DEFINE i == s.last_log_seq
  <2>1. /\ i \in 1 .. Len(log)
        /\ log[i].type = "TraceFinished" /\ log[i].trace = s.trace
        /\ s.outcome = log[i].about
        /\ s.entity = PrimaryEntity(get_trace_events(s.trace))
    BY FinishedFacts
  <2>2. \A r : r \in PolicyRows(q, s.trace) <=>
                   \E k \in Uses(q, s.trace, "PolicyEvaluated")
                              \cup Uses(q, s.trace, "ExceptionRequested") : r = EntryOf(k, s.entity)
    BY PolicyRowsOfTrace
  <2>3. PolicyRows(q, s.trace) # {} <=> \/ Uses(q, s.trace, "PolicyEvaluated") # {}
                                        \/ Uses(q, s.trace, "ExceptionRequested") # {}
    BY <2>2
  <2>4. s \in db.summaries /\ s.outcome # None
    BY <1>1 DEF FinishedSummaries
  <2>5. s \in Found(q) <=> /\ q.outcome \in {None, s.outcome}
                           /\ q.entity \in {None, s.entity}
                           /\ q.policy_id = None \/ PolicyRows(q, s.trace) # {}
    BY <2>4 DEF Found, SummaryMatches
  <2> HIDE DEF i
  <2>6. i \in Matching(q) <=> /\ q.outcome \in {None, log[i].about}
                              /\ q.entity = None \/ q.entity = PrimaryEntity(get_trace_events(s.trace))
                              /\ \/ q.policy_id = None
                                 \/ Uses(q, s.trace, "PolicyEvaluated") # {}
                                 \/ Uses(q, s.trace, "ExceptionRequested") # {}
    BY <2>1 DEF Matching
  <2> QED BY <2>1, <2>3, <2>5, <2>6 DEF i
<1>4. \A i \in Matching(q) : \E s \in FinishedSummaries : s.last_log_seq = i
  BY FinishedFacts DEF Matching
<1> QED BY <1>2, <1>3, <1>4

LEMMA HitsMatch == GraphInv => PrecedentsMatchLog
<1> SUFFICES ASSUME GraphInv, Answers, InStep, NEW q \in PrecedentQueries
             PROVE  LET hits == find_precedents(q)
                    IN  /\ Len(hits) = Min({q.limit, Cardinality(Matching(q))})
                        /\ \A n \in 1 .. Len(hits) :
                               \E i \in Matching(q) :
                                   /\ Cardinality({j \in Matching(q) : j > i}) = n - 1
                                   /\ hits[n] = [trace |-> log[i].trace,
                                                 policy |-> PolicyOf(q, log[i].trace)]
  BY DEF PrecedentsMatchLog
<1> DEFINE A == Found(q)
           recent == LatestFirst(A)
           hits == find_precedents(q)
           T == {s.last_log_seq : s \in A}
           m == Min({q.limit, Len(recent)})
           Hit(s) == [trace |-> s.trace,
                      policy |-> IF q.policy_id = None THEN None ELSE BestRow(q, s.trace).policy]
<1>1. LogInv /\ db = TablesUpTo(Len(log)) /\ q.limit \in Nat
  BY AnswersFromLog, QueryAssumption
<1>2. A \subseteq FinishedSummaries /\ T = Matching(q)
  BY <1>1, FoundIsMatching
<1>3. /\ Len(recent) = Cardinality(T) /\ Cardinality(T) \in Nat
      /\ \A n \in 1 .. Len(recent) :
             recent[n] \in A /\ Cardinality({j \in T : j > recent[n].last_log_seq}) = n - 1
  BY <1>1, <1>2, FinishedLastFirst
<1>4. hits = [n \in 1 .. m |-> Hit(recent[n])]
  BY DEF find_precedents, Found, LatestFirst
<1> HIDE DEF A, recent, hits, m, Hit
<1>5. m \in Nat /\ m <= Len(recent)
  BY <1>1, <1>3, MinOf DEF m
<1>6. Len(hits) = m
  BY <1>4, <1>5
<1>7. ASSUME NEW s \in A
      PROVE  /\ Hit(s) = [trace |-> log[s.last_log_seq].trace,
                          policy |-> PolicyOf(q, log[s.last_log_seq].trace)]
             /\ s.last_log_seq \in Matching(q)
  <2>1. s \in FinishedSummaries /\ s.last_log_seq \in Matching(q)
    BY <1>2
  <2>2. log[s.last_log_seq].trace = s.trace
    BY <1>1, <2>1, FinishedFacts
  <2>3. CASE q.policy_id = None
    BY <2>1, <2>2, <2>3 DEF Hit, PolicyOf
  <2>4. CASE q.policy_id # None
    <3>1. PolicyRows(q, s.trace) # {}
      BY <2>4 DEF A, Found
    <3>2. BestRow(q, s.trace).policy = PolicyOf(q, s.trace)
      BY <1>1, <2>1, <2>4, <3>1, BestIsLast
    <3> QED BY <2>1, <2>2, <2>4, <3>2 DEF Hit
  <2> QED BY <2>3, <2>4
<1>8. ASSUME NEW n \in 1 .. Len(hits)
      PROVE  \E i \in Matching(q) :
                 /\ Cardinality({j \in Matching(q) : j > i}) = n - 1
                 /\ hits[n] = [trace |-> log[i].trace, policy |-> PolicyOf(q, log[i].trace)]
  <2> DEFINE i == recent[n].last_log_seq
  <2>1. n \in 1 .. m /\ n \in 1 .. Len(recent)
    BY <1>3, <1>5, <1>6
  <2>2. hits[n] = Hit(recent[n]) /\ recent[n] \in A
    BY <1>3, <1>4, <2>1
  <2>3. Cardinality({j \in Matching(q) : j > i}) = n - 1
    BY <1>2, <1>3, <2>1
  <2>4. i \in Matching(q) /\ hits[n] = [trace |-> log[i].trace, policy |-> PolicyOf(q, log[i].trace)]
    BY <1>7, <2>2
  <2> QED BY <2>3, <2>4
<1>9. Len(hits) = Min({q.limit, Cardinality(Matching(q))})
  BY <1>2, <1>3, <1>6 DEF m
<1> QED BY <1>8, <1>9 DEF hits

(***************************************************************************)
(* find_precedents answers from the tables what the log says: the finished *)
(* traces that match, the one finished last first, each once, with the     *)
(* policy of its last exception or evaluation that matches.                *)
(***************************************************************************)
THEOREM PrecedentsAreOfTheLog == QuerySpec => []PrecedentsMatchLog
BY QueriesRefine, GraphInvariance, HitsMatch, PTL
-----------------------------------------------------------------------------
(***************************************************************************)
(* The pages: what a reader holds is the front of the list of all edges,   *)
(* up to his cursor, although the list has grown at its end meanwhile.     *)
(***************************************************************************)
EdgeOrder == {p \in EdgeRows \X EdgeRows : edge_before(p[1], p[2])}

AllEdges == EdgesUpTo(Len(log))

EdgesOf(E, q) == {e \in E : Touches(e, q)}

ReadUpTo(E, q, cursor) == {e \in EdgesOf(E, q) : cursor # None /\ ~past_cursor(cursor, e)}

ReadingInv ==
    reading # NotReading =>
        /\ reading = [query |-> reading.query, after |-> reading.after, edges |-> reading.edges]
        /\ reading.query \in EdgeQueries
        /\ ~astray =>
              /\ reading.after \in EdgesOf(AllEdges, reading.query) \cup {None}
              /\ Lists(reading.edges, ReadUpTo(AllEdges, reading.query, reading.after), EdgeOrder)

\* A set has one list.
LEMMA ListsOnce ==
    ASSUME NEW S, IsFiniteSet(S), NEW R, StrictOrder(S, R), NEW o, Lists(o, S, R),
           NEW p \in [1 .. Cardinality(S) -> S],
           \A i \in 1 .. Cardinality(S) : Cardinality(Before(S, R, p[i])) = i - 1
    PROVE  o = p
<1> DEFINE N == Len(o)
           D == 1 .. N
<1>1. /\ o \in Seq(S) /\ N \in Nat /\ o \in [D -> S]
      /\ \A x \in S : \E i \in D : o[i] = x
      /\ \A i, j \in D : i < j => <<o[i], o[j]>> \in R
  BY DEF Lists
<1> HIDE DEF N
<1>2. \A i, j \in D : o[i] = o[j] => i = j
  <2> SUFFICES ASSUME NEW i \in D, NEW j \in D, o[i] = o[j], i < j PROVE FALSE
    BY <1>1
  <2>1. <<o[i], o[j]>> \in R /\ o[i] \in S
    BY <1>1
  <2> QED BY <2>1 DEF StrictOrder
<1>3. Cardinality(S) = N
  <2>1. ExistsBijection(D, S)
    <3>1. o \in Bijection(D, S)
      BY <1>1, <1>2 DEF Bijection, Injection, Surjection, IsInjective
    <3> QED BY <3>1 DEF ExistsBijection
  <2> QED BY <1>1, <2>1, FS_CountingElements
<1>4. ASSUME NEW n \in D
      PROVE  Cardinality(Before(S, R, o[n])) = n - 1
  <2> DEFINE B == Before(S, R, o[n])
             f == [i \in 1 .. n - 1 |-> o[i]]
  <2>1. \A i \in 1 .. n - 1 : i \in D /\ i < n
    BY <1>1
  <2>2. \A i \in 1 .. n - 1 : o[i] \in B
    BY <1>1, <2>1 DEF Before
  <2>3. \A x \in B : \E i \in 1 .. n - 1 : o[i] = x
    <3> SUFFICES ASSUME NEW x \in B PROVE \E i \in 1 .. n - 1 : o[i] = x
      OBVIOUS
    <3>1. x \in S /\ <<x, o[n]>> \in R
      BY DEF Before
    <3>2. PICK i \in D : o[i] = x
      BY <1>1, <3>1
    <3>3. <<o[n], x>> \notin R /\ o[n] # x
      BY <1>1, <3>1 DEF StrictOrder
    <3>4. i < n
      BY <1>1, <3>2, <3>3
    <3> QED BY <1>1, <3>2, <3>4
  <2> HIDE DEF B
  <2>4. f \in Bijection(1 .. n - 1, B)
    <3>1. f \in [1 .. n - 1 -> B]
      BY <2>2
    <3>2. \A i, j \in 1 .. n - 1 : f[i] = f[j] => i = j
      BY <1>2, <2>1
    <3>3. \A x \in B : \E i \in 1 .. n - 1 : f[i] = x
      BY <2>3
    <3> HIDE DEF f
    <3> QED BY <3>1, <3>2, <3>3 DEF Bijection, Injection, Surjection, IsInjective
  <2>5. n - 1 \in Nat
    BY <1>1
  <2>6. ExistsBijection(1 .. n - 1, B)
    BY <2>4 DEF ExistsBijection
  <2>7. Cardinality(B) = n - 1
    BY <2>5, <2>6, FS_CountingElements
  <2> QED BY <2>7 DEF B
<1>5. /\ Cardinality(S) \in Nat
      /\ \A x, y \in S : <<x, y>> \in R => Cardinality(Before(S, R, x)) < Cardinality(Before(S, R, y))
      /\ \A x \in S : Cardinality(Before(S, R, x)) \in 0 .. Cardinality(S) - 1
  BY Ranks
<1>6. ASSUME NEW i \in D
      PROVE  o[i] = p[i]
  <2> DEFINE x == o[i]
             y == p[i]
  <2>1. x \in S /\ y \in S /\ Cardinality(Before(S, R, x)) = Cardinality(Before(S, R, y))
    BY <1>1, <1>3, <1>4
  <2> HIDE DEF x, y
  <2>2. x = y
    <3> SUFFICES ASSUME x # y PROVE FALSE
      OBVIOUS
    <3>1. <<x, y>> \in R \/ <<y, x>> \in R
      BY <2>1 DEF StrictOrder
    <3>2. Cardinality(Before(S, R, x)) \in Int
      BY <1>5, <2>1
    <3>3. Cardinality(Before(S, R, x)) < Cardinality(Before(S, R, x))
      BY <1>5, <2>1, <3>1
    <3> QED BY <3>2, <3>3
  <2> QED BY <2>2 DEF x, y
<1> QED BY <1>1, <1>3, <1>6

\* Two lists, one after the other.
LEMMA ListsJoined ==
    ASSUME NEW S, NEW T, NEW R, NEW o, Lists(o, S, R), NEW p, Lists(p, T, R),
           \A x \in S : \A y \in T : <<x, y>> \in R
    PROVE  Lists(o \o p, S \cup T, R)
<1>1. /\ o \in Seq(S) /\ p \in Seq(T) /\ o \in Seq(S \cup T) /\ p \in Seq(S \cup T)
      /\ Len(o) \in Nat /\ Len(p) \in Nat
  BY DEF Lists
<1> DEFINE c == o \o p
<1>2. /\ c \in Seq(S \cup T) /\ Len(c) = Len(o) + Len(p)
      /\ \A i \in 1 .. Len(o) + Len(p) : c[i] = IF i <= Len(o) THEN o[i] ELSE p[i - Len(o)]
  BY <1>1, ConcatProperties
<1> HIDE DEF c
<1>3. \A i \in 1 .. Len(c) : \/ i \in 1 .. Len(o) /\ c[i] = o[i]
                             \/ i - Len(o) \in 1 .. Len(p) /\ c[i] = p[i - Len(o)]
  <2> SUFFICES ASSUME NEW i \in 1 .. Len(c)
               PROVE  \/ i \in 1 .. Len(o) /\ c[i] = o[i]
                      \/ i - Len(o) \in 1 .. Len(p) /\ c[i] = p[i - Len(o)]
    OBVIOUS
  <2>1. i \in 1 .. Len(o) + Len(p)
    BY <1>2
  <2>2. c[i] = IF i <= Len(o) THEN o[i] ELSE p[i - Len(o)]
    BY <1>2, <2>1
  <2>3. i <= Len(o) => i \in 1 .. Len(o)
    BY <1>1, <2>1
  <2>4. ~(i <= Len(o)) => i - Len(o) \in 1 .. Len(p)
    BY <1>1, <2>1
  <2> QED BY <2>2, <2>3, <2>4
<1>4. /\ \A i \in 1 .. Len(o) : o[i] \in S
      /\ \A i \in 1 .. Len(p) : p[i] \in T
  BY <1>1
<1>5. ASSUME NEW x \in S \cup T
      PROVE  \E i \in 1 .. Len(c) : c[i] = x
  <2>1. CASE x \in S
    <3>1. PICK i \in 1 .. Len(o) : o[i] = x
      BY <2>1 DEF Lists
    <3> QED BY <1>1, <1>2, <3>1
  <2>2. CASE x \in T
    <3>1. PICK i \in 1 .. Len(p) : p[i] = x
      BY <2>2 DEF Lists
    <3>2. Len(o) + i \in 1 .. Len(c) /\ ~(Len(o) + i <= Len(o)) /\ (Len(o) + i) - Len(o) = i
      BY <1>1, <1>2
    <3>3. c[Len(o) + i] = p[i]
      BY <1>2, <3>2
    <3> QED BY <3>1, <3>2, <3>3
  <2> QED BY <2>1, <2>2
<1>6. ASSUME NEW i \in 1 .. Len(c), NEW j \in 1 .. Len(c), i < j
      PROVE  <<c[i], c[j]>> \in R
  <2>1. CASE i \in 1 .. Len(o) /\ j \in 1 .. Len(o)
    <3>1. c[i] = o[i] /\ c[j] = o[j]
      BY <1>1, <1>2, <2>1
    <3> QED BY <1>6, <2>1, <3>1 DEF Lists
  <2>2. CASE i \in 1 .. Len(o) /\ j \notin 1 .. Len(o)
    <3>1. c[i] = o[i] /\ i <= Len(o)
      BY <1>1, <1>2, <2>2
    <3>2. j - Len(o) \in 1 .. Len(p) /\ c[j] = p[j - Len(o)]
      BY <1>3, <2>2
    <3>3. c[i] \in S /\ c[j] \in T
      BY <1>4, <2>2, <3>1, <3>2
    <3> QED BY <3>3
  <2>3. CASE i \notin 1 .. Len(o)
    <3>1. /\ i - Len(o) \in 1 .. Len(p) /\ j - Len(o) \in 1 .. Len(p)
          /\ i - Len(o) < j - Len(o)
          /\ c[i] = p[i - Len(o)] /\ c[j] = p[j - Len(o)]
      BY <1>1, <1>2, <1>6, <2>3
    <3> QED BY <3>1 DEF Lists
  <2> QED BY <2>1, <2>2, <2>3
<1> QED BY <1>2, <1>5, <1>6 DEF Lists, c

\* The edges of an event carry its log_seq, and depend on no other column than these.
LEMMA EmittedEdges ==
    ASSUME NEW e, e.type \in ALL_EVENT_TYPES
    PROVE  /\ IsFiniteSet(emit(e).edges)
           /\ \A r \in emit(e).edges : r.log_seq = e.log_seq
           /\ \A f : f.log_seq = e.log_seq /\ f.trace = e.trace /\ f.type = e.type
                        /\ f.about = e.about /\ f.with = e.with => emit(f).edges = emit(e).edges
<1>1. \A f : \/ f.type = "TraceStarted" /\ emit(f) = emit_trace_started(f)
             \/ f.type = "InputObserved" /\ emit(f) = emit_input_observed(f)
             \/ f.type = "EntityObserved" /\ emit(f) = emit_entity_observed(f)
             \/ f.type = "PolicyEvaluated" /\ emit(f) = emit_policy_evaluated(f)
             \/ f.type = "ExceptionRequested" /\ emit(f) = emit_exception_requested(f)
             \/ f.type = "ApprovalRecorded" /\ emit(f) = emit_approval_recorded(f)
             \/ f.type = "PrecedentCited" /\ emit(f) = emit_precedent_cited(f)
             \/ f.type = "ActionProposed" /\ emit(f) = emit_action_proposed(f)
             \/ f.type = "ActionCommitted" /\ emit(f) = emit_action_committed(f)
             \/ f.type = "TraceFinished" /\ emit(f) = emit_trace_finished(f)
             \/ f.type \notin ALL_EVENT_TYPES
  BY DEF emit, ALL_EVENT_TYPES
<1> DEFINE FromTrace(f, edgeType, kind) ==
               EdgeRow(edgeType, TraceNode(f), make_node_id(kind, f.about), f)
<1>2. \A f : \A edgeType, kind : EmitFromTrace(f, edgeType, kind).edges = {FromTrace(f, edgeType, kind)}
  BY DEF EmitFromTrace, Emission
<1> DEFINE Approval(f) == EdgeRow("exception_approved_by", f.about, make_node_id("actor", f.with), f)
           Target(f) == EdgeRow("action_targets_entity", make_node_id("action", f.about),
                                make_node_id("entity", f.with), f)
           One == \E edgeType, kind :
                      \A f : f.type = e.type => emit(f).edges = {FromTrace(f, edgeType, kind)}
           Approved == \A f : f.type = e.type =>
                          emit(f).edges = IF f.about[1] = "exception" THEN {Approval(f)} ELSE {}
           Proposed == \E edgeType, kind : \A f : f.type = e.type =>
                           emit(f).edges = {FromTrace(f, edgeType, kind), Target(f)}
           Nothing == \A f : f.type = e.type => emit(f).edges = {}
<1>3. One \/ Approved \/ Proposed \/ Nothing
  <2> HIDE DEF FromTrace
  <2>1. \A f : /\ emit_trace_started(f).edges = {FromTrace(f, "trace_involves_entity", "entity")}
               /\ emit_input_observed(f).edges = {FromTrace(f, "trace_observed_input", "input")}
               /\ emit_entity_observed(f).edges = {FromTrace(f, "trace_involves_entity", "entity")}
               /\ emit_policy_evaluated(f).edges = {FromTrace(f, "trace_evaluated_policy", "policy")}
               /\ emit_exception_requested(f).edges = {FromTrace(f, "trace_requested_exception", "exception")}
    BY <1>2 DEF emit_trace_started, emit_input_observed, emit_entity_observed,
                emit_policy_evaluated, emit_exception_requested, Emission
  <2>2. \A f : emit_action_proposed(f).edges =
                   {FromTrace(f, "trace_proposed_action", "action"), Target(f)}
    BY <1>2 DEF emit_action_proposed, Emission
  <2>3. \A f : /\ emit_precedent_cited(f).edges = {FromTrace(f, "trace_cited_precedent", "trace")}
               /\ emit_action_committed(f).edges = {FromTrace(f, "trace_committed_action", "action")}
               /\ emit_trace_finished(f).edges = {}
    BY DEF emit_precedent_cited, emit_action_committed, emit_trace_finished, Emission, FromTrace
  <2>4. \A f : emit_approval_recorded(f).edges =
                   IF f.about[1] = "exception" THEN {Approval(f)} ELSE {}
    BY DEF emit_approval_recorded, Emission
  <2> HIDE DEF Approval, Target
  <2>5. e.type \in {"TraceStarted", "InputObserved", "EntityObserved", "PolicyEvaluated",
                    "ExceptionRequested", "PrecedentCited", "ActionCommitted"} => One
    <3> DEFINE Is(edgeType, kind) ==
                   \A f : f.type = e.type => emit(f).edges = {FromTrace(f, edgeType, kind)}
    <3>1. \A edgeType, kind : Is(edgeType, kind) => One
      OBVIOUS
    <3>2. e.type = "TraceStarted" => Is("trace_involves_entity", "entity")
      BY <1>1, <2>1, <2>3
    <3>3. e.type = "InputObserved" => Is("trace_observed_input", "input")
      BY <1>1, <2>1, <2>3
    <3>4. e.type = "EntityObserved" => Is("trace_involves_entity", "entity")
      BY <1>1, <2>1, <2>3
    <3>5. e.type = "PolicyEvaluated" => Is("trace_evaluated_policy", "policy")
      BY <1>1, <2>1, <2>3
    <3>6. e.type = "ExceptionRequested" => Is("trace_requested_exception", "exception")
      BY <1>1, <2>1, <2>3
    <3>7. e.type = "PrecedentCited" => Is("trace_cited_precedent", "trace")
      BY <1>1, <2>1, <2>3
    <3>8. e.type = "ActionCommitted" => Is("trace_committed_action", "action")
      BY <1>1, <2>1, <2>3
    <3> HIDE DEF One, Is
    <3> QED BY <3>1, <3>2, <3>3, <3>4, <3>5, <3>6, <3>7, <3>8
  <2>6. e.type = "ApprovalRecorded" => Approved
    BY <1>1, <2>4
  <2>7. e.type = "ActionProposed" => Proposed
    BY <1>1, <2>2
  <2>8. e.type = "TraceFinished" => Nothing
    BY <1>1, <2>3
  <2> HIDE DEF One, Approved, Proposed, Nothing
  <2> QED BY <2>5, <2>6, <2>7, <2>8 DEF ALL_EVENT_TYPES
<1>4. \A f : \A edgeType, from, to : EdgeRow(edgeType, from, to, f).log_seq = f.log_seq
  BY DEF EdgeRow
<1>5. ASSUME NEW f, f.log_seq = e.log_seq, f.trace = e.trace, f.about = e.about
      PROVE  /\ \A edgeType, kind : FromTrace(f, edgeType, kind) = FromTrace(e, edgeType, kind)
             /\ \A edgeType, from, to : EdgeRow(edgeType, from, to, f) = EdgeRow(edgeType, from, to, e)
  BY <1>5 DEF EdgeRow, TraceNode
<1>6. \A r \in emit(e).edges : r.log_seq = e.log_seq
  <2>1. /\ \A edgeType, kind : FromTrace(e, edgeType, kind).log_seq = e.log_seq
        /\ Approval(e).log_seq = e.log_seq /\ Target(e).log_seq = e.log_seq
    BY <1>4
  <2> HIDE DEF FromTrace, Approval, Target
  <2> QED BY <1>3, <2>1
<1>7. \E a, b : emit(e).edges \subseteq {a, b}
  <2> HIDE DEF FromTrace, Approval, Target
  <2> QED BY <1>3
<1>8. IsFiniteSet(emit(e).edges)
  <2>1. PICK a, b : emit(e).edges \subseteq {a, b}
    BY <1>7
  <2>2. IsFiniteSet({a} \cup {b})
    BY FS_Singleton, FS_Union
  <2>3. emit(e).edges \in SUBSET ({a} \cup {b})
    BY <2>1
  <2> QED BY <2>2, <2>3, FS_Subset
<1>9. ASSUME NEW f, f.log_seq = e.log_seq, f.trace = e.trace, f.type = e.type,
             f.about = e.about, f.with = e.with
      PROVE  emit(f).edges = emit(e).edges
  <2>1. /\ \A edgeType, kind : FromTrace(f, edgeType, kind) = FromTrace(e, edgeType, kind)
        /\ \A edgeType, from, to : EdgeRow(edgeType, from, to, f) = EdgeRow(edgeType, from, to, e)
    BY <1>5, <1>9
  <2>2. Approval(f) = Approval(e) /\ Target(f) = Target(e)
    BY <1>9, <2>1
  <2> HIDE DEF FromTrace, Approval, Target
  <2>3. One => emit(f).edges = emit(e).edges
    BY <1>9, <2>1
  <2>4. Approved => emit(f).edges = emit(e).edges
    BY <1>9, <2>2
  <2>5. Proposed => emit(f).edges = emit(e).edges
    BY <1>9, <2>1, <2>2
  <2>6. Nothing => emit(f).edges = emit(e).edges
    BY <1>9
  <2> HIDE DEF One, Approved, Proposed, Nothing
  <2> QED BY <1>3, <2>3, <2>4, <2>5, <2>6
<1> QED BY <1>6, <1>8, <1>9

LEMMA EdgesAreRows ==
    ASSUME LogInv
    PROVE  /\ EdgesUpTo(Len(log)) \subseteq EdgeRows
           /\ IsFiniteSet(EdgesUpTo(Len(log)))
<1> DEFINE N == Len(log)
           S == {n \in 0 .. N : IsFiniteSet(EdgesUpTo(n))}
<1>1. N \in Nat
  BY LogFacts
<1>2. 0 \in S
  BY <1>1, FS_EmptySet DEF EdgesUpTo
<1>3. ASSUME NEW n \in 1 .. N, n - 1 \in S
      PROVE  n \in S
  <2> DEFINE m == n - 1
  <2>1. m \in 0 .. Len(log) - 1 /\ m + 1 = n /\ IsFiniteSet(EdgesUpTo(m))
    BY <1>1, <1>3
  <2> HIDE DEF m
  <2>2. EdgesUpTo(n) = EdgesUpTo(m) \cup emit(log[n]).edges
    BY <2>1, GraphNext
  <2>3. IsFiniteSet(emit(log[n]).edges)
    BY EmittedEdges, LogFacts
  <2>4. IsFiniteSet(EdgesUpTo(m) \cup emit(log[n]).edges)
    BY <2>1, <2>3, FS_Union
  <2>5. IsFiniteSet(EdgesUpTo(n))
    BY <2>2, <2>4, Zenon
  <2> QED BY <2>5
<1>4. IsFiniteSet(EdgesUpTo(N))
  <2>1. 0 .. N \subseteq S
    <3> HIDE DEF S
    <3> QED BY <1>1, <1>2, <1>3, IntervalInduction
  <2> QED BY <1>1, <2>1
<1>5. ASSUME NEW n \in 1 .. N
      PROVE  emit(log[n]).edges \subseteq EdgeRows
  <2> DEFINE e == log[n]
  <2>1. /\ e.trace \in Trace /\ e.log_seq = n /\ n \in 1 .. MaxLogSeq
        /\ e.type \in ALL_EVENT_TYPES
    BY <1>1, LogFacts, ReferenceGraphAssumption DEF LogInv
  <2>2. PICK p \in Payloads(e.trace) : e.type = p.type /\ e.about = p.about /\ e.with = p.with
    BY DEF LogInv, WellFormed
  <2> DEFINE f == [log_seq |-> n, trace |-> e.trace, type |-> p.type, about |-> p.about, with |-> p.with]
  <2>3. f \in EventRows(e.trace)
    BY <2>1, <2>2 DEF EventRows
  <2>4. f.log_seq = e.log_seq /\ f.trace = e.trace /\ f.type = e.type /\ f.about = e.about /\ f.with = e.with
    BY <2>1, <2>2
  <2> HIDE DEF f, e
  <2>5. emit(f).edges = emit(e).edges
    BY <2>1, <2>4, EmittedEdges
  <2>6. emit(f).edges \subseteq EdgeRows
    BY <2>1, <2>3 DEF EdgeRows
  <2> QED BY <2>5, <2>6 DEF e
<1> QED BY <1>4, <1>5 DEF EdgesUpTo

LEMMA RowsHaveSeq == \A e \in EdgeRows : e.log_seq \in Nat
<1> SUFFICES ASSUME NEW e \in EdgeRows PROVE e.log_seq \in Nat
  OBVIOUS
<1>1. PICK t \in Trace : \E f \in EventRows(t) : e \in emit(f).edges
  BY DEF EdgeRows
<1>2. PICK f \in EventRows(t) : e \in emit(f).edges
  BY <1>1
<1>3. f.log_seq \in Nat /\ f.type \in ALL_EVENT_TYPES
  BY <1>2, ReferenceGraphAssumption DEF EventRows, Payloads, validate_payload_schema
<1>4. e.log_seq = f.log_seq
  BY <1>2, <1>3, EmittedEdges
<1> QED BY <1>3, <1>4

LEMMA EdgeOrderStrict ==
    ASSUME NEW S, S \subseteq EdgeRows
    PROVE  StrictOrder(S, EdgeOrder)
<1>1. \A e, f \in S : <<e, f>> \in EdgeOrder <=> edge_before(e, f)
  BY DEF EdgeOrder
<1>2. /\ \A e \in S : e.log_seq \in Nat
      /\ \A e, f \in S : EdgeIdBefore(e, f) <=> e # f /\ ~EdgeIdBefore(f, e)
      /\ \A e, f, g \in S : EdgeIdBefore(e, f) /\ EdgeIdBefore(f, g) => EdgeIdBefore(e, g)
  BY RowsHaveSeq, QueryAssumption
<1>3. \A e, f \in S : edge_before(e, f) <=> e # f /\ ~edge_before(f, e)
  BY <1>2 DEF edge_before
<1>4. \A e, f, g \in S : edge_before(e, f) /\ edge_before(f, g) => edge_before(e, g)
  BY <1>2 DEF edge_before
<1> QED BY <1>1, <1>3, <1>4 DEF StrictOrder

OrderedEdges(S) == OrderBy(S, edge_before)

\* ORDER BY log_seq, edge_id
LEMMA EdgesListed ==
    ASSUME NEW S, S \subseteq EdgeRows, IsFiniteSet(S)
    PROVE  /\ Lists(OrderedEdges(S), S, EdgeOrder)
           /\ Len(OrderedEdges(S)) \in Nat
           /\ \A o : Lists(o, S, EdgeOrder) => o = OrderedEdges(S)
<1> DEFINE N == Cardinality(S)
           o == OrderedEdges(S)
           Earlier(x) == {s \in S : edge_before(s, x)}
<1>1. StrictOrder(S, EdgeOrder)
  BY EdgeOrderStrict
<1>2. \A x \in S : Before(S, EdgeOrder, x) = Earlier(x)
  BY DEF Before, EdgeOrder
<1>3. N \in Nat /\ \A i \in 1 .. N : \E x \in S : Cardinality(Before(S, EdgeOrder, x)) = i - 1
  BY <1>1, Ranks
<1>4. o = [i \in 1 .. N |-> CHOOSE r \in S : Cardinality(Earlier(r)) = i - 1]
  BY DEF OrderedEdges, OrderBy
<1> HIDE DEF N, o
<1>5. \A i \in 1 .. N : o[i] \in S /\ Cardinality(Before(S, EdgeOrder, o[i])) = i - 1
  <2> SUFFICES ASSUME NEW i \in 1 .. N
               PROVE  o[i] \in S /\ Cardinality(Before(S, EdgeOrder, o[i])) = i - 1
    OBVIOUS
  <2>1. \E x \in S : Cardinality(Earlier(x)) = i - 1
    BY <1>2, <1>3
  <2>2. o[i] = CHOOSE r \in S : Cardinality(Earlier(r)) = i - 1
    BY <1>4
  <2> HIDE DEF Earlier
  <2>3. o[i] \in S /\ Cardinality(Earlier(o[i])) = i - 1
    BY <2>1, <2>2
  <2> QED BY <1>2, <2>3
<1>6. o \in [1 .. N -> S]
  BY <1>4, <1>5
<1>7. Lists(o, S, EdgeOrder) /\ Len(o) = N
  BY <1>1, <1>5, <1>6, Ordered DEF N
<1>8. ASSUME NEW p, Lists(p, S, EdgeOrder)
      PROVE  p = o
  BY <1>1, <1>5, <1>6, <1>8, ListsOnce DEF N
<1> QED BY <1>3, <1>7, <1>8 DEF o

\* The front of a list.
LEMMA FrontListed ==
    ASSUME NEW S, NEW R, NEW o, Lists(o, S, R), NEW m \in 0 .. Len(o)
    PROVE  /\ Lists(SubSeq(o, 1, m), {o[i] : i \in 1 .. m}, R)
           /\ Len(SubSeq(o, 1, m)) = m
           /\ \A i \in 1 .. m : SubSeq(o, 1, m)[i] = o[i]
<1> DEFINE P == {o[i] : i \in 1 .. m}
           f == SubSeq(o, 1, m)
<1>1. o \in Seq(S) /\ Len(o) \in Nat /\ m \in Nat /\ m <= Len(o)
  BY DEF Lists
<1>2. \A i \in 1 .. m : o[i] \in P
  OBVIOUS
<1>3. f \in Seq(P) /\ Len(f) = m /\ \A i \in 1 .. m : f[i] = o[i]
  <2>1. /\ SubSeq(o, 1, m) \in Seq(P)
        /\ Len(SubSeq(o, 1, m)) = IF 1 <= m THEN m - 1 + 1 ELSE 0
        /\ \A i \in 1 .. m - 1 + 1 : SubSeq(o, 1, m)[i] = o[1 + i - 1]
    <3>1. 1 \in Int /\ m \in Int
      BY <1>1
    <3> HIDE DEF P
    <3> QED BY <1>2, <3>1, SubSeqProperties
  <2>2. m - 1 + 1 = m /\ \A i \in 1 .. m : 1 + i - 1 = i
    BY <1>1
  <2> HIDE DEF f, P
  <2> QED BY <1>1, <2>1, <2>2 DEF f
<1> HIDE DEF f
<1>4. \A x \in P : \E i \in 1 .. Len(f) : f[i] = x
  BY <1>3
<1>5. \A i, j \in 1 .. Len(f) : i < j => <<f[i], f[j]>> \in R
  <2>1. \A i \in 1 .. m : i \in 1 .. Len(o)
    BY <1>1
  <2> QED BY <1>3, <2>1 DEF Lists
<1> QED BY <1>3, <1>4, <1>5 DEF Lists, f

\* A page continues what was read up to its cursor, as far as the next cursor or to the end.
LEMMA PageRead ==
    ASSUME NEW E, E \subseteq EdgeRows, IsFiniteSet(E), db.edges = E,
           NEW q, q.limit \in Nat \ {0}, NEW after \in EdgesOf(E, q) \cup {None},
           NEW edges, Lists(edges, ReadUpTo(E, q, after), EdgeOrder)
    PROVE  LET page == list_node_edges(q, after)
           IN  IF page.next_cursor = None
               THEN Lists(edges \o page.edges, EdgesOf(E, q), EdgeOrder)
               ELSE /\ page.next_cursor \in EdgesOf(E, q)
                    /\ Lists(edges \o page.edges, ReadUpTo(E, q, page.next_cursor), EdgeOrder)
<1> DEFINE all == EdgesOf(E, q)
           done == ReadUpTo(E, q, after)
           rest == {e \in all : after = None \/ past_cursor(after, e)}
           rows == OrderedEdges(rest)
           m == Min({q.limit, Len(rows)})
           front == {rows[i] : i \in 1 .. m}
           page == SubSeq(rows, 1, m)
           next == IF Len(rows) > q.limit THEN Last(page) ELSE None
<1>1. list_node_edges(q, after) = [edges |-> page, next_cursor |-> next]
  <2>1. rest = {e \in db.edges : Touches(e, q) /\ (after = None \/ past_cursor(after, e))}
    BY DEF EdgesOf
  <2> HIDE DEF rest
  <2> QED BY <2>1 DEF list_node_edges, OrderedEdges
<1>2. all \subseteq EdgeRows /\ IsFiniteSet(all)
  <2>1. all \in SUBSET E
    BY DEF EdgesOf
  <2> QED BY <2>1, FS_Subset
<1>3. rest \subseteq all /\ done \subseteq all /\ done \cup rest = all
  BY DEF ReadUpTo
<1>4. rest \subseteq EdgeRows /\ IsFiniteSet(rest)
  <2>1. rest \in SUBSET all
    OBVIOUS
  <2> QED BY <1>2, <2>1, FS_Subset
<1>5. /\ \A e, f \in all : <<e, f>> \in EdgeOrder <=> edge_before(e, f)
      /\ \A e, f \in all : <<e, f>> \in EdgeOrder <=> e # f /\ <<f, e>> \notin EdgeOrder
      /\ \A e, f, g \in all : <<e, f>> \in EdgeOrder /\ <<f, g>> \in EdgeOrder => <<e, g>> \in EdgeOrder
  <2>1. \A e, f \in all : <<e, f>> \in EdgeOrder <=> edge_before(e, f)
    BY <1>2 DEF EdgeOrder
  <2> QED BY <1>2, <2>1, EdgeOrderStrict DEF StrictOrder
<1>6. ASSUME NEW e \in all, NEW f \in all
      PROVE  past_cursor(e, f) <=> <<e, f>> \in EdgeOrder
  <2> HIDE DEF all
  <2> QED BY <1>5 DEF past_cursor, edge_before
<1>7. ASSUME NEW x \in done, NEW y \in rest
      PROVE  <<x, y>> \in EdgeOrder
  <2>1. after # None /\ after \in all /\ x \in all /\ y \in all
    BY DEF ReadUpTo
  <2>2. <<after, x>> \notin EdgeOrder /\ <<after, y>> \in EdgeOrder
    BY <1>6, <2>1 DEF ReadUpTo
  <2>3. x = after \/ <<x, after>> \in EdgeOrder
    BY <1>5, <2>1, <2>2
  <2> QED BY <1>5, <2>1, <2>2, <2>3
<1>8. Lists(rows, rest, EdgeOrder) /\ Len(rows) \in Nat
  BY <1>4, EdgesListed
<1> HIDE DEF rows, done, all
<1>9. m \in 0 .. Len(rows) /\ m = IF q.limit <= Len(rows) THEN q.limit ELSE Len(rows)
  BY <1>8, MinOf
<1> HIDE DEF m
<1>10. /\ Lists(page, front, EdgeOrder) /\ Len(page) = m
       /\ \A i \in 1 .. m : page[i] = rows[i]
  <2> HIDE DEF rest
  <2> QED BY <1>8, <1>9, FrontListed
<1>11. /\ \A i \in 1 .. Len(rows) : rows[i] \in rest
       /\ \A x \in rest : \E i \in 1 .. Len(rows) : rows[i] = x
       /\ \A i, j \in 1 .. Len(rows) : i < j => <<rows[i], rows[j]>> \in EdgeOrder
  <2> HIDE DEF rest, front, page, next
  <2>1. rows \in Seq(rest)
    BY <1>8 DEF Lists
  <2>2. \A i \in 1 .. Len(rows) : rows[i] \in rest
    BY <2>1, ElementOfSeq
  <2> QED BY <1>8, <2>2 DEF Lists
<1> HIDE DEF rest, page
<1>12. CASE Len(rows) <= q.limit
  <2>1. next = None
    BY <1>8, <1>12
  <2>2. m = Len(rows)
    BY <1>8, <1>9, <1>12
  <2>3. front = rest
    BY <1>11, <2>2
  <2>4. Lists(edges \o page, all, EdgeOrder)
    <3>1. Lists(page, rest, EdgeOrder)
      BY <1>10, <2>3
    <3>2. Lists(edges, done, EdgeOrder)
      BY DEF done
    <3>3. Lists(edges \o page, done \cup rest, EdgeOrder)
      BY <1>7, <3>1, <3>2, ListsJoined
    <3> QED BY <1>3, <3>3
  <2> QED BY <1>1, <2>1, <2>4 DEF all
<1>13. CASE Len(rows) > q.limit
  <2>1. m = q.limit /\ m \in 1 .. Len(rows)
    BY <1>8, <1>9, <1>13
  <2> DEFINE last == rows[m]
  <2>2. next = last /\ last \in rest /\ last \in all
    BY <1>3, <1>10, <1>11, <1>13, <2>1 DEF Last
  <2>3. last # None
    BY <1>2, <2>2, QueryAssumption
  <2>4. front \subseteq rest
    BY <1>11, <2>1
  <2> HIDE DEF last
  <2>5. ASSUME NEW x \in all
        PROVE  <<last, x>> \notin EdgeOrder <=> x \in done \cup front
    <3>1. CASE x \in done
      <4>1. <<x, last>> \in EdgeOrder
        BY <1>7, <2>2, <3>1
      <4> QED BY <1>5, <2>2, <3>1, <4>1
    <3>2. CASE x \notin done
      <4>1. PICK i \in 1 .. Len(rows) : rows[i] = x
        BY <1>3, <1>11, <3>2
      <4>2. CASE i <= m
        <5>1. x \in front
          BY <1>8, <2>1, <4>1, <4>2
        <5>2. x = last \/ <<x, last>> \in EdgeOrder
          BY <1>8, <1>11, <2>1, <4>1, <4>2 DEF last
        <5>3. <<last, x>> \notin EdgeOrder
          BY <1>5, <2>2, <5>2
        <5> QED BY <5>1, <5>3
      <4>3. CASE m < i
        <5>1. <<last, x>> \in EdgeOrder
          BY <1>11, <2>1, <4>1, <4>3 DEF last
        <5>2. x \notin front
          <6> SUFFICES ASSUME NEW j \in 1 .. m, rows[j] = x PROVE FALSE
            OBVIOUS
          <6>1. j \in 1 .. Len(rows) /\ j < i
            BY <1>8, <2>1, <4>3
          <6>2. <<rows[j], rows[i]>> \in EdgeOrder
            BY <1>11, <6>1
          <6> QED BY <1>5, <4>1, <6>2
        <5> QED BY <3>2, <5>1, <5>2
      <4> QED BY <2>1, <4>2, <4>3
    <3> QED BY <3>1, <3>2
  <2>6. ReadUpTo(E, q, last) = done \cup front
    <3>1. \A x : x \in ReadUpTo(E, q, last) <=> x \in all /\ ~past_cursor(last, x)
      BY <2>3 DEF ReadUpTo, all
    <3>2. \A x : x \in ReadUpTo(E, q, last) <=> x \in done \cup front
      BY <1>3, <1>6, <2>2, <2>4, <2>5, <3>1
    <3> QED BY <3>2
  <2>7. Lists(edges \o page, done \cup front, EdgeOrder)
    <3>1. Lists(edges, done, EdgeOrder)
      BY DEF done
    <3> HIDE DEF front
    <3>2. ASSUME NEW x \in done, NEW y \in front
          PROVE  <<x, y>> \in EdgeOrder
      <4>1. y \in rest
        BY <2>4
      <4> QED BY <1>7, <4>1
    <3> QED BY <1>10, <3>1, <3>2, ListsJoined
  <2>8. list_node_edges(q, after).edges = page /\ list_node_edges(q, after).next_cursor = last
    BY <1>1, <2>2
  <2> HIDE DEF next, front
  <2>9. Lists(edges \o page, ReadUpTo(E, q, last), EdgeOrder)
    BY <2>6, <2>7
  <2> QED BY <2>2, <2>3, <2>8, <2>9 DEF all
<1> QED BY <1>8, <1>12, <1>13

\* An append leaves the front of the list as it is.
LEMMA ReadStays ==
    ASSUME LogInv, NEW t \in Trace, NEW p \in Offered(t), append_event(t, p)
    PROVE  /\ AllEdges \subseteq AllEdges'
           /\ \A q : \A c \in EdgesOf(AllEdges, q) \cup {None} :
                  ReadUpTo(AllEdges', q, c) = ReadUpTo(AllEdges, q, c)
<1> DEFINE N == Len(log)
           new == emit(log'[N + 1]).edges
<1>1. /\ log' \in Seq(Event) /\ Len(log') = N + 1 /\ N \in Nat
      /\ \A i \in 1 .. N : log'[i] = log[i]
  BY EventAppended, LogFacts
<1>2. LogInv'
  BY LogKept
<1>3. log'[N + 1].type \in ALL_EVENT_TYPES /\ log'[N + 1].log_seq = N + 1
  <2>1. log'[N + 1] \in Event
    BY <1>1
  <2>2. log'[N + 1].log_seq = N + 1
    BY <1>1, <1>2 DEF LogInv, WellFormed
  <2> QED BY <2>1, <2>2 DEF Event
<1>4. \A e \in new : e.log_seq = N + 1
  BY <1>3, EmittedEdges
<1>5. \A e \in EdgesUpTo(N) : e.log_seq \in 1 .. N
  <2> SUFFICES ASSUME NEW e \in EdgesUpTo(N) PROVE e.log_seq \in 1 .. N
    OBVIOUS
  <2>1. PICK i \in 1 .. N : e \in emit(log[i]).edges
    BY DEF EdgesUpTo
  <2>2. log[i].type \in ALL_EVENT_TYPES /\ log[i].log_seq = i
    BY LogFacts
  <2> QED BY <2>1, <2>2, EmittedEdges
<1>6. AllEdges' = AllEdges \cup new
  <2>1. AllEdges' = UNION {emit(log'[i]).edges : i \in 1 .. N + 1}
    BY <1>1 DEF AllEdges, EdgesUpTo
  <2>2. \A i : i \in 1 .. N + 1 <=> i \in 1 .. N \/ i = N + 1
    BY <1>1
  <2> QED BY <1>1, <2>1, <2>2 DEF AllEdges, EdgesUpTo
<1> HIDE DEF new
<1>7. ASSUME NEW q, NEW c \in EdgesOf(AllEdges, q)
      PROVE  \A e \in new : past_cursor(c, e)
  <2>1. c.log_seq \in 1 .. N
    BY <1>5 DEF EdgesOf, AllEdges
  <2> QED BY <1>1, <1>4, <2>1 DEF past_cursor
<1>8. ASSUME NEW q, NEW c \in EdgesOf(AllEdges, q) \cup {None}
      PROVE  ReadUpTo(AllEdges', q, c) = ReadUpTo(AllEdges, q, c)
  <2>1. c # None => \A e \in new : past_cursor(c, e)
    BY <1>7
  <2> DEFINE F == AllEdges'
             E == AllEdges
  <2>2. F = E \cup new
    BY <1>6
  <2> HIDE DEF E, F
  <2>3. \A e : e \in ReadUpTo(F, q, c) <=> e \in ReadUpTo(E, q, c)
    BY <2>1, <2>2 DEF ReadUpTo, EdgesOf
  <2>4. ReadUpTo(F, q, c) = ReadUpTo(E, q, c)
    BY <2>3
  <2> QED BY <2>4 DEF E, F
<1> QED BY <1>6, <1>8

LEMMA ReadingInit == QueryInit => ReadingInv
BY DEF QueryInit, ReadingInv

LEMMA ReadingKept ==
    ASSUME ReadingInv, reading' = reading, astray' = astray,
           AllEdges \subseteq AllEdges',
           \A q : \A c \in EdgesOf(AllEdges, q) \cup {None} :
               ReadUpTo(AllEdges', q, c) = ReadUpTo(AllEdges, q, c)
    PROVE  ReadingInv'
<1> DEFINE E == AllEdges
           F == AllEdges'
           Inv(edges) ==
               reading # NotReading =>
                   /\ reading = [query |-> reading.query, after |-> reading.after, edges |-> reading.edges]
                   /\ reading.query \in EdgeQueries
                   /\ ~astray =>
                         /\ reading.after \in EdgesOf(edges, reading.query) \cup {None}
                         /\ Lists(reading.edges, ReadUpTo(edges, reading.query, reading.after), EdgeOrder)
<1>1. Inv(E) /\ (ReadingInv' <=> Inv(F))
  BY DEF ReadingInv
<1>2. E \subseteq F /\ \A q : \A c \in EdgesOf(E, q) \cup {None} : ReadUpTo(F, q, c) = ReadUpTo(E, q, c)
  OBVIOUS
<1> HIDE DEF E, F
<1>3. \A q : EdgesOf(E, q) \subseteq EdgesOf(F, q)
  BY <1>2 DEF EdgesOf
<1>4. Inv(E) => Inv(F)
  BY <1>2, <1>3
<1> QED BY <1>1, <1>4

LEMMA EdgesKept ==
    ASSUME LogInv, [Next]_vars
    PROVE  /\ AllEdges \subseteq AllEdges'
           /\ \A q : \A c \in EdgesOf(AllEdges, q) \cup {None} :
                  ReadUpTo(AllEdges', q, c) = ReadUpTo(AllEdges, q, c)
<1>1. CASE log' = log
  <2>1. AllEdges' = AllEdges
    BY <1>1 DEF AllEdges, EdgesUpTo
  <2> HIDE DEF AllEdges
  <2> QED BY <2>1
<1>2. CASE \E t \in Trace : \E p \in Offered(t) : append_event(t, p)
  BY <1>2, ReadStays
<1>3. log' = log \/ \E t \in Trace : \E p \in Offered(t) : append_event(t, p)
  BY DEF Next, vars, DoAppend, OtherAppend, RetryAppend, sync_projections, replay_projections,
         NoBatchIsLeft, ProjectBatch, BatchFails, Crash, Restart, AppendFails, BeginFails,
         RebuildFails, RebuildFailsSqlite, RebuildFailsPostgres, RebuildRaises
<1> QED BY <1>1, <1>2, <1>3

LEMMA ReadingStarts ==
    ASSUME NEW q \in EdgeQueries, StartReading(q)
    PROVE  ReadingInv'
<1>1. reading' = [query |-> q, after |-> None, edges |-> << >>]
  BY DEF StartReading, NotReading
<1> DEFINE E == AllEdges'
           Inv(r) == r # NotReading =>
               /\ r = [query |-> r.query, after |-> r.after, edges |-> r.edges]
               /\ r.query \in EdgeQueries
               /\ ~astray' =>
                     /\ r.after \in EdgesOf(E, r.query) \cup {None}
                     /\ Lists(r.edges, ReadUpTo(E, r.query, r.after), EdgeOrder)
<1>2. ReadingInv' <=> Inv(reading')
  BY DEF ReadingInv
<1> HIDE DEF E
<1>3. Lists(<< >>, ReadUpTo(E, q, None), EdgeOrder)
  <2>1. ReadUpTo(E, q, None) = {}
    BY DEF ReadUpTo
  <2>2. << >> \in Seq({}) /\ Len(<< >>) = 0
    BY EmptySeq
  <2> QED BY <2>1, <2>2 DEF Lists
<1> DEFINE r == [query |-> q, after |-> None, edges |-> << >>]
<1>4. r.query = q /\ r.after = None /\ r.edges = << >> /\ r = [query |-> q, after |-> None, edges |-> << >>]
  OBVIOUS
<1> HIDE DEF r
<1>5. Inv(r)
  BY <1>3, <1>4
<1>6. reading' = r
  BY <1>1 DEF r
<1> QED BY <1>2, <1>5, <1>6

LEMMA PageKeeps ==
    ASSUME GraphInv, ReadingInv, ReadPage
    PROVE  ReadingInv'
<1> DEFINE q == reading.query
           page == list_node_edges(q, reading.after)
           E == AllEdges
           Inv(r) == r # NotReading =>
               /\ r = [query |-> r.query, after |-> r.after, edges |-> r.edges]
               /\ r.query \in EdgeQueries
               /\ ~astray' =>
                     /\ r.after \in EdgesOf(E, r.query) \cup {None}
                     /\ Lists(r.edges, ReadUpTo(E, r.query, r.after), EdgeOrder)
<1>1. reading # NotReading /\ Answers /\ log' = log
  BY DEF ReadPage, vars
<1>2. AllEdges' = AllEdges
  BY <1>1 DEF AllEdges, EdgesUpTo
<1>3. ReadingInv' <=> Inv(reading')
  BY <1>2 DEF ReadingInv
<1>4. /\ q \in EdgeQueries /\ q.limit \in Nat \ {0}
      /\ ~astray => /\ reading.after \in EdgesOf(E, q) \cup {None}
                    /\ Lists(reading.edges, ReadUpTo(E, q, reading.after), EdgeOrder)
      /\ reading = [query |-> q, after |-> reading.after, edges |-> reading.edges]
  BY <1>1, QueryAssumption DEF ReadingInv
<1>5. InStep => E \subseteq EdgeRows /\ IsFiniteSet(E) /\ db.edges = E
  <2>1. InStep => LogInv /\ db = TablesUpTo(Len(log))
    BY <1>1, AnswersFromLog
  <2> QED BY <2>1, EdgesAreRows DEF AllEdges, TablesUpTo
<1>6. /\ reading' = IF page.next_cursor = None THEN NotReading
                    ELSE [reading EXCEPT !.after = page.next_cursor, !.edges = reading.edges \o page.edges]
      /\ astray' = (page.next_cursor # None /\ (astray \/ ~InStep))
  BY DEF ReadPage
<1> HIDE DEF E, page
<1>7. CASE page.next_cursor = None
  BY <1>3, <1>6, <1>7
<1>8. CASE page.next_cursor # None
  <2> DEFINE last == page.next_cursor
             more == reading.edges \o page.edges
  <2>1. ASSUME ~astray'
        PROVE  last \in EdgesOf(E, q) /\ Lists(more, ReadUpTo(E, q, last), EdgeOrder)
    <3>1. ~astray /\ InStep
      BY <1>6, <1>8, <2>1
    <3> QED BY <1>4, <1>5, <1>8, <3>1, PageRead DEF page
  <2> HIDE DEF last, more
  <2>2. reading' = [reading EXCEPT !.after = last, !.edges = more]
    BY <1>6, <1>8 DEF last, more
  <2>3. /\ reading'.query = q /\ reading'.after = last /\ reading'.edges = more
        /\ reading' = [query |-> q, after |-> last, edges |-> more]
    <3> DEFINE c == reading.after
               e == reading.edges
    <3>1. reading = [query |-> q, after |-> c, edges |-> e]
      BY <1>4
    <3> HIDE DEF q, c, e
    <3> QED BY <2>2, <3>1
  <2>4. Inv(reading')
    <3> HIDE DEF q
    <3> QED BY <1>4, <2>1, <2>3
  <2> QED BY <1>3, <2>4
<1> QED BY <1>7, <1>8

LEMMA ReadingStep == GraphInv /\ ReadingInv /\ [QueryNext]_queryVars => ReadingInv'
<1> SUFFICES ASSUME GraphInv, ReadingInv, [QueryNext]_queryVars
             PROVE  ReadingInv'
  OBVIOUS
<1>1. LogInv
  BY DEF GraphInv
<1>2. CASE [Next]_vars /\ reading' = reading /\ astray' = astray
  BY <1>1, <1>2, EdgesKept, ReadingKept
<1>3. CASE \E q \in EdgeQueries : StartReading(q)
  BY <1>3, ReadingStarts
<1>4. CASE ReadPage
  BY <1>4, PageKeeps
<1> QED BY <1>2, <1>3, <1>4 DEF QueryNext, queryVars

LEMMA PagesComplete == GraphInv /\ ReadingInv => PagesAreComplete
<1> SUFFICES ASSUME GraphInv, ReadingInv, reading # NotReading, Answers, InStep, ~astray,
                    list_node_edges(reading.query, reading.after).next_cursor = None
             PROVE  reading.edges \o list_node_edges(reading.query, reading.after).edges =
                        OrderedEdges(EdgesOf(AllEdges, reading.query))
  BY DEF PagesAreComplete, OrderedEdges, OrderBy, EdgesOf, AllEdges, edge_before
<1> DEFINE q == reading.query
           page == list_node_edges(q, reading.after)
           E == AllEdges
<1>1. /\ q \in EdgeQueries /\ q.limit \in Nat \ {0}
      /\ reading.after \in EdgesOf(E, q) \cup {None}
      /\ Lists(reading.edges, ReadUpTo(E, q, reading.after), EdgeOrder)
  BY QueryAssumption DEF ReadingInv
<1>2. E \subseteq EdgeRows /\ IsFiniteSet(E) /\ db.edges = E
  <2>1. LogInv /\ db = TablesUpTo(Len(log))
    BY AnswersFromLog
  <2> QED BY <2>1, EdgesAreRows DEF AllEdges, TablesUpTo
<1> HIDE DEF E
<1>3. Lists(reading.edges \o page.edges, EdgesOf(E, q), EdgeOrder)
  BY <1>1, <1>2, PageRead
<1>4. EdgesOf(E, q) \subseteq EdgeRows /\ IsFiniteSet(EdgesOf(E, q))
  <2>1. EdgesOf(E, q) \in SUBSET E
    BY DEF EdgesOf
  <2> QED BY <1>2, <2>1, FS_Subset
<1> HIDE DEF q, page
<1>5. reading.edges \o page.edges = OrderedEdges(EdgesOf(E, q))
  BY <1>3, <1>4, EdgesListed
<1> QED BY <1>5 DEF q, page, E

(***************************************************************************)
(* A reader who follows next_cursor has with the last page of              *)
(* list_node_edges read each edge of the node once and in order, those     *)
(* included that were appended and projected meanwhile.                    *)
(***************************************************************************)
THEOREM PagesMissNothing == QuerySpec => []PagesAreComplete
<1>1. QuerySpec => []GraphInv
  BY QueriesRefine, GraphInvariance, PTL
<1>2. QuerySpec => [](GraphInv /\ ReadingInv)
  <2>1. []GraphInv /\ ReadingInv /\ [][QueryNext]_queryVars => []ReadingInv
    BY ReadingStep, PTL
  <2> QED BY <1>1, <2>1, ReadingInit, PTL DEF QuerySpec
<1> QED BY <1>2, PagesComplete, PTL

-----------------------------------------------------------------------------
(***************************************************************************)
(* The subgraph.  A walk w0 that visits the edges F and the nodes I either *)
(* has all of them in the end, or is truncated and lacks one.              *)
(***************************************************************************)
Passing(q, I) == {id \in I : Passes(q.node_types, id[1])}

WithinLimits(q, w) ==
    /\ IsFiniteSet(w.nodes) /\ Cardinality(w.nodes) <= q.max_nodes
    /\ IsFiniteSet(w.edges) /\ Cardinality(w.edges) <= q.max_edges

IsWalk(w) ==
    /\ w = [nodes |-> w.nodes, edges |-> w.edges, next |-> w.next, truncated |-> w.truncated]
    /\ w.truncated \in BOOLEAN

Visited(q, w0, F, I, w) ==
    /\ IsWalk(w) /\ WithinLimits(q, w)
    /\ w.edges \subseteq w0.edges \cup F
    /\ w.nodes \subseteq w0.nodes \cup Passing(q, I)
    /\ ~w.truncated => /\ w.edges = w0.edges \cup F
                       /\ w.nodes = w0.nodes \cup Passing(q, I)
                       /\ w.next = w.nodes \ w0.nodes
    /\ w.truncated => ~(F \subseteq w.edges) \/ ~(Passing(q, I) \subseteq w.nodes)

LEMMA NodeVisited ==
    ASSUME NEW q, q.max_nodes \in Nat, NEW w0, NEW F, NEW I, NEW w, Visited(q, w0, F, I, w), NEW id
    PROVE  Visited(q, w0, F, I \cup {id}, visit_node(q, w, id))
<1> DEFINE J == I \cup {id}
           v == visit_node(q, w, id)
<1>1. /\ IsWalk(w) /\ WithinLimits(q, w)
      /\ w.edges \subseteq w0.edges \cup F
      /\ w.nodes \subseteq w0.nodes \cup Passing(q, I)
      /\ ~w.truncated => /\ w.edges = w0.edges \cup F
                         /\ w.nodes = w0.nodes \cup Passing(q, I)
                         /\ w.next = w.nodes \ w0.nodes
      /\ w.truncated => ~(F \subseteq w.edges) \/ ~(Passing(q, I) \subseteq w.nodes)
  BY DEF Visited
<1>2. Passing(q, J) = Passing(q, I) \cup (IF Passes(q.node_types, id[1]) THEN {id} ELSE {})
  BY DEF Passing
<1> HIDE DEF J
<1>3. CASE w.truncated
  <2>1. v = w
    BY <1>3 DEF visit_node
  <2> HIDE DEF v
  <2> QED BY <1>1, <1>2, <1>3, <2>1 DEF Visited, v, J
<1>4. CASE ~w.truncated /\ (id \in w.nodes \/ ~Passes(q.node_types, id[1]))
  <2>1. v = w
    BY <1>4 DEF visit_node
  <2>2. w.nodes = w0.nodes \cup Passing(q, J)
    BY <1>1, <1>2, <1>4
  <2> HIDE DEF v
  <2> QED BY <1>1, <1>4, <2>1, <2>2 DEF Visited, v, J
<1>5. CASE ~w.truncated /\ id \notin w.nodes /\ Passes(q.node_types, id[1]) /\ Cardinality(w.nodes) >= q.max_nodes
  <2>1. v = [w EXCEPT !.truncated = TRUE]
    BY <1>5 DEF visit_node
  <2> HIDE DEF v
  <2>2. IsWalk(v) /\ v.nodes = w.nodes /\ v.edges = w.edges /\ v.truncated = TRUE
    BY <1>1, <2>1 DEF IsWalk
  <2>3. WithinLimits(q, v)
    BY <1>1, <2>2 DEF WithinLimits
  <2>4. id \in Passing(q, J) /\ w.nodes \subseteq w0.nodes \cup Passing(q, J)
    BY <1>1, <1>2, <1>5
  <2> QED BY <1>1, <1>5, <2>2, <2>3, <2>4 DEF Visited, v, J
<1>6. CASE ~w.truncated /\ id \notin w.nodes /\ Passes(q.node_types, id[1]) /\ ~(Cardinality(w.nodes) >= q.max_nodes)
  <2>1. v = [w EXCEPT !.nodes = w.nodes \cup {id}, !.next = w.next \cup {id}]
    BY <1>6 DEF visit_node
  <2> HIDE DEF v
  <2>2. /\ IsWalk(v) /\ v.nodes = w.nodes \cup {id} /\ v.edges = w.edges
        /\ v.next = w.next \cup {id} /\ ~v.truncated
    BY <1>1, <1>6, <2>1 DEF IsWalk
  <2>3. WithinLimits(q, v)
    <3>1. IsFiniteSet(w.nodes) /\ Cardinality(w.nodes) \in Nat
      BY <1>1, FS_CardinalityType DEF WithinLimits
    <3>2. IsFiniteSet(w.nodes \cup {id}) /\ Cardinality(w.nodes \cup {id}) = Cardinality(w.nodes) + 1
      BY <1>6, <3>1, FS_AddElement
    <3> QED BY <1>1, <1>6, <2>2, <3>1, <3>2 DEF WithinLimits
  <2>4. v.nodes = w0.nodes \cup Passing(q, J) /\ v.next = v.nodes \ w0.nodes
    BY <1>1, <1>2, <1>6, <2>2
  <2> QED BY <1>1, <1>6, <2>2, <2>3, <2>4 DEF Visited, v, J
<1> QED BY <1>3, <1>4, <1>5, <1>6

LEMMA EdgeVisited ==
    ASSUME NEW q, q.max_nodes \in Nat, q.max_edges \in Nat,
           NEW w0, Passing(q, Ends(w0.edges)) \subseteq w0.nodes,
           NEW F, NEW w, Visited(q, w0, F, Ends(F), w), NEW e
    PROVE  Visited(q, w0, F \cup {e}, Ends(F \cup {e}), visit_edge(q, w, e))
<1> DEFINE G == F \cup {e}
           v == visit_edge(q, w, e)
           I == Ends(F)
<1>1. /\ IsWalk(w) /\ WithinLimits(q, w)
      /\ w.edges \subseteq w0.edges \cup F
      /\ w.nodes \subseteq w0.nodes \cup Passing(q, I)
      /\ ~w.truncated => /\ w.edges = w0.edges \cup F
                         /\ w.nodes = w0.nodes \cup Passing(q, I)
                         /\ w.next = w.nodes \ w0.nodes
      /\ w.truncated => ~(F \subseteq w.edges) \/ ~(Passing(q, I) \subseteq w.nodes)
  BY DEF Visited
<1>2. Ends(G) = (I \cup {e.from}) \cup {e.to}
  BY DEF Ends
<1>3. Passing(q, I) \subseteq Passing(q, Ends(G))
  BY <1>2 DEF Passing
<1> HIDE DEF I
<1>4. CASE w.truncated
  <2>1. v = w
    BY <1>4 DEF visit_edge
  <2> HIDE DEF v
  <2> QED BY <1>1, <1>3, <1>4, <2>1 DEF Visited, v
<1>5. CASE ~w.truncated /\ e \in w.edges
  <2>1. v = w
    BY <1>5 DEF visit_edge
  <2>2. e \in w0.edges => {e.from, e.to} \subseteq Ends(w0.edges)
    BY DEF Ends
  <2>3. e \in F => {e.from, e.to} \subseteq I
    BY DEF Ends, I
  <2>4. Passing(q, Ends(G)) \subseteq w0.nodes \cup Passing(q, I)
    BY <1>1, <1>2, <1>5, <2>2, <2>3 DEF Passing
  <2>5. w.nodes = w0.nodes \cup Passing(q, Ends(G)) /\ w.edges = w0.edges \cup G
    BY <1>1, <1>3, <1>5, <2>4
  <2> HIDE DEF v, G
  <2> QED BY <1>1, <1>5, <2>1, <2>5 DEF Visited, v, G
<1>6. CASE ~w.truncated /\ e \notin w.edges /\ Cardinality(w.edges) >= q.max_edges
  <2>1. v = [w EXCEPT !.truncated = TRUE]
    BY <1>6 DEF visit_edge
  <2> HIDE DEF v
  <2>2. IsWalk(v) /\ v.nodes = w.nodes /\ v.edges = w.edges /\ v.truncated = TRUE
    BY <1>1, <2>1 DEF IsWalk
  <2>3. WithinLimits(q, v)
    BY <1>1, <2>2 DEF WithinLimits
  <2>4. e \in G /\ e \notin v.edges
    BY <1>6, <2>2
  <2>5. v.edges \subseteq w0.edges \cup G /\ v.nodes \subseteq w0.nodes \cup Passing(q, Ends(G))
    BY <1>1, <1>3, <2>2
  <2>6. Visited(q, w0, G, Ends(G), v)
    BY <2>2, <2>3, <2>4, <2>5 DEF Visited
  <2> QED BY <2>6 DEF v
<1>7. CASE ~w.truncated /\ e \notin w.edges /\ ~(Cardinality(w.edges) >= q.max_edges)
  <2> DEFINE u == [w EXCEPT !.edges = w.edges \cup {e}]
  <2>1. v = visit_node(q, visit_node(q, u, e.from), e.to)
    BY <1>7 DEF visit_edge
  <2>2. /\ IsWalk(u) /\ u.nodes = w.nodes /\ u.edges = w.edges \cup {e}
        /\ u.next = w.next /\ ~u.truncated
    BY <1>1, <1>7 DEF IsWalk
  <2> HIDE DEF u
  <2>3. WithinLimits(q, u)
    <3>1. IsFiniteSet(w.edges) /\ Cardinality(w.edges) \in Nat
      BY <1>1, FS_CardinalityType DEF WithinLimits
    <3>2. IsFiniteSet(w.edges \cup {e}) /\ Cardinality(w.edges \cup {e}) = Cardinality(w.edges) + 1
      BY <1>7, <3>1, FS_AddElement
    <3> QED BY <1>1, <1>7, <2>2, <3>1, <3>2 DEF WithinLimits
  <2>4. Visited(q, w0, G, I, u)
    BY <1>1, <1>7, <2>2, <2>3 DEF Visited
  <2> HIDE DEF G
  <2>5. Visited(q, w0, G, I \cup {e.from}, visit_node(q, u, e.from))
    BY <2>4, NodeVisited
  <2>6. Visited(q, w0, G, (I \cup {e.from}) \cup {e.to}, v)
    BY <2>1, <2>5, NodeVisited
  <2> QED BY <1>2, <2>6 DEF G, v
<1> QED BY <1>4, <1>5, <1>6, <1>7

\* The rows of a query, one after the other.
LEMMA VisitsExist ==
    ASSUME NEW q, NEW w, NEW rows, Len(rows) \in Nat
    PROVE  \E v : /\ v[0] = w
                  /\ \A n \in 1 .. Len(rows) : v[n] = visit_edge(q, v[n - 1], rows[n])
                  /\ visit_edges(q, w, rows) = v[Len(rows)]
<1> DEFINE N == Len(rows)
           Is(k, h) == h = [n \in 0 .. k |-> IF n = 0 THEN w ELSE visit_edge(q, h[n - 1], rows[n])]
           a == CHOOSE h : Is(N, h)
           S == {k \in 0 .. N : \E h : Is(k, h)}
<1>1. visit_edges(q, w, rows) = a[N]
  BY DEF visit_edges
<1> HIDE DEF N
<1>2. N \in Nat
  BY DEF N
<1>3. 0 \in S
  <2> DEFINE h == [n \in 0 .. 0 |-> w]
  <2>1. \A n \in 0 .. 0 : n = 0
    OBVIOUS
  <2>2. h = [n \in 0 .. 0 |-> IF n = 0 THEN w ELSE visit_edge(q, h[n - 1], rows[n])]
    BY <2>1
  <2>3. \E g : Is(0, g)
    BY <2>2
  <2> HIDE DEF Is
  <2> QED BY <1>2, <2>3
<1>4. ASSUME NEW k \in 1 .. N, k - 1 \in S
      PROVE  k \in S
  <2>1. k \in 0 .. N /\ k \in Nat
    BY <1>2
  <2>2. PICK g : Is(k - 1, g)
    BY <1>4
  <2> DEFINE h == [n \in 0 .. k |-> IF n = k THEN visit_edge(q, g[k - 1], rows[k]) ELSE g[n]]
             F(n) == IF n = 0 THEN w ELSE visit_edge(q, h[n - 1], rows[n])
             G(n) == IF n = 0 THEN w ELSE visit_edge(q, g[n - 1], rows[n])
  <2>3. \A n \in 0 .. k - 1 : h[n] = g[n]
    BY <2>1
  <2>4. h[k] = visit_edge(q, g[k - 1], rows[k])
    BY <2>1
  <2>5. \A n \in 0 .. k - 1 : g[n] = G(n)
    <3> HIDE DEF h
    <3> QED BY <2>2
  <2>6. h = [n \in 0 .. k |-> h[n]]
    OBVIOUS
  <2> HIDE DEF h
  <2>7. ASSUME NEW n \in 0 .. k
        PROVE  h[n] = F(n)
    <3>1. CASE n = 0
      BY <2>1, <2>3, <2>5, <3>1
    <3>2. CASE n \in 1 .. k - 1
      <4>1. n - 1 \in 0 .. k - 1 /\ n \in 0 .. k - 1 /\ n # 0
        BY <2>1, <3>2
      <4>2. h[n - 1] = g[n - 1] /\ h[n] = G(n)
        BY <2>3, <2>5, <4>1
      <4> QED BY <4>1, <4>2
    <3>3. CASE n = k
      <4>1. k - 1 \in 0 .. k - 1 /\ k # 0
        BY <2>1
      <4>2. h[k - 1] = g[k - 1]
        BY <2>3, <4>1
      <4> QED BY <2>4, <3>3, <4>1, <4>2
    <3> QED BY <2>1, <3>1, <3>2, <3>3
  <2>8. h = [n \in 0 .. k |-> F(n)]
    <3> HIDE DEF F
    <3> QED BY <2>6, <2>7
  <2>9. Is(k, h)
    BY <2>8
  <2> HIDE DEF Is
  <2> QED BY <2>1, <2>9
<1>5. N \in S
  <2>1. 0 .. N \subseteq S
    <3> HIDE DEF S
    <3> QED BY <1>2, <1>3, <1>4, IntervalInduction
  <2> HIDE DEF S
  <2> QED BY <1>2, <2>1
<1>6. Is(N, a)
  <2>1. \E h : Is(N, h)
    BY <1>5
  <2> HIDE DEF Is
  <2> QED BY <2>1
<1> HIDE DEF a
<1>7. a[0] = w
  BY <1>2, <1>6
<1>8. \A n \in 1 .. N : a[n] = visit_edge(q, a[n - 1], rows[n])
  <2> SUFFICES ASSUME NEW n \in 1 .. N PROVE a[n] = visit_edge(q, a[n - 1], rows[n])
    OBVIOUS
  <2>1. n \in 0 .. N /\ n # 0
    BY <1>2
  <2> QED BY <1>6, <2>1
<1> QED BY <1>1, <1>7, <1>8 DEF N

\* The walk, depth by depth.
LEMMA WalkExists ==
    ASSUME NEW q, q.max_depth \in Nat
    PROVE  \E v : /\ v[0] = [nodes |-> {q.center}, edges |-> {}, next |-> {q.center}, truncated |-> FALSE]
                  /\ \A n \in 1 .. q.max_depth : v[n] = visit_frontier(q, v[n - 1])
                  /\ walk_from_center(q) = v[q.max_depth]
<1> DEFINE N == q.max_depth
           w == [nodes |-> {q.center}, edges |-> {}, next |-> {q.center}, truncated |-> FALSE]
           Is(k, h) == h = [n \in 0 .. k |-> IF n = 0 THEN w ELSE visit_frontier(q, h[n - 1])]
           a == CHOOSE h : Is(N, h)
           S == {k \in 0 .. N : \E h : Is(k, h)}
<1>1. walk_from_center(q) = a[N]
  BY DEF walk_from_center
<1> HIDE DEF N, w
<1>2. N \in Nat
  BY DEF N
<1>3. 0 \in S
  <2> DEFINE h == [n \in 0 .. 0 |-> w]
  <2>1. \A n \in 0 .. 0 : n = 0
    OBVIOUS
  <2>2. h = [n \in 0 .. 0 |-> IF n = 0 THEN w ELSE visit_frontier(q, h[n - 1])]
    BY <2>1
  <2>3. \E g : Is(0, g)
    BY <2>2
  <2> HIDE DEF Is
  <2> QED BY <1>2, <2>3
<1>4. ASSUME NEW k \in 1 .. N, k - 1 \in S
      PROVE  k \in S
  <2>1. k \in 0 .. N /\ k \in Nat
    BY <1>2
  <2>2. PICK g : Is(k - 1, g)
    BY <1>4
  <2> DEFINE h == [n \in 0 .. k |-> IF n = k THEN visit_frontier(q, g[k - 1]) ELSE g[n]]
             F(n) == IF n = 0 THEN w ELSE visit_frontier(q, h[n - 1])
             G(n) == IF n = 0 THEN w ELSE visit_frontier(q, g[n - 1])
  <2>3. \A n \in 0 .. k - 1 : h[n] = g[n]
    BY <2>1
  <2>4. h[k] = visit_frontier(q, g[k - 1])
    BY <2>1
  <2>5. \A n \in 0 .. k - 1 : g[n] = G(n)
    <3> HIDE DEF h
    <3> QED BY <2>2
  <2>6. h = [n \in 0 .. k |-> h[n]]
    OBVIOUS
  <2> HIDE DEF h
  <2>7. ASSUME NEW n \in 0 .. k
        PROVE  h[n] = F(n)
    <3>1. CASE n = 0
      BY <2>1, <2>3, <2>5, <3>1
    <3>2. CASE n \in 1 .. k - 1
      <4>1. n - 1 \in 0 .. k - 1 /\ n \in 0 .. k - 1 /\ n # 0
        BY <2>1, <3>2
      <4>2. h[n - 1] = g[n - 1] /\ h[n] = G(n)
        BY <2>3, <2>5, <4>1
      <4> QED BY <4>1, <4>2
    <3>3. CASE n = k
      <4>1. k - 1 \in 0 .. k - 1 /\ k # 0
        BY <2>1
      <4>2. h[k - 1] = g[k - 1]
        BY <2>3, <4>1
      <4> QED BY <2>4, <3>3, <4>1, <4>2
    <3> QED BY <2>1, <3>1, <3>2, <3>3
  <2>8. h = [n \in 0 .. k |-> F(n)]
    <3> HIDE DEF F
    <3> QED BY <2>6, <2>7
  <2>9. Is(k, h)
    BY <2>8
  <2> HIDE DEF Is
  <2> QED BY <2>1, <2>9
<1>5. N \in S
  <2>1. 0 .. N \subseteq S
    <3> HIDE DEF S
    <3> QED BY <1>2, <1>3, <1>4, IntervalInduction
  <2> HIDE DEF S
  <2> QED BY <1>2, <2>1
<1>6. Is(N, a)
  <2>1. \E h : Is(N, h)
    BY <1>5
  <2> HIDE DEF Is
  <2> QED BY <2>1
<1> HIDE DEF a
<1>7. a[0] = w
  BY <1>2, <1>6
<1>8. \A n \in 1 .. N : a[n] = visit_frontier(q, a[n - 1])
  <2> SUFFICES ASSUME NEW n \in 1 .. N PROVE a[n] = visit_frontier(q, a[n - 1])
    OBVIOUS
  <2>1. n \in 0 .. N /\ n # 0
    BY <1>2
  <2> QED BY <1>6, <2>1
<1> QED BY <1>1, <1>7, <1>8 DEF N, w

\* What is near, depth by depth.
LEMMA NearExists ==
    ASSUME NEW q, q.max_depth \in Nat
    PROVE  \E v : /\ v[0] = {q.center}
                  /\ \A n \in 1 .. q.max_depth : v[n] = WithNeighbours(q, v[n - 1])
                  /\ Near(q) = v
<1> DEFINE N == q.max_depth
           w == {q.center}
           Is(k, h) == h = [n \in 0 .. k |-> IF n = 0 THEN w ELSE WithNeighbours(q, h[n - 1])]
           a == CHOOSE h : Is(N, h)
           S == {k \in 0 .. N : \E h : Is(k, h)}
<1>1. Near(q) = a
  BY DEF Near
<1> HIDE DEF N, w
<1>2. N \in Nat
  BY DEF N
<1>3. 0 \in S
  <2> DEFINE h == [n \in 0 .. 0 |-> w]
  <2>1. \A n \in 0 .. 0 : n = 0
    OBVIOUS
  <2>2. h = [n \in 0 .. 0 |-> IF n = 0 THEN w ELSE WithNeighbours(q, h[n - 1])]
    BY <2>1
  <2>3. \E g : Is(0, g)
    BY <2>2
  <2> HIDE DEF Is
  <2> QED BY <1>2, <2>3
<1>4. ASSUME NEW k \in 1 .. N, k - 1 \in S
      PROVE  k \in S
  <2>1. k \in 0 .. N /\ k \in Nat
    BY <1>2
  <2>2. PICK g : Is(k - 1, g)
    BY <1>4
  <2> DEFINE h == [n \in 0 .. k |-> IF n = k THEN WithNeighbours(q, g[k - 1]) ELSE g[n]]
             F(n) == IF n = 0 THEN w ELSE WithNeighbours(q, h[n - 1])
             G(n) == IF n = 0 THEN w ELSE WithNeighbours(q, g[n - 1])
  <2>3. \A n \in 0 .. k - 1 : h[n] = g[n]
    BY <2>1
  <2>4. h[k] = WithNeighbours(q, g[k - 1])
    BY <2>1
  <2>5. \A n \in 0 .. k - 1 : g[n] = G(n)
    <3> HIDE DEF h
    <3> QED BY <2>2
  <2>6. h = [n \in 0 .. k |-> h[n]]
    OBVIOUS
  <2> HIDE DEF h
  <2>7. ASSUME NEW n \in 0 .. k
        PROVE  h[n] = F(n)
    <3>1. CASE n = 0
      BY <2>1, <2>3, <2>5, <3>1
    <3>2. CASE n \in 1 .. k - 1
      <4>1. n - 1 \in 0 .. k - 1 /\ n \in 0 .. k - 1 /\ n # 0
        BY <2>1, <3>2
      <4>2. h[n - 1] = g[n - 1] /\ h[n] = G(n)
        BY <2>3, <2>5, <4>1
      <4> QED BY <4>1, <4>2
    <3>3. CASE n = k
      <4>1. k - 1 \in 0 .. k - 1 /\ k # 0
        BY <2>1
      <4>2. h[k - 1] = g[k - 1]
        BY <2>3, <4>1
      <4> QED BY <2>4, <3>3, <4>1, <4>2
    <3> QED BY <2>1, <3>1, <3>2, <3>3
  <2>8. h = [n \in 0 .. k |-> F(n)]
    <3> HIDE DEF F
    <3> QED BY <2>6, <2>7
  <2>9. Is(k, h)
    BY <2>8
  <2> HIDE DEF Is
  <2> QED BY <2>1, <2>9
<1>5. N \in S
  <2>1. 0 .. N \subseteq S
    <3> HIDE DEF S
    <3> QED BY <1>2, <1>3, <1>4, IntervalInduction
  <2> HIDE DEF S
  <2> QED BY <1>2, <2>1
<1>6. Is(N, a)
  <2>1. \E h : Is(N, h)
    BY <1>5
  <2> HIDE DEF Is
  <2> QED BY <2>1
<1> HIDE DEF a
<1>7. a[0] = w
  BY <1>2, <1>6
<1>8. \A n \in 1 .. N : a[n] = WithNeighbours(q, a[n - 1])
  <2> SUFFICES ASSUME NEW n \in 1 .. N PROVE a[n] = WithNeighbours(q, a[n - 1])
    OBVIOUS
  <2>1. n \in 0 .. N /\ n # 0
    BY <1>2
  <2> QED BY <1>6, <2>1
<1> QED BY <1>1, <1>7, <1>8 DEF N, w

\* The rows of ORDER BY edge_id are all there is to list.
LEMMA IncidentListed ==
    ASSUME NEW S, S \subseteq EdgeRows, IsFiniteSet(S)
    PROVE  LET o == OrderBy(S, EdgeIdBefore)
           IN  Len(o) \in Nat /\ \A x : x \in S <=> \E i \in 1 .. Len(o) : o[i] = x
<1> DEFINE N == Cardinality(S)
           o == OrderBy(S, EdgeIdBefore)
           R == {p \in S \X S : EdgeIdBefore(p[1], p[2])}
           Lesser(x) == {s \in S : EdgeIdBefore(s, x)}
<1>1. \A x, y \in S : <<x, y>> \in R <=> EdgeIdBefore(x, y)
  OBVIOUS
<1>2. StrictOrder(S, R)
  <2>1. /\ \A e, f \in S : EdgeIdBefore(e, f) <=> e # f /\ ~EdgeIdBefore(f, e)
        /\ \A e, f, g \in S : EdgeIdBefore(e, f) /\ EdgeIdBefore(f, g) => EdgeIdBefore(e, g)
    BY QueryAssumption
  <2> HIDE DEF R
  <2> QED BY <1>1, <2>1 DEF StrictOrder
<1>3. \A x \in S : Before(S, R, x) = Lesser(x)
  BY DEF Before
<1> HIDE DEF R
<1>4. N \in Nat /\ \A i \in 1 .. N : \E x \in S : Cardinality(Before(S, R, x)) = i - 1
  BY <1>2, Ranks
<1>5. o = [i \in 1 .. N |-> CHOOSE r \in S : Cardinality(Lesser(r)) = i - 1]
  BY DEF OrderBy
<1> HIDE DEF N, o
<1>6. \A i \in 1 .. N : o[i] \in S /\ Cardinality(Before(S, R, o[i])) = i - 1
  <2> SUFFICES ASSUME NEW i \in 1 .. N
               PROVE  o[i] \in S /\ Cardinality(Before(S, R, o[i])) = i - 1
    OBVIOUS
  <2>1. \E x \in S : Cardinality(Lesser(x)) = i - 1
    BY <1>3, <1>4
  <2>2. o[i] = CHOOSE r \in S : Cardinality(Lesser(r)) = i - 1
    BY <1>5
  <2> HIDE DEF Lesser
  <2>3. o[i] \in S /\ Cardinality(Lesser(o[i])) = i - 1
    BY <2>1, <2>2
  <2> QED BY <1>3, <2>3
<1>7. o \in [1 .. N -> S]
  BY <1>5, <1>6
<1>8. Lists(o, S, R) /\ Len(o) = N
  BY <1>2, <1>6, <1>7, Ordered DEF N
<1>9. \A x \in S : \E i \in 1 .. Len(o) : o[i] = x
  BY <1>8 DEF Lists
<1>10. Len(o) \in Nat /\ \A x : x \in S <=> \E i \in 1 .. Len(o) : o[i] = x
  BY <1>4, <1>6, <1>8, <1>9
<1> QED BY <1>10 DEF o

\* A round of the walk visits the edges at its frontier.
LEMMA FrontierVisited ==
    ASSUME db.edges \subseteq EdgeRows, IsFiniteSet(db.edges),
           NEW q, q.max_nodes \in Nat, q.max_edges \in Nat,
           NEW w, IsWalk(w), WithinLimits(q, w), ~w.truncated,
           Passing(q, Ends(w.edges)) \subseteq w.nodes
    PROVE  Visited(q, w, Incident(q, w.next), Ends(Incident(q, w.next)), visit_frontier(q, w))
<1> DEFINE S == Incident(q, w.next)
           rows == OrderBy(S, EdgeIdBefore)
           N == Len(rows)
           start == [w EXCEPT !.next = {}]
           P(n) == {rows[i] : i \in 1 .. n}
<1>1. S \subseteq EdgeRows /\ IsFiniteSet(S)
  <2>1. S \in SUBSET db.edges
    BY DEF Incident
  <2> QED BY <2>1, FS_Subset
<1>2. visit_frontier(q, w) = visit_edges(q, start, rows)
  BY DEF visit_frontier
<1> HIDE DEF S
<1>3. N \in Nat /\ \A x : x \in S <=> \E i \in 1 .. N : rows[i] = x
  BY <1>1, IncidentListed
<1> HIDE DEF rows
<1>4. PICK v : /\ v[0] = start
               /\ \A n \in 1 .. N : v[n] = visit_edge(q, v[n - 1], rows[n])
               /\ visit_edges(q, start, rows) = v[N]
  BY <1>3, VisitsExist
<1> DEFINE T == {n \in 0 .. N : Visited(q, w, P(n), Ends(P(n)), v[n])}
<1>5. 0 \in T
  <2>1. P(0) = {} /\ Ends({}) = {} /\ Passing(q, {}) = {}
    BY DEF Ends, Passing
  <2>2. /\ IsWalk(start) /\ start.nodes = w.nodes /\ start.edges = w.edges
        /\ start.next = {} /\ ~start.truncated
    BY DEF IsWalk
  <2> HIDE DEF start, P
  <2>3. WithinLimits(q, start)
    BY <2>2 DEF WithinLimits
  <2>4. Visited(q, w, {}, {}, start)
    BY <2>1, <2>2, <2>3 DEF Visited
  <2>5. Visited(q, w, P(0), Ends(P(0)), v[0])
    <3>1. Ends(P(0)) = {} /\ v[0] = start
      BY <1>4, <2>1
    <3> QED BY ONLY <3>1, <2>1, <2>4, Zenon
  <2>6. 0 \in 0 .. N
    BY <1>3
  <2> QED BY <2>5, <2>6
<1>6. ASSUME NEW n \in 1 .. N, n - 1 \in T
      PROVE  n \in T
  <2> DEFINE F == P(n - 1)
  <2>1. P(n) = F \cup {rows[n]}
    <3>1. \A i : i \in 1 .. n <=> i \in 1 .. n - 1 \/ i = n
      BY <1>3
    <3> QED BY <3>1
  <2>2. Visited(q, w, F, Ends(F), v[n - 1])
    BY <1>6
  <2>3. v[n] = visit_edge(q, v[n - 1], rows[n])
    BY <1>4
  <2> HIDE DEF F, P
  <2>4. Visited(q, w, F \cup {rows[n]}, Ends(F \cup {rows[n]}), v[n])
    BY <2>2, <2>3, EdgeVisited
  <2>5. Visited(q, w, P(n), Ends(P(n)), v[n])
    BY ONLY <2>1, <2>4, Zenon
  <2>6. n \in 0 .. N
    BY <1>3
  <2> QED BY <2>5, <2>6
<1>7. N \in T
  <2>1. 0 .. N \subseteq T
    <3> HIDE DEF T, N
    <3> QED BY <1>3, <1>5, <1>6, IntervalInduction
  <2> HIDE DEF T
  <2> QED BY <1>3, <2>1
<1>8. P(N) = S
  BY <1>3
<1> HIDE DEF P, start
<1> QED BY <1>2, <1>4, <1>7, <1>8 DEF S

\* The walk w knows the nodes ids, and the edges F at those before them.
Knows(q, w, ids, F) ==
    /\ IsWalk(w) /\ WithinLimits(q, w)
    /\ w.nodes \subseteq ids /\ w.edges \subseteq F
    /\ F \subseteq EdgesAt(q, ids) /\ Passing(q, Ends(F)) \subseteq ids
    /\ ~w.truncated => /\ w.nodes = ids /\ w.edges = F
                       /\ EdgesAt(q, ids) = F \cup EdgesAt(q, w.next)
    /\ w.truncated => ~(F \subseteq w.edges) \/ ~(Passing(q, Ends(F)) \subseteq w.nodes)

LEMMA KnowsMore ==
    ASSUME db.edges = AllEdges, AllEdges \subseteq EdgeRows, IsFiniteSet(AllEdges),
           NEW q, q.max_nodes \in Nat, q.max_edges \in Nat,
           NEW w, NEW ids, NEW F, Knows(q, w, ids, F)
    PROVE  Knows(q, visit_frontier(q, w), WithNeighbours(q, ids), EdgesAt(q, ids))
<1> DEFINE v == visit_frontier(q, w)
           more == WithNeighbours(q, ids)
           G == EdgesAt(q, ids)
           H == EdgesAt(q, w.next)
<1>1. /\ IsWalk(w) /\ WithinLimits(q, w)
      /\ w.nodes \subseteq ids /\ w.edges \subseteq F
      /\ F \subseteq G /\ Passing(q, Ends(F)) \subseteq ids
      /\ ~w.truncated => w.nodes = ids /\ w.edges = F /\ G = F \cup H
      /\ w.truncated => ~(F \subseteq w.edges) \/ ~(Passing(q, Ends(F)) \subseteq w.nodes)
  BY DEF Knows
<1>2. more = ids \cup Passing(q, Ends(G))
  BY DEF WithNeighbours, Passing, Ends
<1>3. \A A, B : /\ EdgesAt(q, A \cup B) = EdgesAt(q, A) \cup EdgesAt(q, B)
                /\ Passing(q, Ends(A \cup B)) = Passing(q, Ends(A)) \cup Passing(q, Ends(B))
  BY DEF EdgesAt, Passing, Ends
<1>4. \A A : Incident(q, A) = EdgesAt(q, A)
  BY DEF Incident, EdgesAt, EdgesWithin, AllEdges
<1> HIDE DEF more, G, H, v
<1>5. Passing(q, Ends(F)) \subseteq Passing(q, Ends(G)) /\ more = ids \cup more
  <2>1. G = F \cup G
    BY <1>1
  <2>2. Passing(q, Ends(G)) = Passing(q, Ends(F)) \cup Passing(q, Ends(G))
    BY <1>3, <2>1
  <2> QED BY <1>2, <2>2
<1>6. G \subseteq EdgesAt(q, more) /\ Passing(q, Ends(G)) \subseteq more
  <2>1. EdgesAt(q, more) = EdgesAt(q, ids) \cup EdgesAt(q, more)
    BY <1>3, <1>5
  <2> QED BY <1>2, <2>1 DEF G
<1>7. CASE w.truncated
  <2>1. v = w
    BY <1>7 DEF v, visit_frontier
  <2>2. Knows(q, w, more, G)
    BY <1>1, <1>5, <1>6, <1>7 DEF Knows
  <2> QED BY <2>1, <2>2 DEF v, more, G
<1>8. CASE ~w.truncated
  <2>1. w.nodes = ids /\ w.edges = F /\ G = F \cup H
    BY <1>1, <1>8
  <2>2. Visited(q, w, H, Ends(H), v)
    <3>1. Visited(q, w, Incident(q, w.next), Ends(Incident(q, w.next)), visit_frontier(q, w))
      BY <1>1, <1>8, <2>1, FrontierVisited
    <3> QED BY <1>4, <3>1 DEF v, H
  <2>3. /\ IsWalk(v) /\ WithinLimits(q, v)
        /\ v.edges \subseteq F \cup H
        /\ v.nodes \subseteq ids \cup Passing(q, Ends(H))
        /\ ~v.truncated => /\ v.edges = F \cup H
                           /\ v.nodes = ids \cup Passing(q, Ends(H))
                           /\ v.next = v.nodes \ ids
        /\ v.truncated => ~(H \subseteq v.edges) \/ ~(Passing(q, Ends(H)) \subseteq v.nodes)
    BY <2>1, <2>2 DEF Visited
  <2>4. Passing(q, Ends(G)) = Passing(q, Ends(F)) \cup Passing(q, Ends(H))
    BY <1>3, <2>1
  <2>5. more = ids \cup Passing(q, Ends(H))
    BY <1>1, <1>2, <2>4
  <2>6. ~v.truncated => EdgesAt(q, more) = G \cup EdgesAt(q, v.next)
    <3> SUFFICES ASSUME ~v.truncated PROVE EdgesAt(q, more) = G \cup EdgesAt(q, v.next)
      OBVIOUS
    <3>1. more = ids \cup v.next
      BY <2>3, <2>5
    <3> QED BY <1>3, <3>1 DEF G
  <2>7. Knows(q, v, more, G)
    BY <1>6, <2>1, <2>3, <2>4, <2>5, <2>6 DEF Knows
  <2> QED BY <2>7 DEF v, more, G
<1> QED BY <1>7, <1>8

-----------------------------------------------------------------------------
\* A node has one row, and the nodes at both ends of an edge have theirs.
LEMMA OneRowPerNode ==
    ASSUME LogInv, NEW r \in NodesUpTo(Len(log)), NEW s \in NodesUpTo(Len(log)), r.id = s.id
    PROVE  r = s
<1> DEFINE Unique(n) == \A x \in NodesUpTo(n) : \A y \in NodesUpTo(n) : x.id = y.id => x = y
           S == {n \in 0 .. Len(log) : Unique(n)}
<1>1. Len(log) \in Nat
  BY LogFacts
<1>2. 0 \in S
  BY <1>1 DEF NodesUpTo
<1>3. ASSUME NEW n \in 1 .. Len(log), n - 1 \in S
      PROVE  n \in S
  <2> DEFINE m == n - 1
             e == log[n]
             new == {Placeholder(id, e) : id \in Mentions(e) \ MentionedUpTo(m)}
  <2>1. m \in 0 .. Len(log) - 1 /\ m + 1 = n /\ Unique(m) /\ m \in 0 .. Len(log)
    <3>1. m \in 0 .. Len(log) - 1 /\ m + 1 = n
      BY <1>1, <1>3
    <3> HIDE DEF Unique
    <3>2. m \in 0 .. Len(log) /\ Unique(m)
      BY <1>3
    <3> QED BY <3>1, <3>2
  <2> HIDE DEF m
  <2>2. NodesUpTo(n) = NodesUpTo(m) \cup new
    <3>1. NodesUpTo(m + 1) = NodesUpTo(m) \cup
              {Placeholder(id, log[m + 1]) : id \in Mentions(log[m + 1]) \ MentionedUpTo(m)}
      BY <2>1, GraphNext
    <3> QED BY <2>1, <3>1
  <2>3. \A id : id \in MentionedUpTo(m) <=> \E x \in NodesUpTo(m) : x.id = id
    BY <2>1, MentionedAreNodes
  <2>4. \A id : Placeholder(id, e).id = id
    BY DEF Placeholder, NodeRow
  <2> HIDE DEF e
  <2>5. \A x \in new : x = Placeholder(x.id, e) /\ x.id \notin MentionedUpTo(m)
    BY <2>4
  <2> HIDE DEF new
  <2>6. Unique(n)
    <3> SUFFICES ASSUME NEW x \in NodesUpTo(n), NEW y \in NodesUpTo(n), x.id = y.id
                 PROVE  x = y
      OBVIOUS
    <3>1. CASE x \in NodesUpTo(m) /\ y \in NodesUpTo(m)
      BY <2>1, <3>1
    <3>2. CASE x \in new /\ y \in new
      BY <2>5, <3>2
    <3>3. x.id \in MentionedUpTo(m) => x \notin new /\ y \notin new
      BY <2>5
    <3>4. x \in NodesUpTo(m) \/ y \in NodesUpTo(m) => x.id \in MentionedUpTo(m)
      BY <2>3
    <3> QED BY <2>2, <3>1, <3>2, <3>3, <3>4
  <2> HIDE DEF Unique
  <2> QED BY <1>3, <2>6
<1> HIDE DEF Unique
<1>4. 0 .. Len(log) \subseteq S
  <2> HIDE DEF S
  <2> QED BY <1>1, <1>2, <1>3, IntervalInduction
<1>5. Unique(Len(log))
  BY <1>1, <1>4
<1> QED BY <1>5 DEF Unique

LEMMA EndsAreNodes ==
    ASSUME LogInv, NEW id \in Ends(AllEdges)
    PROVE  \E r \in NodesUpTo(Len(log)) : r.id = id
<1>1. PICK e \in AllEdges : id \in {e.from, e.to}
  BY DEF Ends
<1>2. PICK i \in 1 .. Len(log) : e \in emit(log[i]).edges
  BY DEF AllEdges, EdgesUpTo
<1>3. id \in Mentions(log[i])
  BY <1>1, <1>2 DEF Mentions, Ends
<1>4. id \in MentionedUpTo(Len(log))
  BY <1>2, <1>3 DEF MentionedUpTo
<1>5. Len(log) \in 0 .. Len(log)
  BY LogFacts
<1> QED BY <1>4, <1>5, MentionedAreNodes

\* The walk to the depth of the query knows what is near.
LEMMA WalkKnows ==
    ASSUME db.edges = AllEdges, AllEdges \subseteq EdgeRows, IsFiniteSet(AllEdges),
           NEW q, q.max_depth \in Nat, q.max_nodes \in Nat \ {0}, q.max_edges \in Nat
    PROVE  Knows(q, walk_from_center(q), Near(q)[q.max_depth],
                 IF q.max_depth = 0 THEN {} ELSE EdgesAt(q, Near(q)[q.max_depth - 1]))
<1> DEFINE N == q.max_depth
           w == [nodes |-> {q.center}, edges |-> {}, next |-> {q.center}, truncated |-> FALSE]
<1>1. PICK v : /\ v[0] = w
               /\ \A n \in 1 .. N : v[n] = visit_frontier(q, v[n - 1])
               /\ walk_from_center(q) = v[N]
  BY WalkExists
<1>2. PICK near : /\ near[0] = {q.center}
                  /\ \A n \in 1 .. N : near[n] = WithNeighbours(q, near[n - 1])
                  /\ Near(q) = near
  BY NearExists
<1> DEFINE F(n) == IF n = 0 THEN {} ELSE EdgesAt(q, near[n - 1])
           T == {n \in 0 .. N : Knows(q, v[n], near[n], F(n))}
<1>3. N \in Nat
  OBVIOUS
<1> HIDE DEF N
<1>4. 0 \in T
  <2>1. /\ w.nodes = {q.center} /\ w.edges = {} /\ w.next = {q.center} /\ w.truncated = FALSE
        /\ IsWalk(w)
    BY DEF IsWalk
  <2> HIDE DEF w
  <2>2. WithinLimits(q, w)
    <3>1. Cardinality(w.nodes) = 1 /\ IsFiniteSet(w.nodes)
      <4>1. IsFiniteSet({q.center}) /\ Cardinality({q.center}) = 1
        BY FS_Singleton
      <4> QED BY <2>1, <4>1
    <3>2. Cardinality(w.edges) = 0 /\ IsFiniteSet(w.edges)
      BY <2>1, FS_EmptySet
    <3> QED BY <3>1, <3>2 DEF WithinLimits
  <2>3. Passing(q, Ends({})) = {}
    BY DEF Passing, Ends
  <2>4. Knows(q, w, {q.center}, {})
    BY <2>1, <2>2, <2>3 DEF Knows
  <2>5. Knows(q, v[0], near[0], F(0))
    <3>1. v[0] = w /\ near[0] = {q.center} /\ F(0) = {}
      BY <1>1, <1>2
    <3> HIDE DEF F
    <3> QED BY ONLY <2>4, <3>1, Zenon
  <2>6. 0 \in 0 .. N
    BY <1>3
  <2> QED BY <2>5, <2>6
<1>5. ASSUME NEW n \in 1 .. N, n - 1 \in T
      PROVE  n \in T
  <2>1. Knows(q, v[n - 1], near[n - 1], F(n - 1))
    BY <1>5
  <2>2. /\ v[n] = visit_frontier(q, v[n - 1]) /\ near[n] = WithNeighbours(q, near[n - 1])
        /\ F(n) = EdgesAt(q, near[n - 1])
    <3>1. n # 0
      BY <1>3
    <3> QED BY <1>1, <1>2, <3>1
  <2> HIDE DEF F
  <2>3. Knows(q, visit_frontier(q, v[n - 1]), WithNeighbours(q, near[n - 1]),
              EdgesAt(q, near[n - 1]))
    BY <2>1, KnowsMore
  <2>4. Knows(q, v[n], near[n], F(n))
    BY ONLY <2>2, <2>3, Zenon
  <2>5. n \in 0 .. N
    BY <1>3
  <2> QED BY <2>4, <2>5
<1>6. N \in T
  <2>1. 0 .. N \subseteq T
    <3> HIDE DEF T
    <3> QED BY <1>3, <1>4, <1>5, IntervalInduction
  <2> HIDE DEF T
  <2> QED BY <1>3, <2>1
<1>7. Knows(q, v[N], near[N], F(N))
  <2> HIDE DEF F
  <2> QED BY <1>6
<1> QED BY <1>1, <1>2, <1>7, Zenon DEF N

LEMMA SubgraphTrue == GraphInv => SubgraphIsTruthful
<1> SUFFICES ASSUME GraphInv, Answers, InStep, NEW q \in GraphQueries
             PROVE  LET found == get_context_subgraph(q)
                        nodes == {n \in NodesUpTo(Len(log)) : n.id \in Near(q)[q.max_depth]}
                        edges == IF q.max_depth = 0 THEN {}
                                 ELSE EdgesAt(q, Near(q)[q.max_depth - 1])
                    IN  /\ found.nodes \subseteq nodes
                        /\ Cardinality(found.nodes) <= q.max_nodes
                        /\ found.edges \subseteq edges
                        /\ Cardinality(found.edges) <= q.max_edges
                        /\ found.truncated <=> found.nodes # nodes \/ found.edges # edges
  BY DEF SubgraphIsTruthful
<1> DEFINE found == get_context_subgraph(q)
           near == Near(q)[q.max_depth]
           nodes == {n \in NodesUpTo(Len(log)) : n.id \in near}
           edges == IF q.max_depth = 0 THEN {} ELSE EdgesAt(q, Near(q)[q.max_depth - 1])
           w == walk_from_center(q)
           Rows == NodesUpTo(Len(log))
<1>1. LogInv /\ db.nodes = Rows /\ db.edges = AllEdges
  BY AnswersFromLog DEF TablesUpTo, AllEdges
<1>2. AllEdges \subseteq EdgeRows /\ IsFiniteSet(AllEdges)
  BY <1>1, EdgesAreRows DEF AllEdges
<1>3. q.max_depth \in Nat /\ q.max_nodes \in Nat \ {0} /\ q.max_edges \in Nat \ {0}
  BY QueryAssumption
<1>4. Knows(q, w, near, edges)
  <2>1. db.edges = AllEdges
    BY <1>1
  <2>2. q.max_nodes \in Nat \ {0} /\ q.max_edges \in Nat /\ q.max_depth \in Nat
    BY <1>3
  <2> QED BY <1>2, <2>1, <2>2, WalkKnows
<1>5. /\ found.nodes = {n \in Rows : n.id \in w.nodes}
      /\ found.edges = w.edges /\ found.truncated = w.truncated
  BY <1>1 DEF get_context_subgraph
<1>6. edges \subseteq AllEdges
  BY DEF EdgesAt, EdgesWithin, AllEdges
<1> HIDE DEF found, near, edges, w, Rows
<1>7. /\ w.truncated \in BOOLEAN /\ WithinLimits(q, w)
      /\ w.nodes \subseteq near /\ w.edges \subseteq edges
      /\ Passing(q, Ends(edges)) \subseteq near
      /\ ~w.truncated => w.nodes = near /\ w.edges = edges
      /\ w.truncated => ~(edges \subseteq w.edges) \/ ~(Passing(q, Ends(edges)) \subseteq w.nodes)
  BY <1>4 DEF Knows, IsWalk
<1>8. nodes = {n \in Rows : n.id \in near}
  BY DEF Rows
<1> HIDE DEF nodes
<1>9. found.nodes \subseteq nodes /\ found.edges \subseteq edges
  BY <1>5, <1>7, <1>8
<1>10. Cardinality(found.edges) <= q.max_edges
  BY <1>5, <1>7 DEF WithinLimits
<1>11. Cardinality(found.nodes) <= q.max_nodes
  <2> DEFINE A == found.nodes
             B == w.nodes
             f == [n \in A |-> n.id]
  <2>1. IsFiniteSet(B) /\ Cardinality(B) <= q.max_nodes
    BY <1>7 DEF WithinLimits
  <2>2. \A n \in A : n \in Rows /\ n.id \in B
    BY <1>5
  <2>3. \A m \in Rows : \A n \in Rows : m.id = n.id => m = n
    BY <1>1, OneRowPerNode DEF Rows
  <2> HIDE DEF A, B
  <2>4. f \in [A -> B]
    BY <2>2
  <2>5. \A m, n \in A : f[m] = f[n] => m = n
    BY <2>2, <2>3
  <2> HIDE DEF f
  <2>6. f \in Injection(A, B)
    BY <2>4, <2>5 DEF Injection, IsInjective
  <2>7. IsFiniteSet(A) /\ Cardinality(A) <= Cardinality(B)
    BY <2>1, <2>6, FS_Injection
  <2>8. Cardinality(A) \in Nat /\ Cardinality(B) \in Nat
    BY <2>1, <2>7, FS_CardinalityType
  <2>9. Cardinality(A) <= q.max_nodes
    BY <1>3, <2>1, <2>7, <2>8
  <2> QED BY <2>9 DEF A
<1>12. found.truncated <=> found.nodes # nodes \/ found.edges # edges
  <2>1. CASE ~w.truncated
    BY <1>5, <1>7, <1>8, <2>1
  <2>2. CASE w.truncated
    <3>1. CASE ~(edges \subseteq w.edges)
      BY <1>5, <2>2, <3>1
    <3>2. CASE ~(Passing(q, Ends(edges)) \subseteq w.nodes)
      <4>1. PICK id \in Passing(q, Ends(edges)) : id \notin w.nodes
        BY <3>2
      <4>2. id \in near /\ id \in Ends(AllEdges)
        BY <1>6, <1>7 DEF Passing, Ends
      <4>3. PICK r \in Rows : r.id = id
        BY <1>1, <4>2, EndsAreNodes DEF Rows
      <4>4. r \in nodes /\ r \notin found.nodes
        BY <1>5, <1>8, <4>1, <4>2, <4>3
      <4> QED BY <1>5, <2>2, <4>4
    <3> QED BY <1>7, <2>2, <3>1, <3>2
  <2> QED BY <2>1, <2>2
<1> QED BY <1>9, <1>10, <1>11, <1>12 DEF found, nodes, near, edges

(***************************************************************************)
(* A subgraph that get_context_subgraph does not call truncated holds all  *)
(* nodes and edges of the log within max_depth of the center that pass the *)
(* filters, one that it does call truncated lacks some, and either keeps   *)
(* to max_nodes and max_edges.                                             *)
(***************************************************************************)
THEOREM SubgraphsAreOfTheLog == QuerySpec => []SubgraphIsTruthful
<1>1. QuerySpec => []GraphInv
  BY QueriesRefine, GraphInvariance, PTL
<1>2. GraphInv => SubgraphIsTruthful
  BY SubgraphTrue
<1> QED BY <1>1, <1>2, PTL
=============================================================================
