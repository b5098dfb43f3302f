------------------------------ MODULE EventLog ------------------------------
(***************************************************************************)
(* The table dg_event_log for one tenant, and the ways the code reads it.  *)
(*                                                                         *)
(* An envelope is abstracted to what append_event tells apart: its trace   *)
(* and trace_seq, its type (TraceStarted and TraceFinished are special,    *)
(* the other types are all a "Step"), its idempotency key with the         *)
(* producer that scopes it, its event id, and one value for everything     *)
(* else a retry must repeat (payload hash, source, actor, tags...).        *)
(***************************************************************************)
EXTENDS Naturals

CONSTANTS
    Trace,      \* trace ids
    Key,        \* (producer_id, idempotency_key) pairs
    EventId,    \* caller-supplied event ids
    Content,    \* payload, source, actor, tags...: what a reuse must repeat
    Envelope    \* the envelopes the callers may submit

EventType == {"TraceStarted", "Step", "TraceFinished"}

ASSUME EnvelopeAssumption ==
    Envelope \subseteq [trace : Trace, trace_seq : Nat, type : EventType,
                        key : Key, id : EventId, content : Content]

VARIABLE
    log         \* the committed rows

StoredEvent == [log_seq : Nat \ {0}, event : Envelope]

Stored(n, e) == [log_seq |-> n, event |-> e]

-----------------------------------------------------------------------------
(***************************************************************************)
(* Reading the log.                                                        *)
(***************************************************************************)
EventsOf(t) == {s \in log : s.event.trace = t}

TraceSeqs(t) == {s.event.trace_seq : s \in EventsOf(t)}

\* SELECT COALESCE(MAX(trace_seq) + 1, 0)
MaxOf(S) == CHOOSE m \in S : \A n \in S : n <= m

NextTraceSeq(t) == IF TraceSeqs(t) = {} THEN 0 ELSE MaxOf(TraceSeqs(t)) + 1

\* Mutant: the lookup compares with another event type.
NeverFinished(t) == \E s \in EventsOf(t) : s.event.type = "finished"

TraceIsFinished(t) == \E s \in EventsOf(t) : s.event.type = "TraceFinished"

\* TraceStarted has trace_seq 0, and no other event has.
StartsAtZero(e) == (e.type = "TraceStarted") <=> (e.trace_seq = 0)

\* What validate_trace_sequence! and the trigger check of the next event of a trace.
ValidSequence(e) == e.trace_seq = NextTraceSeq(e.trace) /\ StartsAtZero(e)

Follows(e) == ~TraceIsFinished(e.trace) /\ ValidSequence(e)

\* A reuse repeats everything but trace_seq and event_id.
MatchesStored(e, s) ==
    /\ s.event.content = e.content
    /\ s.event.trace = e.trace
    /\ s.event.type = e.type

StoredUnder(k) == {s \in log : s.event.key = k}
=============================================================================
