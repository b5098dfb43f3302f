---------------------------- MODULE MCEventStore ----------------------------
(***************************************************************************)
(* EventStore on two traces, with envelopes that race for a trace_seq, a   *)
(* key and an event id, and that retry one another.                        *)
(***************************************************************************)
EXTENDS EventStore

CONSTANTS t1, t2, k1, k2, k3, i1, i2, i3, i4, c1, c2

MCTrace == {t1, t2}
MCKey == {k1, k2, k3}
MCEventId == {i1, i2, i3, i4}
MCContent == {c1, c2}

Env(t, n, y, k, i, c) ==
    [trace |-> t, trace_seq |-> n, type |-> y, key |-> k, id |-> i, content |-> c]

MCEnvelope ==
    { Env(t1, 0, "TraceStarted", k1, i1, c1),
      Env(t2, 0, "TraceStarted", k1, i2, c1),  \* the key of another trace
      Env(t1, 1, "TraceFinished", k2, i3, c1),
      Env(t1, 1, "Step", k3, i4, c1),          \* races for trace_seq 1
      Env(t1, 2, "Step", k3, i4, c1),          \* the same call, retried with a later trace_seq
      Env(t1, 2, "Step", k3, i1, c2) }         \* other content; an event id in use
=============================================================================
