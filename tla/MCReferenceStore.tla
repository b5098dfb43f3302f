-------------------------- MODULE MCReferenceStore --------------------------
(***************************************************************************)
(* ReferenceStore on one trace and the start of a second, with envelopes   *)
(* that race for a trace_seq, a key and an event id, retry one another,    *)
(* and finish the trace under the key that DecisionGraph.finish_trace      *)
(* gives it, or (MCTwoFinishes) under keys of the callers.                 *)
(***************************************************************************)
EXTENDS ReferenceStore

CONSTANTS t1, t2, k1, k2, k3, k4, i1, i2, i3, i4, i5, c1, c2

MCTrace == {t1, t2}
MCKey == {k1, k2, k3, k4}
MCEventId == {i1, i2, i3, i4, i5}
MCContent == {c1, c2}

Env(t, n, y, k, i, c) ==
    [trace |-> t, trace_seq |-> n, type |-> y, key |-> k, id |-> i, content |-> c]

MCEnvelope ==
    { Env(t1, 0, "TraceStarted", k1, i1, c1),
      Env(t2, 0, "TraceStarted", k1, i2, c1),  \* the key of another trace
      Env(t1, 1, "Step", k3, i4, c1),          \* races for trace_seq 1
      Env(t1, 2, "Step", k3, i5, c1),          \* the same call, retried
      Env(t1, 1, "Step", k3, i3, c2),          \* the key with other content
      Env(t1, 1, "TraceFinished", k2, i3, c1),
      Env(t1, 2, "TraceFinished", k2, i1, c1),
      Env(t1, 2, "TraceFinished", k4, i5, c1) }  \* a second finish, under another key

MCTwoFinishes ==
    { Env(t1, 0, "TraceStarted", k1, i1, c1),
      Env(t1, 1, "TraceFinished", k2, i3, c1),
      Env(t1, 2, "TraceFinished", k4, i4, c2) }
=============================================================================
