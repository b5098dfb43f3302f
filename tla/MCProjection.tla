---------------------------- MODULE MCProjection ----------------------------
(***************************************************************************)
(* Projection on two traces that share an entity: t1 is started, evaluates *)
(* a policy and finishes, t2 is started and evaluates a policy.            *)
(***************************************************************************)
EXTENDS Projection

CONSTANTS t1, t2, i1, i2, i3, i4, i5, c1, c2, worker, job

MCTrace == {t1, t2}
MCEventId == {i1, i2, i3, i4, i5}
MCContent == {c1, c2}

Env(t, n, y, i, c) ==
    [trace |-> t, trace_seq |-> n, type |-> y, key |-> i, id |-> i, content |-> c]

MCEnvelope ==
    { Env(t1, 0, "TraceStarted", i1, c1),
      Env(t1, 1, "Step", i2, c2),
      Env(t1, 2, "TraceFinished", i3, c1),
      Env(t2, 0, "TraceStarted", i4, c1),
      Env(t2, 1, "Step", i5, c2) }

MCRunner == {worker, job}

\* The worker catches up; a replay job may also rebuild.
MCModes == [r \in MCRunner |-> IF r = worker THEN {"catch_up"} ELSE {"catch_up", "rebuild"}]

CatchUpOnly == [r \in MCRunner |-> {"catch_up"}]
=============================================================================
