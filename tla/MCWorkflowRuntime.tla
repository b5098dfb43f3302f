------------------------- MODULE MCWorkflowRuntime -------------------------
(***************************************************************************)
(* WorkflowRuntime with an exception item, and with a trace review.        *)
(***************************************************************************)
EXTENDS WorkflowRuntime

Produced(t, w, s) ==
    [type |-> t, workflow |-> w, status |-> s, request |-> NoRequest, own |-> FALSE]

OneItem == {"exception"}
TwoItems == {"exception", "review"}

\* An agent asks for an exception, perhaps decides it itself, and finishes.
AgentEvents ==
    {Produced("ExceptionRequested", "exception", "none"),
     Produced("ApprovalRecorded", "exception", "rejected"),
     Produced("TraceFinished", "exception", "none")}

RequestOnly == {Produced("ExceptionRequested", "exception", "none")}
=============================================================================
