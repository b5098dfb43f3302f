-------------------------- MODULE MCProjectionWorker --------------------------
(***************************************************************************)
(* The workers of one projection, or of two: the third differs in nothing. *)
(***************************************************************************)
EXTENDS ProjectionWorker

OneName == <<"context_graph">>
TwoNames == <<"context_graph", "trace_summary">>
=============================================================================
