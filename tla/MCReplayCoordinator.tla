------------------------ MODULE MCReplayCoordinator ------------------------
(***************************************************************************)
(* ReplayCoordinator with two projections.                                 *)
(***************************************************************************)
EXTENDS ReplayCoordinator

OneProjection == {"context_graph"}
TwoProjections == {"context_graph", "trace_summary"}
AllOrOne == {"all", "trace_summary"}
=============================================================================
