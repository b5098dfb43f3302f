------------------------- MODULE MCProjectionDigests -------------------------
(***************************************************************************)
(* Two processes on the three projections of a tenant.                     *)
(***************************************************************************)
EXTENDS ProjectionDigests
=============================================================================
