---------------------------- MODULE MCProjection ----------------------------
(***************************************************************************)
(* Small instances of Projection.                                          *)
(***************************************************************************)
EXTENDS Projection
=============================================================================
