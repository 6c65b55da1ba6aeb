------------------------------ MODULE MCTimers ------------------------------
(***************************************************************************)
(* A small instance of Timers: batches of two, one of whose places a timer *)
(* that always fails may take for good.                                    *)
(***************************************************************************)
EXTENDS Timers, TLC

Symmetry == Permutations(Schedulers) \cup Permutations(Rows \ Bad)
=============================================================================
