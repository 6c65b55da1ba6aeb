----------------------------- MODULE MCService -----------------------------
(***************************************************************************)
(* A small instance of Service: two replicas that start, fail, stop and    *)
(* die beside each other, or one that starts again after the other.        *)
(***************************************************************************)
EXTENDS Service
=============================================================================
