------------------------------- MODULE MCOutbox -------------------------------
(***************************************************************************)
(* Small instances of Outbox: two events of one stream and a reply.        *)
(***************************************************************************)
EXTENDS Outbox, TLC

OneStream == 1 :> "A" @@ 2 :> "A" @@ 3 :> "A"
=============================================================================
