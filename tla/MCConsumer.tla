------------------------------ MODULE MCConsumer ------------------------------
(***************************************************************************)
(* Small instances of Consumer: records that may fail for the moment or    *)
(* fail for good, followed by records that must not be lost.               *)
(***************************************************************************)
EXTENDS Consumer, TLC

TwoPartitions == "p" :> <<"command", "command">> @@ "q" :> <<"malformed">>

OnePartition == "p" :> <<"malformed", "command">>
=============================================================================
