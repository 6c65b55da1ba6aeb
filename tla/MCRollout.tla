----------------------------- MODULE MCRollout -----------------------------
(***************************************************************************)
(* Small instances of Rollout: the contracts of this commit, and a commit  *)
(* that adds a field to a command and to an event, or does so and drops a  *)
(* field of an event as well.                                              *)
(***************************************************************************)
EXTENDS Rollout

Extended == [Base EXCEPT !["HoldSeat"] = @ \cup {"fare_class"},
                         !["SeatHeld"] = @ \cup {"fare_class"}]
Broken   == [Extended EXCEPT !["SeatUnavailable"] = @ \ {"reason"}]

ThenExtended == <<Base, Extended>>
ThenBroken   == <<Base, Broken>>
=============================================================================
