---------------------------- MODULE MCInventory ----------------------------
(***************************************************************************)
(* Small instances of Inventory.  Commands are chosen so that they fight:  *)
(* two sagas want one seat, a compensation follows, and a saga re-sends    *)
(* its hold under a new ce_id.                                             *)
(***************************************************************************)
EXTENDS Inventory, TLC

Cmd(id, type, seat, hold, expires, corr) ==
    [id |-> id, type |-> type, seat |-> seat, hold |-> hold,
     expires |-> expires, corr |-> corr]

\* Two sagas, one seat; the first re-dispatches and compensates.
RacingCommands ==
    { Cmd("c1", "HoldSeat", "A", "h1", 1, "saga1"),
      Cmd("c2", "HoldSeat", "A", "h1", 1, "saga1"),
      Cmd("c3", "ReleaseSeatHold", "A", "h1", NoDeadline, "saga1"),
      Cmd("c4", "HoldSeat", "A", "h2", 2, "saga2") }

\* Two seats, a hold without a deadline and a command without a seat.
SpreadCommands ==
    { Cmd("c1", "HoldSeat", "A", "h1", NoDeadline, "saga1"),
      Cmd("c2", "HoldSeat", "B", "h2", 2, "saga2"),
      Cmd("c3", "ReleaseSeatHold", "A", "h1", NoDeadline, "saga1"),
      Cmd("c4", "HoldSeat", "", "h3", 2, "saga3") }

Symmetry == Permutations(Handlers) \cup Permutations(Schedulers)
=============================================================================
