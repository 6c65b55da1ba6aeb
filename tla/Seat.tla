-------------------------------- MODULE Seat --------------------------------
(***************************************************************************)
(* The decisions of one seat (internal/inventory/seat.go): pure functions  *)
(* from the folded stream and a command, or an expired deadline, to the    *)
(* events, replies and timers the decision asks for.  No state, no clock.  *)
(*                                                                         *)
(* A hold id stands for the hold and the booking it belongs to: the code   *)
(* carries both and never looks at the booking id.                         *)
(***************************************************************************)
EXTENDS Integers, Sequences

CONSTANTS
    Holds,      \* hold ids
    Commands    \* the commands in play, see CommandAssumption

-----------------------------------------------------------------------------
(* Time.  The clock starts at 1, so the Unix epoch is already past.        *)

NoDeadline == -1    \* a nil *timestamppb.Timestamp
ZeroTime   == -2    \* time.Time{}
Epoch      == 0     \* what AsTime makes of a nil timestamp

AsTime(ts) == IF ts = NoDeadline THEN Epoch ELSE ts

-----------------------------------------------------------------------------
(* Messages, event metadata and the state a stream folds to.               *)

NoHold  == ""
NoCause == ""

EventTypes == {"SeatHeld", "SeatHoldReleased", "SeatHoldExpired"}

Message == [type : EventTypes \cup {"SeatUnavailable"}, hold : Holds, expires : Int]

\* eventstore.Meta: the flow an event belongs to and the ce_id that caused it.
Meta == [corr : {c.corr : c \in Commands} \cup {NoCause},
         cause : {c.id : c \in Commands} \cup {NoCause}]

Recorded == [msg : Message, meta : Meta]

SeatState == [version : Nat, status : {"free", "held"},
              hold : Holds \cup {NoHold}, expires : Int]

FreshSeat == [version |-> 0, status |-> "free", hold |-> NoHold, expires |-> ZeroTime]

Apply(s, e) ==
    IF e.type = "SeatHeld"
    THEN [version |-> s.version + 1, status |-> "held",
          hold |-> e.hold, expires |-> AsTime(e.expires)]
    ELSE [version |-> s.version + 1, status |-> "free",
          hold |-> NoHold, expires |-> ZeroTime]

\* The replay of a whole stream, as LoadSeat hands it the recorded events.
Fold[rs \in Seq(Recorded)] ==
    IF rs = <<>> THEN FreshSeat
    ELSE Apply(Fold[SubSeq(rs, 1, Len(rs) - 1)], rs[Len(rs)].msg)

-----------------------------------------------------------------------------
(* Decisions.                                                              *)

Msg(type, hold, expires) == [type |-> type, hold |-> hold, expires |-> expires]

Nothing == [events |-> <<>>, replies |-> <<>>, timers |-> <<>>]

Messages(o) == o.events \o o.replies

LiveHold(s, hold) == s.status = "held" /\ s.hold = hold

\* The live hold, described again for a re-dispatched command.
Held(s) == Msg("SeatHeld", s.hold, s.expires)

Hold(s, c) ==
    IF LiveHold(s, c.hold)
    THEN [Nothing EXCEPT !.replies = <<Held(s)>>]
    ELSE IF s.status # "free"
    THEN [Nothing EXCEPT !.replies = <<Msg("SeatUnavailable", c.hold, NoDeadline)>>]
    ELSE [Nothing EXCEPT
            !.events = <<Msg("SeatHeld", c.hold, c.expires)>>,
            !.timers = <<[fireAt |-> AsTime(c.expires), token |-> c.hold]>>]

Release(s, c) ==
    LET released == Msg("SeatHoldReleased", c.hold, NoDeadline)
    IN  IF ~LiveHold(s, c.hold)
        THEN [Nothing EXCEPT !.replies = <<released>>]
        ELSE [Nothing EXCEPT !.events = <<released>>]

\* Mutant: a timer expires whatever hold the seat has, ignoring its token.
ExpireAnyHold(s, hold) ==
    IF s.status # "held"
    THEN Nothing
    ELSE [Nothing EXCEPT !.events = <<Msg("SeatHoldExpired", s.hold, NoDeadline)>>]

Expire(s, hold) ==
    IF ~LiveHold(s, hold)
    THEN Nothing
    ELSE [Nothing EXCEPT !.events = <<Msg("SeatHoldExpired", s.hold, NoDeadline)>>]

\* Every other command type is refused before a transaction opens (SeatID).
Decide(s, c) ==
    IF c.type = "HoldSeat" THEN Hold(s, c) ELSE Release(s, c)
=============================================================================
