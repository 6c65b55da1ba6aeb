--------------------------- MODULE SeatReservation ---------------------------
(***************************************************************************)
(* What the inventory service promises its sagas, with no log, no          *)
(* transactions and no timers: a seat has at most one holder, only a       *)
(* command can take it and only while it is free, only the holder's own    *)
(* release or the passing of the holder's deadline gives it back, and a    *)
(* command takes effect at most once.                                      *)
(***************************************************************************)
EXTENDS Integers

CONSTANTS Seats, Commands, Free, Deadline(_)

VARIABLES holder, settled, clock

vars == <<holder, settled, clock>>

Init ==
    /\ holder = [s \in Seats |-> Free]
    /\ settled = {}
    /\ clock = 1

Settle(c) == c.id \notin settled /\ settled' = settled \cup {c.id}

\* A HoldSeat takes a free seat.
Take(c) ==
    /\ c.type = "HoldSeat"
    /\ Settle(c)
    /\ holder[c.seat] = Free
    /\ holder' = [holder EXCEPT ![c.seat] = [hold |-> c.hold, until |-> Deadline(c)]]
    /\ UNCHANGED clock

\* A ReleaseSeatHold gives back the seat its own hold has.
GiveBack(c) ==
    /\ c.type = "ReleaseSeatHold"
    /\ Settle(c)
    /\ holder[c.seat] # Free
    /\ holder[c.seat].hold = c.hold
    /\ holder' = [holder EXCEPT ![c.seat] = Free]
    /\ UNCHANGED clock

\* Any command may be answered without effect: a refusal, the re-announcement
\* of a live hold, the release of a hold that is already gone.
Answer(c) ==
    /\ Settle(c)
    /\ UNCHANGED <<holder, clock>>

\* A hold ends by itself, and never before its deadline.
RunOut(s) ==
    /\ UNCHANGED <<settled, clock>>
    /\ holder[s] # Free
    /\ holder[s].until <= clock
    /\ holder' = [holder EXCEPT ![s] = Free]

Pass ==
    /\ clock' = clock + 1
    /\ UNCHANGED <<holder, settled>>

Next ==
    \/ \E c \in Commands : Take(c) \/ GiveBack(c) \/ Answer(c)
    \/ \E s \in Seats : RunOut(s)
    \/ Pass

Spec == Init /\ [][Next]_vars
=============================================================================
