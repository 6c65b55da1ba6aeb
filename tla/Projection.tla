----------------------------- MODULE Projection -----------------------------
(***************************************************************************)
(* The seat_availability view (internal/inventory/projection.go): one row  *)
(* per seat, re-derived from the seat's stream by Project for every        *)
(* notification, and by Rebuild for the whole table.                       *)
(*                                                                         *)
(* A row is the fold of a prefix of its stream, so the version of that     *)
(* prefix stands for the row; 0 is no row.  Transactions are READ          *)
(* COMMITTED: each statement sees what has committed before it, and a row  *)
(* written but not committed blocks another writer of the same seat.       *)
(***************************************************************************)
EXTENDS Integers, FiniteSets

CONSTANTS
    Seats,
    Projectors,     \* members of the inventory.projections group
    Rebuilders,     \* operators running Rebuild
    NoSeat,
    MaxEvents,      \* bound: events and replies announced
    MaxRebuilds,    \* bound: rebuilds started
    MaxFaults,      \* bound: transactions that fail
    MaxDeadLetters  \* bound: notifications dead-lettered

ASSUME ProjectionAssumption ==
    /\ Projectors \cap Rebuilders = {}
    /\ NoSeat \notin Seats
    /\ MaxEvents \in Nat /\ MaxRebuilds \in Nat
    /\ MaxFaults \in Nat /\ MaxDeadLetters \in Nat

Workers == Projectors \cup Rebuilders

VARIABLES
    version,    \* seat -> committed events of its stream
    view,       \* seat -> version of its committed row
    notices,    \* <<seat, version>> records of inventory.events not yet settled;
                \* version 0 is a reply that is not an event
    dead,       \* records of inventory.events on the dead-letter topic
    pc,         \* worker -> where its transaction is
    seat,       \* worker -> seat being projected
    notice,     \* projector -> version of the record it was handed
    todo,       \* rebuilder -> enumerated streams not yet projected
    doomed,     \* rebuilder -> rows its DELETE has found and not yet locked
    seen,       \* worker -> version its last load folded to
    written,    \* worker -> seats its transaction has written, or locked
    mine,       \* worker -> seat -> version of the row as the worker sees it
    rebuilds, faults,
    replies     \* announcements that were no events

work == <<pc, seat, notice, todo, doomed, seen, written, mine>>
vars == <<version, view, notices, dead, work, rebuilds, faults, replies>>

Init ==
    /\ version = [s \in Seats |-> 0]
    /\ view = [s \in Seats |-> 0]
    /\ notices = {} /\ dead = {}
    /\ pc = [w \in Workers |-> "idle"]
    /\ seat = [w \in Workers |-> NoSeat]
    /\ notice = [w \in Workers |-> 0]
    /\ todo = [w \in Workers |-> {}]
    /\ doomed = [w \in Workers |-> {}]
    /\ seen = [w \in Workers |-> 0]
    /\ written = [w \in Workers |-> {}]
    /\ mine = [w \in Workers |-> [s \in Seats |-> 0]]
    /\ rebuilds = 0 /\ faults = 0 /\ replies = 0

-----------------------------------------------------------------------------
(* The write side (Inventory and Outbox): an event moves a stream on and   *)
(* is announced after its commit; a reply, such as the release of a hold   *)
(* that never was, is announced without an event.                          *)

Announced == replies + Cardinality({e \in Seats \X (1 .. MaxEvents) : e[2] <= version[e[1]]})

AppendEvent(s) ==
    /\ Announced < MaxEvents
    /\ version' = [version EXCEPT ![s] = @ + 1]
    /\ notices' = notices \cup {<<s, version[s] + 1>>}
    /\ UNCHANGED <<replies, dead, view, work, rebuilds, faults>>

Notify(s) ==
    /\ <<s, 0>> \notin notices
    /\ Announced < MaxEvents
    /\ replies' = replies + 1
    /\ notices' = notices \cup {<<s, 0>>}
    /\ UNCHANGED <<dead, version, view, work, rebuilds, faults>>

-----------------------------------------------------------------------------
(* Transactions.                                                           *)

\* Mutant: project runs on the pool, so a rebuild waits for its own DELETE.
LockedByAnyone(w, s) == \E v \in Workers : s \in written[v]

LockedByOther(w, s) == \E v \in Workers \ {w} : s \in written[v]

Goto(w, label) == pc' = [pc EXCEPT ![w] = label]

EndTx(w) ==
    /\ pc' = [pc EXCEPT ![w] = "idle"]
    /\ seat' = [seat EXCEPT ![w] = NoSeat]
    /\ notice' = [notice EXCEPT ![w] = 0]
    /\ todo' = [todo EXCEPT ![w] = {}]
    /\ doomed' = [doomed EXCEPT ![w] = {}]
    /\ seen' = [seen EXCEPT ![w] = 0]
    /\ written' = [written EXCEPT ![w] = {}]
    /\ mine' = [mine EXCEPT ![w] = [s \in Seats |-> 0]]

\* Mutant: a record is handed to a projector only if the seat has a row.
ProjectKnown(w, s, v) ==
    /\ pc[w] = "idle" /\ <<s, v>> \in notices /\ view[s] > 0
    /\ seat' = [seat EXCEPT ![w] = s]
    /\ notice' = [notice EXCEPT ![w] = v]
    /\ Goto(w, "load")
    /\ UNCHANGED <<replies, dead, version, view, notices, doomed, todo, seen, written, mine, rebuilds, faults>>

\* Projections: a record of inventory.events reaches a projector.  It is
\* settled when Project has committed; until then it may be handed out again.
Project(w, s, v) ==
    /\ pc[w] = "idle" /\ <<s, v>> \in notices
    /\ seat' = [seat EXCEPT ![w] = s]
    /\ notice' = [notice EXCEPT ![w] = v]
    /\ Goto(w, "load")
    /\ UNCHANGED <<replies, dead, version, view, notices, doomed, todo, seen, written, mine, rebuilds, faults>>

\* Rebuild, its first statement: Streams.
RebuildStreams(w) ==
    /\ pc[w] = "idle"
    /\ rebuilds < MaxRebuilds /\ rebuilds' = rebuilds + 1
    /\ todo' = [todo EXCEPT ![w] = {s \in Seats : version[s] > 0}]
    /\ Goto(w, "delete")
    /\ UNCHANGED <<replies, dead, version, view, notices, doomed, seat, notice, seen, written, mine, faults>>

\* DELETE FROM seat_availability finds the rows visible to this statement...
RebuildDelete(w) ==
    /\ pc[w] = "delete"
    /\ doomed' = [doomed EXCEPT ![w] = {s \in Seats : view[s] > 0}]
    /\ Goto(w, "deleting")
    /\ UNCHANGED <<replies, dead, version, view, notices, seat, notice, todo, seen, written, mine, rebuilds, faults>>

\* ... and deletes one after the other, waiting for whoever has locked it.
RebuildDeleteRow(w) ==
    /\ pc[w] = "deleting"
    /\ IF doomed[w] = {}
       THEN Goto(w, "next") /\ UNCHANGED <<doomed, written>>
       ELSE \E s \in doomed[w] :
                /\ ~LockedByOther(w, s)
                /\ written' = [written EXCEPT ![w] = @ \cup {s}]
                /\ doomed' = [doomed EXCEPT ![w] = @ \ {s}]
                /\ UNCHANGED pc
    /\ UNCHANGED <<replies, dead, version, view, notices, seat, notice, todo, seen, mine, rebuilds, faults>>

\* The loop over the enumerated streams.
RebuildNext(w) ==
    /\ pc[w] = "next"
    /\ IF todo[w] = {}
       THEN Goto(w, "commit") /\ UNCHANGED <<seat, todo>>
       ELSE \E s \in todo[w] :
                /\ seat' = [seat EXCEPT ![w] = s]
                /\ todo' = [todo EXCEPT ![w] = @ \ {s}]
                /\ Goto(w, "load")
    /\ UNCHANGED <<replies, dead, version, view, notices, doomed, notice, seen, written, mine, rebuilds, faults>>

After(w) == IF w \in Rebuilders THEN "next" ELSE "commit"

\* project: LoadSeat.  A seat without a stream has no row.
Load(w) ==
    /\ pc[w] = "load"
    /\ seen' = [seen EXCEPT ![w] = version[seat[w]]]
    /\ Goto(w, IF version[seat[w]] = 0 THEN After(w) ELSE "upsert")
    /\ UNCHANGED <<replies, dead, version, view, notices, doomed, seat, notice, todo, written, mine, rebuilds, faults>>

\* The row the upsert of w meets: its own write if it has made one.
Current(w, s) == IF s \in written[w] THEN mine[w][s] ELSE view[s]

\* Mutant: no guard on the version of the row.
UpsertAlways(w) ==
    LET s == seat[w]
    IN  /\ pc[w] = "upsert"
        /\ ~LockedByOther(w, s)
        /\ written' = [written EXCEPT ![w] = @ \cup {s}]
        /\ mine' = [mine EXCEPT ![w][s] = seen[w]]
        /\ Goto(w, After(w))
        /\ UNCHANGED <<replies, dead, version, view, notices, doomed, seat, notice, todo, seen, rebuilds, faults>>

\* Mutant: the row is written at the version the next event will have.
UpsertNextVersion(w) ==
    LET s == seat[w]
    IN  /\ pc[w] = "upsert"
        /\ ~LockedByOther(w, s)
        /\ written' = [written EXCEPT ![w] = @ \cup {s}]
        /\ mine' = [mine EXCEPT ![w][s] = seen[w] + 1]
        /\ Goto(w, After(w))
        /\ UNCHANGED <<replies, dead, version, view, notices, doomed, seat, notice, todo, seen, rebuilds, faults>>

\* upsertAvailabilitySQL: waits for an uncommitted row of the seat, then
\* writes unless the row is at or past the version that was folded.
Upsert(w) ==
    LET s == seat[w]
    IN  /\ pc[w] = "upsert"
        /\ ~LockedByOther(w, s)
        /\ written' = [written EXCEPT ![w] = @ \cup {s}]
        /\ mine' = [mine EXCEPT ![w][s] =
                        IF Current(w, s) < seen[w] THEN seen[w] ELSE Current(w, s)]
        /\ Goto(w, After(w))
        /\ UNCHANGED <<replies, dead, version, view, notices, doomed, seat, notice, todo, seen, rebuilds, faults>>

Publish(w) ==
    view' = [s \in Seats |-> IF s \in written[w] THEN mine[w][s] ELSE view[s]]

\* Mutant: the record is marked although the transaction does not commit.
SettleOnly(w) ==
    /\ pc[w] = "commit"
    /\ notices' = IF w \in Projectors THEN notices \ {<<seat[w], notice[w]>>} ELSE notices
    /\ EndTx(w)
    /\ UNCHANGED <<replies, dead, version, view, rebuilds, faults>>

Commit(w) ==
    /\ pc[w] = "commit"
    /\ Publish(w)
    /\ notices' = IF w \in Projectors THEN notices \ {<<seat[w], notice[w]>>} ELSE notices
    /\ EndTx(w)
    /\ UNCHANGED <<replies, dead, version, rebuilds, faults>>

\* The transaction fails or its process dies; the record is redelivered.
Abort(w) ==
    /\ faults < MaxFaults /\ faults' = faults + 1
    /\ pc[w] # "idle"
    /\ EndTx(w)
    /\ UNCHANGED <<replies, dead, version, view, notices, rebuilds>>

\* Every attempt has failed: the record is dead-lettered and settled, and its
\* row stays as it is.
DeadLetter(w) ==
    /\ Cardinality(dead) < MaxDeadLetters
    /\ pc[w] # "idle"
    /\ dead' = dead \cup {<<seat[w], notice[w]>>}
    /\ notices' = notices \ {<<seat[w], notice[w]>>}
    /\ EndTx(w)
    /\ UNCHANGED <<replies, version, view, rebuilds, faults>>

-----------------------------------------------------------------------------
(* Reads.                                                                  *)

StatusFree == 0
StatusHeld == 1
NULL       == -1

Text(status)      == IF status = StatusHeld THEN "held" ELSE "free"
ParseStatus(text) == CHOOSE status \in {StatusFree, StatusHeld} : Text(status) = text

\* LoadSeat after v events: by Inventory!StreamAlternates holds and their ends
\* alternate.  A free seat has the zero time for a deadline.
Folded(v) == IF v % 2 = 1 THEN [status |-> StatusHeld, until |-> v]
             ELSE [status |-> StatusFree, until |-> 0]

\* The columns project writes: the status as text, the zero time as NULL.
Stored(state) == [status |-> Text(state.status), until |-> IF state.until = 0 THEN NULL ELSE state.until]

NoRow == [status |-> NULL, until |-> 0]

LoadAvailability(s) ==
    LET row == Stored(Folded(view[s]))
    IN  IF view[s] = 0 THEN NoRow
        ELSE [status |-> ParseStatus(row.status), until |-> IF row.until = NULL THEN 0 ELSE row.until]

\* Mutant: a seat is taken unless it is free.
HeldSeatsNotFree == {s \in Seats : LoadAvailability(s).status # StatusFree}

\* A seat without a row is not listed.
HeldSeats == {s \in Seats : view[s] # 0 /\ Stored(Folded(view[s])).status = Text(StatusHeld)}

-----------------------------------------------------------------------------
Step(w) ==
    \/ RebuildDelete(w) \/ RebuildDeleteRow(w) \/ RebuildNext(w)
    \/ Load(w) \/ Upsert(w) \/ Commit(w)

Next ==
    \/ \E s \in Seats : AppendEvent(s) \/ Notify(s)
    \/ \E w \in Projectors : \E s \in Seats, v \in 0 .. MaxEvents : Project(w, s, v)
    \/ \E w \in Rebuilders : RebuildStreams(w)
    \/ \E w \in Workers : Step(w) \/ Abort(w)
    \/ \E w \in Projectors : DeadLetter(w)

Spec == Init /\ [][Next]_vars

(***************************************************************************)
(* Fairness: while a transaction can go on, some transaction does, and     *)
(* records that wait are handed to projectors (Consumer!EveryRecordSettled *)
(* is about that).  Which transaction, and which record, is not promised.  *)
(***************************************************************************)
FairSpec ==
    /\ Spec
    /\ WF_vars(\E w \in Workers : Step(w))
    /\ WF_vars(\E w \in Projectors : \E s \in Seats, v \in 0 .. MaxEvents : Project(w, s, v))

-----------------------------------------------------------------------------
(* Properties.                                                             *)

\* The shape of the view and of the open transactions.
TypeOK ==
    /\ version \in [Seats -> 0 .. MaxEvents]
    /\ view \in [Seats -> 0 .. MaxEvents]
    /\ notices \cup dead \subseteq Seats \X (0 .. MaxEvents)
    /\ pc \in [Workers -> {"idle", "delete", "deleting", "next", "load", "upsert", "commit"}]
    /\ seat \in [Workers -> Seats \cup {NoSeat}]
    /\ notice \in [Workers -> 0 .. MaxEvents]
    /\ todo \in [Workers -> SUBSET Seats]
    /\ doomed \in [Workers -> SUBSET Seats]
    /\ seen \in [Workers -> 0 .. MaxEvents]
    /\ written \in [Workers -> SUBSET Seats]
    /\ mine \in [Workers -> [Seats -> 0 .. MaxEvents]]
    /\ rebuilds \in 0 .. MaxRebuilds
    /\ faults \in 0 .. MaxFaults /\ replies \in 0 .. MaxEvents

(***************************************************************************)
(* A settled notification is in the view: once the record announcing       *)
(* version v of a stream is settled the row is at v or later.  Nothing     *)
(* else would bring the row up to date.  projection.go:58-61 promises it   *)
(* of rebuilds too: what Rebuild enumerates and folds "come from a single  *)
(* snapshot of the log".                                                   *)
(***************************************************************************)
SettledIsVisible ==
    \A s \in Seats : \A v \in 1 .. version[s] :
        <<s, v>> \notin notices \cup dead => view[s] >= v

(***************************************************************************)
(* Before the first rebuild that holds, though notifications arrive in any *)
(* order, twice, and to two projectors at once; and the row a dead letter  *)
(* has left stale is brought up to date by the seat's next event.          *)
(***************************************************************************)
VisibleUntilRebuilt == rebuilds = 0 => SettledIsVisible

(***************************************************************************)
(* The reads of a seat whose notifications are all settled, none of them   *)
(* by a dead letter, agree with its stream: LoadAvailability returns what  *)
(* the stream folds to, through the text and the NULL of the table, and    *)
(* HeldSeats lists the seat exactly if it is held.                         *)
(***************************************************************************)
BrowseIsCurrent ==
    \A s \in Seats :
        rebuilds = 0 /\ (notices \cup dead) \cap ({s} \X (1 .. version[s])) = {} =>
            /\ LoadAvailability(s) = IF version[s] = 0 THEN NoRow ELSE Folded(version[s])
            /\ s \in HeldSeats <=> version[s] % 2 = 1

(***************************************************************************)
(* upsertAvailabilitySQL: "the one that read the older stream does nothing *)
(* rather than dragging the row back".  No commit, of a notification or of *)
(* a rebuild, replaces a row by an older one.                              *)
(***************************************************************************)
NeverDraggedBack ==
    [][\A s \in Seats : view'[s] # 0 => view'[s] >= view[s]]_vars

\* A rebuild comes to an end: it and the projectors never wait for each other
\* in a circle, though it locks many rows and they lock one.
RebuildFinishes == \A w \in Rebuilders : pc[w] # "idle" ~> pc[w] = "idle"

\* Every event of every stream is projected: at some time it shows in the view,
\* whatever notifications are repeated and transactions fail, unless its own
\* notification is dead-lettered.
EveryEventVisible ==
    \A s \in Seats : \A v \in 1 .. MaxEvents :
        <>(version[s] >= v) => <>(view[s] >= v \/ <<s, v>> \in dead)
=============================================================================
