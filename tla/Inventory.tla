------------------------------ MODULE Inventory ------------------------------
(***************************************************************************)
(* The write side of the inventory service: command handlers               *)
(* (commands.go), the timer scheduler and its Expirer (timers/, expiry.go) *)
(* and the tables they share in one Postgres database: the event log, the  *)
(* inbox, the timers and the outbox.                                       *)
(*                                                                         *)
(* A worker runs one READ COMMITTED transaction at a time.  What it writes *)
(* is private until it commits, except that a row inserted or updated but  *)
(* not yet committed blocks a second writer of the same key.  What a       *)
(* transaction will write is a function of the job it is doing and of the  *)
(* stream it loaded (Decision), so only those are kept.                    *)
(***************************************************************************)
EXTENDS Seat, FiniteSets

CONSTANTS
    Seats,              \* seat ids, which are stream ids
    NoSeat,             \* the empty seat id
    Handlers,           \* command handlers: one per consumer instance
    Schedulers,         \* timer schedulers: one per service instance
    ConflictRetries,    \* commands.go: reloads after a version conflict
    BatchSize,          \* timers.go: due timers taken by one pass
    MaxTime,            \* bound: the last tick of the clock
    MaxFaults           \* bound: failed or unacknowledged transactions

Streams == Seats \cup {NoSeat}
Workers == Handlers \cup Schedulers

CommandTypes == {"HoldSeat", "ReleaseSeatHold"}

ASSUME CommandAssumption ==
    /\ \A c \in Commands : /\ c.type \in CommandTypes
                           /\ c.seat \in Streams
                           /\ c.hold \in Holds
                           /\ c.expires \in Nat \cup {NoDeadline}
    \* CloudEvents: ce_source and ce_id together name one message.
    /\ \A c, d \in Commands : c.id = d.id => c = d
    /\ \A c \in Commands : c.id # NoCause

\* A saga chooses a hold's deadline once: every HoldSeat of a hold repeats it.
ASSUME DeadlineAssumption ==
    \A c, d \in Commands :
        /\ c.type = "HoldSeat" /\ d.type = "HoldSeat"
        /\ c.hold = d.hold
        => c.expires = d.expires

ASSUME WorkerAssumption ==
    /\ Handlers \cap Schedulers = {}
    /\ NoSeat \notin Seats

ASSUME BoundAssumption ==
    /\ ConflictRetries \in Nat
    /\ BatchSize \in Nat \ {0}
    /\ MaxTime \in Nat \ {0}
    /\ MaxFaults \in Nat

\* A row of the timers table.  "version" is the version of the SeatHeld that
\* asked for it, and stands for the serial id: a stream has one event per
\* version and a SeatHeld schedules one timer.
Timer == [seat : Streams, version : Nat, fireAt : Int, token : Holds]

\* A row of the outbox.  "version" is the stream version of the event it
\* announces, 0 for a reply that is not an event.
OutboxRow == [id : Nat, seat : Streams, msg : Message, meta : Meta, version : Nat]

VARIABLES
    \* committed tables
    events,     \* stream -> recorded events, at their versions 1..Len
    inbox,      \* ce_ids of the consumed commands
    timers,     \* rows with fired_at NULL
    fired,      \* rows with fired_at set
    outbox,     \* rows enqueued; the poller is another module
    serial,     \* last id drawn from the outbox's sequence, never rolled back
    \* Handle returned nil: the consumer may commit the offset
    acked,
    \* the open transaction of each worker
    pc, job, seen, origin, row,
    tries,      \* handler -> version conflicts met by this Handle
    due,        \* scheduler -> rest of the batch its pass read
    now, faults

tables == <<events, inbox, timers, fired, outbox, acked>>
txs    == <<pc, job, seen, origin, row>>
vars   == <<tables, serial, txs, tries, due, now, faults>>

NoJob  == [seat |-> NoSeat]
NoMeta == [corr |-> NoCause, cause |-> NoCause]

Init ==
    /\ events = [s \in Streams |-> <<>>]
    /\ inbox = {} /\ timers = {} /\ fired = {} /\ outbox = {} /\ acked = {}
    /\ pc = [w \in Workers |-> "idle"]
    /\ job = [w \in Workers |-> NoJob]
    /\ seen = [w \in Workers |-> FreshSeat]
    /\ origin = [w \in Workers |-> NoMeta]
    /\ row = [w \in Workers |-> 0]
    /\ tries = [h \in Handlers |-> 0]
    /\ due = [s \in Schedulers |-> {}]
    /\ serial = 0
    /\ now = 1 /\ faults = 0

-----------------------------------------------------------------------------
(* What an open transaction has decided and will write.                    *)

DecisionOn(state, w) ==
    IF w \in Handlers THEN Decide(state, job[w]) ELSE Expire(state, job[w].token)

Decision(w) == DecisionOn(seen[w], w)

\* A command's effects carry its flow and name it as their cause; an expiry
\* belongs to the flow of the last event of its stream and has no cause.
MetaOf(w) ==
    IF w \in Handlers
    THEN [corr |-> job[w].corr, cause |-> job[w].id]
    ELSE [corr |-> origin[w].corr, cause |-> NoCause]

AppendedEvents(w) ==
    LET es == Decision(w).events
    IN  [i \in DOMAIN es |-> [msg |-> es[i], meta |-> MetaOf(w)]]

ScheduledTimers(w) ==
    LET ts == Decision(w).timers
    IN  {[seat |-> job[w].seat, version |-> seen[w].version + i,
          fireAt |-> ts[i].fireAt, token |-> ts[i].token] : i \in DOMAIN ts}

\* Mutant: only replies are published, an appended event is not.
EnqueuedReplies(w) ==
    LET ms == Decision(w).replies
    IN  {[id |-> row[w] + i - 1, seat |-> job[w].seat, msg |-> ms[i], meta |-> MetaOf(w),
          version |-> 0] : i \in DOMAIN ms}

EnqueuedRows(w) ==
    LET o  == Decision(w)
        ms == Messages(o)
    IN  {[id |-> row[w] + i - 1, seat |-> job[w].seat, msg |-> ms[i], meta |-> MetaOf(w),
          version |-> IF i \in DOMAIN o.events THEN seen[w].version + i ELSE 0]
            : i \in DOMAIN ms}

\* Mutant: ids taken from the committed rows, not from a sequence.
NextVisibleRow == 1 + Cardinality(outbox)

\* BIGSERIAL: the id is drawn at insert, long before the row is visible.
NextRow == serial + 1

-----------------------------------------------------------------------------
(* Locks: rows written and not yet committed.                              *)

AfterMark   == {"load", "append", "enqueue", "commit"}
AfterAppend == {"enqueue", "commit"}

\* Someone else has inserted the inbox row, or updated the timer row, of j.
Claimed(w, j) ==
    \E v \in Workers \ {w} : pc[v] \in AfterMark /\ job[v] = j

\* Someone else has inserted the event at the version w is about to write.
VersionTaken(w) ==
    \E v \in Workers \ {w} :
        /\ pc[v] \in AfterAppend
        /\ Decision(v).events # <<>>
        /\ job[v].seat = job[w].seat
        /\ seen[v].version = seen[w].version

Goto(w, label) == pc' = [pc EXCEPT ![w] = label]

\* The transaction of w is over; its worker goes to label with job j.
EndTx(w, label, j) ==
    /\ pc' = [pc EXCEPT ![w] = label]
    /\ job' = [job EXCEPT ![w] = j]
    /\ seen' = [seen EXCEPT ![w] = FreshSeat]
    /\ origin' = [origin EXCEPT ![w] = NoMeta]
    /\ row' = [row EXCEPT ![w] = 0]

Restart(w) == tries' = [h \in Handlers |-> IF h = w THEN 0 ELSE tries[h]]

-----------------------------------------------------------------------------
(* The command handler.                                                    *)

\* Kafka delivers at least once, in any order across partitions, and a
\* rebalance can leave two instances with the same record.
Deliver(h, c) ==
    /\ pc[h] = "idle"
    /\ pc' = [pc EXCEPT ![h] = "mark"]
    /\ job' = [job EXCEPT ![h] = c]
    /\ UNCHANGED <<tables, seen, origin, row, tries, serial, due, now, faults>>

\* Mutant: the insert does not wait for an uncommitted row of the same key.
MarkConsumedUnlocked(h) ==
    /\ pc[h] = "mark"
    /\ job[h].id \notin inbox
    /\ Goto(h, "load")
    /\ UNCHANGED <<tables, job, seen, origin, row, tries, serial, due, now, faults>>

\* Mutant: the inbox row is written before the transaction, not inside it.
MarkConsumedOutside(h) ==
    /\ pc[h] = "mark"
    /\ ~Claimed(h, job[h])
    /\ job[h].id \notin inbox
    /\ inbox' = inbox \cup {job[h].id}
    /\ Goto(h, "load")
    /\ UNCHANGED <<events, timers, fired, outbox, acked, job, seen, origin, row, tries,
                   serial, due, now, faults>>

\* MarkConsumed: the first delivery inserts its inbox row, and waits for a
\* transaction that has inserted the same row without having committed it.
MarkConsumed(h) ==
    /\ pc[h] = "mark"
    /\ ~Claimed(h, job[h])
    /\ job[h].id \notin inbox
    /\ Goto(h, "load")
    /\ UNCHANGED <<tables, job, seen, origin, row, tries, serial, due, now, faults>>

\* Already applied: commit nothing, acknowledge.
Duplicate(h) ==
    /\ pc[h] = "mark"
    /\ ~Claimed(h, job[h])
    /\ job[h].id \in inbox
    /\ acked' = acked \cup {job[h].id}
    /\ EndTx(h, "idle", NoJob)
    /\ Restart(h)
    /\ UNCHANGED <<events, inbox, timers, fired, outbox, serial, due, now, faults>>

-----------------------------------------------------------------------------
(* The scheduler.                                                          *)

\* Mutant: a timer is due only after its deadline.
DueTimersStrict == {t \in timers : t.fireAt < now}

\* Mutant: the deadline is not compared with the clock.
DueTimersAny == timers

DueTimers == {t \in timers : t.fireAt <= now}

EarlierOf(T) == {t \in T : \A u \in T : t.fireAt <= u.fireAt}

\* Due: the earliest BatchSize rows the clock has reached.  Nothing is claimed.
Tick(s) ==
    /\ pc[s] = "idle" /\ due[s] = {} /\ DueTimers # {}
    /\ \E batch \in SUBSET DueTimers :
        /\ \/ Cardinality(batch) = BatchSize
           \/ Cardinality(batch) < BatchSize /\ batch = DueTimers
        /\ \A t \in batch, u \in DueTimers \ batch : t.fireAt <= u.fireAt
        /\ due' = [due EXCEPT ![s] = batch]
    /\ UNCHANGED <<tables, txs, serial, tries, now, faults>>

\* Mutant: the claim commits on its own, before the effect of the timer.
MarkFiredOutside(s) ==
    /\ pc[s] = "idle"
    /\ \E t \in EarlierOf(due[s]) :
        /\ ~Claimed(s, t)
        /\ due' = [due EXCEPT ![s] = @ \ {t}]
        /\ timers' = timers \ {t}
        /\ IF t \in timers
           THEN Goto(s, "load") /\ job' = [job EXCEPT ![s] = t]
           ELSE UNCHANGED <<pc, job>>
    /\ UNCHANGED <<events, inbox, fired, outbox, acked, seen, origin, row, serial, tries, now, faults>>

\* MarkFired claims the next timer of the batch for this transaction, or finds
\* that another scheduler has fired it and leaves it alone.
MarkFired(s) ==
    /\ pc[s] = "idle"
    /\ \E t \in EarlierOf(due[s]) :
        /\ ~Claimed(s, t)
        /\ due' = [due EXCEPT ![s] = @ \ {t}]
        /\ IF t \in timers
           THEN Goto(s, "load") /\ job' = [job EXCEPT ![s] = t]
           ELSE UNCHANGED <<pc, job>>
    /\ UNCHANGED <<tables, seen, origin, row, serial, tries, now, faults>>

\* Prune deletes any of the fired rows: the ones past Retention.
Prune(s) ==
    /\ pc[s] = "idle" /\ due[s] = {}
    /\ \E old \in SUBSET fired \ {{}} : fired' = fired \ old
    /\ UNCHANGED <<events, inbox, timers, outbox, acked, txs, tries, serial, due, now, faults>>

-----------------------------------------------------------------------------
(* The transaction body handlers and the Expirer share.                    *)

LastMeta(rs) == IF rs = <<>> THEN NoMeta ELSE rs[Len(rs)].meta

\* LoadSeat, then the decision.  A reply has nothing to append, and an expiry
\* with nothing to expire goes straight to the commit of its claim.
LoadSeat(w) ==
    LET s     == job[w].seat
        state == Fold[events[s]]
    IN  /\ pc[w] = "load"
        /\ seen' = [seen EXCEPT ![w] = state]
        /\ origin' = [origin EXCEPT ![w] = LastMeta(events[s])]
        /\ Goto(w, IF DecisionOn(state, w).events # <<>> THEN "append"
                   ELSE IF w \in Handlers THEN "enqueue"
                   ELSE "commit")
        /\ UNCHANGED <<tables, job, row, tries, serial, due, now, faults>>

\* AppendSeat: the unique key (stream, version) is free.
AppendSeat(w) ==
    /\ pc[w] = "append"
    /\ ~VersionTaken(w)
    /\ Len(events[job[w].seat]) = seen[w].version
    /\ Goto(w, "enqueue")
    /\ UNCHANGED <<tables, job, seen, origin, row, tries, serial, due, now, faults>>

\* Mutant: one retry too many.
VersionConflictOneMore(w) ==
    LET again == w \in Handlers /\ tries[w] <= ConflictRetries
    IN  /\ pc[w] = "append"
        /\ ~VersionTaken(w)
        /\ Len(events[job[w].seat]) > seen[w].version
        /\ IF again
           THEN EndTx(w, "mark", job[w]) /\ tries' = [tries EXCEPT ![w] = @ + 1]
           ELSE EndTx(w, "idle", NoJob) /\ Restart(w)
        /\ UNCHANGED <<tables, serial, due, now, faults>>

\* Mutant: a retry that keeps the state it loaded before the conflict.
VersionConflictReplay(w) ==
    LET again == w \in Handlers /\ tries[w] < ConflictRetries
    IN  /\ pc[w] = "append"
        /\ ~VersionTaken(w)
        /\ Len(events[job[w].seat]) > seen[w].version
        /\ IF again
           THEN /\ seen' = [seen EXCEPT ![w].version = Len(events[job[w].seat])]
                /\ tries' = [tries EXCEPT ![w] = @ + 1]
                /\ UNCHANGED <<pc, job, origin, row>>
           ELSE EndTx(w, "idle", NoJob) /\ Restart(w)
        /\ UNCHANGED <<tables, serial, due, now, faults>>

\* AppendSeat: ErrVersionConflict.  The transaction rolls back.  Handle opens
\* another for the same command until its retries run out; a timer is left to
\* the next pass.
VersionConflict(w) ==
    LET again == w \in Handlers /\ tries[w] < ConflictRetries
    IN  /\ pc[w] = "append"
        /\ ~VersionTaken(w)
        /\ Len(events[job[w].seat]) > seen[w].version
        /\ IF again
           THEN EndTx(w, "mark", job[w]) /\ tries' = [tries EXCEPT ![w] = @ + 1]
           ELSE EndTx(w, "idle", NoJob) /\ Restart(w)
        /\ UNCHANGED <<tables, serial, due, now, faults>>

\* scheduleTimers and Enqueue: rows private to the transaction, and an id.
Enqueue(w) ==
    /\ pc[w] = "enqueue"
    /\ job[w].seat # NoSeat
    /\ row' = [row EXCEPT ![w] = NextRow]
    /\ serial' = serial + Len(Messages(Decision(w)))
    /\ Goto(w, "commit")
    /\ UNCHANGED <<tables, job, seen, origin, tries, due, now, faults>>

\* Message.Validate: the seat id is the partition key and may not be empty.
EnqueueInvalid(w) ==
    /\ pc[w] = "enqueue"
    /\ job[w].seat = NoSeat
    /\ EndTx(w, "idle", NoJob)
    /\ Restart(w)
    /\ UNCHANGED <<tables, serial, due, now, faults>>

\* COMMIT: everything the transaction wrote becomes visible at once.
CommitTx(w) ==
    /\ pc[w] = "commit"
    /\ events' = [events EXCEPT ![job[w].seat] = @ \o AppendedEvents(w)]
    /\ outbox' = outbox \cup EnqueuedRows(w)
    /\ IF w \in Handlers
       THEN /\ inbox' = inbox \cup {job[w].id}
            /\ timers' = timers \cup ScheduledTimers(w)
            /\ UNCHANGED fired
       ELSE /\ timers' = timers \ {job[w]}
            /\ fired' = fired \cup {job[w]}
            /\ UNCHANGED inbox
    /\ EndTx(w, "idle", NoJob)
    /\ Restart(w)
    /\ UNCHANGED <<serial, due, now>>

Commit(w) ==
    /\ CommitTx(w)
    /\ acked' = IF w \in Handlers THEN acked \cup {job[w].id} ELSE acked
    /\ UNCHANGED faults

-----------------------------------------------------------------------------
(* Failures and the clock.                                                 *)

\* COMMIT went through and its answer was lost: Handle returns an error.
CommitUnacknowledged(h) ==
    /\ faults < MaxFaults /\ faults' = faults + 1
    /\ CommitTx(h)
    /\ UNCHANGED acked

\* A statement fails, or the process dies: Postgres rolls back.
Abort(w) ==
    /\ faults < MaxFaults /\ faults' = faults + 1
    /\ pc[w] # "idle"
    /\ EndTx(w, "idle", NoJob)
    /\ Restart(w)
    /\ UNCHANGED <<tables, serial, due, now>>

\* A restarted scheduler has forgotten its batch.
LoseBatch(s) ==
    /\ faults < MaxFaults /\ faults' = faults + 1
    /\ due[s] # {}
    /\ due' = [due EXCEPT ![s] = {}]
    /\ EndTx(s, "idle", NoJob)
    /\ UNCHANGED <<tables, serial, tries, now>>

Advance ==
    /\ now < MaxTime
    /\ now' = now + 1
    /\ UNCHANGED <<tables, serial, txs, tries, due, faults>>

-----------------------------------------------------------------------------
HandlerStep(h) == MarkConsumed(h) \/ Duplicate(h)
SchedulerStep(s) == Tick(s) \/ MarkFired(s)
TxStep(w) ==
    \/ LoadSeat(w) \/ AppendSeat(w) \/ VersionConflict(w)
    \/ Enqueue(w) \/ EnqueueInvalid(w) \/ Commit(w)

Next ==
    \/ \E h \in Handlers :
        \/ \E c \in Commands : Deliver(h, c)
        \/ HandlerStep(h)
        \/ CommitUnacknowledged(h)
    \/ \E s \in Schedulers : SchedulerStep(s) \/ Prune(s) \/ LoseBatch(s)
    \/ \E w \in Workers : TxStep(w) \/ Abort(w)
    \/ Advance

Spec == Init /\ [][Next]_vars

(***************************************************************************)
(* Fairness.  A statement sent to Postgres is answered, the scheduler's    *)
(* loop always makes another pass (Run sleeps at most MaxSleep) and time   *)
(* passes.  Nothing makes a command arrive.                                *)
(***************************************************************************)
FairSpec ==
    /\ Spec
    /\ WF_vars(Advance)
    /\ \A h \in Handlers : WF_vars(HandlerStep(h))
    /\ \A s \in Schedulers : WF_vars(SchedulerStep(s))
    /\ \A w \in Workers : WF_vars(TxStep(w))

-----------------------------------------------------------------------------
(* Properties.                                                             *)

Job == Commands \cup Timer \cup {NoJob}

Labels == {"idle", "mark", "load", "append", "enqueue", "commit"}

\* The shape of the tables and of the open transactions.
TypeOK ==
    /\ events \in [Streams -> Seq(Recorded)]
    /\ inbox \subseteq {c.id : c \in Commands}
    /\ acked \subseteq {c.id : c \in Commands}
    /\ timers \subseteq Timer /\ fired \subseteq Timer
    /\ outbox \subseteq OutboxRow
    /\ pc \in [Workers -> Labels]
    /\ job \in [Workers -> Job]
    /\ seen \in [Workers -> SeatState]
    /\ origin \in [Workers -> Meta]
    /\ row \in [Workers -> Nat]
    /\ tries \in [Handlers -> 0 .. ConflictRetries]
    /\ serial \in Nat
    /\ due \in [Schedulers -> SUBSET Timer]
    /\ now \in 1 .. MaxTime
    /\ faults \in 0 .. MaxFaults

Ends(e, f) == f.msg.type = "SeatHeld" /\ e.msg.hold = f.msg.hold

(***************************************************************************)
(* No seat is sold twice.  Whatever handlers and schedulers race, a        *)
(* stream alternates between a SeatHeld and the release or expiry of that  *)
(* very hold: the optimistic append of eventstore.Append plus the reload   *)
(* of Handle keep a decision from being appended to a state it was not     *)
(* made from.                                                              *)
(***************************************************************************)
StreamAlternates ==
    \A s \in Streams : \A i \in DOMAIN events[s] :
        IF events[s][i].msg.type = "SeatHeld"
        THEN i > 1 => events[s][i - 1].msg.type # "SeatHeld"
        ELSE i > 1 /\ Ends(events[s][i], events[s][i - 1])

(***************************************************************************)
(* A hold is never left without a deadline (the comment on                 *)
(* applyInOneTransaction): as long as a seat is held its timer is pending, *)
(* through conflicts, aborted claims, stale timers and pruning.            *)
(***************************************************************************)
HoldNeverStranded ==
    \A s \in Streams :
        LET state == Fold[events[s]]
        IN  state.status = "held" =>
                [seat |-> s, version |-> state.version,
                 fireAt |-> state.expires, token |-> state.hold] \in timers

(***************************************************************************)
(* However often a command is delivered, to however many handlers, and     *)
(* whether or not a commit was acknowledged, it is answered at most once   *)
(* and changes at most one stream, once: inbox.MarkConsumed inside the     *)
(* transaction.                                                            *)
(***************************************************************************)
AppliedOnce ==
    /\ \A q, r \in outbox : q.meta.cause = r.meta.cause /\ q.meta.cause # NoCause => q = r
    /\ \A s, t \in Streams : \A i \in DOMAIN events[s], j \in DOMAIN events[t] :
        /\ events[s][i].meta.cause = events[t][j].meta.cause
        /\ events[s][i].meta.cause # NoCause
        => s = t /\ i = j

(***************************************************************************)
(* When Handle returns nil the saga has an answer coming: a row of the     *)
(* outbox about its hold, in its flow.  A conflict that rolled the inbox   *)
(* row back, a duplicate and a lost commit answer included.                *)
(***************************************************************************)
AckedIsAnswered ==
    \A c \in Commands : c.id \in acked =>
        \E r \in outbox : /\ r.meta = [corr |-> c.corr, cause |-> c.id]
                          /\ r.msg.hold = c.hold
                          /\ r.seat = c.seat

(***************************************************************************)
(* Events and announcements commit together: each event of each stream has *)
(* one outbox row with its message and its metadata, and a row that claims *)
(* a version announces the event that is there.                            *)
(***************************************************************************)
EveryEventAnnounced ==
    /\ \A s \in Streams : \A v \in DOMAIN events[s] :
        \E r \in outbox : r.seat = s /\ r.version = v
    /\ \A r \in outbox : r.version # 0 =>
        /\ r.version \in DOMAIN events[r.seat]
        /\ events[r.seat][r.version] = [msg |-> r.msg, meta |-> r.meta]

(***************************************************************************)
(* The saga that took the hold is told of its expiry: an expiry, which     *)
(* arrives with no envelope, carries the correlation id of the SeatHeld it *)
(* ends, though other flows wrote to the stream before.  And never early:  *)
(* that SeatHeld's deadline has passed, though timers of earlier holds of  *)
(* the seat fire in the meantime (Expirer.Fire gives Expire their token).  *)
(***************************************************************************)
ExpiryReachesHolder ==
    \A s \in Streams : \A i \in DOMAIN events[s] :
        events[s][i].msg.type = "SeatHoldExpired" =>
            /\ i > 1
            /\ events[s][i].meta = [corr |-> events[s][i - 1].meta.corr, cause |-> NoCause]
            /\ AsTime(events[s][i - 1].msg.expires) <= now

(***************************************************************************)
(* The poller publishes by row id, and ids are handed out before commit.   *)
(* Still the rows of one seat's events have ids in the order of their      *)
(* versions, and no two rows share an id.                                  *)
(***************************************************************************)
AnnouncedInOrder ==
    \A q, r \in outbox :
        /\ q.id = r.id => q = r
        /\ q.seat = r.seat /\ 0 < q.version /\ q.version < r.version => q.id < r.id

(***************************************************************************)
(* Every hold ends: however often a seat is taken it becomes free again,   *)
(* even if no release ever arrives, through version conflicts, failed      *)
(* transactions and schedulers that forget their batch (Scheduler.Run).    *)
(***************************************************************************)
HoldEnds == \A s \in Seats : []<>(Fold[events[s]].status = "free")

-----------------------------------------------------------------------------
(* The refinement of SeatReservation: the holder is what the committed     *)
(* stream folds to, a command is settled when its inbox row is committed.  *)

FreeSeat == [hold |-> NoHold, until |-> ZeroTime]

HolderOf(s) == [hold |-> Fold[events[s]].hold, until |-> Fold[events[s]].expires]

CommandDeadline(c) == AsTime(c.expires)

Reservation == INSTANCE SeatReservation WITH
    Seats <- Streams,
    Free <- FreeSeat,
    Deadline <- CommandDeadline,
    holder <- [s \in Streams |-> HolderOf(s)],
    settled <- inbox,
    clock <- now

\* The transactions, the log and the timers implement the promise above.
ReservationSpec == Reservation!Spec
=============================================================================
