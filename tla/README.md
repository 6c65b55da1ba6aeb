# A TLA+ model of sagaflow

sagaflow is a Go implementation of event-sourced services that take part in
sagas. At this commit one service exists, `inventory`: it holds seats, releases
them and expires holds nobody released. It keeps an event log, an inbox, timers,
an outbox and a read view in one Postgres database, and talks to the sagas over
Kafka. This directory models that service: what its transactions, background
loops and consumers do when they interleave, fail and are retried.

## 1. The system

| Component | Code | State | Operations |
|---|---|---|---|
| seat decisions | `internal/inventory/seat.go` | none: functions from a folded stream | `Hold`, `Release`, `Expire`, the fold |
| command handler | `inventory/commands.go`, `store.go` | one transaction per record | `Handle`: mark, load, decide, append, schedule, enqueue, commit; up to `ConflictRetries` reloads |
| event store | `platform/eventstore` | `events`, unique on (stream, version) | `Append`, `Load`, `Streams` |
| inbox | `platform/inbox` | ce_ids of applied commands | `MarkConsumed`, `Prune` (no caller) |
| timers | `platform/timers`, `inventory/expiry.go` | `timers` with `fired_at` | `Due`, `MarkFired`, `Expirer.Fire`, `Prune`, the `Scheduler` loop |
| outbox | `platform/outbox/outbox.go` | `outbox`, ids from a sequence | `Enqueue` |
| outbox poller | `platform/outbox/poller.go` | an advisory lock, a drain transaction | `Run`, `TryElect`, `drain`, `Prune`, release |
| Kafka consumer | `platform/kafka/consumer.go` | fetch position, marks, group offsets | poll, handle with retries, dead-letter, mark; close |
| availability view | `inventory/projection.go` | `seat_availability` | `Project`, `Rebuild`, queries |
| service wiring | `inventory/wire.go`, `cmd/inventory`, `pg/`, `kafka/admin.go` | what `New` has opened, a shared context, pooled connections | `New` (migrate, open, resolve, create topics, connect), `Run`, `Close` |
| schemas | `platform/schema`, `cmd/schemactl` | the registry; ids a process resolved at start | pin and check the level, register; resolve, `Encode`, `Decode` |
| envelopes and stored events | `platform/envelope`, `platform/codec` | headers of a record, rows of `events` | `Headers`, `Parse`, `Encode`, `Decode` |

How they interact:

    topic --> Consumer --> Handle --+                       +--> Poller --> topic
                                    +-- one transaction --> outbox
    timers --> Scheduler --> Fire --+   (events, inbox, timers, outbox)
                                    |
    topic --> Consumer --> Project (reads events, writes the view) <-- Rebuild

The four loops of a process share a context and a connection pool and nothing
else in memory; they meet in the tables, in the consumer group and on the topic.
What is hard to get right is therefore:

* **races of transactions**: two handlers, or a handler and a scheduler, decide
  on the same version of a stream;
* **at-least-once everything**: commands and notifications arrive twice, out of
  order, at two instances; a commit's answer is lost; rows are published again;
* **several things in one commit**: event, announcement, timer and inbox row;
* **ids that become visible out of order**, and a poller that orders by id;
* **stale knowledge**: a timer that outlives its hold, a poller that has lost its
  lock, a batch that outlives its assignment, a fold older than the row, a schema
  id resolved before the last registration;
* **starting and stopping**: replicas that migrate one database at once, a start
  that fails half-way, a loop that fails while the others are busy, connections
  that goroutines still read;
* **things that must end**: holds, retries, rebuilds, unpublished rows, sleeps
  and shutdowns.

`PROJECT.json` lists each of these under `hazards`, at its line, with the
properties that would catch it.

## 2. The modules

| Module | Models | Remarks |
|---|---|---|
| `Seat` | `seat.go` | decisions and `Fold`, a recursive function, no state |
| `Inventory` | `commands.go`, `store.go`, `expiry.go`, `timers/`, `inbox.go`, `eventstore.go`, `outbox.go` | the write side as interleaved transactions |
| `SeatReservation` | what the write side promises | abstract: a holder per seat, settled commands, a clock |
| `Consumer` | `kafka/consumer.go`, the group | the group and franz-go are external |
| `Outbox` | `outbox/poller.go` | Postgres sessions and the broker are external |
| `Projection` | `projection.go`, `consumers.go` (Projections) | Project and Rebuild, statement by statement; the two reads |
| `Timers` | `timers/scheduler.go`, `timers/timers.go` | when the scheduler looks, against an explicit clock |
| `Service` | `wire.go`, `cmd/inventory`, `pg/`, `kafka/admin.go`, the connections of `poller.go` | replicas from start to exit; what a loop does with a record is in the other modules |
| `Rollout` | `schema/`, `cmd/schemactl`, `envelope.go`, `codec.go`, headers in `kafka/`, the contracts | builds from different commits; the registry is external |
| `InventoryProofs` | | theorems about the event log of `Inventory` |
| `ReservationProofs` | | theorems about its other tables, and the refinement of `SeatReservation` |
| `ConsumerProofs`, `OutboxProofs`, `ProjectionProofs`, `TimersProofs`, `ServiceProofs`, `RolloutProofs` | | theorems about the module of that name |
| `MC*` | | small instances for TLC |

A definition whose comment starts with *Mutant:* is a plausible wrong version of
the definition that follows it. No specification uses it; it shows that the
properties would notice.

### Inventory

A worker is a command handler (one per consumer instance) or a timer scheduler.
Each runs one READ COMMITTED transaction at a time, and its `pc` names the next
statement:

| Action | Code |
|---|---|
| `Deliver` | a record reaches `Handle`; any command, any number of times |
| `MarkConsumed`, `Duplicate` | `inbox.MarkConsumed` inserts, or finds its row |
| `Tick` | `Due`: a batch of due timers; claims nothing |
| `MarkFired` | the claim of one timer, or the discovery that it has been fired |
| `LoadSeat` | `LoadSeat` and the decision, including the early exits |
| `AppendSeat`, `VersionConflict` | `Append` against the unique key |
| `Enqueue`, `EnqueueInvalid` | `scheduleTimers`, `Enqueue`, `Message.Validate` |
| `Commit`, `CommitUnacknowledged`, `Abort` | the end of `pg.WithTx` |
| `Prune`, `LoseBatch`, `Advance` | retention, a restarted scheduler, the clock |

What a transaction will write is a function (`Decision`) of the job and of the
stream it loaded, so the model keeps only those two until the commit. Postgres
row locks appear in two guards: `Claimed` (an uncommitted inbox or timer row)
and `VersionTaken` (an uncommitted event). Both make the second writer wait, and
both let it go on if the first one rolls back.

A hold id stands for the hold and its booking id. Times are small integers;
`NoDeadline` is a nil timestamp and `AsTime` turns it into the Unix epoch, as the
protobuf library does.

### Consumer

`committed` is the group's offset, `fetched`, `next` and `marked` are one
member's positions. The handler is anything the `Handler` contract allows:
success, a temporary failure, a permanent one for malformed records. A rebalance
waits for the batch (`BlockRebalanceOnPoll`) except when the batch outlives
`RebalanceTimeout` (`Evict`). `stalled` is a local of `handleBatch` and ends with
it.

### Outbox

A row is inserted, becomes visible later and is then claimed, published, marked
and pruned. `Events` are the rows that announce an event: those of one stream are
inserted after one another, because their versions are unique in the events table.
The other rows are replies (`SeatUnavailable`, re-announcements); they have the
seat's key and topic too (`commands.go:179-181`), but append nothing, so they are
inserted and become visible at any time.

The advisory lock and the drain transaction live on two connections. A drain ends
with a rollback that reaches the server, or its connection ends first and the server
keeps the rows locked until it notices (`Orphaned`, `ReapDrain`). A shutdown is
always of the second kind: `tx.Rollback` runs under the cancelled context
(`poller.go:182`), so pgx drops the connection, while `release` unlocks the election
at once on the other one (`poller.go:292-299`). After a crash the server has both
connections, and forgets them in any order (`Ghost`, `orphans`). A publish that
fails, or is cut off, leaves of each key a prefix (`Leftover`).

`crashed`, `lost` and `skipped` only remember: that a process died, that a live
poller lost its election session, that a drain stepped over rows of an ended
connection. `EveryRowPublished` excepts the first, `StreamInOrder` the other two.

### Projection

A row of the view is the fold of a prefix of its stream, so its version stands
for it. `Rebuild` is modelled as its statements: enumerate, delete (which locks
one row after the other), then a load and an upsert for each stream. A
notification is an event's or a mere reply's; it may be dead-lettered.
`LoadAvailability` and `HeldSeats` read the stored columns back: the status as
text, the zero time as NULL.

### Timers

Time is explicit and a pass takes none. A scheduler reads a batch (`Tick`), tries
one timer after the other (`FireOne`, `FireFails`), asks for the next deadline and
sleeps (`FallAsleep`, `LookupFails`) until `Wake` or the prune ticker. `Bad` timers
fail on every pass. Schedulers stop and start, but one is always up: nothing is
promised of a time without one.

### Service

`pc` walks a replica through `main`, `New` and `Close`, `loop` each of its four
goroutines through `Run`. A loop at work is a connection taken from the pool of
`MaxConns`; the poller holds one for its election, one for LISTEN and one while it
drains, so a process never uses more than six of ten. `failure` is an error that
`New` or a loop has returned. `elected` and `migrating` are the two session locks of the
database. A killed process gives both back at once here; how long the server may
take over that, and what then happens to rows, is in `Outbox`.

### Rollout

A commit is a set of fields for each message type (`Proto`; commit 1 is this
repository's). `schemactl` is a sequence of calls that may stop anywhere. A
process resolves the latest id of each type it speaks, one call at a time, and
from then on frames and reads with these ids. Handling a command replays the
stored events of the stream, so one event with a field the build does not know
fails the command. Headers are functions from names to values; they go through
`Headers`, the wire, `ToRecord`, `Parse`, and through a dead letter and back.

### SeatReservation

The promise to the sagas: a free seat is taken by a command, given back by the
holder's own release or after the holder's deadline, and a command takes effect
at most once. `Inventory!Reservation` maps the fold of the committed stream to
the holder and the inbox to the settled commands.

## 3. The runs

| Run | Checks | Shows |
|---|---|---|
| `inventory_race` | `StreamAlternates`, `AppliedOnce`, `AckedIsAnswered`, `HoldNeverStranded`, `EveryEventAnnounced`, `AnnouncedInOrder`, `ExpiryReachesHolder` | two handlers and a scheduler fight for one seat with a hold, its re-dispatch, its release and a rival, through a rollback, a lost commit answer or a forgotten batch |
| `inventory_spread` | `ReservationSpec`, `HoldEnds` | two schedulers with overlapping batches of one, two seats, a hold without a deadline, a command without a seat: the write side implements `SeatReservation`, and holds end |
| `consumer` | `NothingSkipped`, `HandledInOrder`, `ExclusiveBatch`, `EveryRecordSettled` | rebalances, evictions, crashes, shutdowns and refused dead letters in mid batch |
| `consumer_dlq` | `CommittedIsSettled` is violated | see finding 1 |
| `outbox` | `MarkedIsOnTopic`, `StreamInOrder`, `EveryRowPublished` | failures, shutdowns, crashes and lost sessions, with a reply between two events; order of the events and completeness through failures and hand-overs |
| `outbox_standby` | `StandbyTakesOver` is violated | see finding 2 |
| `projection` | `VisibleUntilRebuilt`, `BrowseIsCurrent`, `NeverDraggedBack`, `RebuildFinishes`, `EveryEventVisible` | notifications in any order, twice, dead-lettered, two projectors and a rebuild; no circular wait; what the reads return |
| `projection_lost` | `SettledIsVisible` is violated | see finding 3 |
| `service` | `ServesWhenReady`, `NoUseAfterClose`, `NothingLeftOpen`, `AllLoopsOrNone`, `Exits` | two replicas start, fail, serve, are signalled and killed |
| `rollout` | `NeverBreaks`, `HandledAsSent`, `SettledWhileUnchanged`, `EnvelopeKept` | contracts change, compatibly and not, while processes come and go |
| `rollout_mixed` | `RegisteredIsReadable` is violated | see finding 4 |
| `timers` | `NeverLate`, `NoSpin`, `FiredThenPruned` | sleeping, failing, stopping and pruning schedulers against the clock |

Every passing run but `inventory_spread` also checks its module's `TypeOK`.

### Bounds

Every bound is a named constant. One seat is enough for races on a stream,
because transactions on different streams share nothing but the timer batch and
the outbox sequence; `inventory_spread` has two for those. Two handlers and one
scheduler give every pair of actors that can meet; a third handler would wait
where the second does. `ConflictRetries` is 1 (3 in the code) so that both a
retry and its exhaustion happen; `MaxAttempts` is 2 (5) for the same reason.
Between the two runs of `Inventory` deadlines lie before, at and after the clock
when a command arrives. One fault is enough in
`Inventory` because it is chosen nondeterministically, of any kind and at any
step, and the properties are about a single lost or repeated step. `Consumer` and
`Outbox` allow two disruptions of any kinds, so that one may strike the recovery
from another. One partition has a record behind a failing one, the other must
keep flowing. Three outbox rows, two events and a reply of one stream, and a batch
of two: a batch may split the events or not, and the reply may become visible
against the ids of either. (A fourth row, of another stream, makes the run too long;
the theorems hold for any rows.) In `Projection` two events may be of one seat or of
two, and a reply may take the place of one. In `Timers` one place of a batch of two may be
taken for good, and six ticks leave room for two sleeps of `MaxSleep` past the
last deadline. `Service` has two migrations, so that a replica may die between
them, and two starts in all: two replicas at once, or one twice. `Rollout` has one
record, which may be sent by either build, handled by either and redriven once.

`Inventory` is checked for deadlock. The other modules rest when their finite
inputs (a log, a set of rows, a number of events, starts or sends) are used up,
and run without that check; their liveness properties show that nothing rests
too early.

Symmetry over workers, and over the timers that do not always fail, is used in
`inventory_race` and `timers`, which have no liveness property.

### Fairness

Each formula promises that *something* goes on, never which process or which
row.

* `Inventory!FairSpec`: a statement sent to Postgres is answered, `Scheduler.Run`
  sleeps at most `MaxSleep` before another pass, time passes. Nothing makes a
  command arrive, so `HoldEnds` cannot lean on a release.
* `Consumer!FairSpec`: while members can poll, handle, finish a cancelled run, be
  restarted or be given a free partition, one of them does. The handler may fail on
  every call: only the retry budget ends a failing record. Disruptions are finitely
  many.
* `Outbox!FairSpec`: `PollFloor` wakes the active poller, the server ends
  sessions whose connection is gone. `RestartingSpec` adds restarts, which
  `EveryRowPublished` needs (finding 2); after a crash even those may not be enough,
  because the restarted poller may find the dead one's lock and stand by for good,
  so the property excepts it.
* `Projection!FairSpec`: some transaction that can go on does, and records that
  wait are handed out, which is what `Consumer!EveryRecordSettled` is about.
* `Service!FairSpec`: while a process is stopping, some stopping process takes a
  step. Nothing is promised of a process that serves.

## 4. Findings

1. **A failed dead letter loses its record** (`consumer.go:187`, run
   `consumer_dlq`). `stalled` lasts for one batch; the fetch position is past the
   record, so the next poll returns the records behind it and their marks commit
   the group past it. `consumer.go:201-202` and the design spec (section on
   stalled partitions, lines 668-669) say that nothing later is marked and the
   partition stalls.
2. **A standby poller never takes over** (`poller.go:52`, run `outbox_standby`).
   `Run` tries the election once and then waits for its own shutdown;
   `poller.go:42-43` says it waits "ready to take over if the winner goes away".
3. **A rebuild can delete a seat's row for good** (`projection.go:68`, run
   `projection_lost`). Under READ COMMITTED the enumeration and the DELETE are two
   snapshots; `projection.go:59-61` speaks of one. A seat whose first event is
   projected between them vanishes from the view until its next event.

4. **A record under an id of another time is dead-lettered** (`serde.go:53`, run
   `rollout_mixed`). Each process knows one id per type, the latest when it
   started. After a compatible version is registered, records of a restarted sender
   are unreadable to a service that was not restarted, and the other way round;
   `Commands` makes that a permanent failure. `schema/doc.go:11-14` wants services
   "deployed on different days" to "keep working against messages the producer half
   already started sending". `HandledAsSent` and `NeverBreaks` hold regardless: no
   record is misread and no incompatible version gets in.

Divergences met while modelling that have no run of their own:

* Compensations are dead-lettered after `MaxAttempts` like any other record
  (`consumer.go:242`), while `seat.go:144-146` says a compensation "retries
  with backoff forever rather than ever landing on a dead-letter queue" and
  `docs/architecture.md:347` "Compensations never dead-letter". The seat then
  waits for its deadline
  (`HoldEnds`).
* A poller that has lost its election session does not notice
  (`poller.go:71`). With a second poller elected, SKIP LOCKED lets the two publish
  rows of one stream in the wrong order, which `poller.go:20` and the design spec
  (line 611) exclude. `StreamInOrder` excepts it (`lost`); `MarkedIsOnTopic` holds
  regardless.
* A graceful shutdown in the middle of a drain opens the same window without two
  pollers: `poller.go:182` drops the drain's connection under the cancelled context,
  `poller.go:294-298` "hands over immediately". A poller started before the server
  has noticed steps over the locked rows (SKIP LOCKED) and publishes their
  successors first. So does a poller that is elected after a crash whose election
  connection is reaped before its drain connection, and one that goes on after its
  own drain connection broke. `StreamInOrder` excepts a drain that stepped over such
  rows (`skipped`); a shutdown, crash or failure that the server notices before the
  next claim does no harm. The phase 4a plan (line 5) says of the poller that it
  "cannot reorder a stream".
* A reply draws its row's id and commits with no regard to the seat's events: with one
  poller and no failure, a reply with id 5 can become visible after the event with
  id 6 has been published, and follow it on the topic. `commands.go:181` says of the
  key that it "preserves per-seat ordering"; that holds of the events
  (`AnnouncedInOrder`, `StreamInOrder`), not of replies.
* A transaction that only replies appends nothing, so no unique key protects it:
  it may commit after its stream has moved on (`store.go:26`;
  `store.go:16-17` and `eventstore.go:105-107` say of the load and what follows in
  its transaction that "nothing can interleave"). The re-announcement of a live
  hold can follow its expiry in
  the outbox.
* A hold without a deadline expires at the Unix epoch, not at the zero time of
  Go, so its timer is due at once (`seat.go:136-138`). Both are past, so
  the effect the comment names is the same.
* A frame's id is the latest version's when the process started, not the version
  the build was generated from: a build older than the registry frames its records
  under a newer id, and the other way round, while `schema/doc.go:1-3` says a
  consumer can tell "which version of it a sequence of bytes was encoded from".
* `codec.go:28-33` rejects unknown fields because a reader older than the writer is
  "meant to" be ruled out. A rolling deployment is such a reader: a replica of the
  old build that loads a stream a new one has written fails the command on every
  attempt and dead-letters it (`Rollout!Replays`), and its scheduler fails the
  seat's timer on every pass until a new build fires it.
* `codec.go:15-18` says of an unknown type that "the caller dead-letters the
  message immediately"; the callers (`consumers.go`, `scheduler.go`) treat it like
  any other error and retry.
* A poller whose listener has lost its connection goes on with `PollFloor` alone and
  never listens again (`poller.go:136-138`).

## 5. What is proved

Every safety property that a passing run checks is also a theorem, for every value
of the constants, and so is the refinement of `SeatReservation`. The runs show that
the properties can be violated (each has a mutant that does) and that the model
moves; the theorems, that nothing depends on the size of the instance.

| Module | Theorems (the property each states) |
|---|---|
| `InventoryProofs` | `TypeCorrect` (`TypeOK`), `Alternation` (`StreamAlternates`) |
| `ReservationProofs` | `NeverStranded` (`HoldNeverStranded`), `Once` (`AppliedOnce`), `Answers` (`AckedIsAnswered`), `Announced` (`EveryEventAnnounced`), `AnnouncedOrder` (`AnnouncedInOrder`), `ExpiryTold` (`ExpiryReachesHolder`), `Refinement` (`ReservationSpec`) |
| `ConsumerProofs` | `TypeCorrect`, `AtLeastOnce` (`NothingSkipped`), `InOrder` (`HandledInOrder`), `Exclusion` (`ExclusiveBatch`) |
| `OutboxProofs` | `TypeCorrect`, `NoLoss` (`MarkedIsOnTopic`), `InOrder` (`StreamInOrder`) |
| `ProjectionProofs` | `TypeCorrect`, `NotDraggedBack` (`NeverDraggedBack`, an action property), `Visible` (`VisibleUntilRebuilt`), `Browse` (`BrowseIsCurrent`) |
| `TimersProofs` | `TypeCorrect`, `OnTime` (`NeverLate`), `Paced` (`NoSpin`), `RowsInOrder` (`FiredThenPruned`, an action property) |
| `ServiceProofs` | `TypeCorrect`, `Ready` (`ServesWhenReady`), `InUseIsOpen` (`NoUseAfterClose`), `NothingLeft` (`NothingLeftOpen`), `LoopsTogether` (`AllLoopsOrNone`) |
| `RolloutProofs` | `TypeCorrect`, `Evolves` (`NeverBreaks`), `KeptApart` (`HandledAsSent`), `NothingLost` (`SettledWhileUnchanged`), `FlowKept` (`EnvelopeKept`) |

Each of these modules states an inductive invariant (`IInv`, in `ReservationProofs`
`FullInv`), shows that the initial states satisfy it and that every action keeps it
(one lemma or step per action), and derives the properties from it. Each invariant
was checked by TLC on the instances of the runs before it was proved.

### Assumptions

They are the named ones of the modules, and TLC evaluates them in every run:

* `Inventory`: `CommandAssumption` (the shape of commands; a ce_id names one
  message), `WorkerAssumption` (handlers and schedulers are distinct),
  `BoundAssumption` (the bounds are numbers), and `DeadlineAssumption`, that the
  HoldSeats of one hold repeat one deadline. The last is used (`OneDeadline`) for
  `ExpiryReachesHolder` and the refinement: without it a timer of an earlier
  deadline could end a hold that was taken again with a later one.
* `Consumer`, `Outbox`, `Projection`, `Service`: the bounds are numbers, and what
  stands for nobody is nobody; the events of `Outbox` are rows. No set is assumed to
  be finite. That the events of a stream are inserted after one another is the guard
  of `Outbox!Insert`, and what `Inventory` shows of the writers (`AnnouncedInOrder`).
* `Timers`: the table is finite, there is a scheduler, `MinSleep` is at most
  `MaxSleep`, and fewer timers than a batch has places fail on every pass.
* `Rollout`: commit 1 has the contracts of this repository; the others have any
  `.proto` files.

### The log: `InventoryProofs`

`StreamAlternates` is not inductive: a state in which a worker is about to commit
a decision made on some other state satisfies it. `IInv` adds

* `JobOK`: an open transaction works on a command, or on a timer;
* `VersionOK`: the version of a fold is the length of the stream;
* `SeenOK`: what a transaction loaded is the stream as it is, or an older one;
* `AppendOK`: a transaction that has inserted its event inserted it at the next
  version of the stream as it is now;
* `Exclusive`: no two transactions have inserted events of one stream.

The argument: `AppendSeat` waits for an uncommitted row with its key, so at most
one transaction per stream is past it (`Exclusive`); until that one ends nobody
else can commit to the stream, so its version stays the next one (`AppendOK`); a
loaded version that is still the current one means the loaded state is the
current state (`SeenOK`, `VersionOK`); and a decision on the current state may
follow it (`DecideWellFormed`, `ExpireWellFormed`, `FoldLast`).

`FoldDef`, that the recursive function `Fold` satisfies its equation, needs no
induction: `Apply` uses nothing of the state before but its version, so a closed
form solves the equation.

### The tables and the promise: `ReservationProofs`

`FullInv` is `IInv` and `EInv`, which relates the other tables to the open
transactions:

* `InboxOK`: what is acknowledged is in the inbox, what is there has its answer in
  the outbox, and no two rows have one cause;
* `TimersOK`: deadlines, in timers, batches and events, are ones a command of the
  hold has (`Genuine`), and a timer is not older than its SeatHeld;
* `RowsOK`: ids are in the order of versions and below the sequence;
* `ClaimOK` and `PairsOK`: a transaction past its inbox row is the only one with its
  command, which is not in the inbox; no two have drawn one id;
* `FireOK`, `LoadOK`: a scheduler's timer is due, and what it loaded is not older
  than the timer's SeatHeld; an up-to-date load has the flow of the last event;
* `DrawOK`: a drawn id is new and, if its transaction appends, above those of all
  events of its stream.

A commit is split by what it makes visible (`CommitCases`): nothing but a fired
timer, a reply, or one event with its announcement. The two delicate cases are
timers that find nothing to expire and ids that overtake each other. A scheduler
that fires a timer without effect has loaded at least the version of its SeatHeld
(`LoadOK`); if that were the live hold it would have seen it, so the timer it
discards is not the one `HoldNeverStranded` needs (`StrandedCommit`). And a
transaction draws its id after its event is in place, so whoever writes the next
version has seen the commit of this one and draws later (`DrawOK`).

`Refinement` maps each commit of an event to `Take`, `GiveBack` or `RunOut`, that of
a reply to `Answer`, the clock to `Pass` and everything else to a stuttering step.
That a held seat is never mistaken for a free one rests on `GenuineTime`: AsTime
makes the epoch of an absent deadline, and not the zero time a free seat has.

### The other components

* `Consumer`. `BehindOK`: nothing unsettled lies behind a commit, behind a mark, or
  behind the position of a partition that a member goes on with. A member that is
  shut down stops marking at a record it has not finished, which is what `GoesOn`
  separates; `HandOK` says that a record whose retries are over is settled.
* `Outbox`. Until a session is lost the active poller is the one with the lock
  (`Sole`), so the only rows another connection may have locked when it claims are
  orphans. An event is inserted only after the earlier events of its stream have
  committed (`KeyOrder`). So a claim that steps over no orphan lists its events after
  the earlier ones that are not on the topic (`ClaimOrder`), and what a failed or
  cut-off publish leaves of it keeps that order (`LogOrder`). Replies are in none of
  the three: nothing orders them.
* `Projection`. A row is locked by one transaction at a time (`LocksOK`); what a
  transaction has written, or what a rebuild is about to write over a row it has
  locked, is not older than the committed row (`RowsOK`); a projector that was handed
  a notification has loaded at least its version (`NoticesOK`).
* `Timers`. `OnTimeOK`: no scheduler sleeps past what a pending timer may still
  wait, where what may be waited (`Slack`) grows with every fault and every other
  timer that is out of the way. A scheduler in the middle of a pass has a
  `MinSleep` to spare or a timer in its batch that will give it one. `PassesOK`
  does the accounts of `NoSpin`.
* `Service`. What a replica holds is told by its labels: `ReadyOK` for the steps of
  `New`, `LoopsOK` for the connections of each loop, `LocksOK` for the two session
  locks; `AppliedOK` says the migrations have run once each, in order.
* `Rollout`. `CtlOK`: schemactl registers only behind a level it has read back as
  BACKWARD, so that `NeverBreaks` is kept by comparing with the latest version alone;
  `ProcOK`: an id resolved for a type is one of its subject; `MessagesOK`: a record
  wherever it is, and after any number of redrives, still has the frame and the
  headers that were sent.

### Only model-checked

Everything that must eventually happen, because fairness and ENABLED are outside the
prover: `HoldEnds`, `EveryRecordSettled`, `EveryRowPublished`, `RebuildFinishes`,
`EveryEventVisible` and `Exits`; and that `Inventory` does not deadlock. The four
expected violations are counterexamples and need no proof.

## 6. What is not modelled

* LISTEN/NOTIFY as a signal: it shortens a wait that `PollFloor` bounds anyway. Its
  connection and goroutine are in `Service`.
* JSON, protobuf and header encodings beyond which names and fields they carry;
  flags, logging, file reading.
* `BatchSize` timers that all fail on every pass, and an outbox row the broker always
  refuses: either holds up everything behind it for good, plainly from the code
  (`timers.go:43-48`, `producer.go:53`). `NeverLate` assumes fewer bad timers than
  places.
* A consumer without a dead-letter producer: only tests have one.
* `inbox.Prune`: nothing calls it yet. Down-migrations: nothing runs them.
* The booking service: only its migrations exist.
* The accessors and descriptors of the generated code; the containers and fixtures
  of `internal/testsupport`.

## 7. Plan

Modules: done are `Seat`, `Inventory`, `SeatReservation`, `Consumer`, `Outbox`,
`Projection`, `Timers`, `Service` and `Rollout`. Left:

1. Inbox retention against Kafka's, once something calls `inbox.Prune`.
2. A composition of `Inventory`, `Outbox` and `Consumer` that follows one command
   from the topic to its answer on the topic, with an abstract specification of
   exactly-once effect over at-least-once delivery.
3. The saga, when the booking service has one.

Theorems: the safety properties of all runs and the refinement are proved. Left are
those of the composition above, once it exists.
