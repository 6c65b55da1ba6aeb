------------------------------ MODULE Service ------------------------------
(***************************************************************************)
(* The inventory process (cmd/inventory, internal/inventory/wire.go) from  *)
(* start-up to exit: migrations, the pool, the Kafka clients, the four     *)
(* loops of Run and their shared context, the pooled connections the loops *)
(* use, and Close.                                                         *)
(*                                                                         *)
(* Several replicas start against one database and one broker.  What a     *)
(* loop does with a record, a timer or a row is in the other modules; here *)
(* it is a connection taken from the pool and given back.                  *)
(***************************************************************************)
EXTENDS Integers, Sequences, FiniteSets

CONSTANTS
    Replicas,
    Nobody,
    Migrations,     \* number of migration files
    MaxStarts,      \* bound: processes started
    MaxFaults       \* bound: calls that fail and processes that are killed

ASSUME ReplicaAssumption ==
    /\ Nobody \notin Replicas
    /\ Migrations \in Nat /\ MaxStarts \in Nat /\ MaxFaults \in Nat

Consumers == {"commands", "events"}
Loops     == Consumers \cup {"outbox", "timers"}
Topics    == {"topics", "dlq topics"}   \* of commands and events alike

\* pg.Open.
MaxConns == 10

VARIABLES
    \* what the replicas share
    applied,    \* migrations that have run, in order
    migrating,  \* holder of the migrator's session lock
    topics,     \* topics that exist
    registered, \* schemactl has registered the subjects
    elected,    \* holder of the poller's session lock
    \* a process
    pc,         \* replica -> step of main, New, Run or Close
    at,         \* replica -> schema version its migrator has reached
    open,       \* replica -> what New has opened and Close has not closed
    cancelled,  \* replica -> the context is cancelled
    loop,       \* replica -> loop -> where it is
    conns,      \* replica -> users of a pooled connection
    listener,   \* replica -> the LISTEN goroutine is reading its connection
    failure,    \* replica -> New or a loop has returned an error
    starts, faults

shared == <<applied, migrating, topics, registered, elected>>
local  == <<pc, at, open, cancelled, loop, conns, listener, failure>>
vars   == <<shared, local, starts, faults>>

Off == [l \in Loops |-> "off"]

Init ==
    /\ applied = <<>> /\ migrating = Nobody
    /\ topics = {} /\ registered = FALSE /\ elected = Nobody
    /\ pc = [r \in Replicas |-> "down"]
    /\ at = [r \in Replicas |-> 0]
    /\ open = [r \in Replicas |-> {}]
    /\ cancelled = [r \in Replicas |-> FALSE]
    /\ loop = [r \in Replicas |-> Off]
    /\ conns = [r \in Replicas |-> {}]
    /\ listener = [r \in Replicas |-> FALSE]
    /\ failure = [r \in Replicas |-> FALSE]
    /\ starts = 0 /\ faults = 0

Goto(r, label) == pc' = [pc EXCEPT ![r] = label]

Free(lock, r) == IF lock = r THEN Nobody ELSE lock

-----------------------------------------------------------------------------
(* The world around the process.                                           *)

\* An operator has run schemactl (Rollout).
RegisterSchemas ==
    /\ ~registered /\ registered' = TRUE
    /\ UNCHANGED <<applied, migrating, topics, elected, local, starts, faults>>

Start(r) ==
    /\ starts < MaxStarts /\ starts' = starts + 1
    /\ pc[r] = "down"
    /\ Goto(r, "migrate")
    /\ UNCHANGED <<shared, at, open, cancelled, loop, conns, listener, failure, faults>>

\* SIGINT or SIGTERM, at any time.
Signal(r) ==
    /\ pc[r] # "down" /\ ~cancelled[r]
    /\ cancelled' = [cancelled EXCEPT ![r] = TRUE]
    /\ UNCHANGED <<shared, pc, at, open, loop, conns, listener, failure, starts, faults>>

\* The memory of a process goes with it.
Gone(r) ==
    /\ Goto(r, "down")
    /\ at' = [at EXCEPT ![r] = 0]
    /\ cancelled' = [cancelled EXCEPT ![r] = FALSE]
    /\ failure' = [failure EXCEPT ![r] = FALSE]
    /\ loop' = [loop EXCEPT ![r] = Off]

\* The process is killed; the servers end its sessions.
Kill(r) ==
    /\ faults < MaxFaults /\ faults' = faults + 1
    /\ pc[r] # "down"
    /\ Gone(r)
    /\ migrating' = Free(migrating, r) /\ elected' = Free(elected, r)
    /\ open' = [open EXCEPT ![r] = {}]
    /\ conns' = [conns EXCEPT ![r] = {}]
    /\ listener' = [listener EXCEPT ![r] = FALSE]
    /\ UNCHANGED <<applied, topics, registered, starts>>

-----------------------------------------------------------------------------
(* New: migrations.                                                        *)

\* Mutant: the migrator takes no lock.
MigrateUnlocked(r) ==
    /\ pc[r] = "migrate" /\ ~cancelled[r]
    /\ at' = [at EXCEPT ![r] = Len(applied)]
    /\ Goto(r, "migrating")
    /\ UNCHANGED <<shared, open, cancelled, loop, conns, listener, failure, starts, faults>>

\* Migrate connects, waits for the session lock, then reads schema_version.
Migrate(r) ==
    /\ pc[r] = "migrate" /\ ~cancelled[r]
    /\ migrating = Nobody /\ migrating' = r
    /\ at' = [at EXCEPT ![r] = Len(applied)]
    /\ Goto(r, "migrating")
    /\ UNCHANGED <<applied, topics, registered, elected, open, cancelled, loop, conns,
                   listener, failure, starts, faults>>

\* Mutant: one migration too many.
ApplyMigrationOver(r) ==
    /\ pc[r] = "migrating" /\ ~cancelled[r] /\ at[r] <= Migrations
    /\ applied' = Append(applied, at[r] + 1)
    /\ at' = [at EXCEPT ![r] = @ + 1]
    /\ UNCHANGED <<migrating, topics, registered, elected, pc, open, cancelled, loop, conns,
                   listener, failure, starts, faults>>

\* Each migration commits on its own, with the version it brings.
ApplyMigration(r) ==
    /\ pc[r] = "migrating" /\ ~cancelled[r] /\ at[r] < Migrations
    /\ applied' = Append(applied, at[r] + 1)
    /\ at' = [at EXCEPT ![r] = @ + 1]
    /\ UNCHANGED <<migrating, topics, registered, elected, pc, open, cancelled, loop, conns,
                   listener, failure, starts, faults>>

MigrateDone(r) ==
    /\ pc[r] = "migrating" /\ at[r] = Migrations
    /\ migrating' = Free(migrating, r)
    /\ Goto(r, "open")
    /\ UNCHANGED <<applied, topics, registered, elected, at, open, cancelled, loop, conns,
                   listener, failure, starts, faults>>

-----------------------------------------------------------------------------
(* New: the pool, and connect.                                             *)

\* The step label of New succeeds: it opens what, and next comes label2.
Opens(r, label, what, label2) ==
    /\ pc[r] = label
    /\ open' = [open EXCEPT ![r] = @ \cup what]
    /\ Goto(r, label2)
    /\ UNCHANGED <<at, cancelled, conns, listener, failure, starts, faults>>

\* pg.Open returns once the database has answered a ping.
OpenPool(r) ==
    /\ ~cancelled[r]
    /\ Opens(r, "open", {"pool"}, "serdes")
    /\ UNCHANGED <<shared, loop>>

\* serdes: every subject this service speaks resolves to an id.
Serdes(r) ==
    /\ registered /\ ~cancelled[r]
    /\ Opens(r, "serdes", {}, "topics")
    /\ UNCHANGED <<shared, loop>>

\* EnsureTopics: a topic that exists is no failure.
EnsureTopics(r) ==
    /\ ~cancelled[r]
    /\ topics' = topics \cup Topics
    /\ Opens(r, "topics", {}, "producer")
    /\ UNCHANGED <<applied, migrating, registered, elected, loop>>

\* The constructors of the clients are not told of the context.
NewProducer(r) ==
    /\ Opens(r, "producer", {"producer"}, "commands")
    /\ UNCHANGED <<shared, loop>>

NewCommands(r) ==
    /\ Opens(r, "commands", {"commands"}, "events")
    /\ UNCHANGED <<shared, loop>>

\* The last step of connect; Run then starts its four goroutines.
NewEvents(r) ==
    /\ Opens(r, "events", {"events"}, "running")
    /\ loop' = [loop EXCEPT ![r] = [l \in Loops |-> "idle"]]
    /\ UNCHANGED shared

\* Calls that are given the context fail once it is cancelled.
TakesContext == {"migrate", "migrating", "open", "serdes", "topics"}
Starting     == TakesContext \cup {"producer", "commands", "events"}

\* Mutant: New returns the error of connect and closes nothing.
FailStartUnclosed(r) ==
    /\ pc[r] \in Starting
    /\ migrating' = Free(migrating, r)
    /\ Gone(r)
    /\ UNCHANGED <<applied, topics, registered, elected, open, conns, listener, starts>>

\* A step of New fails: of EnsureTopics some of the work may be done.
FailStart(r) ==
    /\ pc[r] \in Starting
    /\ failure' = [failure EXCEPT ![r] = TRUE]
    /\ migrating' = Free(migrating, r)
    /\ \E made \in SUBSET Topics :
        /\ pc[r] # "topics" => made = {}
        /\ topics' = topics \cup made
    /\ Goto(r, "closing")
    /\ UNCHANGED <<applied, registered, elected, at, open, cancelled, loop, conns, listener, starts>>

\* ... because it is told to stop, or finds no schema ...
Refused(r) ==
    /\ \/ cancelled[r] /\ pc[r] \in TakesContext
       \/ ~registered /\ pc[r] = "serdes"
    /\ FailStart(r)
    /\ UNCHANGED faults

\* ... or because a server does not answer.
Unreachable(r) ==
    /\ faults < MaxFaults /\ faults' = faults + 1
    /\ FailStart(r)

-----------------------------------------------------------------------------
(* Run: connections and loops.                                             *)

At(r, l, label) == pc[r] = "running" /\ loop[r][l] = label

Move(r, l, label) == loop' = [loop EXCEPT ![r][l] = label]

\* pool.Acquire: waits while MaxConns connections are in use.
Acquire(r, user) ==
    /\ Cardinality(conns[r]) < MaxConns
    /\ conns' = [conns EXCEPT ![r] = @ \cup {user}]

Release(r, user) == conns' = [conns EXCEPT ![r] = @ \ {user}]

\* A consumer takes up a record, or the scheduler a query or a timer.  The
\* connection stands for the transactions of its attempts, one at a time.
Begin(r, l) ==
    /\ At(r, l, "idle") /\ ~cancelled[r]
    /\ Acquire(r, l)
    /\ Move(r, l, "busy")
    /\ UNCHANGED <<shared, pc, at, open, cancelled, listener, failure, starts, faults>>

\* The last transaction has ended, whichever way; a record that could not be
\* handled has been dead-lettered through the producer.
End(r, l) ==
    /\ At(r, l, "busy")
    /\ Release(r, l)
    /\ Move(r, l, "idle")
    /\ UNCHANGED <<shared, pc, at, open, cancelled, listener, failure, starts, faults>>

\* poll and the scheduler's select see the cancelled context: Run returns nil.
Return(r, l) ==
    /\ At(r, l, "idle") /\ cancelled[r]
    /\ Move(r, l, "done")
    /\ UNCHANGED <<shared, pc, at, open, cancelled, conns, listener, failure, starts, faults>>

-----------------------------------------------------------------------------
(* Run: the outbox poller.                                                 *)

\* TryElect: the winner keeps its connection, the loser returns it.
TryElect(r) ==
    /\ At(r, "outbox", "idle") /\ ~cancelled[r]
    /\ Cardinality(conns[r]) < MaxConns
    /\ IF elected = Nobody
       THEN elected' = r /\ Acquire(r, "election") /\ Move(r, "outbox", "elected")
       ELSE UNCHANGED <<elected, conns>> /\ Move(r, "outbox", "standby")
    /\ UNCHANGED <<applied, migrating, topics, registered, pc, at, open, cancelled, listener,
                   failure, starts, faults>>

\* listen: a second connection, and a goroutine that reads from it.
Listen(r) ==
    /\ At(r, "outbox", "elected") /\ ~cancelled[r]
    /\ Acquire(r, "listen")
    /\ listener' = [listener EXCEPT ![r] = TRUE]
    /\ Move(r, "outbox", "polling")
    /\ UNCHANGED <<shared, pc, at, open, cancelled, failure, starts, faults>>

\* Drain: a third, for the claiming transaction.
Drain(r) ==
    /\ At(r, "outbox", "polling") /\ ~cancelled[r]
    /\ Acquire(r, "drain")
    /\ Move(r, "outbox", "draining")
    /\ UNCHANGED <<shared, pc, at, open, cancelled, listener, failure, starts, faults>>

DrainEnds(r) ==
    /\ At(r, "outbox", "draining")
    /\ Release(r, "drain")
    /\ Move(r, "outbox", "polling")
    /\ UNCHANGED <<shared, pc, at, open, cancelled, listener, failure, starts, faults>>

\* Mutant: the goroutine waits under a context of its own, until Close.
ListenerEndsDeaf(r) ==
    /\ listener[r] /\ pc[r] = "closing"
    /\ listener' = [listener EXCEPT ![r] = FALSE]
    /\ UNCHANGED <<shared, pc, at, open, cancelled, loop, conns, failure, starts, faults>>

\* The goroutine ends with the context, or with its connection.
ListenerEnds(r) ==
    /\ listener[r] /\ cancelled[r]
    /\ listener' = [listener EXCEPT ![r] = FALSE]
    /\ UNCHANGED <<shared, pc, at, open, cancelled, loop, conns, failure, starts, faults>>

ListenerDrops(r) ==
    /\ faults < MaxFaults /\ faults' = faults + 1
    /\ listener[r] /\ ~cancelled[r]
    /\ listener' = [listener EXCEPT ![r] = FALSE]
    /\ UNCHANGED <<shared, pc, at, open, cancelled, loop, conns, failure, starts>>

\* Mutant: the connection goes back while the goroutine may still read it.
StopListeningNow(r) ==
    /\ At(r, "outbox", "polling") /\ cancelled[r]
    /\ Release(r, "listen")
    /\ Move(r, "outbox", "elected")
    /\ UNCHANGED <<shared, pc, at, open, cancelled, listener, failure, starts, faults>>

\* stopListening waits for the goroutine before it returns the connection.
StopListening(r) ==
    /\ At(r, "outbox", "polling") /\ cancelled[r] /\ ~listener[r]
    /\ Release(r, "listen")
    /\ Move(r, "outbox", "elected")
    /\ UNCHANGED <<shared, pc, at, open, cancelled, listener, failure, starts, faults>>

\* release, deferred: unlock, return the connection.
Unelect(r) ==
    /\ elected' = Free(elected, r)
    /\ Release(r, "election")

\* The poller's Run returns nil: it stood by, or gave up what it held, or its
\* first call met the cancelled context.
StopPolling(r) ==
    /\ \E label \in {"idle", "standby", "elected"} : At(r, "outbox", label)
    /\ cancelled[r]
    /\ Unelect(r)
    /\ Move(r, "outbox", "done")
    /\ UNCHANGED <<applied, migrating, topics, registered, pc, at, open, cancelled, listener,
                   failure, starts, faults>>

\* Mutant: a loop that fails does not stop the others.
FailLoopAlone(r) ==
    /\ faults < MaxFaults /\ faults' = faults + 1
    /\ \E label \in {"idle", "elected"} : At(r, "outbox", label)
    /\ Unelect(r)
    /\ Move(r, "outbox", "done")
    /\ failure' = [failure EXCEPT ![r] = TRUE]
    /\ UNCHANGED <<applied, migrating, topics, registered, pc, at, open, cancelled, listener,
                   starts>>

\* TryElect or listen returns an error: the only loop that can fail.  Its
\* goroutine reports it and cancels the other three.
FailLoop(r) ==
    /\ faults < MaxFaults /\ faults' = faults + 1
    /\ \E label \in {"idle", "elected"} : At(r, "outbox", label)
    /\ Unelect(r)
    /\ Move(r, "outbox", "done")
    /\ failure' = [failure EXCEPT ![r] = TRUE]
    /\ cancelled' = [cancelled EXCEPT ![r] = TRUE]
    /\ UNCHANGED <<applied, migrating, topics, registered, pc, at, open, listener, starts>>

-----------------------------------------------------------------------------
(* Run returns, Close, exit.                                               *)

\* running.Wait.
RunReturns(r) ==
    /\ pc[r] = "running" /\ \A l \in Loops : loop[r][l] = "done"
    /\ Goto(r, "closing")
    /\ UNCHANGED <<shared, at, open, cancelled, loop, conns, listener, failure, starts, faults>>

CloseOrder == <<"commands", "events", "producer", "pool">>

\* Close releases what New acquired, in order; the pool waits for every
\* connection to come back.
Close(r) ==
    /\ pc[r] = "closing"
    /\ \E i \in DOMAIN CloseOrder :
        /\ CloseOrder[i] \in open[r]
        /\ \A j \in 1 .. i - 1 : CloseOrder[j] \notin open[r]
        /\ CloseOrder[i] = "pool" => conns[r] = {}
        /\ open' = [open EXCEPT ![r] = @ \ {CloseOrder[i]}]
    /\ UNCHANGED <<shared, pc, at, cancelled, loop, conns, listener, failure, starts, faults>>

\* main returns; the exit status is 1 if there was a failure.
Exit(r) ==
    /\ pc[r] = "closing" /\ open[r] = {}
    /\ Gone(r)
    /\ UNCHANGED <<shared, open, conns, listener, starts, faults>>

-----------------------------------------------------------------------------
NewStep(r) ==
    \/ Migrate(r) \/ ApplyMigration(r) \/ MigrateDone(r)
    \/ OpenPool(r) \/ Serdes(r) \/ EnsureTopics(r)
    \/ NewProducer(r) \/ NewCommands(r) \/ NewEvents(r) \/ Refused(r)

LoopStep(r, l) == Begin(r, l) \/ End(r, l) \/ Return(r, l)

PollerStep(r) ==
    \/ TryElect(r) \/ Listen(r) \/ Drain(r) \/ DrainEnds(r)
    \/ ListenerEnds(r) \/ StopListening(r) \/ StopPolling(r)

Step(r) ==
    \/ NewStep(r) \/ RunReturns(r) \/ Close(r) \/ Exit(r)
    \/ \E l \in Loops \ {"outbox"} : LoopStep(r, l)
    \/ PollerStep(r)

Next ==
    \/ RegisterSchemas
    \/ \E r \in Replicas :
        \/ Start(r) \/ Signal(r) \/ Kill(r)
        \/ Step(r)
        \/ Unreachable(r) \/ ListenerDrops(r) \/ FailLoop(r)

Spec == Init /\ [][Next]_vars

\* New has failed, or the context is cancelled.
Stopping(r) == cancelled[r] \/ failure[r]

(***************************************************************************)
(* Fairness: while a process is stopping, some stopping process takes a    *)
(* step.  Which of them and which goroutine is not promised, and nothing   *)
(* is promised of a process that serves.                                   *)
(***************************************************************************)
FairSpec == Spec /\ WF_vars(\E r \in Replicas : Stopping(r) /\ Step(r))

-----------------------------------------------------------------------------
(* Properties.                                                             *)

\* The shape of the process and of what replicas share.
TypeOK ==
    /\ applied \in Seq(1 .. Migrations)
    /\ migrating \in Replicas \cup {Nobody} /\ elected \in Replicas \cup {Nobody}
    /\ topics \subseteq Topics /\ registered \in BOOLEAN
    /\ pc \in [Replicas -> Starting \cup {"down", "running", "closing"}]
    /\ at \in [Replicas -> 0 .. Migrations]
    /\ open \in [Replicas -> SUBSET {"pool", "producer", "commands", "events"}]
    /\ cancelled \in [Replicas -> BOOLEAN] /\ failure \in [Replicas -> BOOLEAN]
    /\ loop \in [Replicas -> [Loops -> {"off", "idle", "busy", "standby", "elected",
                                        "polling", "draining", "done"}]]
    /\ conns \in [Replicas -> SUBSET {"commands", "events", "timers",
                                      "election", "listen", "drain"}]
    /\ listener \in [Replicas -> BOOLEAN]
    /\ starts \in 0 .. MaxStarts /\ faults \in 0 .. MaxFaults

(***************************************************************************)
(* wire.go:48-50 on New: "Everything it can fail at ... fails here, before *)
(* a single message is consumed", and migrate.go:15-16: "concurrent        *)
(* migrations from two starting replicas safe".  Every migration has run   *)
(* exactly once and in order, though replicas start, fail and die at the   *)
(* same time, and where loops run the database is migrated, the topics     *)
(* exist with their dead-letter topics and the schemas are registered.     *)
(***************************************************************************)
ServesWhenReady ==
    /\ \A i \in DOMAIN applied : applied[i] = i
    /\ \A r \in Replicas : pc[r] = "running" =>
        /\ Len(applied) = Migrations
        /\ topics = Topics /\ registered
        /\ open[r] = {"pool", "producer", "commands", "events"}

(***************************************************************************)
(* wire.go:181-183 on Close: whatever a goroutine still uses is open, the  *)
(* producer for a dead letter in flight, the pool for a transaction; and a *)
(* connection that a goroutine reads is not back in the pool               *)
(* (poller.go:118-121).                                                    *)
(***************************************************************************)
NoUseAfterClose ==
    \A r \in Replicas :
        /\ conns[r] # {} => "pool" \in open[r]
        /\ \A l \in Consumers : loop[r][l] = "busy" => {"producer", l} \subseteq open[r]
        /\ loop[r]["outbox"] = "draining" => "producer" \in open[r]
        /\ listener[r] => "listen" \in conns[r]

(***************************************************************************)
(* A process that has ended, after a failed start, a shutdown or the       *)
(* failure of a loop, holds nothing: no client, no connection, no session  *)
(* lock another replica would wait for.                                    *)
(***************************************************************************)
NothingLeftOpen ==
    \A r \in Replicas : pc[r] = "down" =>
        /\ open[r] = {} /\ conns[r] = {} /\ ~listener[r]
        /\ migrating # r /\ elected # r

(***************************************************************************)
(* wire.go:146-147: "A service running three of its four loops is worse    *)
(* than one that stopped".  When one loop has ended the others have been   *)
(* told to.                                                                *)
(***************************************************************************)
AllLoopsOrNone ==
    \A r \in Replicas : pc[r] = "running" =>
        ((\E l \in Loops : loop[r][l] = "done") => cancelled[r])

(***************************************************************************)
(* A process that is told to stop, or one of whose loops has failed, comes *)
(* to its end: every loop notices, stopListening and pool.Close do not     *)
(* wait for ever.                                                          *)
(***************************************************************************)
Exits == \A r \in Replicas : Stopping(r) ~> pc[r] = "down"
=============================================================================
