------------------------------- MODULE Timers -------------------------------
(***************************************************************************)
(* When the timer scheduler (internal/platform/timers) looks, and what its *)
(* batches hold: Run, sleep, Tick and pruneFired against the clock.  What  *)
(* a timer does, and the transaction it does it in, is in Inventory; here  *)
(* a timer fires or its Firer returns an error.                            *)
(*                                                                         *)
(* Time is explicit.  A pass takes no time, so the clock stands while one  *)
(* is under way and never passes the end of a sleep.                       *)
(***************************************************************************)
EXTENDS Integers, Sequences, FiniteSets, FiniteSetsExt, SequencesExt

CONSTANTS
    Rows,           \* timers that may be scheduled
    Bad,            \* those whose Firer always fails
    Schedulers,
    BatchSize, MinSleep, MaxSleep, Retention,
    Deadlines,      \* deadlines of the instance
    MaxTime,        \* bound: the clock
    MaxFaults,      \* bound: queries and fires that fail once
    MaxStops,       \* bound: schedulers stopped
    MaxPrunes       \* bound: ticks of the hourly prune tickers

ASSUME TimersAssumption ==
    /\ IsFiniteSet(Rows) /\ Schedulers # {}
    /\ Bad \subseteq Rows /\ Cardinality(Bad) < BatchSize
    /\ {BatchSize, MinSleep, MaxSleep} \subseteq Nat \ {0}
    /\ MinSleep <= MaxSleep
    /\ {Retention, MaxTime, MaxFaults, MaxStops, MaxPrunes} \cup Deadlines \subseteq Nat

VARIABLES
    now,
    row,        \* timer -> its row of the table
    pc,         \* scheduler -> "down", "pass", "firing" or "asleep"
    batch,      \* scheduler -> timers read by Due and not yet tried
    wakeAt,     \* scheduler -> end of its sleep
    passes,     \* scheduler -> passes since the clock last moved (for NoSpin)
    faults, stops, prunes

sched == <<pc, batch, wakeAt, passes>>
vars  == <<now, row, sched, faults, stops, prunes>>

Absent == [state |-> "absent", fireAt |-> 0, since |-> 0]
Pruned == [Absent EXCEPT !.state = "pruned"]

Init ==
    /\ now = 0
    /\ row = [t \in Rows |-> Absent]
    /\ pc = [s \in Schedulers |-> "pass"]
    /\ batch = [s \in Schedulers |-> <<>>]
    /\ wakeAt = [s \in Schedulers |-> 0]
    /\ passes = [s \in Schedulers |-> 0]
    /\ faults = 0 /\ stops = 0 /\ prunes = 0

Fault == faults < MaxFaults /\ faults' = faults + 1

Pending == {t \in Rows : row[t].state = "pending"}

-----------------------------------------------------------------------------
\* Schedule: a hold commits with its deadline, which may have passed.
Schedule(t, at) ==
    /\ row[t].state = "absent"
    /\ row' = [row EXCEPT ![t] = [state |-> "pending", fireAt |-> at, since |-> now]]
    /\ UNCHANGED <<now, sched, faults, stops, prunes>>

\* The clock.
Advance ==
    /\ now < MaxTime
    /\ \A s \in Schedulers : pc[s] = "down" \/ (pc[s] = "asleep" /\ wakeAt[s] > now)
    /\ now' = now + 1
    /\ passes' = [s \in Schedulers |-> 0]
    /\ UNCHANGED <<row, pc, batch, wakeAt, faults, stops, prunes>>

-----------------------------------------------------------------------------
Earlier(t, u) == row[t].fireAt <= row[u].fireAt

\* Mutant: a pass takes whatever is due.
DueUnlimited == {SetToSeq({t \in Pending : row[t].fireAt <= now})}

\* dueSQL: what the clock has reached, earliest first, at most BatchSize rows.
Due == LET reached == {t \in Pending : row[t].fireAt <= now}
       IN  {b \in SetToAllKPermutations(reached) :
               /\ Len(b) = Min({BatchSize, Cardinality(reached)})
               /\ \A i, j \in DOMAIN b : i < j => Earlier(b[i], b[j])
               /\ \A t \in reached \ ToSet(b), i \in DOMAIN b : Earlier(b[i], t)}

\* Tick reads a batch ...
Tick(s) ==
    /\ pc[s] = "pass"
    /\ \E b \in Due : batch' = [batch EXCEPT ![s] = b]
    /\ pc' = [pc EXCEPT ![s] = "firing"]
    /\ passes' = [passes EXCEPT ![s] = @ + 1]
    /\ UNCHANGED <<now, row, wakeAt, faults, stops, prunes>>

\* ... or cannot: the error is logged and the pass is over.
TickFails(s) ==
    /\ pc[s] = "pass" /\ Fault
    /\ pc' = [pc EXCEPT ![s] = "firing"]
    /\ passes' = [passes EXCEPT ![s] = @ + 1]
    /\ UNCHANGED <<now, row, batch, wakeAt, stops, prunes>>

\* The claim is rolled back with the failed effect; the batch goes on.
Skip(s) ==
    /\ batch' = [batch EXCEPT ![s] = Tail(@)]
    /\ UNCHANGED row

\* fireOne: the row is claimed unless another scheduler has it.
FireOne(s) ==
    /\ pc[s] = "firing" /\ batch[s] # <<>>
    /\ LET t == Head(batch[s])
       IN  IF t \in Pending /\ t \notin Bad
           THEN /\ row' = [row EXCEPT ![t] = [state |-> "fired", fireAt |-> 0, since |-> now]]
                /\ batch' = [batch EXCEPT ![s] = Tail(@)]
           ELSE Skip(s)
    /\ UNCHANGED <<passes, now, pc, wakeAt, faults, stops, prunes>>

\* A fire that fails once: a version conflict, a lost connection.
FireFails(s) ==
    /\ pc[s] = "firing" /\ batch[s] # <<>> /\ Fault
    /\ Skip(s)
    /\ UNCHANGED <<passes, now, pc, wakeAt, stops, prunes>>

-----------------------------------------------------------------------------
\* NextDue: the earliest deadline of a pending row.
NextDue == Min({row[t].fireAt : t \in Pending})

\* Mutant: sleep until the next deadline, however far it is.
SleepUncapped == IF Pending = {} THEN MaxTime ELSE Max({NextDue - now, MinSleep})

\* Mutant: a deadline that has passed is no reason to wait.
SleepSpinning == IF Pending = {} THEN MaxSleep ELSE Min({Max({NextDue - now, 0}), MaxSleep})

\* sleep: until the next deadline, between MinSleep and MaxSleep.
Sleep == IF Pending = {} THEN MaxSleep ELSE Min({Max({NextDue - now, MinSleep}), MaxSleep})

Rest(s, duration) ==
    /\ pc[s] = "firing" /\ batch[s] = <<>>
    /\ wakeAt' = [wakeAt EXCEPT ![s] = now + duration]
    /\ pc' = [pc EXCEPT ![s] = "asleep"]
    /\ UNCHANGED <<passes, now, row, batch, stops, prunes>>

FallAsleep(s) == Rest(s, Sleep) /\ UNCHANGED faults

LookupFails(s) == Rest(s, MaxSleep) /\ Fault

Wake(s) ==
    /\ pc[s] = "asleep" /\ wakeAt[s] <= now
    /\ pc' = [pc EXCEPT ![s] = "pass"]
    /\ wakeAt' = [wakeAt EXCEPT ![s] = 0]
    /\ UNCHANGED <<passes, now, row, batch, faults, stops, prunes>>

\* Mutant: every old row is history.
ExpiredAny == {t \in Rows : row[t].state # "absent" /\ row[t].since <= now - Retention}

\* Prune: fired rows past Retention, never pending ones.
Expired == {t \in Rows : row[t].state = "fired" /\ row[t].since <= now - Retention}

\* The prune ticker interrupts the sleep; pruneFired, then the next pass.
\* A failed DELETE is logged, and the next tick tries again.
PruneFired(s) ==
    /\ prunes < MaxPrunes /\ prunes' = prunes + 1
    /\ pc[s] = "asleep"
    /\ \/ /\ row' = [t \in Rows |-> IF t \in Expired THEN Pruned ELSE row[t]]
          /\ UNCHANGED faults
       \/ Fault /\ UNCHANGED row
    /\ pc' = [pc EXCEPT ![s] = "pass"]
    /\ wakeAt' = [wakeAt EXCEPT ![s] = 0]
    /\ UNCHANGED <<passes, now, batch, stops>>

\* The context is cancelled, or the process dies, anywhere in a pass or a
\* sleep.  Some scheduler stays up: nothing is promised of a time without one.
Stop(s) ==
    /\ stops < MaxStops /\ stops' = stops + 1
    /\ pc[s] # "down" /\ \E o \in Schedulers \ {s} : pc[o] # "down"
    /\ pc' = [pc EXCEPT ![s] = "down"]
    /\ batch' = [batch EXCEPT ![s] = <<>>]
    /\ wakeAt' = [wakeAt EXCEPT ![s] = 0]
    /\ UNCHANGED <<passes, now, row, faults, prunes>>

Start(s) ==
    /\ pc[s] = "down"
    /\ pc' = [pc EXCEPT ![s] = "pass"]
    /\ UNCHANGED <<passes, now, row, batch, wakeAt, faults, stops, prunes>>

-----------------------------------------------------------------------------
Step(s) == Tick(s) \/ FireOne(s) \/ FallAsleep(s) \/ Wake(s)

Next ==
    \/ \E t \in Rows, at \in Deadlines : Schedule(t, at)
    \/ Advance
    \/ \E s \in Schedulers :
        \/ Step(s) \/ PruneFired(s)
        \/ TickFails(s) \/ FireFails(s) \/ LookupFails(s)
        \/ Stop(s) \/ Start(s)

Spec == Init /\ [][Next]_vars

-----------------------------------------------------------------------------
(* Properties.                                                             *)

\* The shape of the table and of the loops.
TypeOK ==
    /\ now \in 0 .. MaxTime
    /\ row \in [Rows -> [state : {"absent", "pending", "fired", "pruned"},
                         fireAt : Deadlines \cup {0}, since : 0 .. MaxTime]]
    /\ pc \in [Schedulers -> {"down", "pass", "firing", "asleep"}]
    /\ batch \in [Schedulers -> BoundedSeq(Rows, BatchSize)]
    /\ wakeAt \in [Schedulers -> Nat]
    /\ passes \in [Schedulers -> Nat]
    /\ faults \in 0 .. MaxFaults /\ stops \in 0 .. MaxStops /\ prunes \in 0 .. MaxPrunes

(***************************************************************************)
(* A timer is never late without a reason.  After its deadline, or after   *)
(* it was scheduled if that came later, it waits at most one MaxSleep, and *)
(* another for each query or fire that failed, and a MinSleep for each     *)
(* other timer it may share batches with: rows that fail on every pass     *)
(* take places of the batch and no more, schedulers stop and start, and    *)
(* rows appear while every scheduler sleeps ("would sleep through a timer  *)
(* another process scheduled a moment later", scheduler.go:17-19).         *)
(***************************************************************************)
NeverLate ==
    \A t \in Pending \ Bad :
        now <= Max({row[t].fireAt, row[t].since}) + MaxSleep * (1 + faults)
                 + MinSleep * (Cardinality(Rows \ Bad) - 1)

(***************************************************************************)
(* timers.go:107-108: "Pending timers are never touched" by Prune, and     *)
(* dueSQL reads none before its time: a pending row only ever becomes a    *)
(* fired one, at or after its deadline, and a fired row outlives           *)
(* Retention.                                                              *)
(***************************************************************************)
FiredThenPruned ==
    [][\A t \in Rows : row'[t].state # row[t].state =>
        CASE row[t].state = "absent"  -> row'[t].state = "pending"
          [] row[t].state = "pending" -> row'[t].state = "fired" /\ row[t].fireAt <= now
          [] row[t].state = "fired"   -> row'[t].state = "pruned" /\ now - row[t].since >= Retention
          [] OTHER -> FALSE]_vars

(***************************************************************************)
(* scheduler.go:21-22: MinSleep keeps a timer that is past due, "or one    *)
(* whose Firer keeps failing - from turning the loop into a spin".  While  *)
(* the clock stands a scheduler makes one pass, and one more for each time *)
(* it was started again or interrupted to prune.                           *)
(***************************************************************************)
NoSpin == \A s \in Schedulers : passes[s] <= 1 + stops + prunes
=============================================================================
