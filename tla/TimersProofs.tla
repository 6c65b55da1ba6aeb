---------------------------- MODULE TimersProofs ----------------------------
(***************************************************************************)
(* Proofs about Timers, for any finite table, any number of schedulers and *)
(* any batch size, sleeps and retention: the type invariant, NeverLate,    *)
(* NoSpin and FiredThenPruned.                                             *)
(***************************************************************************)
EXTENDS Timers, FiniteSetTheorems, WellFoundedInduction, TLAPS

-----------------------------------------------------------------------------
(* The inductive invariant.                                                *)

\* A batch holds rows that were pending and due when it was read.
BatchOK ==
    \A s \in Schedulers : \A t \in ToSet(batch[s]) :
        /\ row[t].state # "absent"
        /\ row[t].state = "pending" => row[t].fireAt <= now

\* A pass is paid for by the clock, a stop or a prune; a sleep ends later than
\* now, unless the clock has moved since the last pass.
PassesOK ==
    \A s \in Schedulers :
        /\ passes[s] <= 1 + stops + prunes
        /\ pc[s] \in {"pass", "down"} => passes[s] <= stops + prunes
        /\ pc[s] = "asleep" => wakeAt[s] > now \/ passes[s] = 0
        /\ pc[s] = "asleep" => wakeAt[s] <= now + MaxSleep

\* From when on a timer may be late.
From(t) == Max({row[t].fireAt, row[t].since})

\* The timers that are out of the way, and the time they and the faults cost.
Done  == {t \in Rows \ Bad : row[t].state \in {"fired", "pruned"}}
Slack == MaxSleep * (1 + faults) + MinSleep * Cardinality(Done)

\* Some scheduler is up, and none sleeps past what a pending timer may wait.  One
\* in the middle of a pass either leaves a MinSleep to spare or still has a
\* timer in its batch that will.
OnTimeOK ==
    /\ \E s \in Schedulers : pc[s] # "down"
    /\ \A t \in Pending \ Bad :
        /\ now <= From(t) + Slack
        /\ \A s \in Schedulers :
            /\ pc[s] = "asleep" => wakeAt[s] <= From(t) + Slack
            /\ pc[s] = "firing" =>
                \/ now <= From(t)
                \/ now + MinSleep <= From(t) + Slack
                \/ \E u \in ToSet(batch[s]) : u \in Pending \ Bad

IInv == TypeOK /\ BatchOK /\ PassesOK /\ OnTimeOK

-----------------------------------------------------------------------------
(* The operators of the model.                                             *)

\* The greater of two integers (max in sleep).
LEMMA MaxPair ==
    ASSUME NEW a \in Int, NEW b \in Int
    PROVE  Max({a, b}) = IF a >= b THEN a ELSE b
BY DEF Max

\* The smaller of two integers (min in sleep).
LEMMA MinPair ==
    ASSUME NEW a \in Int, NEW b \in Int
    PROVE  Min({a, b}) = IF a <= b THEN a ELSE b
BY DEF Min

\* The minimum of numbers is one of them and no greater than any.
LEMMA MinOfNat ==
    ASSUME NEW T \in SUBSET Nat, T # {}
    PROVE  Min(T) \in T /\ \A x \in T : Min(T) <= x
<1>1. \E n \in T : \A k \in T : ~(<<k, n>> \in OpToRel(<, Nat))
  BY NatLessThanWellFounded, WFMin
<1>2. \A k, n \in Nat : <<k, n>> \in OpToRel(<, Nat) <=> k < n
  BY DEF OpToRel
<1>3. PICK n \in T : \A k \in T : ~(<<k, n>> \in OpToRel(<, Nat))
  BY <1>1
<1>4. \A k \in T : n <= k
  <2> TAKE k \in T
  <2>1. n \in Nat /\ k \in Nat /\ ~(k < n)
    BY <1>2, <1>3
  <2>2. QED
    BY <2>1
<1>5. QED
  BY <1>3, <1>4 DEF Min

\* What the constants are.
LEMMA Constants ==
    /\ BatchSize \in Nat \ {0} /\ MinSleep \in Nat \ {0} /\ MaxSleep \in Nat \ {0}
    /\ MinSleep <= MaxSleep /\ Deadlines \subseteq Nat
    /\ Retention \in Nat /\ MaxTime \in Nat
    /\ MaxFaults \in Nat /\ MaxStops \in Nat /\ MaxPrunes \in Nat
BY TimersAssumption

\* A bounded sequence is a sequence, and a sequence of bounded length is one.
LEMMA Bounded ==
    ASSUME NEW S, NEW n \in Nat, NEW s
    PROVE  s \in BoundedSeq(S, n) <=> s \in Seq(S) /\ Len(s) <= n
<1>1. ASSUME s \in BoundedSeq(S, n) PROVE s \in Seq(S) /\ Len(s) <= n
  <2>1. PICK m \in 0 .. n : s \in [1 .. m -> S]
    BY <1>1 DEF BoundedSeq, SeqOf
  <2>2. s \in Seq(S) /\ Len(s) = m
    BY <2>1, SMTT(40)
  <2>3. QED
    BY <2>1, <2>2
<1>2. ASSUME s \in Seq(S), Len(s) <= n PROVE s \in BoundedSeq(S, n)
  <2>1. Len(s) \in 0 .. n /\ s \in [1 .. Len(s) -> S]
    BY <1>2
  <2>2. QED
    BY <2>1 DEF BoundedSeq, SeqOf
<1>3. QED
  BY <1>1, <1>2

\* The batch of a scheduler that has none.
LEMMA EmptyBatch == <<>> \in BoundedSeq(Rows, BatchSize) /\ ToSet(<<>>) = {}
<1>1. <<>> \in [1 .. 0 -> Rows] /\ 0 \in 0 .. BatchSize
  BY Constants
<1>2. <<>> \in BoundedSeq(Rows, BatchSize)
  BY <1>1 DEF BoundedSeq, SeqOf
<1>3. ToSet(<<>>) = {}
  BY DEF ToSet
<1>4. QED
  BY <1>2, <1>3

\* What is left of a batch when its first timer has been tried.
LEMMA TailOK ==
    ASSUME NEW S, NEW n \in Nat, NEW s \in BoundedSeq(S, n), s # <<>>
    PROVE  /\ Head(s) \in S /\ Head(s) \in ToSet(s)
           /\ Tail(s) \in BoundedSeq(S, n)
           /\ ToSet(s) \subseteq {Head(s)} \cup ToSet(Tail(s))
           /\ ToSet(Tail(s)) \subseteq ToSet(s)
<1>1. s \in Seq(S) /\ Len(s) <= n
  BY Bounded
<1>2. /\ Len(s) \in Nat \ {0} /\ Head(s) = s[1] /\ s[1] \in S
      /\ Tail(s) \in Seq(S) /\ Len(Tail(s)) = Len(s) - 1
      /\ DOMAIN s = 1 .. Len(s) /\ DOMAIN Tail(s) = 1 .. Len(s) - 1
      /\ \A i \in 1 .. Len(s) - 1 : Tail(s)[i] = s[i + 1]
  BY <1>1
<1>3. Tail(s) \in BoundedSeq(S, n)
  <2>1. Len(Tail(s)) <= n
    BY <1>1, <1>2
  <2>2. QED
    BY <1>2, <2>1, Bounded
<1>4. ASSUME NEW x \in ToSet(s) PROVE x = Head(s) \/ x \in ToSet(Tail(s))
  <2>1. PICK i \in 1 .. Len(s) : s[i] = x
    BY <1>2, <1>4 DEF ToSet
  <2>2. CASE i = 1
    BY <1>2, <2>1, <2>2
  <2>3. CASE i # 1
    <3>1. i - 1 \in 1 .. Len(s) - 1 /\ Tail(s)[i - 1] = x
      BY <1>2, <2>1, <2>3
    <3>2. QED
      BY <1>2, <3>1 DEF ToSet
  <2>4. QED
    BY <2>2, <2>3
<1>5. ASSUME NEW x \in ToSet(Tail(s)) PROVE x \in ToSet(s)
  <2>1. PICK i \in 1 .. Len(s) - 1 : Tail(s)[i] = x
    BY <1>2, <1>5 DEF ToSet
  <2>2. i + 1 \in 1 .. Len(s) /\ s[i + 1] = x
    BY <1>2, <2>1
  <2>3. QED
    BY <1>2, <2>2 DEF ToSet
<1>6. Head(s) \in ToSet(s)
  BY <1>2 DEF ToSet
<1>7. QED
  BY <1>2, <1>3, <1>4, <1>5, <1>6

\* The times of a row.
LEMMA RowOK ==
    ASSUME TypeOK, NEW t \in Rows
    PROVE  /\ row[t].fireAt \in Nat /\ row[t].since \in Nat /\ From(t) \in Nat
           /\ row[t].fireAt <= From(t) /\ row[t].since <= From(t)
           /\ From(t) \in {row[t].fireAt, row[t].since}
<1>1. row[t].fireAt \in Deadlines \cup {0} /\ row[t].since \in 0 .. MaxTime
  BY DEF TypeOK
<1>2. 0 .. MaxTime \subseteq Nat
  BY Constants
<1>3. Deadlines \cup {0} \subseteq Nat
  BY Constants
<1>4. row[t].fireAt \in Nat /\ row[t].since \in Nat
  BY <1>1, <1>2, <1>3
<1>5. From(t) = IF row[t].fireAt >= row[t].since THEN row[t].fireAt ELSE row[t].since
  BY <1>4, MaxPair DEF From
<1>6. QED
  BY <1>4, <1>5

\* sleep lies between MinSleep and MaxSleep, and a timer past its deadline makes
\* it MinSleep.
LEMMA SleepOK ==
    ASSUME TypeOK
    PROVE  /\ Sleep \in Nat /\ MinSleep <= Sleep /\ Sleep <= MaxSleep
           /\ \A t \in Pending : row[t].fireAt <= now => Sleep = MinSleep
<1>1. CASE Pending = {}
  BY <1>1, Constants DEF Sleep
<1>2. CASE Pending # {}
  <2> DEFINE T == {row[t].fireAt : t \in Pending}
  <2>1. T \in SUBSET Nat /\ T # {}
    BY <1>2, RowOK DEF Pending
  <2>2. NextDue \in T /\ \A x \in T : NextDue <= x
    BY <2>1, MinOfNat DEF NextDue
  <2>3. NextDue \in Nat /\ now \in Nat /\ \A t \in Pending : NextDue <= row[t].fireAt
    BY <2>1, <2>2, Constants DEF TypeOK
  <2>4. NextDue - now \in Int
    BY <2>3
  <2> DEFINE m == Max({NextDue - now, MinSleep})
  <2>5. m = IF NextDue - now >= MinSleep THEN NextDue - now ELSE MinSleep
    BY <2>4, Constants, MaxPair
  <2>6. m \in Int /\ MinSleep <= m
    BY <2>4, <2>5, Constants
  <2>7. Sleep = IF m <= MaxSleep THEN m ELSE MaxSleep
    <3>1. Sleep = Min({m, MaxSleep})
      BY <1>2 DEF Sleep
    <3> HIDE DEF m
    <3>2. QED
      BY <2>6, <3>1, Constants, MinPair
  <2>8. ASSUME NEW t \in Pending, row[t].fireAt <= now PROVE Sleep = MinSleep
    <3>1. row[t].fireAt \in Nat
      BY <2>1
    <3>2. NextDue - now <= 0
      BY <2>3, <2>8, <3>1
    <3>3. m = MinSleep
      BY <2>4, <2>5, <3>2, Constants
    <3>4. QED
      BY <2>7, <3>3, Constants
  <2> HIDE DEF m
  <2>9. QED
    BY <2>6, <2>7, <2>8, Constants
<1>3. QED
  BY <1>1, <1>2

\* dueSQL: a batch holds due timers, and if a timer that can fire is due there is
\* one in the batch, since those that always fail do not fill it.
LEMMA DueOK ==
    ASSUME TypeOK, NEW b \in Due
    PROVE  /\ b \in BoundedSeq(Rows, BatchSize)
           /\ \A t \in ToSet(b) : t \in Pending /\ row[t].fireAt <= now
           /\ (\E t \in Pending \ Bad : row[t].fireAt <= now)
                => \E u \in ToSet(b) : u \in Pending \ Bad
<1> DEFINE reached == {t \in Pending : row[t].fireAt <= now}
<1>1. /\ b \in SetToAllKPermutations(reached)
      /\ Len(b) = Min({BatchSize, Cardinality(reached)})
  BY DEF Due
<1>2. PICK x \in SUBSET reached : b \in SetToSeqs(x)
  BY <1>1 DEF SetToAllKPermutations
<1>3. /\ b \in [1 .. Cardinality(x) -> x]
      /\ \A i, j \in 1 .. Cardinality(x) : i # j => b[i] # b[j]
  BY <1>2 DEF SetToSeqs
<1>4. IsFiniteSet(Rows) /\ reached \subseteq Rows
  BY TimersAssumption DEF Pending
<1>5. /\ IsFiniteSet(reached) /\ Cardinality(reached) \in Nat
      /\ IsFiniteSet(x) /\ Cardinality(x) \in Nat
      /\ Cardinality(reached) = Cardinality(x) => reached = x
  <2>1. IsFiniteSet(reached)
    BY <1>4, FS_Subset
  <2>2. IsFiniteSet(x) /\ (Cardinality(reached) = Cardinality(x) => reached = x)
    BY <1>2, <2>1, FS_Subset
  <2>3. QED
    BY <2>1, <2>2, FS_CardinalityType
<1>6. Len(b) = Cardinality(x) /\ b \in Seq(x) /\ DOMAIN b = 1 .. Cardinality(x)
  BY <1>3, <1>5
<1>7. Cardinality(x) <= BatchSize
      /\ (Cardinality(x) < BatchSize => Cardinality(x) = Cardinality(reached))
  BY <1>1, <1>5, <1>6, Constants, MinPair
<1>8. ToSet(b) = x
  <2>1. ToSet(b) \subseteq x
    BY <1>3, <1>6 DEF ToSet
  <2> DEFINE n == Cardinality(x)
  <2>2. IsFiniteSet(1 .. n) /\ Cardinality(1 .. n) = n
    BY <1>5, FS_Interval
  <2>3. b \in Injection(1 .. n, x)
    BY <1>3 DEF Injection, IsInjective
  <2>4. b \in Surjection(1 .. n, x)
    BY <1>5, <2>2, <2>3, FS_Injection
  <2>5. x \subseteq ToSet(b)
    BY <1>6, <2>4 DEF Surjection, ToSet
  <2>6. QED
    BY <2>1, <2>5
<1>9. b \in BoundedSeq(Rows, BatchSize)
  <2>1. b \in Seq(Rows)
    BY <1>2, <1>3, <1>4, <1>5
  <2>2. QED
    BY <1>6, <1>7, <2>1, Constants, Bounded
<1>10. ASSUME NEW t \in Pending \ Bad, row[t].fireAt <= now
       PROVE  \E u \in ToSet(b) : u \in Pending \ Bad
  <2>1. SUFFICES ASSUME x \subseteq Bad PROVE FALSE
    BY <1>2, <1>8
  <2>2. IsFiniteSet(Bad) /\ Cardinality(Bad) \in Nat
    BY <1>4, TimersAssumption, FS_Subset, FS_CardinalityType
  <2>3. Cardinality(x) <= Cardinality(Bad)
    BY <2>1, <2>2, FS_Subset
  <2>4. Cardinality(x) < BatchSize
    BY <1>5, <2>2, <2>3, TimersAssumption, Constants
  <2>5. t \in x
    BY <1>5, <1>7, <1>10, <2>4
  <2>6. QED
    BY <1>10, <2>1, <2>5
<1>11. QED
  BY <1>2, <1>8, <1>9, <1>10

-----------------------------------------------------------------------------
(* Frames: what a step has to show of each part of the invariant.          *)

\* The time that faults and fired timers cost is a number.
LEMMA SlackType ==
    ASSUME TypeOK
    PROVE  /\ IsFiniteSet(Done) /\ Cardinality(Done) \in Nat
           /\ faults \in Nat /\ Slack \in Nat /\ MaxSleep <= Slack
<1>1. IsFiniteSet(Done) /\ Cardinality(Done) \in Nat
  BY TimersAssumption, FS_Subset, FS_CardinalityType DEF Done
<1>2. faults \in Nat
  BY Constants DEF TypeOK
<1>3. /\ MaxSleep * (1 + faults) = MaxSleep + MaxSleep * faults
      /\ MaxSleep * faults \in Nat /\ MinSleep * Cardinality(Done) \in Nat
  BY <1>1, <1>2, Constants
<1>4. QED
  BY <1>1, <1>2, <1>3, Constants DEF Slack

\* It never shrinks; a fault adds a MaxSleep and a fired timer a MinSleep.
LEMMA SlackGrows ==
    ASSUME TypeOK, TypeOK', Done \subseteq Done', faults' \in {faults, faults + 1}
    PROVE  /\ Slack <= Slack'
           /\ faults' = faults + 1 => Slack + MaxSleep <= Slack'
           /\ Done' # Done => Slack + MinSleep <= Slack'
<1>1. /\ IsFiniteSet(Done) /\ Cardinality(Done) \in Nat /\ faults \in Nat
      /\ IsFiniteSet(Done') /\ Cardinality(Done') \in Nat /\ faults' \in Nat
  <2>1. IsFiniteSet(Done') /\ Cardinality(Done') \in Nat
    BY TimersAssumption, FS_Subset, FS_CardinalityType DEF Done
  <2>2. faults' \in Nat
    BY Constants DEF TypeOK
  <2>3. QED
    BY <2>1, <2>2, SlackType
<1> DEFINE c == Cardinality(Done)
           d == Cardinality(Done')
<1>2. c <= d /\ (Done' # Done => c + 1 <= d)
  <2>1. c <= d /\ (d = c => Done' = Done)
    BY <1>1, FS_Subset
  <2>2. QED
    BY <1>1, <2>1
<1>3. MinSleep * c <= MinSleep * d /\ (Done' # Done => MinSleep * c + MinSleep <= MinSleep * d)
  <2>1. \A k, m, n \in Nat : m <= n => k * m <= k * n
    OBVIOUS
  <2>2. MinSleep * (c + 1) = MinSleep * c + MinSleep
    BY <1>1, Constants
  <2> HIDE DEF c, d
  <2>3. c \in Nat /\ d \in Nat
    BY <1>1 DEF c, d
  <2>4. QED
    BY <1>2, <2>1, <2>2, <2>3, Constants
<1>4. /\ MaxSleep * (1 + faults') =
            IF faults' = faults THEN MaxSleep * (1 + faults)
                                ELSE MaxSleep * (1 + faults) + MaxSleep
      /\ MaxSleep * (1 + faults) \in Nat
  <2>1. \A k, n \in Nat : k * (1 + (n + 1)) = k * (1 + n) + k
    OBVIOUS
  <2>2. MaxSleep * (1 + (faults + 1)) = MaxSleep * (1 + faults) + MaxSleep
    BY <1>1, <2>1, Constants
  <2>3. MaxSleep * (1 + faults) \in Nat
    BY <1>1, Constants
  <2>4. CASE faults' = faults
    BY <2>3, <2>4
  <2>5. CASE faults' = faults + 1
    BY <1>1, <2>2, <2>3, <2>5
  <2>6. QED
    BY <2>4, <2>5
<1>5. MinSleep * c \in Nat /\ MinSleep * d \in Nat
  BY <1>1, Constants
<1>6. /\ Slack = MaxSleep * (1 + faults) + MinSleep * c
      /\ Slack' = MaxSleep * (1 + faults') + MinSleep * d
  BY DEF Slack
<1> HIDE DEF c, d
<1>7. QED
  BY <1>1, <1>3, <1>4, <1>5, <1>6, Constants

\* Batches only lose timers, and rows never come back.
LEMMA BatchFrame ==
    ASSUME IInv, TypeOK', now <= now',
           \A t \in Rows : row[t].state # "absent" =>
                /\ row'[t].state # "absent"
                /\ row'[t].state = "pending" => row'[t] = row[t],
           \A s \in Schedulers : ToSet(batch'[s]) \subseteq ToSet(batch[s])
    PROVE  BatchOK'
<1> SUFFICES ASSUME NEW s \in Schedulers, NEW t \in ToSet(batch'[s])
             PROVE  /\ row'[t].state # "absent"
                    /\ row'[t].state = "pending" => row'[t].fireAt <= now'
  BY DEF BatchOK
<1>1. t \in ToSet(batch[s])
  OBVIOUS
<1>2. /\ row[t].state # "absent"
      /\ row[t].state = "pending" => row[t].fireAt <= now
  BY <1>1 DEF IInv, BatchOK
<1>3. t \in Rows
  <2>1. batch[s] \in Seq(Rows)
    BY Bounded, Constants DEF IInv, TypeOK
  <2>2. QED
    BY <1>1, <2>1 DEF ToSet
<1>4. row[t].fireAt \in Nat
  BY <1>3, RowOK DEF IInv
<1>5. now \in Nat /\ now' \in Nat
  BY Constants DEF IInv, TypeOK
<1>6. QED
  BY <1>2, <1>3, <1>4, <1>5

\* While the clock stands and no timer is added: a scheduler that goes to sleep
\* wakes in time, and one in a pass has a MinSleep to spare, or a timer that can
\* fire in its batch.
LEMMA OnTimeFrame ==
    ASSUME IInv, TypeOK', now' = now, Slack <= Slack',
           \A t \in Pending' \ Bad : t \in Pending /\ row'[t] = row[t],
           \E s \in Schedulers : pc'[s] # "down",
           \A s \in Schedulers : pc'[s] = "asleep" =>
                \/ pc[s] = "asleep" /\ wakeAt'[s] = wakeAt[s]
                \/ \A t \in Pending' \ Bad : wakeAt'[s] <= From(t) + Slack',
           \A s \in Schedulers : pc'[s] = "firing" =>
                \/ /\ pc[s] = "firing"
                   /\ \A u \in ToSet(batch[s]) : u \in Pending \ Bad =>
                        u \in ToSet(batch'[s]) /\ u \in Pending'
                \/ Slack + MinSleep <= Slack'
                \/ \A t \in Pending' \ Bad :
                        now <= From(t) \/ \E u \in ToSet(batch'[s]) : u \in Pending' \ Bad
    PROVE  OnTimeOK'
<1> SUFFICES ASSUME NEW t \in Pending' \ Bad
             PROVE  /\ now' <= From(t)' + Slack'
                    /\ \A s \in Schedulers :
                        /\ pc'[s] = "asleep" => wakeAt'[s] <= From(t)' + Slack'
                        /\ pc'[s] = "firing" =>
                            \/ now' <= From(t)'
                            \/ now' + MinSleep <= From(t)' + Slack'
                            \/ \E u \in ToSet(batch'[s]) : u \in Pending' \ Bad
  BY DEF OnTimeOK
<1>1. t \in Pending \ Bad /\ t \in Rows /\ From(t)' = From(t)
  BY DEF From, Pending
<1>2. From(t) \in Nat /\ Slack \in Nat /\ Slack' \in Nat /\ now \in Nat
  <2>1. Slack' \in Nat
    <3>1. IsFiniteSet(Done') /\ Cardinality(Done') \in Nat
      BY TimersAssumption, FS_Subset, FS_CardinalityType DEF Done
    <3>2. faults' \in Nat
      BY Constants DEF TypeOK
    <3>3. QED
      BY <3>1, <3>2, Constants DEF Slack
  <2>2. QED
    BY <1>1, <2>1, RowOK, SlackType, Constants DEF IInv, TypeOK
<1>3. /\ now <= From(t) + Slack
      /\ \A s \in Schedulers :
            /\ pc[s] = "asleep" => wakeAt[s] <= From(t) + Slack
            /\ pc[s] = "firing" =>
                \/ now <= From(t)
                \/ now + MinSleep <= From(t) + Slack
                \/ \E u \in ToSet(batch[s]) : u \in Pending \ Bad
  BY <1>1 DEF IInv, OnTimeOK
<1>4. now' <= From(t)' + Slack'
  BY <1>1, <1>2, <1>3
<1>5. ASSUME NEW s \in Schedulers, pc'[s] = "asleep"
      PROVE  wakeAt'[s] <= From(t)' + Slack'
  <2>1. CASE pc[s] = "asleep" /\ wakeAt'[s] = wakeAt[s]
    <3>1. wakeAt[s] \in Nat
      BY DEF IInv, TypeOK
    <3>2. QED
      BY <1>1, <1>2, <1>3, <2>1, <3>1
  <2>2. CASE \A x \in Pending' \ Bad : wakeAt'[s] <= From(x) + Slack'
    BY <1>1, <2>2
  <2>3. QED
    BY <1>5, <2>1, <2>2
<1>6. ASSUME NEW s \in Schedulers, pc'[s] = "firing"
      PROVE  \/ now' <= From(t)'
             \/ now' + MinSleep <= From(t)' + Slack'
             \/ \E u \in ToSet(batch'[s]) : u \in Pending' \ Bad
  <2>1. CASE /\ pc[s] = "firing"
             /\ \A u \in ToSet(batch[s]) : u \in Pending \ Bad =>
                    u \in ToSet(batch'[s]) /\ u \in Pending'
    BY <1>1, <1>2, <1>3, <2>1, Constants
  <2>2. CASE Slack + MinSleep <= Slack'
    BY <1>1, <1>2, <1>3, <2>2, Constants
  <2>3. CASE \A x \in Pending' \ Bad :
                now <= From(x) \/ \E u \in ToSet(batch'[s]) : u \in Pending' \ Bad
    BY <1>1, <2>3
  <2>4. QED
    BY <1>6, <2>1, <2>2, <2>3
<1>7. QED
  BY <1>4, <1>5, <1>6

-----------------------------------------------------------------------------
(* The table and the clock.                                                *)

\* A new timer may be overdue, but it is not late: it counts from now.
LEMMA ScheduleStep ==
    ASSUME IInv, NEW t \in Rows, NEW at \in Deadlines, Schedule(t, at)
    PROVE  IInv'
<1>1. /\ UNCHANGED <<now, pc, batch, wakeAt, passes, faults, stops, prunes>>
      /\ row[t].state = "absent"
      /\ row' = [row EXCEPT ![t] = [state |-> "pending", fireAt |-> at, since |-> now]]
  BY DEF Schedule, sched
<1>2. /\ row'[t] = [state |-> "pending", fireAt |-> at, since |-> now]
      /\ \A u \in Rows \ {t} : row'[u] = row[u]
  BY <1>1 DEF IInv, TypeOK
<1>3. TypeOK'
  BY <1>1 DEF IInv, TypeOK
<1>4. BatchOK'
  <2>1. now \in Int
    BY DEF IInv, TypeOK
  <2>2. QED
    BY <1>1, <1>2, <1>3, <2>1, BatchFrame
<1>5. PassesOK'
  BY <1>1 DEF IInv, PassesOK
<1>6. Done' = Done /\ Slack' = Slack
  <2>1. Done' = Done
    BY <1>1, <1>2 DEF Done
  <2>2. QED
    BY <1>1, <2>1 DEF Slack
<1>7. OnTimeOK'
  <2>1. \E s \in Schedulers : pc'[s] # "down"
    BY <1>1 DEF IInv, OnTimeOK
  <2>2. ASSUME NEW u \in Pending' \ Bad, u # t
        PROVE  u \in Pending \ Bad /\ From(u)' = From(u)
    BY <1>2, <2>2 DEF Pending, From
  <2>3. ASSUME NEW u \in Pending \ Bad
        PROVE  u \in Pending'
    BY <1>1, <1>2 DEF Pending
  <2>4. From(t)' \in Nat /\ now <= From(t)'
    <3>1. at \in Nat /\ now \in Nat
      BY Constants DEF IInv, TypeOK
    <3>2. From(t)' = Max({at, now})
      BY <1>2 DEF From
    <3>3. QED
      BY <3>1, <3>2, MaxPair
  <2>5. ASSUME NEW s \in Schedulers, pc[s] = "asleep" PROVE wakeAt[s] <= From(t)' + Slack
    <3>1. wakeAt[s] <= now + MaxSleep /\ wakeAt[s] \in Nat /\ now \in Nat
      BY <2>5, Constants DEF IInv, TypeOK, PassesOK
    <3>2. QED
      BY <2>4, <3>1, SlackType, Constants DEF IInv
  <2>6. now <= From(t)' + Slack
    BY <2>4, SlackType, Constants DEF IInv, TypeOK
  <2>7. QED
    <3> SUFFICES ASSUME NEW u \in Pending' \ Bad
                 PROVE  /\ now' <= From(u)' + Slack'
                        /\ \A s \in Schedulers :
                            /\ pc'[s] = "asleep" => wakeAt'[s] <= From(u)' + Slack'
                            /\ pc'[s] = "firing" =>
                                \/ now' <= From(u)'
                                \/ now' + MinSleep <= From(u)' + Slack'
                                \/ \E v \in ToSet(batch'[s]) : v \in Pending' \ Bad
      BY <2>1 DEF OnTimeOK
    <3>1. CASE u = t
      BY <1>1, <1>6, <2>4, <2>5, <2>6, <3>1
    <3>2. CASE u # t
      BY <1>1, <1>6, <2>2, <2>3, <3>2 DEF IInv, OnTimeOK
    <3>3. QED
      BY <3>1, <3>2
<1>8. QED
  BY <1>3, <1>4, <1>5, <1>7 DEF IInv

\* The clock waits for a scheduler that wakes in time.
LEMMA AdvanceStep ==
    ASSUME IInv, Advance
    PROVE  IInv'
<1>1. /\ UNCHANGED <<row, pc, batch, wakeAt, faults, stops, prunes>>
      /\ now < MaxTime /\ now' = now + 1
      /\ \A s \in Schedulers : pc[s] = "down" \/ (pc[s] = "asleep" /\ wakeAt[s] > now)
      /\ passes' = [s \in Schedulers |-> 0]
  BY DEF Advance
<1>2. now \in Nat /\ now' \in 0 .. MaxTime
  BY <1>1, Constants DEF IInv, TypeOK
<1>3. TypeOK'
  BY <1>1, <1>2 DEF IInv, TypeOK
<1>4. BatchOK'
  BY <1>1, <1>2, <1>3, BatchFrame
<1>5. PassesOK'
  <2>1. stops \in Nat /\ prunes \in Nat /\ \A s \in Schedulers : wakeAt[s] \in Nat
    BY Constants DEF IInv, TypeOK
  <2>2. QED
    BY <1>1, <1>2, <2>1, Constants DEF IInv, PassesOK
<1>6. Slack' = Slack
  BY <1>1 DEF Slack, Done
<1>7. Pending' = Pending /\ \A t \in Rows : From(t)' = From(t)
  BY <1>1 DEF Pending, From
<1>8. PICK s \in Schedulers : pc[s] = "asleep" /\ wakeAt[s] > now
  BY <1>1 DEF IInv, OnTimeOK
<1>9. ASSUME NEW t \in Pending \ Bad PROVE now + 1 <= From(t) + Slack
  <2>1. wakeAt[s] <= From(t) + Slack
    BY <1>8, <1>9 DEF IInv, OnTimeOK
  <2>2. wakeAt[s] \in Nat /\ From(t) \in Nat /\ Slack \in Nat
    BY <1>9, RowOK, SlackType DEF IInv, TypeOK, Pending
  <2>3. QED
    BY <1>2, <1>8, <2>1, <2>2
<1>10. OnTimeOK'
  <2>1. \A t \in Pending' \ Bad : t \in Pending \ Bad /\ t \in Rows
    BY <1>7 DEF Pending
  <2>2. \A x \in Schedulers : pc'[x] # "firing"
    BY <1>1
  <2>3. QED
    BY <1>1, <1>6, <1>7, <1>8, <1>9, <2>1, <2>2 DEF IInv, OnTimeOK
<1>11. QED
  BY <1>3, <1>4, <1>5, <1>10 DEF IInv

-----------------------------------------------------------------------------
(* A pass.                                                                 *)

\* If a timer that can fire is overdue, the batch has one that can.
LEMMA TickStep ==
    ASSUME IInv, NEW s \in Schedulers, Tick(s)
    PROVE  IInv'
<1>1. /\ UNCHANGED <<now, row, wakeAt, faults, stops, prunes>>
      /\ pc[s] = "pass" /\ pc' = [pc EXCEPT ![s] = "firing"]
      /\ passes' = [passes EXCEPT ![s] = @ + 1]
  BY DEF Tick
<1>2. PICK b \in Due : batch' = [batch EXCEPT ![s] = b]
  BY DEF Tick
<1>3. /\ b \in BoundedSeq(Rows, BatchSize)
      /\ \A t \in ToSet(b) : t \in Pending /\ row[t].fireAt <= now
      /\ (\E t \in Pending \ Bad : row[t].fireAt <= now)
            => \E u \in ToSet(b) : u \in Pending \ Bad
  BY DueOK DEF IInv
<1>4. /\ pc'[s] = "firing" /\ batch'[s] = b /\ passes'[s] = passes[s] + 1
      /\ \A x \in Schedulers \ {s} :
            pc'[x] = pc[x] /\ batch'[x] = batch[x] /\ passes'[x] = passes[x]
  BY <1>1, <1>2 DEF IInv, TypeOK
<1>5. TypeOK'
  BY <1>1, <1>2, <1>3 DEF IInv, TypeOK
<1>6. BatchOK'
  <2>1. \A x \in Schedulers \ {s} : \A t \in ToSet(batch[x]) :
            /\ row[t].state # "absent"
            /\ row[t].state = "pending" => row[t].fireAt <= now
    BY DEF IInv, BatchOK
  <2>2. QED
    BY <1>1, <1>3, <1>4, <2>1 DEF BatchOK, Pending
<1>7. PassesOK'
  <2>1. stops \in Nat /\ prunes \in Nat /\ \A x \in Schedulers : passes[x] \in Nat
    BY Constants DEF IInv, TypeOK
  <2>2. passes[s] <= stops + prunes
    BY <1>1 DEF IInv, PassesOK
  <2>3. QED
    BY <1>1, <1>4, <2>1, <2>2 DEF IInv, PassesOK
<1>8. Slack' = Slack /\ Pending' = Pending
  BY <1>1 DEF Slack, Done, Pending
<1>9. OnTimeOK'
  <2>1. ASSUME NEW t \in Pending \ Bad
        PROVE  now <= From(t) \/ \E u \in ToSet(b) : u \in Pending \ Bad
    <3>1. /\ row[t].fireAt \in Nat /\ From(t) \in Nat /\ row[t].fireAt <= From(t)
      BY <2>1, RowOK DEF IInv, Pending
    <3>2. now \in Nat
      BY Constants DEF IInv, TypeOK
    <3>3. CASE row[t].fireAt <= now
      BY <1>3, <2>1, <3>3
    <3>4. CASE ~(row[t].fireAt <= now)
      BY <3>1, <3>2, <3>4
    <3>5. QED
      BY <3>3, <3>4
  <2>2. \A t \in Pending' \ Bad : t \in Pending /\ row'[t] = row[t]
    BY <1>1, <1>8
  <2>3. \E x \in Schedulers : pc'[x] # "down"
    BY <1>4
  <2>4. Slack <= Slack' /\ now' = now
    BY <1>1, <1>8, SlackType DEF IInv
  <2>5. \A x \in Schedulers : pc'[x] = "asleep" => pc[x] = "asleep" /\ wakeAt'[x] = wakeAt[x]
    BY <1>1, <1>4
  <2>6. \A x \in Schedulers \ {s} : pc'[x] = "firing" =>
            /\ pc[x] = "firing"
            /\ \A u \in ToSet(batch[x]) : u \in Pending \ Bad =>
                    u \in ToSet(batch'[x]) /\ u \in Pending'
    BY <1>4, <1>8
  <2>7. \A t \in Pending' \ Bad :
            now <= From(t) \/ \E u \in ToSet(batch'[s]) : u \in Pending' \ Bad
    BY <1>4, <1>8, <2>1
  <2>8. QED
    BY <1>5, <2>2, <2>3, <2>4, <2>5, <2>6, <2>7, OnTimeFrame
<1>10. QED
  BY <1>5, <1>6, <1>7, <1>9 DEF IInv

\* Due failed: the fault buys the time until the next pass.
LEMMA TickFailsStep ==
    ASSUME IInv, NEW s \in Schedulers, TickFails(s)
    PROVE  IInv'
<1>1. /\ UNCHANGED <<now, row, batch, wakeAt, stops, prunes>>
      /\ pc[s] = "pass" /\ pc' = [pc EXCEPT ![s] = "firing"]
      /\ passes' = [passes EXCEPT ![s] = @ + 1]
      /\ faults < MaxFaults /\ faults' = faults + 1
  BY DEF TickFails, Fault
<1>2. /\ pc'[s] = "firing" /\ passes'[s] = passes[s] + 1
      /\ \A x \in Schedulers \ {s} : pc'[x] = pc[x] /\ passes'[x] = passes[x]
  BY <1>1 DEF IInv, TypeOK
<1>3. TypeOK'
  <2>1. faults' \in 0 .. MaxFaults
    BY <1>1, Constants DEF IInv, TypeOK
  <2>2. QED
    BY <1>1, <2>1 DEF IInv, TypeOK
<1>4. BatchOK'
  BY <1>1 DEF IInv, BatchOK
<1>5. PassesOK'
  <2>1. stops \in Nat /\ prunes \in Nat /\ \A x \in Schedulers : passes[x] \in Nat
    BY Constants DEF IInv, TypeOK
  <2>2. passes[s] <= stops + prunes
    BY <1>1 DEF IInv, PassesOK
  <2>3. QED
    BY <1>1, <1>2, <2>1, <2>2 DEF IInv, PassesOK
<1>6. Done' = Done /\ Pending' = Pending
  BY <1>1 DEF Done, Pending
<1>7. Slack <= Slack' /\ Slack + MaxSleep <= Slack'
  BY <1>1, <1>3, <1>6, SlackGrows DEF IInv
<1>8. Slack + MinSleep <= Slack'
  <2>1. Slack' \in Int
    BY <1>3, <1>6, <1>1, SlackType, Constants DEF Slack, IInv
  <2>2. QED
    BY <1>7, <2>1, SlackType, Constants DEF IInv
<1>9. OnTimeOK'
  <2>1. \A t \in Pending' \ Bad : t \in Pending /\ row'[t] = row[t]
    BY <1>1, <1>6
  <2>2. \E x \in Schedulers : pc'[x] # "down"
    BY <1>2
  <2>3. \A x \in Schedulers : pc'[x] = "asleep" => pc[x] = "asleep" /\ wakeAt'[x] = wakeAt[x]
    BY <1>1, <1>2
  <2>4. now' = now
    BY <1>1
  <2>5. QED
    BY <1>3, <1>7, <1>8, <2>1, <2>2, <2>3, <2>4, OnTimeFrame
<1>10. QED
  BY <1>3, <1>4, <1>5, <1>9 DEF IInv

\* The first timer of a batch is tried: it fires, and is one less in the way of
\* the others, or it is not one that can fire, or the failure was a fault.
LEMMA FireStep ==
    ASSUME IInv, NEW s \in Schedulers, FireOne(s) \/ FireFails(s)
    PROVE  IInv'
<1> DEFINE h == Head(batch[s])
<1>1. /\ UNCHANGED <<now, pc, wakeAt, passes, stops, prunes>>
      /\ pc[s] = "firing" /\ batch[s] # <<>>
      /\ batch' = [batch EXCEPT ![s] = Tail(@)]
  BY DEF FireOne, FireFails, Skip
<1>2. /\ h \in Rows /\ h \in ToSet(batch[s])
      /\ Tail(batch[s]) \in BoundedSeq(Rows, BatchSize)
      /\ ToSet(batch[s]) \subseteq {h} \cup ToSet(Tail(batch[s]))
      /\ ToSet(Tail(batch[s])) \subseteq ToSet(batch[s])
  <2>1. batch[s] \in BoundedSeq(Rows, BatchSize) /\ BatchSize \in Nat
    BY Constants DEF IInv, TypeOK
  <2>2. QED
    BY <1>1, <2>1, TailOK
<1>3. /\ batch'[s] = Tail(batch[s])
      /\ \A x \in Schedulers \ {s} : batch'[x] = batch[x]
  BY <1>1 DEF IInv, TypeOK
<1>4. \/ /\ h \in Pending \ Bad /\ faults' = faults
         /\ row' = [row EXCEPT ![h] = [state |-> "fired", fireAt |-> 0, since |-> now]]
      \/ h \notin Pending \ Bad /\ row' = row /\ faults' = faults
      \/ row' = row /\ faults' = faults + 1 /\ faults < MaxFaults
  BY DEF FireOne, FireFails, Skip, Fault
<1>5. /\ \A t \in Rows \ {h} : row'[t] = row[t]
      /\ row'[h] = row[h] \/ (h \in Pending /\ row'[h].state = "fired")
  BY <1>4 DEF IInv, TypeOK
<1>6. TypeOK'
  <2>1. faults' \in 0 .. MaxFaults
    BY <1>4, Constants DEF IInv, TypeOK
  <2>2. row' \in [Rows -> [state : {"absent", "pending", "fired", "pruned"},
                           fireAt : Deadlines \cup {0}, since : 0 .. MaxTime]]
    BY <1>4 DEF IInv, TypeOK
  <2>3. batch' \in [Schedulers -> BoundedSeq(Rows, BatchSize)]
    BY <1>1, <1>2 DEF IInv, TypeOK
  <2>4. QED
    BY <1>1, <2>1, <2>2, <2>3 DEF IInv, TypeOK
<1>7. BatchOK'
  <2>1. now <= now'
    BY <1>1 DEF IInv, TypeOK
  <2>2. \A t \in Rows : row[t].state # "absent" =>
            /\ row'[t].state # "absent"
            /\ row'[t].state = "pending" => row'[t] = row[t]
    BY <1>5
  <2>3. \A x \in Schedulers : ToSet(batch'[x]) \subseteq ToSet(batch[x])
    BY <1>2, <1>3
  <2>4. QED
    BY <1>6, <2>1, <2>2, <2>3, BatchFrame
<1>8. PassesOK'
  BY <1>1 DEF IInv, PassesOK
<1>9. OnTimeOK'
  <2>1. Done \subseteq Done' /\ \A t \in Pending' \ Bad : t \in Pending /\ row'[t] = row[t]
    <3>1. Done \subseteq Done'
      BY <1>5 DEF Done, Pending
    <3>2. QED
      BY <1>5, <3>1 DEF Pending
  <2>2. Slack <= Slack'
    BY <1>4, <1>6, <2>1, SlackGrows DEF IInv
  <2>3. Slack \in Nat /\ Slack' \in Nat
    <3>1. IsFiniteSet(Done') /\ Cardinality(Done') \in Nat
      BY TimersAssumption, FS_Subset, FS_CardinalityType DEF Done
    <3>2. faults' \in Nat
      BY <1>6, Constants DEF TypeOK
    <3>3. Slack' \in Nat
      BY <3>1, <3>2, Constants DEF Slack
    <3>4. QED
      BY <3>3, SlackType DEF IInv
  <2>4. now' = now /\ \E x \in Schedulers : pc'[x] # "down"
    BY <1>1
  <2>5. \A x \in Schedulers : pc'[x] = "asleep" => pc[x] = "asleep" /\ wakeAt'[x] = wakeAt[x]
    BY <1>1
  <2>6. CASE h \notin Pending \ Bad /\ row' = row
    <3>1. Pending' = Pending
      BY <2>6 DEF Pending
    <3>2. \A x \in Schedulers : \A u \in ToSet(batch[x]) :
            u \in Pending \ Bad => u \in ToSet(batch'[x]) /\ u \in Pending'
      BY <1>2, <1>3, <2>6, <3>1
    <3>3. \A x \in Schedulers : pc'[x] = "firing" => pc[x] = "firing"
      BY <1>1
    <3>4. QED
      BY <1>6, <2>1, <2>2, <2>4, <2>5, <3>2, <3>3, OnTimeFrame
  <2>7. CASE faults' = faults + 1
    <3>1. Slack + MinSleep <= Slack'
      BY <1>4, <1>6, <2>1, <2>3, <2>7, SlackGrows, Constants DEF IInv
    <3>2. QED
      BY <1>6, <2>1, <2>2, <2>4, <2>5, <3>1, OnTimeFrame
  <2>8. CASE /\ h \in Pending \ Bad /\ faults' = faults
             /\ row' = [row EXCEPT ![h] = [state |-> "fired", fireAt |-> 0, since |-> now]]
    <3>1. row'[h].state = "fired"
      BY <1>2, <2>8 DEF IInv, TypeOK
    <3>2. h \in Done' /\ h \notin Done
      BY <1>2, <2>8, <3>1 DEF Done, Pending
    <3>3. Slack + MinSleep <= Slack'
      BY <1>6, <2>1, <2>8, <3>2, SlackGrows DEF IInv
    <3>4. QED
      BY <1>6, <2>1, <2>2, <2>4, <2>5, <3>3, OnTimeFrame
  <2>9. QED
    BY <1>4, <2>6, <2>7, <2>8
<1>10. QED
  BY <1>6, <1>7, <1>8, <1>9 DEF IInv

-----------------------------------------------------------------------------
(* Between two passes.                                                     *)

\* A scheduler goes to sleep for MinSleep while a timer is overdue, and never for
\* more than MaxSleep; a failed lookup is paid for by the fault.
LEMMA RestStep ==
    ASSUME IInv, NEW s \in Schedulers, FallAsleep(s) \/ LookupFails(s)
    PROVE  IInv'
<1>1. PICK duration \in Nat :
        /\ Rest(s, duration) /\ MinSleep <= duration /\ duration <= MaxSleep
        /\ \/ faults' = faults /\ duration = Sleep
           \/ faults' = faults + 1 /\ faults < MaxFaults
  BY SleepOK, Constants DEF IInv, FallAsleep, LookupFails, Fault
<1>2. /\ UNCHANGED <<now, row, batch, passes, stops, prunes>>
      /\ pc[s] = "firing" /\ batch[s] = <<>>
      /\ wakeAt' = [wakeAt EXCEPT ![s] = now + duration]
      /\ pc' = [pc EXCEPT ![s] = "asleep"]
  BY <1>1 DEF Rest
<1>3. /\ pc'[s] = "asleep" /\ wakeAt'[s] = now + duration
      /\ \A x \in Schedulers \ {s} : pc'[x] = pc[x] /\ wakeAt'[x] = wakeAt[x]
  BY <1>2 DEF IInv, TypeOK
<1>4. now \in Nat /\ now + duration \in Nat
  BY Constants DEF IInv, TypeOK
<1>5. TypeOK'
  <2>1. faults' \in 0 .. MaxFaults
    BY <1>1, Constants DEF IInv, TypeOK
  <2>2. QED
    BY <1>2, <1>4, <2>1 DEF IInv, TypeOK
<1>6. BatchOK'
  BY <1>2 DEF IInv, BatchOK
<1>7. PassesOK'
  BY <1>1, <1>2, <1>3, <1>4, Constants DEF IInv, PassesOK
<1>8. Done' = Done /\ Pending' = Pending
  BY <1>2 DEF Done, Pending
<1>9. /\ Slack <= Slack' /\ (faults' = faults + 1 => Slack + MaxSleep <= Slack')
      /\ Slack \in Nat /\ Slack' \in Nat /\ MaxSleep <= Slack
  <2>1. Slack <= Slack' /\ (faults' = faults + 1 => Slack + MaxSleep <= Slack')
    BY <1>1, <1>5, <1>8, SlackGrows DEF IInv
  <2>2. faults' \in Nat /\ Cardinality(Done') \in Nat
    BY <1>1, <1>8, SlackType DEF IInv
  <2>3. Slack' \in Nat
    BY <2>2, Constants DEF Slack
  <2>4. QED
    BY <2>1, <2>3, SlackType DEF IInv
<1>10. ASSUME NEW t \in Pending \ Bad PROVE now + duration <= From(t) + Slack'
  <2>1. /\ row[t].fireAt \in Nat /\ From(t) \in Nat /\ row[t].fireAt <= From(t)
    BY <1>10, RowOK DEF IInv, Pending
  <2>2. now <= From(t) + Slack
    BY <1>10 DEF IInv, OnTimeOK
  <2>3. now <= From(t) \/ now + MinSleep <= From(t) + Slack
    <3>1. ToSet(batch[s]) = {}
      BY <1>2 DEF ToSet
    <3>2. QED
      BY <1>2, <1>10, <3>1 DEF IInv, OnTimeOK
  <2>4. CASE faults' = faults + 1
    BY <1>1, <1>4, <1>9, <2>1, <2>2, <2>4, Constants
  <2>5. CASE duration = Sleep
    <3>1. CASE now <= From(t)
      BY <1>1, <1>4, <1>9, <2>1, <3>1, Constants
    <3>2. CASE ~(now <= From(t))
      <4>1. row[t].fireAt <= now
        BY <1>4, <2>1, <3>2
      <4>2. duration = MinSleep
        BY <1>10, <2>5, <4>1, SleepOK DEF IInv
      <4>3. QED
        BY <1>4, <1>9, <2>1, <2>3, <3>2, <4>2, Constants
    <3>3. QED
      BY <3>1, <3>2
  <2>6. QED
    BY <1>1, <2>4, <2>5
<1>11. OnTimeOK'
  <2>1. \A t \in Pending' \ Bad : t \in Pending /\ row'[t] = row[t]
    BY <1>2, <1>8
  <2>2. now' = now /\ \E x \in Schedulers : pc'[x] # "down"
    BY <1>2, <1>3
  <2>3. \A x \in Schedulers : pc'[x] = "asleep" =>
            \/ pc[x] = "asleep" /\ wakeAt'[x] = wakeAt[x]
            \/ \A t \in Pending' \ Bad : wakeAt'[x] <= From(t) + Slack'
    BY <1>3, <1>8, <1>10
  <2>4. \A x \in Schedulers : pc'[x] = "firing" =>
            /\ pc[x] = "firing"
            /\ \A u \in ToSet(batch[x]) : u \in Pending \ Bad =>
                    u \in ToSet(batch'[x]) /\ u \in Pending'
    BY <1>2, <1>3, <1>8
  <2>5. QED
    BY <1>5, <1>9, <2>1, <2>2, <2>3, <2>4, OnTimeFrame
<1>12. QED
  BY <1>5, <1>6, <1>7, <1>11 DEF IInv

\* A scheduler wakes, starts or stops; some scheduler stays up.
LEMMA WakeStep ==
    ASSUME IInv, NEW s \in Schedulers, Wake(s) \/ Start(s) \/ Stop(s)
    PROVE  IInv'
<1>1. /\ UNCHANGED <<now, row, passes, faults, prunes>>
      /\ wakeAt' = [wakeAt EXCEPT ![s] = 0] \/ wakeAt' = wakeAt
      /\ batch' = [batch EXCEPT ![s] = <<>>] \/ batch' = batch
      /\ \/ /\ pc' = [pc EXCEPT ![s] = "pass"] /\ stops' = stops
            /\ pc[s] = "down" \/ (pc[s] = "asleep" /\ wakeAt[s] <= now)
            /\ batch' = batch
         \/ /\ pc' = [pc EXCEPT ![s] = "down"] /\ stops < MaxStops /\ stops' = stops + 1
            /\ \E o \in Schedulers \ {s} : pc[o] # "down"
  BY DEF Wake, Start, Stop
<1>2. /\ pc'[s] \in {"pass", "down"}
      /\ \A x \in Schedulers \ {s} :
            pc'[x] = pc[x] /\ wakeAt'[x] = wakeAt[x] /\ batch'[x] = batch[x]
  BY <1>1 DEF IInv, TypeOK
<1>3. <<>> \in BoundedSeq(Rows, BatchSize) /\ ToSet(<<>>) = {}
  BY EmptyBatch
<1>4. TypeOK'
  <2>1. stops' \in 0 .. MaxStops
    BY <1>1, Constants DEF IInv, TypeOK
  <2>2. pc' \in [Schedulers -> {"down", "pass", "firing", "asleep"}]
    BY <1>1 DEF IInv, TypeOK
  <2>3. wakeAt' \in [Schedulers -> Nat] /\ batch' \in [Schedulers -> BoundedSeq(Rows, BatchSize)]
    <3>1. wakeAt' \in [Schedulers -> Nat]
      BY <1>1 DEF IInv, TypeOK
    <3>2. batch \in [Schedulers -> BoundedSeq(Rows, BatchSize)]
      BY DEF IInv, TypeOK
    <3>3. batch' \in [Schedulers -> BoundedSeq(Rows, BatchSize)]
      BY <1>1, <1>3, <3>2
    <3>4. QED
      BY <3>1, <3>3
  <2>4. QED
    BY <1>1, <2>1, <2>2, <2>3 DEF IInv, TypeOK
<1>5. \A x \in Schedulers : ToSet(batch'[x]) \subseteq ToSet(batch[x])
  <2>1. batch'[s] = <<>> \/ batch'[s] = batch[s]
    BY <1>1 DEF IInv, TypeOK
  <2>2. QED
    BY <1>2, <1>3, <2>1
<1>6. BatchOK'
  <2>1. now <= now'
    BY <1>1 DEF IInv, TypeOK
  <2>2. QED
    BY <1>1, <1>4, <1>5, <2>1, BatchFrame
<1>7. PassesOK'
  <2>1. /\ stops \in Nat /\ prunes \in Nat /\ stops' \in Nat
        /\ \A x \in Schedulers : passes[x] \in Nat
    BY <1>4, Constants DEF IInv, TypeOK
  <2>2. passes[s] <= stops' + prunes /\ stops <= stops'
    <3>1. CASE stops' = stops + 1
      BY <2>1, <3>1 DEF IInv, PassesOK
    <3>2. CASE stops' = stops /\ (pc[s] = "down" \/ (pc[s] = "asleep" /\ wakeAt[s] <= now))
      <4>1. wakeAt[s] \in Nat /\ now \in Nat
        BY Constants DEF IInv, TypeOK
      <4>2. QED
        BY <2>1, <3>2, <4>1 DEF IInv, PassesOK
    <3>3. QED
      BY <1>1, <3>1, <3>2
  <2>3. QED
    BY <1>1, <1>2, <2>1, <2>2 DEF IInv, PassesOK
<1>8. Slack' = Slack /\ Pending' = Pending
  BY <1>1 DEF Slack, Done, Pending
<1>9. OnTimeOK'
  <2>1. \E x \in Schedulers : pc'[x] # "down"
    <3>1. CASE pc' = [pc EXCEPT ![s] = "pass"]
      BY <3>1 DEF IInv, TypeOK
    <3>2. CASE \E o \in Schedulers \ {s} : pc[o] # "down"
      BY <1>2, <3>2
    <3>3. QED
      BY <1>1, <3>1, <3>2
  <2>2. \A t \in Pending' \ Bad : t \in Pending /\ row'[t] = row[t]
    BY <1>1, <1>8
  <2>3. Slack <= Slack' /\ now' = now
    BY <1>1, <1>8, SlackType DEF IInv
  <2>4. \A x \in Schedulers : pc'[x] = "asleep" => pc[x] = "asleep" /\ wakeAt'[x] = wakeAt[x]
    BY <1>2
  <2>5. \A x \in Schedulers : pc'[x] = "firing" =>
            /\ pc[x] = "firing"
            /\ \A u \in ToSet(batch[x]) : u \in Pending \ Bad =>
                    u \in ToSet(batch'[x]) /\ u \in Pending'
    BY <1>2, <1>8
  <2>6. QED
    BY <1>4, <2>1, <2>2, <2>3, <2>4, <2>5, OnTimeFrame
<1>10. QED
  BY <1>4, <1>6, <1>7, <1>9 DEF IInv

\* A prune takes fired rows, or fails; the pass that follows is paid for.
LEMMA PruneStep ==
    ASSUME IInv, NEW s \in Schedulers, PruneFired(s)
    PROVE  IInv'
<1>1. /\ UNCHANGED <<now, batch, passes, stops>>
      /\ prunes < MaxPrunes /\ prunes' = prunes + 1 /\ pc[s] = "asleep"
      /\ pc' = [pc EXCEPT ![s] = "pass"] /\ wakeAt' = [wakeAt EXCEPT ![s] = 0]
      /\ \/ /\ row' = [t \in Rows |-> IF t \in Expired THEN Pruned ELSE row[t]]
            /\ faults' = faults
         \/ faults < MaxFaults /\ faults' = faults + 1 /\ row' = row
  BY DEF PruneFired, Fault
<1>2. /\ pc'[s] = "pass"
      /\ \A x \in Schedulers \ {s} : pc'[x] = pc[x] /\ wakeAt'[x] = wakeAt[x]
  BY <1>1 DEF IInv, TypeOK
<1>3. /\ Pruned \in [state : {"absent", "pending", "fired", "pruned"},
                     fireAt : Deadlines \cup {0}, since : 0 .. MaxTime]
      /\ Pruned.state = "pruned"
  <2>1. Pruned = [state |-> "pruned", fireAt |-> 0, since |-> 0]
    BY DEF Pruned, Absent
  <2>2. QED
    BY <2>1, Constants
<1>4. \A t \in Rows : row'[t] = row[t] \/ (row[t].state = "fired" /\ row'[t].state = "pruned")
  BY <1>1, <1>3 DEF Expired
<1>5. TypeOK'
  <2>1. prunes' \in 0 .. MaxPrunes /\ faults' \in 0 .. MaxFaults
    BY <1>1, Constants DEF IInv, TypeOK
  <2>2. row' \in [Rows -> [state : {"absent", "pending", "fired", "pruned"},
                           fireAt : Deadlines \cup {0}, since : 0 .. MaxTime]]
    BY <1>1, <1>3 DEF IInv, TypeOK
  <2>3. QED
    BY <1>1, <2>1, <2>2 DEF IInv, TypeOK
<1>6. BatchOK'
  <2>1. now <= now'
    BY <1>1 DEF IInv, TypeOK
  <2>2. \A t \in Rows : row[t].state # "absent" =>
            /\ row'[t].state # "absent"
            /\ row'[t].state = "pending" => row'[t] = row[t]
    BY <1>4
  <2>3. QED
    BY <1>1, <1>5, <2>1, <2>2, BatchFrame
<1>7. PassesOK'
  <2>1. /\ stops \in Nat /\ prunes \in Nat /\ \A x \in Schedulers : passes[x] \in Nat
    BY Constants DEF IInv, TypeOK
  <2>2. QED
    BY <1>1, <1>2, <2>1 DEF IInv, PassesOK
<1>8. Done' = Done /\ Pending' = Pending
  BY <1>4 DEF Done, Pending
<1>9. OnTimeOK'
  <2>1. Slack <= Slack'
    BY <1>1, <1>5, <1>8, SlackGrows DEF IInv
  <2>2. \A t \in Pending' \ Bad : t \in Pending /\ row'[t] = row[t]
    BY <1>4, <1>8 DEF Pending
  <2>3. now' = now /\ \E x \in Schedulers : pc'[x] # "down"
    BY <1>1, <1>2
  <2>4. \A x \in Schedulers : pc'[x] = "asleep" => pc[x] = "asleep" /\ wakeAt'[x] = wakeAt[x]
    BY <1>2
  <2>5. \A x \in Schedulers : pc'[x] = "firing" =>
            /\ pc[x] = "firing"
            /\ \A u \in ToSet(batch[x]) : u \in Pending \ Bad =>
                    u \in ToSet(batch'[x]) /\ u \in Pending'
    BY <1>1, <1>2, <1>8
  <2>6. QED
    BY <1>5, <2>1, <2>2, <2>3, <2>4, <2>5, OnTimeFrame
<1>10. QED
  BY <1>5, <1>6, <1>7, <1>9 DEF IInv

-----------------------------------------------------------------------------
(* The theorems.                                                           *)

\* An empty table, and schedulers about to make their first pass.
LEMMA InitOK == Init => IInv
<1> SUFFICES ASSUME Init PROVE IInv
  OBVIOUS
<1>1. <<>> \in BoundedSeq(Rows, BatchSize) /\ ToSet(<<>>) = {}
  BY EmptyBatch
<1>2. TypeOK
  <2>1. Absent \in [state : {"absent", "pending", "fired", "pruned"},
                    fireAt : Deadlines \cup {0}, since : 0 .. MaxTime]
    BY Constants DEF Absent
  <2>2. QED
    BY <1>1, <2>1, Constants DEF Init, TypeOK
<1>3. BatchOK
  BY <1>1 DEF Init, BatchOK
<1>4. PassesOK
  BY DEF Init, PassesOK
<1>5. OnTimeOK
  <2>1. Pending = {}
    BY DEF Init, Pending, Absent
  <2>2. QED
    BY <2>1, TimersAssumption DEF Init, OnTimeOK
<1>6. QED
  BY <1>2, <1>3, <1>4, <1>5 DEF IInv

\* Every step preserves the invariant.
LEMMA NextOK == IInv /\ [Next]_vars => IInv'
<1> SUFFICES ASSUME IInv, [Next]_vars PROVE IInv'
  OBVIOUS
<1>1. CASE UNCHANGED vars
  <2>1. UNCHANGED <<now, row, pc, batch, wakeAt, passes, faults, stops, prunes>>
    BY <1>1 DEF vars, sched
  <2>2. QED
    BY <2>1 DEF IInv, TypeOK, BatchOK, PassesOK, OnTimeOK, Pending, From, Slack, Done
<1>2. CASE \E t \in Rows, at \in Deadlines : Schedule(t, at)
  BY <1>2, ScheduleStep
<1>3. CASE Advance
  BY <1>3, AdvanceStep
<1>4. ASSUME NEW s \in Schedulers,
             \/ Step(s) \/ PruneFired(s)
             \/ TickFails(s) \/ FireFails(s) \/ LookupFails(s)
             \/ Stop(s) \/ Start(s)
      PROVE  IInv'
  BY <1>4, TickStep, TickFailsStep, FireStep, RestStep, WakeStep, PruneStep DEF Step
<1>5. QED
  BY <1>1, <1>2, <1>3, <1>4 DEF Next

\* What a pending timer may wait, a pass may cost and a batch may hold: the
\* invariant the other theorems rest on.
THEOREM Inductive == Spec => []IInv
<1>1. QED
  BY InitOK, NextOK, PTL DEF Spec

\* Every reachable state has the shape of the table and of the loops; a batch is
\* never longer than BatchSize.
THEOREM TypeCorrect == Spec => []TypeOK
<1>1. IInv => TypeOK
  BY DEF IInv
<1>2. QED
  BY <1>1, Inductive, PTL

\* scheduler.go Run and sleep: a timer that can fire waits no longer than its
\* deadline, a MaxSleep, one more for each fault and a MinSleep for each other
\* timer that can fire.
THEOREM OnTime == Spec => []NeverLate
<1>1. ASSUME IInv, NEW t \in Pending \ Bad
      PROVE  now <= Max({row[t].fireAt, row[t].since}) + MaxSleep * (1 + faults)
                      + MinSleep * (Cardinality(Rows \ Bad) - 1)
  <2> DEFINE others == (Rows \ Bad) \ {t}
             d == Cardinality(Done)
             c == Cardinality(Rows \ Bad) - 1
  <2>1. t \in Rows \ Bad /\ t \notin Done
    BY <1>1 DEF Pending, Done
  <2>2. IsFiniteSet(Rows \ Bad)
    BY TimersAssumption, FS_Subset
  <2>3. IsFiniteSet(others) /\ Cardinality(others) = c
    BY <2>1, <2>2, FS_RemoveElement
  <2>4. d <= c /\ c \in Nat /\ d \in Nat
    <3>1. Done \in SUBSET others
      BY <2>1 DEF Done
    <3>2. QED
      BY <1>1, <2>3, <3>1, FS_Subset, FS_CardinalityType, SlackType DEF IInv
  <2>5. /\ now <= From(t) + (MaxSleep * (1 + faults) + MinSleep * d)
    BY <1>1 DEF IInv, OnTimeOK, Slack
  <2>6. From(t) \in Nat /\ faults \in Nat /\ now \in Nat
    BY <1>1, <2>1, RowOK, SlackType, Constants DEF IInv, TypeOK
  <2> HIDE DEF c, d
  <2>7. MinSleep * d <= MinSleep * c /\ MinSleep * d \in Nat /\ MinSleep * c \in Nat
    <3>1. \A k, m, n \in Nat : m <= n => k * m <= k * n /\ k * m \in Nat /\ k * n \in Nat
      OBVIOUS
    <3>2. QED
      BY <2>4, <3>1, Constants
  <2>8. MaxSleep * (1 + faults) \in Nat
    BY <2>6, Constants
  <2>9. now <= From(t) + MaxSleep * (1 + faults) + MinSleep * c
    BY <2>5, <2>6, <2>7, <2>8
  <2>10. QED
    BY <2>9 DEF From, c
<1>2. IInv => NeverLate
  BY <1>1 DEF NeverLate
<1>3. QED
  BY <1>2, Inductive, PTL

\* scheduler.go MinSleep: while the clock stands a scheduler makes one pass, and
\* one more for each stop and each prune.
THEOREM Paced == Spec => []NoSpin
<1>1. IInv => NoSpin
  BY DEF IInv, PassesOK, NoSpin
<1>2. QED
  BY <1>1, Inductive, PTL

\* timers.go Schedule, MarkFired and Prune: a row is scheduled once, fires at or
\* after its deadline and not twice, and is pruned only when it has fired and
\* Retention has passed.
THEOREM RowsInOrder == Spec => FiredThenPruned
<1> DEFINE InOrder(t) ==
        row'[t].state # row[t].state =>
        CASE row[t].state = "absent"  -> row'[t].state = "pending"
          [] row[t].state = "pending" -> row'[t].state = "fired" /\ row[t].fireAt <= now
          [] row[t].state = "fired"   -> row'[t].state = "pruned" /\ now - row[t].since >= Retention
          [] OTHER -> FALSE
<1>1. ASSUME IInv, [Next]_vars, NEW t \in Rows PROVE InOrder(t)
  <2>1. CASE row' = row
    BY <2>1
  <2>2. ASSUME NEW u \in Rows, NEW at \in Deadlines, Schedule(u, at) PROVE InOrder(t)
    <3>1. /\ row[u].state = "absent" /\ row'[u].state = "pending"
          /\ \A v \in Rows \ {u} : row'[v] = row[v]
      BY <1>1, <2>2 DEF Schedule, IInv, TypeOK
    <3>2. QED
      BY <3>1
  <2>3. ASSUME NEW s \in Schedulers, FireOne(s) PROVE InOrder(t)
    <3> DEFINE h == Head(batch[s])
    <3>1. /\ h \in Rows /\ h \in ToSet(batch[s])
      <4>1. batch[s] \in BoundedSeq(Rows, BatchSize) /\ BatchSize \in Nat /\ batch[s] # <<>>
        BY <1>1, <2>3, Constants DEF IInv, TypeOK, FireOne
      <4>2. QED
        BY <4>1, TailOK
    <3>2. CASE row' = row
      BY <3>2
    <3>3. CASE /\ h \in Pending
               /\ row' = [row EXCEPT ![h] = [state |-> "fired", fireAt |-> 0, since |-> now]]
      <4>1. row[h].state = "pending" /\ row[h].fireAt <= now
        BY <1>1, <3>1, <3>3 DEF IInv, BatchOK, Pending
      <4>2. row'[h].state = "fired" /\ \A v \in Rows \ {h} : row'[v] = row[v]
        BY <1>1, <3>1, <3>3 DEF IInv, TypeOK
      <4>3. QED
        BY <4>1, <4>2
    <3>4. QED
      BY <2>3, <3>2, <3>3 DEF FireOne, Skip
  <2>4. ASSUME NEW s \in Schedulers, PruneFired(s) PROVE InOrder(t)
    <3>1. Pruned.state = "pruned"
      BY DEF Pruned, Absent
    <3>2. row'[t] = row[t] \/ (t \in Expired /\ row'[t].state = "pruned")
      BY <2>4, <3>1 DEF PruneFired
    <3>3. t \in Expired => row[t].state = "fired" /\ now - row[t].since >= Retention
      <4>1. now \in Nat /\ row[t].since \in Nat /\ Retention \in Nat
        BY <1>1, RowOK, Constants DEF IInv, TypeOK
      <4>2. QED
        BY <4>1 DEF Expired
    <3>4. QED
      BY <3>2, <3>3
  <2>5. \/ row' = row
        \/ \E u \in Rows, at \in Deadlines : Schedule(u, at)
        \/ \E s \in Schedulers : FireOne(s) \/ PruneFired(s)
    <3>1. CASE UNCHANGED vars
      BY <3>1 DEF vars
    <3>2. CASE Next
      BY <3>2 DEF Next, Step, Advance, Tick, TickFails, FireFails, Skip, FallAsleep,
                  LookupFails, Rest, Wake, Stop, Start
    <3>3. QED
      BY <1>1, <3>1, <3>2
  <2>6. QED
    BY <2>1, <2>2, <2>3, <2>4, <2>5
<1>2. IInv /\ [Next]_vars => [\A t \in Rows : InOrder(t)]_vars
  BY <1>1
<1>3. QED
  BY <1>2, Inductive, PTL DEF Spec, FiredThenPruned
=============================================================================
