--------------------------- MODULE ConsumerProofs ---------------------------
(***************************************************************************)
(* Proofs about Consumer, for any group, any partitions and records, any   *)
(* retry budget, batch size and number of disruptions: the type invariant, *)
(* NothingSkipped, HandledInOrder and ExclusiveBatch.                      *)
(***************************************************************************)
EXTENDS Consumer, TLAPS

-----------------------------------------------------------------------------
(* The inductive invariant.                                                *)

\* A record in hand is one of the batch, and it is settled once attempt is -1.
HandOK ==
    \A m \in Members :
        /\ attempt[m] # 0 => cur[m] \in Partitions
        /\ cur[m] # NoPartition => next[m][cur[m]] < fetched[m][cur[m]]
        /\ attempt[m] = -1 => Rec(m) \in Settled

\* Everything in p before offset n is settled.
SettledBelow(p, n) == \A o \in 1 .. n - 1 : <<p, o>> \in Settled

\* m may still go on with p: its batch has more of it, or it will poll again.
GoesOn(m, p) == up[m] # "stopping" \/ next[m][p] < fetched[m][p]

\* Nothing unsettled lies behind a commit, a mark, or a partition m goes on with.
BehindOK ==
    ~refused =>
        \A p \in Partitions :
            /\ SettledBelow(p, committed[p])
            /\ \A m \in Members :
                /\ SettledBelow(p, marked[m][p])
                /\ GoesOn(m, p) => SettledBelow(p, next[m][p])

IInv == TypeOK /\ HandOK /\ BehindOK /\ ExclusiveBatch

-----------------------------------------------------------------------------
(* Steps of the group.                                                     *)

\* A member without a batch has no record in hand.
LEMMA Idle ==
    ASSUME IInv, NEW m \in Members, ~InBatch(m)
    PROVE  cur[m] = NoPartition /\ attempt[m] = 0
BY RecordAssumption DEF IInv, TypeOK, HandOK, InBatch

\* A partition starts at the committed offset, on a member between two batches.
LEMMA AssignStep ==
    ASSUME IInv, NEW m \in Members, NEW p \in Partitions, Assign(m, p)
    PROVE  IInv'
<1>1. /\ UNCHANGED <<committed, handled, dlq, up, cur, attempt, disruptions, refused, evicted>>
      /\ owner' = [owner EXCEPT ![p] = m] /\ owner[p] = Nobody
      /\ up[m] = "running" /\ ~InBatch(m)
      /\ fetched' = [fetched EXCEPT ![m][p] = committed[p]]
      /\ next' = [next EXCEPT ![m][p] = committed[p]]
      /\ marked' = [marked EXCEPT ![m][p] = committed[p]]
  BY DEF Assign, budget
<1>2. cur[m] = NoPartition /\ attempt[m] = 0
  BY <1>1, Idle
<1>3. TypeOK'
  BY <1>1 DEF IInv, TypeOK
<1>4. \A x \in Members, q \in Partitions :
        IF x = m /\ q = p
        THEN /\ fetched'[x][q] = committed[p] /\ next'[x][q] = committed[p]
             /\ marked'[x][q] = committed[p]
        ELSE /\ fetched'[x][q] = fetched[x][q] /\ next'[x][q] = next[x][q]
             /\ marked'[x][q] = marked[x][q]
  BY <1>1 DEF IInv, TypeOK
<1>5. HandOK'
  BY <1>1, <1>2, <1>4 DEF IInv, TypeOK, HandOK, Rec, Settled
<1>6. BehindOK'
  BY <1>1, <1>4 DEF IInv, BehindOK, SettledBelow, GoesOn, Settled
<1>7. ExclusiveBatch'
  <2> SUFFICES ASSUME ~evicted, NEW x \in Members, NEW q \in Partitions,
                      next'[x][q] < fetched'[x][q]
               PROVE  owner'[q] = x
    BY <1>1 DEF ExclusiveBatch
  <2>1. ~(x = m /\ q = p)
    BY <1>4 DEF IInv, TypeOK
  <2>2. owner[q] = x
    BY <1>4, <2>1 DEF IInv, ExclusiveBatch
  <2>3. QED
    BY <1>1, <2>2, RecordAssumption DEF IInv, TypeOK
<1>8. QED
  BY <1>3, <1>5, <1>6, <1>7 DEF IInv

\* Commits take marks, and marks lie behind what is settled.
LEMMA CommitMarkedOK ==
    ASSUME IInv, NEW m \in Members, CommitMarked(m, Owned(m))
    PROVE  /\ committed' \in [Partitions -> Nat \ {0}]
           /\ ~refused => \A p \in Partitions : SettledBelow(p, committed'[p])
<1>1. \A p \in Partitions : committed'[p] \in {committed[p], marked[m][p]}
  BY DEF CommitMarked
<1>2. QED
  BY <1>1 DEF IInv, TypeOK, BehindOK, CommitMarked

\* The background commit moves nothing but the committed offsets.
LEMMA AutoCommitStep ==
    ASSUME IInv, NEW m \in Members, AutoCommit(m)
    PROVE  IInv'
<1>1. UNCHANGED <<owner, handled, dlq, up, fetched, next, marked, cur, attempt>>
      /\ UNCHANGED <<disruptions, refused, evicted>> /\ CommitMarked(m, Owned(m))
  BY DEF AutoCommit, member, budget
<1>2. /\ committed' \in [Partitions -> Nat \ {0}]
      /\ ~refused => \A p \in Partitions : SettledBelow(p, committed'[p])
  BY <1>1, CommitMarkedOK
<1>3. TypeOK'
  BY <1>1, <1>2 DEF IInv, TypeOK
<1>4. HandOK' /\ ExclusiveBatch'
  BY <1>1 DEF IInv, HandOK, Rec, Settled, ExclusiveBatch
<1>5. BehindOK'
  BY <1>1, <1>2 DEF IInv, BehindOK, SettledBelow, GoesOn, Settled
<1>6. QED
  BY <1>3, <1>4, <1>5 DEF IInv

\* A partition is taken away from a member that has no batch, or from one that
\* is evicted.
LEMMA RevokeStep ==
    ASSUME IInv, NEW m \in Members, NEW p \in Partitions, Revoke(m, p) \/ Evict(m, p)
    PROVE  IInv'
<1>1. /\ UNCHANGED <<handled, dlq, up, fetched, next, marked, cur, attempt, refused>>
      /\ owner' = [owner EXCEPT ![p] = Nobody] /\ owner[p] = m
      /\ disruptions < MaxDisruptions /\ disruptions' = disruptions + 1
      /\ (evicted' = evicted \/ evicted') /\ (~evicted' => ~evicted /\ ~InBatch(m))
      /\ committed' = committed \/ CommitMarked(m, Owned(m))
  <2>1. CASE Revoke(m, p)
    BY <2>1 DEF Revoke, Disrupt, member
  <2>2. CASE Evict(m, p)
    BY <2>2 DEF Evict, Disrupt, member
  <2>3. QED
    BY <2>1, <2>2
<1>2. /\ committed' \in [Partitions -> Nat \ {0}]
      /\ ~refused => \A q \in Partitions : SettledBelow(q, committed'[q])
  <2>1. CASE committed' = committed
    BY <2>1 DEF IInv, TypeOK, BehindOK
  <2>2. CASE CommitMarked(m, Owned(m))
    BY <2>2, CommitMarkedOK
  <2>3. QED
    BY <1>1, <2>1, <2>2
<1>3. TypeOK'
  <2>1. disruptions' \in 0 .. MaxDisruptions
    BY <1>1, BudgetAssumption DEF IInv, TypeOK
  <2>2. evicted' \in BOOLEAN
    BY DEF Revoke, Evict, IInv, TypeOK
  <2>3. QED
    BY <1>1, <1>2, <2>1, <2>2 DEF IInv, TypeOK
<1>4. HandOK'
  BY <1>1 DEF IInv, HandOK, Rec, Settled
<1>5. BehindOK'
  BY <1>1, <1>2 DEF IInv, BehindOK, SettledBelow, GoesOn, Settled
<1>6. ExclusiveBatch'
  BY <1>1 DEF IInv, TypeOK, ExclusiveBatch, InBatch
<1>7. QED
  BY <1>3, <1>4, <1>5, <1>6 DEF IInv

-----------------------------------------------------------------------------
(* Steps of the poll loop.                                                 *)

\* A poll extends the batch of the partitions m owns.
LEMMA PollStep ==
    ASSUME IInv, NEW m \in Members, Poll(m)
    PROVE  IInv'
<1>1. /\ UNCHANGED <<owner, committed, handled, dlq, up, next, marked, cur, attempt>>
      /\ UNCHANGED <<disruptions, refused, evicted>> /\ up[m] = "running" /\ ~InBatch(m)
  BY DEF Poll, broker, budget
<1>2. PICK n \in [Owned(m) -> 0 .. PollBatch] :
        fetched' = [fetched EXCEPT ![m] =
                        [p \in Partitions |-> IF p \in Owned(m) THEN @[p] + n[p] ELSE @[p]]]
  BY DEF Poll
<1>3. fetched \in [Members -> [Partitions -> Nat \ {0}]]
  BY DEF IInv, TypeOK
<1>4. /\ \A x \in Members \ {m} : fetched'[x] = fetched[x]
      /\ \A p \in Partitions : fetched'[m][p] =
            IF p \in Owned(m) THEN fetched[m][p] + n[p] ELSE fetched[m][p]
  BY <1>2, <1>3
<1>5. \A p \in Owned(m) : n[p] \in Nat
  BY <1>2, BudgetAssumption
<1>6. [p \in Partitions |-> IF p \in Owned(m) THEN fetched[m][p] + n[p] ELSE fetched[m][p]]
        \in [Partitions -> Nat \ {0}]
  BY <1>3, <1>5
<1>7. fetched' \in [Members -> [Partitions -> Nat \ {0}]]
  BY <1>2, <1>3, <1>6
<1>8. TypeOK'
  BY <1>1, <1>7 DEF IInv, TypeOK
<1>9. cur[m] = NoPartition /\ attempt[m] = 0
  BY <1>1, Idle
<1>10. HandOK'
  BY <1>1, <1>4, <1>9 DEF IInv, TypeOK, HandOK, Rec, Settled
<1>11. BehindOK'
  BY <1>1, <1>4 DEF IInv, BehindOK, SettledBelow, GoesOn, Settled
<1>12. ExclusiveBatch'
  <2> SUFFICES ASSUME ~evicted, NEW x \in Members, NEW p \in Partitions,
                      next[x][p] < fetched'[x][p]
               PROVE  owner[p] = x
    BY <1>1 DEF ExclusiveBatch
  <2>1. CASE x = m /\ p \notin Owned(m)
    BY <1>1, <1>4, <2>1 DEF InBatch
  <2>2. CASE x = m /\ p \in Owned(m)
    BY <2>2 DEF Owned
  <2>3. CASE x # m
    BY <1>4, <2>3 DEF IInv, ExclusiveBatch
  <2>4. QED
    BY <2>1, <2>2, <2>3
<1>13. QED
  BY <1>8, <1>10, <1>11, <1>12 DEF IInv

\* The record taken is one of the batch.
LEMMA TakeStep ==
    ASSUME IInv, NEW m \in Members, NEW p \in Partitions, Take(m, p)
    PROVE  IInv'
<1>1. /\ UNCHANGED <<owner, committed, handled, dlq, up, fetched, next, marked>>
      /\ UNCHANGED <<disruptions, refused, evicted>>
      /\ next[m][p] < fetched[m][p]
      /\ cur' = [cur EXCEPT ![m] = p] /\ attempt' = [attempt EXCEPT ![m] = 1]
  BY DEF Take, broker, budget
<1>2. TypeOK'
  BY <1>1, BudgetAssumption DEF IInv, TypeOK
<1>3. HandOK'
  BY <1>1 DEF IInv, TypeOK, HandOK, Rec, Settled
<1>4. BehindOK' /\ ExclusiveBatch'
  BY <1>1 DEF IInv, BehindOK, SettledBelow, GoesOn, Settled, ExclusiveBatch
<1>5. QED
  BY <1>2, <1>3, <1>4 DEF IInv

\* The record in hand is a record.
LEMMA RecType ==
    ASSUME IInv, NEW m \in Members, attempt[m] # 0
    PROVE  Rec(m) \in Partitions \X (Nat \ {0})
BY DEF IInv, TypeOK, HandOK, Rec

\* The handler succeeds, the record is dead-lettered, or it is tried again.
LEMMA AttemptStep ==
    ASSUME IInv, NEW m \in Members, Succeed(m) \/ DeadLetter(m) \/ Retry(m)
    PROVE  IInv'
<1>1. /\ UNCHANGED <<owner, committed, up, fetched, next, marked, cur>>
      /\ UNCHANGED <<disruptions, refused, evicted>>
      /\ attempt[m] > 0
  BY DEF Succeed, DeadLetter, Retry, GivenUp, InHand, broker, budget
<1>2. /\ handled' \in {handled, handled \cup {Rec(m)}}
      /\ dlq' \in {dlq, dlq \cup {Rec(m)}}
      /\ \/ attempt' = [attempt EXCEPT ![m] = -1] /\ Rec(m) \in handled' \cup dlq'
         \/ attempt' = [attempt EXCEPT ![m] = @ + 1] /\ attempt[m] < MaxAttempts
  BY DEF Succeed, DeadLetter, Retry, broker
<1>3. attempt \in [Members -> -1 .. MaxAttempts] /\ MaxAttempts \in Nat \ {0}
  BY BudgetAssumption DEF IInv, TypeOK
<1>4. attempt[m] # 0 /\ attempt'[m] # 0 /\ \A x \in Members \ {m} : attempt'[x] = attempt[x]
  BY <1>1, <1>2, <1>3
<1>5. Rec(m) \in Partitions \X (Nat \ {0})
  BY <1>4, RecType
<1>6. TypeOK'
  <2>1. attempt' \in [Members -> -1 .. MaxAttempts]
    BY <1>1, <1>2, <1>3
  <2>2. handled' \subseteq Partitions \X (Nat \ {0}) /\ dlq' \subseteq Partitions \X (Nat \ {0})
    BY <1>2, <1>5 DEF IInv, TypeOK
  <2>3. QED
    BY <1>1, <2>1, <2>2 DEF IInv, TypeOK
<1>7. Settled \subseteq Settled'
  BY <1>2 DEF Settled
<1>8. \A x \in Members : Rec(x)' = Rec(x)
  BY <1>1 DEF Rec
<1>9. attempt'[m] = -1 => Rec(m) \in Settled'
  BY <1>1, <1>2, <1>3 DEF Settled
<1>10. HandOK'
  BY <1>1, <1>4, <1>7, <1>8, <1>9 DEF IInv, HandOK
<1>11. BehindOK' /\ ExclusiveBatch'
  BY <1>1, <1>7 DEF IInv, BehindOK, SettledBelow, GoesOn, ExclusiveBatch
<1>12. QED
  BY <1>6, <1>10, <1>11 DEF IInv

\* A record that stays unsettled: a shutdown goes on with the other partitions
\* only, a refused dead letter gives up the order.
LEMMA StallStep ==
    ASSUME IInv, NEW m \in Members, CutShort(m) \/ DeadLetterFails(m)
    PROVE  IInv'
<1>1. /\ UNCHANGED <<owner, committed, handled, up, fetched, marked, evicted>>
      /\ Stall(m) /\ attempt[m] > 0
      /\ ~refused' => ~refused /\ up[m] = "stopping"
      /\ dlq' \in {dlq, dlq \cup {Rec(m)}}
  <2>1. CASE CutShort(m)
    BY <2>1 DEF CutShort, InHand, broker, budget
  <2>2. CASE DeadLetterFails(m)
    BY <2>2 DEF DeadLetterFails, GivenUp, InHand
  <2>3. QED
    BY <2>1, <2>2
<1>2. cur[m] \in Partitions /\ Rec(m) \in Partitions \X (Nat \ {0})
  BY <1>1, RecType DEF IInv, TypeOK, HandOK
<1>3. /\ cur' = [cur EXCEPT ![m] = NoPartition] /\ attempt' = [attempt EXCEPT ![m] = 0]
      /\ next' = [next EXCEPT ![m][cur[m]] = fetched[m][cur[m]]]
  BY <1>1 DEF Stall
<1>4. \A x \in Members, p \in Partitions :
        next'[x][p] = IF x = m /\ p = cur[m] THEN fetched[m][p] ELSE next[x][p]
  BY <1>2, <1>3 DEF IInv, TypeOK
<1>5. TypeOK'
  <2>1. disruptions' \in 0 .. MaxDisruptions
    BY BudgetAssumption DEF CutShort, DeadLetterFails, Disrupt, budget, IInv, TypeOK
  <2>2. next' \in [Members -> [Partitions -> Nat \ {0}]]
    BY <1>2, <1>3 DEF IInv, TypeOK
  <2>3. attempt' \in [Members -> -1 .. MaxAttempts] /\ cur' \in [Members -> Partitions \cup {NoPartition}]
    BY <1>3, BudgetAssumption DEF IInv, TypeOK
  <2>4. dlq' \subseteq Partitions \X (Nat \ {0})
    BY <1>1, <1>2 DEF IInv, TypeOK
  <2>5. refused' \in BOOLEAN
    BY DEF CutShort, DeadLetterFails, budget, IInv, TypeOK
  <2>6. QED
    BY <1>1, <2>1, <2>2, <2>3, <2>4, <2>5 DEF IInv, TypeOK
<1>6. Settled \subseteq Settled'
  BY <1>1 DEF Settled
<1>7. HandOK'
  BY <1>1, <1>3, <1>4, <1>6 DEF IInv, TypeOK, HandOK, Rec
<1>8. BehindOK'
  <2> SUFFICES ASSUME ~refused', NEW p \in Partitions
               PROVE  /\ SettledBelow(p, committed[p])'
                      /\ \A x \in Members : /\ SettledBelow(p, marked[x][p])'
                                            /\ GoesOn(x, p)' => SettledBelow(p, next[x][p])'
    BY DEF BehindOK
  <2>1. ~refused /\ up[m] = "stopping"
    BY <1>1
  <2>2. ASSUME NEW x \in Members, GoesOn(x, p)' PROVE next'[x][p] = next[x][p]
    BY <1>1, <1>4, <2>1, <2>2 DEF GoesOn, IInv, TypeOK
  <2>3. QED
    BY <1>1, <1>6, <2>1, <2>2 DEF IInv, BehindOK, SettledBelow, GoesOn
<1>9. ExclusiveBatch'
  <2> SUFFICES ASSUME ~evicted', NEW x \in Members, NEW p \in Partitions,
                      next'[x][p] < fetched'[x][p]
               PROVE  owner'[p] = x
    BY DEF ExclusiveBatch
  <2>1. fetched'[x][p] = fetched[x][p] /\ fetched[x][p] \in Nat
    BY <1>1 DEF IInv, TypeOK
  <2>2. ~(x = m /\ p = cur[m])
    BY <1>4, <2>1
  <2>3. next[x][p] < fetched[x][p]
    BY <1>4, <2>1, <2>2
  <2>4. QED
    BY <1>1, <2>3 DEF IInv, ExclusiveBatch
<1>10. QED
  BY <1>5, <1>7, <1>8, <1>9 DEF IInv

\* A mark goes over the settled record in hand, behind which all is settled.
LEMMA MarkStep ==
    ASSUME IInv, NEW m \in Members, Mark(m)
    PROVE  IInv'
<1> DEFINE c == cur[m]
           n == next[m][c]
<1>1. /\ UNCHANGED <<owner, committed, handled, dlq, up, fetched>>
      /\ UNCHANGED <<disruptions, refused, evicted>>
      /\ attempt[m] = -1
      /\ marked' = [marked EXCEPT ![m][c] = Larger(@, n + 1)]
      /\ next' = [next EXCEPT ![m][c] = @ + 1]
      /\ cur' = [cur EXCEPT ![m] = NoPartition] /\ attempt' = [attempt EXCEPT ![m] = 0]
  BY DEF Mark, broker, budget
<1>2. c \in Partitions /\ n \in Nat \ {0} /\ <<c, n>> \in Settled
  BY <1>1 DEF IInv, TypeOK, HandOK, Rec
<1>3. n < fetched[m][c]
  BY <1>2, RecordAssumption DEF IInv, HandOK
<1>4. \A x \in Members, p \in Partitions :
        /\ next'[x][p] = IF x = m /\ p = c THEN n + 1 ELSE next[x][p]
        /\ marked'[x][p] = marked[x][p] \/ (x = m /\ p = c /\ marked'[x][p] = n + 1)
  BY <1>1, <1>2 DEF IInv, TypeOK, Larger
<1>5. TypeOK'
  <2>1. Larger(marked[m][c], n + 1) \in Nat \ {0} /\ n + 1 \in Nat \ {0}
    BY <1>2 DEF Larger, IInv, TypeOK
  <2>2. next' \in [Members -> [Partitions -> Nat \ {0}]]
        /\ marked' \in [Members -> [Partitions -> Nat \ {0}]]
    BY <1>1, <1>2, <2>1 DEF IInv, TypeOK
  <2>3. attempt' \in [Members -> -1 .. MaxAttempts] /\ cur' \in [Members -> Partitions \cup {NoPartition}]
    BY <1>1, BudgetAssumption DEF IInv, TypeOK
  <2>4. QED
    BY <1>1, <2>2, <2>3 DEF IInv, TypeOK
<1>6. HandOK'
  BY <1>1, <1>4 DEF IInv, TypeOK, HandOK, Rec, Settled
<1>7. ~refused => SettledBelow(c, n + 1)
  <2>1. ~refused => SettledBelow(c, n)
    BY <1>2, <1>3 DEF IInv, BehindOK, GoesOn
  <2>2. QED
    BY <1>2, <2>1 DEF SettledBelow
<1>8. BehindOK'
  <2> SUFFICES ASSUME ~refused, NEW p \in Partitions
               PROVE  /\ SettledBelow(p, committed[p])
                      /\ \A x \in Members : /\ SettledBelow(p, marked'[x][p])
                                            /\ GoesOn(x, p)' => SettledBelow(p, next'[x][p])
    BY <1>1 DEF BehindOK, SettledBelow, Settled
  <2>1. SettledBelow(p, committed[p])
    BY DEF IInv, BehindOK
  <2>2. ASSUME NEW x \in Members PROVE SettledBelow(p, marked'[x][p])
    BY <1>4, <1>7 DEF IInv, BehindOK
  <2>3. ASSUME NEW x \in Members, GoesOn(x, p)' PROVE SettledBelow(p, next'[x][p])
    <3>1. CASE x = m /\ p = c
      BY <1>4, <1>7, <3>1
    <3>2. CASE ~(x = m /\ p = c)
      BY <1>1, <1>4, <2>3, <3>2 DEF IInv, BehindOK, GoesOn
    <3>3. QED
      BY <3>1, <3>2
  <2>4. QED
    BY <2>1, <2>2, <2>3
<1>9. ExclusiveBatch'
  BY <1>1, <1>2, <1>3, <1>4 DEF IInv, TypeOK, ExclusiveBatch
<1>10. QED
  BY <1>5, <1>6, <1>8, <1>9 DEF IInv

-----------------------------------------------------------------------------
(* Steps of a member's life.                                               *)

\* A member that leaves takes its marks and its batch with it.
LEMMA LeaveStep ==
    ASSUME IInv, NEW m \in Members, Close(m) \/ Crash(m)
    PROVE  IInv'
<1>1. /\ UNCHANGED <<handled, dlq, refused, evicted>> /\ Leave(m)
      /\ committed' = committed \/ CommitMarked(m, Owned(m))
  BY DEF Close, Crash, budget
<1>2. /\ committed' \in [Partitions -> Nat \ {0}]
      /\ ~refused => \A q \in Partitions : SettledBelow(q, committed'[q])
  <2>1. CASE committed' = committed
    BY <2>1 DEF IInv, TypeOK, BehindOK
  <2>2. CASE CommitMarked(m, Owned(m))
    BY <2>2, CommitMarkedOK
  <2>3. QED
    BY <1>1, <2>1, <2>2
<1>3. /\ owner' = [p \in Partitions |-> IF owner[p] = m THEN Nobody ELSE owner[p]]
      /\ up' = [up EXCEPT ![m] = "down"]
      /\ fetched' = [fetched EXCEPT ![m] = [p \in Partitions |-> 1]]
      /\ next' = [next EXCEPT ![m] = [p \in Partitions |-> 1]]
      /\ marked' = [marked EXCEPT ![m] = [p \in Partitions |-> 1]]
      /\ cur' = [cur EXCEPT ![m] = NoPartition]
      /\ attempt' = [attempt EXCEPT ![m] = 0]
  BY <1>1 DEF Leave
<1>4. TypeOK'
  <2>1. disruptions' \in 0 .. MaxDisruptions
    BY BudgetAssumption DEF Close, Crash, Disrupt, budget, IInv, TypeOK
  <2>2. [p \in Partitions |-> 1] \in [Partitions -> Nat \ {0}]
    OBVIOUS
  <2>3. /\ fetched' \in [Members -> [Partitions -> Nat \ {0}]]
        /\ next' \in [Members -> [Partitions -> Nat \ {0}]]
        /\ marked' \in [Members -> [Partitions -> Nat \ {0}]]
    BY <1>3, <2>2 DEF IInv, TypeOK
  <2>4. attempt' \in [Members -> -1 .. MaxAttempts] /\ cur' \in [Members -> Partitions \cup {NoPartition}]
    BY <1>3, BudgetAssumption DEF IInv, TypeOK
  <2>5. owner' \in [Partitions -> Members \cup {Nobody}] /\ up' \in [Members -> {"running", "stopping", "down"}]
    BY <1>3 DEF IInv, TypeOK
  <2>6. QED
    BY <1>1, <1>2, <2>1, <2>3, <2>4, <2>5 DEF IInv, TypeOK
<1>5. /\ \A p \in Partitions : fetched'[m][p] = 1 /\ next'[m][p] = 1 /\ marked'[m][p] = 1
      /\ cur'[m] = NoPartition /\ attempt'[m] = 0 /\ up'[m] = "down"
      /\ \A x \in Members \ {m} :
            /\ fetched'[x] = fetched[x] /\ next'[x] = next[x] /\ marked'[x] = marked[x]
            /\ cur'[x] = cur[x] /\ attempt'[x] = attempt[x] /\ up'[x] = up[x]
  BY <1>3 DEF IInv, TypeOK
<1>6. HandOK'
  BY <1>1, <1>5 DEF IInv, HandOK, Rec, Settled
<1>7. BehindOK'
  BY <1>1, <1>2, <1>5 DEF IInv, BehindOK, SettledBelow, GoesOn, Settled
<1>8. ExclusiveBatch'
  BY <1>1, <1>3, <1>5 DEF IInv, ExclusiveBatch
<1>9. QED
  BY <1>4, <1>6, <1>7, <1>8 DEF IInv

\* A shutdown begins, or a process starts with nothing fetched.
LEMMA StopStartStep ==
    ASSUME IInv, NEW m \in Members, Stop(m) \/ Start(m)
    PROVE  IInv'
<1>1. /\ UNCHANGED <<owner, committed, handled, dlq, fetched, next, marked, cur, attempt>>
      /\ UNCHANGED <<refused, evicted>>
      /\ up' \in [Members -> {"running", "stopping", "down"}]
      /\ \A x \in Members : up[x] = "stopping" => up'[x] = "stopping"
  BY DEF Stop, Start, broker, budget, IInv, TypeOK
<1>2. TypeOK'
  <2>1. disruptions' \in 0 .. MaxDisruptions
    BY BudgetAssumption DEF Stop, Start, Disrupt, budget, IInv, TypeOK
  <2>2. QED
    BY <1>1, <2>1 DEF IInv, TypeOK
<1>3. HandOK' /\ ExclusiveBatch'
  BY <1>1 DEF IInv, HandOK, Rec, Settled, ExclusiveBatch
<1>4. BehindOK'
  BY <1>1 DEF IInv, BehindOK, SettledBelow, GoesOn, Settled
<1>5. QED
  BY <1>2, <1>3, <1>4 DEF IInv

-----------------------------------------------------------------------------
(* The theorems.                                                           *)

\* The invariant holds of a group that has just started.
LEMMA InitIInv == Init => IInv
<1> SUFFICES ASSUME Init PROVE IInv
  OBVIOUS
<1>1. [p \in Partitions |-> 1] \in [Partitions -> Nat \ {0}]
  OBVIOUS
<1>2. TypeOK
  <2>1. attempt \in [Members -> -1 .. MaxAttempts] /\ disruptions \in 0 .. MaxDisruptions
    BY BudgetAssumption DEF Init
  <2>2. /\ fetched \in [Members -> [Partitions -> Nat \ {0}]]
        /\ next \in [Members -> [Partitions -> Nat \ {0}]]
        /\ marked \in [Members -> [Partitions -> Nat \ {0}]]
        /\ committed \in [Partitions -> Nat \ {0}]
    BY <1>1 DEF Init
  <2>3. QED
    BY <2>1, <2>2 DEF Init, TypeOK
<1>3. HandOK /\ ExclusiveBatch
  BY DEF Init, HandOK, ExclusiveBatch
<1>4. BehindOK
  BY DEF Init, BehindOK, SettledBelow
<1>5. QED
  BY <1>2, <1>3, <1>4 DEF IInv

\* Every action preserves it.
LEMMA NextIInv == IInv /\ [Next]_vars => IInv'
<1> SUFFICES ASSUME IInv, [Next]_vars PROVE IInv'
  OBVIOUS
<1>1. ASSUME NEW m \in Members, NEW p \in Partitions,
             Assign(m, p) \/ Revoke(m, p) \/ Evict(m, p) \/ Take(m, p)
      PROVE  IInv'
  BY <1>1, AssignStep, RevokeStep, TakeStep
<1>2. ASSUME NEW m \in Members, Poll(m) \/ AutoCommit(m)
      PROVE  IInv'
  BY <1>2, PollStep, AutoCommitStep
<1>3. ASSUME NEW m \in Members, Succeed(m) \/ DeadLetter(m) \/ Retry(m)
      PROVE  IInv'
  BY <1>3, AttemptStep
<1>4. ASSUME NEW m \in Members, CutShort(m) \/ DeadLetterFails(m) \/ Mark(m)
      PROVE  IInv'
  BY <1>4, StallStep, MarkStep
<1>5. ASSUME NEW m \in Members, Stop(m) \/ Start(m) \/ Close(m) \/ Crash(m)
      PROVE  IInv'
  BY <1>5, StopStartStep, LeaveStep
<1>6. CASE UNCHANGED vars
  <2>1. UNCHANGED <<owner, committed, handled, dlq, up, fetched, next, marked, cur, attempt,
                    disruptions, refused, evicted>>
    BY <1>6 DEF vars, broker, member, budget
  <2>2. TypeOK'
    BY <2>1 DEF IInv, TypeOK
  <2>3. HandOK' /\ BehindOK' /\ ExclusiveBatch'
    BY <2>1 DEF IInv, HandOK, Rec, Settled, BehindOK, SettledBelow, GoesOn, ExclusiveBatch
  <2>4. QED
    BY <2>2, <2>3 DEF IInv
<1>7. QED
  BY <1>1, <1>2, <1>3, <1>4, <1>5, <1>6 DEF Next, Work

\* The invariant above holds in every reachable state.
THEOREM Inductive == Spec => []IInv
BY InitIInv, NextIInv, PTL DEF Spec

\* Every variable of the group has its type; in particular attempt never calls
\* the handler more than MaxAttempts times in one delivery of a record.
THEOREM TypeCorrect == Spec => []TypeOK
<1>1. IInv => TypeOK
  BY DEF IInv
<1>2. QED
  BY <1>1, Inductive, PTL

\* At least once: the committed offset of a partition (AutoCommitMarks, the
\* flush on revoke and on close) never passes a record that was neither handled
\* nor dead-lettered, while dead letters can be published.
THEOREM AtLeastOnce == Spec => []NothingSkipped
<1>1. IInv => NothingSkipped
  BY DEF IInv, BehindOK, SettledBelow, NothingSkipped, CommittedIsSettled
<1>2. QED
  BY <1>1, Inductive, PTL

\* handleBatch gives a record to the handler only when every earlier record of
\* its partition is settled, in a batch that is being shut down too, while dead
\* letters can be published.
THEOREM InOrder == Spec => []HandledInOrder
<1>1. IInv => HandledInOrder
  <2> SUFFICES ASSUME IInv, NEW m \in Members, ~refused, InHand(m)
               PROVE  \A o \in 1 .. next[m][cur[m]] - 1 : <<cur[m], o>> \in Settled
    BY DEF HandledInOrder
  <2>1. cur[m] \in Partitions /\ next[m][cur[m]] < fetched[m][cur[m]]
    BY DEF IInv, TypeOK, HandOK, InHand
  <2>2. QED
    BY <2>1 DEF IInv, BehindOK, GoesOn, SettledBelow
<1>2. QED
  BY <1>1, Inductive, PTL

\* BlockRebalanceOnPoll: until a batch outlives RebalanceTimeout, no two members
\* work on one partition.
THEOREM Exclusion == Spec => []ExclusiveBatch
<1>1. IInv => ExclusiveBatch
  BY DEF IInv
<1>2. QED
  BY <1>1, Inductive, PTL
=============================================================================
