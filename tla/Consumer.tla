------------------------------ MODULE Consumer ------------------------------
(***************************************************************************)
(* One consumer group of platform/kafka/consumer.go: its members poll      *)
(* batches, hand each record to the handler with bounded retries,          *)
(* dead-letter what cannot be handled, and mark what is settled; marked    *)
(* offsets are committed in the background, on revoke and on close.        *)
(*                                                                         *)
(* franz-go and the broker are external: modelled by what consumer.go      *)
(* asks of them in NewConsumer and poll.  The handler is anything the      *)
(* Handler contract allows.  One poll's records are handled one at a time; *)
(* which partition comes first is left open, within one it is the log's    *)
(* order.                                                                  *)
(***************************************************************************)
EXTENDS Integers, Sequences, FiniteSets, Functions

CONSTANTS
    Members,            \* service instances in the group
    Partitions,
    Kind,               \* partition -> sequence of the kinds of its records
    NoPartition, Nobody,
    MaxAttempts,        \* DefaultMaxAttempts
    PollBatch,          \* pollBatch
    MaxDisruptions      \* bound: rebalances, evictions, crashes, shutdowns and
                        \* dead letters that cannot be published

\* A "command" is handled or fails for the moment; "malformed" is what
\* consumers.go wraps in ErrPermanent.
Kinds == {"command", "malformed"}

ASSUME RecordAssumption ==
    /\ \A p \in Partitions : \A i \in DOMAIN Kind[p] : Kind[p][i] \in Kinds
    /\ NoPartition \notin Partitions /\ Nobody \notin Members

ASSUME BudgetAssumption ==
    /\ MaxAttempts \in Nat \ {0} /\ PollBatch \in Nat \ {0}
    /\ MaxDisruptions \in Nat

VARIABLES
    \* the broker
    owner,      \* partition -> member it is assigned to
    committed,  \* partition -> next offset of the group
    handled,    \* <<partition, offset>> the handler returned nil for
    dlq,        \* <<partition, offset>> published to the .dlq topic
    \* a member
    up,         \* member -> "running", "stopping" (ctx cancelled) or "down"
    fetched,    \* member -> partition -> end of what polls have returned
    next,       \* member -> partition -> next record of the batch to handle
    marked,     \* member -> partition -> end of what is marked
    cur,        \* member -> partition of the record in hand
    attempt,    \* member -> handler calls for it, -1 once it is settled
    disruptions,
    refused,    \* a dead letter could not be published
    evicted     \* a batch has outlived RebalanceTimeout

broker == <<owner, committed, handled, dlq>>
member == <<up, fetched, next, marked, cur, attempt>>
budget == <<disruptions, refused, evicted>>
vars   == <<broker, member, budget>>

End(p) == 1 + Len(Kind[p])

\* Offsets count from 1, so Kind[p][o] is the record at offset o.
Init ==
    /\ owner = [p \in Partitions |-> Nobody]
    /\ committed = [p \in Partitions |-> 1]
    /\ handled = {} /\ dlq = {}
    /\ up = [m \in Members |-> "running"]
    /\ fetched = [m \in Members |-> [p \in Partitions |-> 1]]
    /\ next = [m \in Members |-> [p \in Partitions |-> 1]]
    /\ marked = [m \in Members |-> [p \in Partitions |-> 1]]
    /\ cur = [m \in Members |-> NoPartition]
    /\ attempt = [m \in Members |-> 0]
    /\ disruptions = 0 /\ refused = FALSE /\ evicted = FALSE

Settled == handled \cup dlq

\* m has not handed its last batch back (AllowRebalance not yet called).
InBatch(m) == \E p \in Partitions : next[m][p] < fetched[m][p]

Rec(m) == <<cur[m], next[m][cur[m]]>>

KindOf(m) == Kind[cur[m]][next[m][cur[m]]]

Larger(i, j) == IF i > j THEN i ELSE j

-----------------------------------------------------------------------------
(* The group (external): assignment, commits, rebalances.                  *)

Owned(m) == {p \in Partitions : owner[p] = m}

\* A partition starts at the committed offset.  A rebalance waits for every
\* poll to be handed back (BlockRebalanceOnPoll).
Assign(m, p) ==
    /\ owner[p] = Nobody /\ up[m] = "running" /\ ~InBatch(m)
    /\ owner' = [owner EXCEPT ![p] = m]
    /\ fetched' = [fetched EXCEPT ![m][p] = committed[p]]
    /\ next' = [next EXCEPT ![m][p] = committed[p]]
    /\ marked' = [marked EXCEPT ![m][p] = committed[p]]
    /\ UNCHANGED <<committed, handled, dlq, up, cur, attempt, budget>>

\* Mutant: franz-go's default, which commits whatever was polled.
CommitPolled(m, P) ==
    committed' = [p \in Partitions |-> IF p \in P THEN fetched[m][p] ELSE committed[p]]

CommitMarked(m, P) ==
    committed' = [p \in Partitions |-> IF p \in P THEN marked[m][p] ELSE committed[p]]

\* AutoCommitMarks, in the background.
AutoCommit(m) ==
    /\ up[m] # "down"
    /\ \E p \in Owned(m) : committed[p] < marked[m][p]
    /\ CommitMarked(m, Owned(m))
    /\ UNCHANGED <<owner, handled, dlq, member, budget>>

Disrupt == disruptions < MaxDisruptions /\ disruptions' = disruptions + 1

\* Mutant: no BlockRebalanceOnPoll.
RevokeAnytime(m, p) ==
    /\ Disrupt
    /\ owner[p] = m /\ up[m] # "down"
    /\ owner' = [owner EXCEPT ![p] = Nobody]
    /\ CommitMarked(m, Owned(m))
    /\ UNCHANGED <<handled, dlq, member, refused, evicted>>

\* OnPartitionsRevoked flushes every mark before p is taken away.
Revoke(m, p) ==
    /\ Disrupt
    /\ owner[p] = m /\ up[m] # "down" /\ ~InBatch(m)
    /\ owner' = [owner EXCEPT ![p] = Nobody]
    /\ CommitMarked(m, Owned(m))
    /\ UNCHANGED <<handled, dlq, member, refused, evicted>>

\* A batch outlives RebalanceTimeout: the group takes the partition away and
\* m, not knowing, finishes its batch; its marks are no longer accepted.
Evict(m, p) ==
    /\ Disrupt /\ evicted' = TRUE
    /\ owner[p] = m /\ InBatch(m)
    /\ owner' = [owner EXCEPT ![p] = Nobody]
    /\ UNCHANGED <<committed, handled, dlq, member, refused>>

-----------------------------------------------------------------------------
(* The poll loop.                                                          *)

\* PollRecords: up to PollBatch records of the partitions m owns.
Poll(m) ==
    /\ up[m] = "running" /\ ~InBatch(m)
    /\ \E n \in [Owned(m) -> 0 .. PollBatch] :
        /\ SumFunction(n) \in 1 .. PollBatch
        /\ \A p \in Owned(m) : fetched[m][p] + n[p] <= End(p)
        /\ fetched' = [fetched EXCEPT ![m] =
                        [p \in Partitions |-> IF p \in Owned(m) THEN @[p] + n[p] ELSE @[p]]]
    /\ UNCHANGED <<broker, up, next, marked, cur, attempt, budget>>

\* handle: the next record of the batch goes to the handler.
Take(m, p) ==
    /\ up[m] # "down" /\ cur[m] = NoPartition
    /\ next[m][p] < fetched[m][p]
    /\ cur' = [cur EXCEPT ![m] = p]
    /\ attempt' = [attempt EXCEPT ![m] = 1]
    /\ UNCHANGED <<broker, up, fetched, next, marked, budget>>

InHand(m) == up[m] # "down" /\ cur[m] # NoPartition /\ attempt[m] > 0

\* The handler commits its transaction and returns nil; the mark comes later.
Succeed(m) ==
    /\ InHand(m) /\ KindOf(m) # "malformed"
    /\ handled' = handled \cup {Rec(m)}
    /\ attempt' = [attempt EXCEPT ![m] = -1]
    /\ UNCHANGED <<owner, committed, dlq, up, fetched, next, marked, cur, budget>>

\* Mutant: one attempt too many.
RetryOneMore(m) ==
    /\ InHand(m) /\ KindOf(m) # "malformed"
    /\ attempt[m] <= MaxAttempts
    /\ attempt' = [attempt EXCEPT ![m] = @ + 1]
    /\ UNCHANGED <<broker, up, fetched, next, marked, cur, budget>>

\* Mutant: a failed record is put off, and the next of its partition taken.
RetryLater(m) ==
    /\ InHand(m) /\ KindOf(m) # "malformed"
    /\ attempt[m] < MaxAttempts
    /\ next' = [next EXCEPT ![m][cur[m]] = @ + 1]
    /\ cur' = [cur EXCEPT ![m] = NoPartition]
    /\ attempt' = [attempt EXCEPT ![m] = 0]
    /\ UNCHANGED <<broker, up, fetched, marked, budget>>

\* Mutant: retries without a budget.
RetryForever(m) ==
    /\ InHand(m) /\ KindOf(m) # "malformed"
    /\ attempt' = [attempt EXCEPT ![m] = (@ % MaxAttempts) + 1]
    /\ UNCHANGED <<broker, up, fetched, next, marked, cur, budget>>

\* attempt: the handler failed for the moment; back off and call it again,
\* once more perhaps after ctx was cancelled (select takes either case).
Retry(m) ==
    /\ InHand(m) /\ KindOf(m) # "malformed"
    /\ attempt[m] < MaxAttempts
    /\ attempt' = [attempt EXCEPT ![m] = @ + 1]
    /\ UNCHANGED <<broker, up, fetched, next, marked, cur, budget>>

GivenUp(m) ==
    /\ InHand(m) /\ up[m] = "running"
    /\ KindOf(m) = "malformed" \/ attempt[m] >= MaxAttempts

\* A permanent failure, or a spent budget, is settled on the .dlq topic.
DeadLetter(m) ==
    /\ GivenUp(m)
    /\ dlq' = dlq \cup {Rec(m)}
    /\ attempt' = [attempt EXCEPT ![m] = -1]
    /\ UNCHANGED <<owner, committed, handled, up, fetched, next, marked, cur, budget>>

\* The record in hand stays unsettled: what is left of its partition in this
\* batch is skipped.  "stalled" is a local of handleBatch: the next poll
\* goes on after it.
Stall(m) ==
    /\ next' = [next EXCEPT ![m][cur[m]] = fetched[m][cur[m]]]
    /\ cur' = [cur EXCEPT ![m] = NoPartition]
    /\ attempt' = [attempt EXCEPT ![m] = 0]

\* The dead letter was not acknowledged: it may or may not have been written.
DeadLetterFails(m) ==
    /\ Disrupt /\ refused' = TRUE
    /\ GivenUp(m)
    /\ dlq' \in {dlq, dlq \cup {Rec(m)}}
    /\ Stall(m)
    /\ UNCHANGED <<owner, committed, handled, up, fetched, marked, evicted>>

\* The handler failed because ctx is cancelled: neither retried nor
\* dead-lettered.
CutShort(m) ==
    /\ InHand(m) /\ up[m] = "stopping"
    /\ Stall(m)
    /\ UNCHANGED <<broker, up, fetched, marked, budget>>

\* MarkCommitRecords keeps the highest offset of a partition.
Mark(m) ==
    /\ up[m] # "down" /\ attempt[m] = -1
    /\ marked' = [marked EXCEPT ![m][cur[m]] = Larger(@, next[m][cur[m]] + 1)]
    /\ next' = [next EXCEPT ![m][cur[m]] = @ + 1]
    /\ cur' = [cur EXCEPT ![m] = NoPartition]
    /\ attempt' = [attempt EXCEPT ![m] = 0]
    /\ UNCHANGED <<broker, up, fetched, budget>>

-----------------------------------------------------------------------------
(* Shutdown, crash and restart of a member.                                *)

Leave(m) ==
    /\ owner' = [p \in Partitions |-> IF owner[p] = m THEN Nobody ELSE owner[p]]
    /\ up' = [up EXCEPT ![m] = "down"]
    /\ fetched' = [fetched EXCEPT ![m] = [p \in Partitions |-> 1]]
    /\ next' = [next EXCEPT ![m] = [p \in Partitions |-> 1]]
    /\ marked' = [marked EXCEPT ![m] = [p \in Partitions |-> 1]]
    /\ cur' = [cur EXCEPT ![m] = NoPartition]
    /\ attempt' = [attempt EXCEPT ![m] = 0]

\* SIGTERM: the context of Run is cancelled.
Stop(m) ==
    /\ Disrupt
    /\ up[m] = "running"
    /\ up' = [up EXCEPT ![m] = "stopping"]
    /\ UNCHANGED <<broker, fetched, next, marked, cur, attempt, refused, evicted>>

\* Run returns after the batch; Close leaves the group, flushing the marks.
Close(m) ==
    /\ up[m] = "stopping" /\ ~InBatch(m)
    /\ CommitMarked(m, Owned(m))
    /\ Leave(m)
    /\ UNCHANGED <<handled, dlq, budget>>

\* The process dies: marks that were not committed are gone.
Crash(m) ==
    /\ Disrupt
    /\ up[m] # "down"
    /\ Leave(m)
    /\ UNCHANGED <<committed, handled, dlq, refused, evicted>>

Start(m) ==
    /\ up[m] = "down"
    /\ up' = [up EXCEPT ![m] = "running"]
    /\ UNCHANGED <<broker, fetched, next, marked, cur, attempt, budget>>

-----------------------------------------------------------------------------
Work(m) ==
    \/ Poll(m) \/ Succeed(m) \/ Retry(m) \/ DeadLetter(m) \/ CutShort(m) \/ Mark(m)
    \/ \E p \in Partitions : Take(m, p)

Next ==
    \E m \in Members :
        \/ Work(m)
        \/ AutoCommit(m) \/ DeadLetterFails(m)
        \/ Stop(m) \/ Close(m) \/ Crash(m) \/ Start(m)
        \/ \E p \in Partitions : Assign(m, p) \/ Revoke(m, p) \/ Evict(m, p)

Spec == Init /\ [][Next]_vars

(***************************************************************************)
(* Fairness: as long as members can poll, handle, finish a cancelled run,  *)
(* be started again or be given a partition without an owner, one of them  *)
(* does; which one is not promised.  Rebalances, evictions, crashes and    *)
(* shutdowns are finitely many: they come with deployments and outages,    *)
(* not by themselves.                                                      *)
(***************************************************************************)
Progress(m) == Work(m) \/ Start(m) \/ Close(m) \/ \E p \in Partitions : Assign(m, p)

FairSpec == Spec /\ WF_vars(\E m \in Members : Progress(m))

-----------------------------------------------------------------------------
(* Properties.                                                             *)

\* The shape of the broker's and the members' state; no record is given to the
\* handler more than MaxAttempts times in one delivery (attempt).
TypeOK ==
    /\ owner \in [Partitions -> Members \cup {Nobody}]
    /\ committed \in [Partitions -> Nat \ {0}]
    /\ handled \subseteq Partitions \X (Nat \ {0})
    /\ dlq \subseteq Partitions \X (Nat \ {0})
    /\ up \in [Members -> {"running", "stopping", "down"}]
    /\ fetched \in [Members -> [Partitions -> Nat \ {0}]]
    /\ next \in [Members -> [Partitions -> Nat \ {0}]]
    /\ marked \in [Members -> [Partitions -> Nat \ {0}]]
    /\ cur \in [Members -> Partitions \cup {NoPartition}]
    /\ attempt \in [Members -> -1 .. MaxAttempts]
    /\ disruptions \in 0 .. MaxDisruptions
    /\ refused \in BOOLEAN /\ evicted \in BOOLEAN

(***************************************************************************)
(* At least once (handle, consumer.go:199-202: "nothing later in its       *)
(* partition may be marked, and the record will be redelivered"): the      *)
(* group never moves past a record that was neither handled nor            *)
(* dead-lettered, whatever crashes, shutdowns, rebalances and evictions    *)
(* happen.                                                                 *)
(***************************************************************************)
CommittedIsSettled ==
    \A p \in Partitions : \A o \in 1 .. committed[p] - 1 : <<p, o>> \in Settled

\* It holds while dead letters can be published: rebalances in mid batch, a
\* batch outliving RebalanceTimeout, crashes and shutdowns lose no record.
NothingSkipped == ~refused => CommittedIsSettled

(***************************************************************************)
(* attempt, consumer.go:234-235: "a failed record must be settled before   *)
(* the loop touches the next record in its partition".  When the handler   *)
(* gets a record every earlier record of its partition is settled, while   *)
(* dead letters can be published.                                          *)
(***************************************************************************)
HandledInOrder ==
    \A m \in Members : ~refused /\ InHand(m) =>
        \A o \in 1 .. next[m][cur[m]] - 1 : <<cur[m], o>> \in Settled

(***************************************************************************)
(* While no batch has outlived RebalanceTimeout no two members work on one *)
(* partition: a member that has records of a partition left owns it        *)
(* (BlockRebalanceOnPoll).                                                 *)
(***************************************************************************)
ExclusiveBatch ==
    ~evicted =>
        \A m \in Members, p \in Partitions :
            next[m][p] < fetched[m][p] => owner[p] = m

(***************************************************************************)
(* No record is stuck: while dead letters can be published each record is  *)
(* handled or dead-lettered in the end, through rebalances, evictions and  *)
(* crashes, the retry budget being what ends a failing one.                *)
(***************************************************************************)
EveryRecordSettled ==
    \A p \in Partitions : \A o \in DOMAIN Kind[p] :
        <>(<<p, o>> \in Settled \/ refused)
=============================================================================
