------------------------------- MODULE Outbox -------------------------------
(***************************************************************************)
(* The outbox poller (platform/outbox/poller.go): committed rows are       *)
(* claimed, published and marked by the poller that holds an advisory      *)
(* lock.                                                                   *)
(*                                                                         *)
(* Postgres and the broker are external.  A claim and the advisory lock    *)
(* belong to two different connections of a poller, and each lives until   *)
(* the server sees its own connection end: after a crash in no particular  *)
(* order, after a shutdown the claim after the lock.                       *)
(***************************************************************************)
EXTENDS Integers, Sequences, FiniteSets, SequencesExt

CONSTANTS
    Rows,           \* rows the services will enqueue, numbered
    Events,         \* the rows that announce an event; the others are replies
    Key,            \* row -> its partition key, the stream id
    Pollers,
    Nobody,
    Ghost,          \* the server's end of a dead poller's election connection
    BatchSize,
    MaxDisruptions  \* bound: failed publishes and commits, shutdowns, crashes,
                    \* election connections lost by a live poller

ASSUME PollerAssumption ==
    /\ Events \subseteq Rows
    /\ Nobody \notin Pollers /\ Ghost \notin Pollers \cup {Nobody}
    /\ BatchSize \in Nat \ {0}
    /\ MaxDisruptions \in Nat

VARIABLES
    state,      \* row -> "none", "open" (inserted, not committed), "unpublished",
                \*        "published" or "pruned"
    id,         \* row -> its BIGSERIAL id, 0 before the insert
    log,        \* the records on the topic, as rows, in broker order
    role,       \* poller -> "down", "standby" or "active"
    lock,       \* the session that holds the advisory lock
    claim,      \* poller -> rows its drain transaction has locked, in id order
    sent,       \* poller -> Publish returned nil for the claim
    orphans,    \* claims of ended connections that the server has not rolled back
    disruptions,
    (* What has happened so far; only the properties read it.              *)
    crashed,    \* a poller has crashed
    lost,       \* a live poller has lost its election connection
    skipped     \* a drain has stepped over rows of an ended connection

table   == <<state, id>>
budget  == <<disruptions, crashed, lost, skipped>>
pollers == <<role, lock, claim, sent, orphans>>
vars    == <<table, log, pollers, budget>>

Init ==
    /\ state = [r \in Rows |-> "none"]
    /\ id = [r \in Rows |-> 0]
    /\ log = <<>>
    /\ role = [p \in Pollers |-> "down"]
    /\ lock = Nobody
    /\ claim = [p \in Pollers |-> <<>>]
    /\ sent = [p \in Pollers |-> FALSE]
    /\ orphans = {}
    /\ disruptions = 0 /\ crashed = FALSE /\ lost = FALSE /\ skipped = FALSE

-----------------------------------------------------------------------------
(* The writers (Inventory).  Ids are given at insert and seen at commit,   *)
(* so they become visible out of order.  Only the events of one stream     *)
(* wait for each other, on the unique version in the events table: the     *)
(* next one is inserted after the previous one has committed               *)
(* (Inventory!AnnouncedInOrder).  A reply carries the seat's key too, and  *)
(* waits for nothing.  A row whose transaction aborts is never visible:    *)
(* it is one that stays out.                                               *)

Insert(r) ==
    /\ state[r] = "none"
    /\ r \in Events => \A q \in Events : Key[q] = Key[r] => state[q] # "open"
    /\ state' = [state EXCEPT ![r] = "open"]
    /\ id' = [id EXCEPT ![r] = 1 + Cardinality({q \in Rows : id[q] # 0})]
    /\ UNCHANGED <<log, pollers, budget>>

CommitRow(r) ==
    /\ state[r] = "open"
    /\ state' = [state EXCEPT ![r] = "unpublished"]
    /\ UNCHANGED <<id, log, pollers, budget>>

Disrupt == disruptions < MaxDisruptions /\ disruptions' = disruptions + 1

-----------------------------------------------------------------------------
(* Election.                                                               *)

\* Run, as far as TryElect.
Start(p) ==
    /\ role[p] = "down"
    /\ IF lock = Nobody
       THEN role' = [role EXCEPT ![p] = "active"] /\ lock' = p
       ELSE role' = [role EXCEPT ![p] = "standby"] /\ UNCHANGED lock
    /\ UNCHANGED <<table, log, claim, sent, orphans, budget>>

\* The election connection of a live poller ends.  Nothing reads from it, so
\* the poller goes on draining.
LoseSession(p) ==
    /\ Disrupt /\ lost' = TRUE
    /\ role[p] = "active" /\ lock = p
    /\ lock' = Nobody
    /\ UNCHANGED <<table, log, role, claim, sent, orphans, crashed, skipped>>

-----------------------------------------------------------------------------
(* Drain: claim, publish, mark, commit.                                    *)

Locked == UNION orphans \cup UNION {ToSet(claim[p]) : p \in Pollers}

\* Mutant: a cursor over ids instead of the published_at flag.
ClaimableByCursor ==
    {r \in Rows : /\ state[r] = "unpublished"
                  /\ \A q \in Rows : state[q] \in {"published", "pruned"} => id[q] < id[r]}
        \ Locked

Claimable == {r \in Rows : state[r] = "unpublished"} \ Locked

\* Mutant: the batch is not ordered by id.
InIdOrderUnsorted(q) == \A i, j \in DOMAIN q : i # j => q[i] # q[j]

InIdOrder(q) == \A i, j \in DOMAIN q : i < j => id[q[i]] < id[q[j]]

\* ORDER BY id LIMIT BatchSize FOR UPDATE SKIP LOCKED.
Claim(p) ==
    /\ role[p] = "active" /\ claim[p] = <<>>
    /\ \E n \in 1 .. BatchSize : \E q \in [1 .. n -> Claimable] :
        /\ InIdOrder(q)
        /\ n = BatchSize \/ n = Cardinality(Claimable)
        /\ \A r \in Claimable \ ToSet(q) : id[q[n]] < id[r]
        /\ claim' = [claim EXCEPT ![p] = q]
    /\ skipped' = (skipped \/ orphans # {})
    /\ UNCHANGED <<table, log, role, lock, sent, orphans, disruptions, crashed, lost>>

\* Mutant: the next claim is taken for published already.
RollbackKeepsSent(p) ==
    /\ claim' = [claim EXCEPT ![p] = <<>>]
    /\ UNCHANGED sent

Rollback(p) ==
    /\ claim' = [claim EXCEPT ![p] = <<>>]
    /\ sent' = [sent EXCEPT ![p] = FALSE]

\* The drain's connection ends before a rollback is sent on it: the server keeps
\* the rows locked until it notices.
Orphaned(p) == orphans' = orphans \cup ({ToSet(claim[p])} \ {{}})

Draining(p) == role[p] = "active" /\ claim[p] # <<>>

\* ProduceSync: every record acknowledged, each key in order.
Publish(p) ==
    /\ Draining(p) /\ ~sent[p]
    /\ log' = log \o claim[p]
    /\ sent' = [sent EXCEPT ![p] = TRUE]
    /\ UNCHANGED <<table, role, lock, claim, orphans, budget>>

\* What a Publish that was cut off may leave on the topic: of each key a prefix,
\* in the order of the claim.
Leftover(p) ==
    IF sent[p] THEN {log}
    ELSE {log \o q : q \in {s \in SeqOf(ToSet(claim[p]), Len(claim[p])) :
            /\ InIdOrder(s)
            /\ \A r \in ToSet(s), t \in ToSet(claim[p]) :
                    Key[t] = Key[r] /\ id[t] < id[r] => t \in ToSet(s)}}

\* Publish returns an error: the rows are released, if the rollback arrives.
PublishFails(p) ==
    /\ Disrupt
    /\ Draining(p) /\ ~sent[p]
    /\ log' \in Leftover(p)
    /\ Rollback(p)
    /\ UNCHANGED orphans \/ Orphaned(p)
    /\ UNCHANGED <<table, role, lock, crashed, lost, skipped>>

\* Mutant: the rows are marked and committed before they are published.
MarkPublishedFirst(p) ==
    /\ Draining(p)
    /\ state' = [r \in Rows |-> IF r \in ToSet(claim[p]) THEN "published" ELSE state[r]]
    /\ Rollback(p)
    /\ UNCHANGED <<id, log, role, lock, orphans, budget>>

\* Mark and commit.
MarkPublished(p) ==
    /\ Draining(p) /\ sent[p]
    /\ state' = [r \in Rows |-> IF r \in ToSet(claim[p]) THEN "published" ELSE state[r]]
    /\ Rollback(p)
    /\ UNCHANGED <<id, log, role, lock, orphans, budget>>

\* The mark or its commit fails: the rows will be published again.
MarkFails(p) ==
    /\ Disrupt
    /\ Draining(p) /\ sent[p]
    /\ Rollback(p)
    /\ UNCHANGED orphans \/ Orphaned(p)
    /\ UNCHANGED <<table, log, role, lock, crashed, lost, skipped>>

\* Prune deletes the published rows that are old enough: any of them.
Prune(p) ==
    /\ role[p] = "active" /\ claim[p] = <<>>
    /\ \E old \in SUBSET {r \in Rows : state[r] = "published"} \ {{}} :
        state' = [r \in Rows |-> IF r \in old THEN "pruned" ELSE state[r]]
    /\ UNCHANGED <<id, log, pollers, budget>>

-----------------------------------------------------------------------------
(* Shutdown and crash.                                                     *)

\* ctx is cancelled: a drain in progress fails, and its rollback, under the same
\* ctx, drops the connection instead of sending one.  release unlocks at once, on
\* the election connection and without the cancellation.
Stop(p) ==
    /\ Disrupt
    /\ role[p] # "down"
    /\ role' = [role EXCEPT ![p] = "down"]
    /\ lock' = IF lock = p THEN Nobody ELSE lock
    /\ log' \in Leftover(p)
    /\ Rollback(p) /\ Orphaned(p)
    /\ UNCHANGED <<table, crashed, lost, skipped>>

\* The process dies; the server still has both of its connections.
Crash(p) ==
    /\ Disrupt /\ crashed' = TRUE
    /\ role[p] # "down"
    /\ role' = [role EXCEPT ![p] = "down"]
    /\ lock' = IF lock = p THEN Ghost ELSE lock
    /\ log' \in Leftover(p)
    /\ Rollback(p) /\ Orphaned(p)
    /\ UNCHANGED <<table, lost, skipped>>

\* The server notices, one connection at a time.
ReapElection ==
    /\ lock = Ghost
    /\ lock' = Nobody
    /\ UNCHANGED <<table, log, role, claim, sent, orphans, budget>>

ReapDrain ==
    /\ \E o \in orphans : orphans' = orphans \ {o}
    /\ UNCHANGED <<table, log, role, lock, claim, sent, budget>>

-----------------------------------------------------------------------------
Drain(p) == Claim(p) \/ Publish(p) \/ MarkPublished(p)

Next ==
    \/ \E r \in Rows : Insert(r) \/ CommitRow(r)
    \/ \E p \in Pollers :
        \/ Start(p) \/ LoseSession(p)
        \/ Drain(p) \/ PublishFails(p) \/ MarkFails(p) \/ Prune(p)
        \/ Stop(p) \/ Crash(p)
    \/ ReapElection \/ ReapDrain

Spec == Init /\ [][Next]_vars

(***************************************************************************)
(* Fairness.  PollFloor wakes an active poller at least once a second, so  *)
(* as long as pollers have rows to drain one of them goes on; Postgres     *)
(* ends the sessions whose connection is gone.  RestartingSpec adds that a *)
(* process that went down is started again.                                *)
(***************************************************************************)
Progress == ReapElection \/ ReapDrain \/ \E p \in Pollers : Drain(p)

FairSpec == Spec /\ WF_vars(Progress)

RestartingSpec == Spec /\ WF_vars(Progress \/ \E p \in Pollers : Start(p))

-----------------------------------------------------------------------------
(* Properties.                                                             *)

\* The shape of the table and of the pollers' sessions; nothing is sent without
\* a claim.
TypeOK ==
    /\ state \in [Rows -> {"none", "open", "unpublished", "published", "pruned"}]
    /\ id \in [Rows -> Nat]
    /\ log \in Seq(Rows)
    /\ role \in [Pollers -> {"down", "standby", "active"}]
    /\ lock \in Pollers \cup {Nobody, Ghost}
    /\ claim \in [Pollers -> Seq(Rows)]
    /\ sent \in [Pollers -> BOOLEAN]
    /\ \A p \in Pollers : sent[p] => claim[p] # <<>>
    /\ orphans \subseteq SUBSET Rows
    /\ disruptions \in 0 .. MaxDisruptions
    /\ crashed \in BOOLEAN /\ lost \in BOOLEAN /\ skipped \in BOOLEAN

(***************************************************************************)
(* No message is lost: a row that is marked published, and one that has    *)
(* been pruned, is on the topic, through publish errors, failed commits,   *)
(* shutdowns, crashes and two pollers at once.                             *)
(***************************************************************************)
MarkedIsOnTopic ==
    \A r \in Rows : state[r] \in {"published", "pruned"} => r \in ToSet(log)

\* The first time r is on the topic.
FirstAt(r) == CHOOSE i \in DOMAIN log : log[i] = r /\ \A j \in 1 .. i - 1 : log[j] # r

(***************************************************************************)
(* Spec 10.1: two pollers "cannot reorder a stream".  The events of one    *)
(* key appear on the topic for the first time in the order of their ids,   *)
(* through rows that become visible out of order, replies in between,      *)
(* batches that are cut off and republished, shutdowns and crashes: as     *)
(* long as no live poller lost its election connection (two may drain      *)
(* then) and no drain stepped over the rows of an ended connection (their  *)
(* successors overtake them then).                                         *)
(* A reply is outside of it: its id and its commit follow no event's.      *)
(***************************************************************************)
StreamInOrder == ~lost /\ ~skipped =>
    \A q, r \in ToSet(log) \cap Events :
        Key[q] = Key[r] /\ id[q] < id[r] => FirstAt(q) < FirstAt(r)

\* Every committed row reaches the topic, through failed publishes, failed
\* commits, shutdowns and lost election connections, as long as a poller that
\* was shut down is started again.  (One that crashed may be started before the
\* server has ended its session, and then stands by for good.)
EveryRowPublished == \A r \in Rows : state[r] = "unpublished" ~> r \in ToSet(log) \/ crashed

(***************************************************************************)
(* poller.go:42-43 on Run: "A poller that loses the election waits, ready  *)
(* to take over if the winner goes away."                                  *)
(***************************************************************************)
StandbyTakesOver ==
    \A p \in Pollers :
        (role[p] = "standby" /\ lock = Nobody) ~> (lock # Nobody \/ role[p] # "standby")
=============================================================================
