---------------------------- MODULE OutboxProofs ----------------------------
(***************************************************************************)
(* Proofs about Outbox, for any rows, keys, batch size and any number of   *)
(* pollers and disruptions: no row is lost, and the events of a stream     *)
(* reach the topic in order while the drains take turns.                   *)
(***************************************************************************)
EXTENDS Outbox, SequenceTheorems, FiniteSetTheorems, WellFoundedInduction, TLAPS

-----------------------------------------------------------------------------
(* The inductive invariant.                                                *)

Inserted == {r \in Rows : id[r] # 0}

\* A row has an id from its insert on, and the next id is larger than all.
IdsOK ==
    /\ IsFiniteSet(Inserted)
    /\ \A r \in Rows : state[r] = "none" <=> id[r] = 0
    /\ \A r \in Rows : id[r] <= Cardinality(Inserted)

\* Whatever is locked or on the topic was inserted.
KnownRows ==
    /\ \A r \in ToSet(log) : id[r] # 0
    /\ \A p \in Pollers : \A r \in ToSet(claim[p]) : id[r] # 0

\* An active poller alone has a drain transaction, and what it has sent is on
\* the topic.
ClaimOK ==
    \A p \in Pollers :
        /\ claim[p] # <<>> => role[p] = "active"
        /\ sent[p] => ToSet(claim[p]) \subseteq ToSet(log)

\* The earlier events of a stream have committed; replies are not compared.
Before(q, r) ==
    /\ q \in Events /\ r \in Events /\ Key[q] = Key[r]
    /\ id[q] # 0 /\ id[q] < id[r]

KeyOrder == \A q, r \in Rows : Before(q, r) => state[q] # "open"

\* The drains have taken turns so far.
Calm == ~lost /\ ~skipped

\* So nobody but the holder of the lock drains; an ended connection may still
\* keep rows locked.
Sole == Calm => \A p \in Pollers : role[p] = "active" => lock = p

\* On the topic each event comes after the earlier events of its stream.
LogOrder ==
    Calm => \A j \in DOMAIN log : \A q \in Rows :
                Before(q, log[j]) => \E i \in 1 .. j - 1 : log[i] = q

\* Each event of s comes after the earlier ones that are not on the topic yet.
InTurn(s) ==
    \A j \in DOMAIN s : \A q \in Rows :
        Before(q, s[j]) => q \in ToSet(log) \/ \E i \in 1 .. j - 1 : s[i] = q

ClaimOrder == Calm => \A p \in Pollers : InTurn(claim[p])

IInv ==
    /\ TypeOK /\ IdsOK /\ KnownRows /\ ClaimOK /\ MarkedIsOnTopic
    /\ KeyOrder /\ Sole /\ LogOrder /\ ClaimOrder

-----------------------------------------------------------------------------
(* Sequences.                                                              *)

\* The elements of a sequence, by their positions.
LEMMA InToSet ==
    ASSUME NEW S, NEW s \in Seq(S)
    PROVE  /\ \A x : x \in ToSet(s) <=> \E i \in 1 .. Len(s) : s[i] = x
           /\ ToSet(s) \subseteq S
BY DEF ToSet

\* What is on the topic stays, what is appended is added.
LEMMA ToSetConcat ==
    ASSUME NEW S, NEW s \in Seq(S), NEW t \in Seq(S)
    PROVE  ToSet(s \o t) = ToSet(s) \cup ToSet(t)
<1> DEFINE u == s \o t
<1>1. /\ u \in Seq(S) /\ Len(u) = Len(s) + Len(t)
      /\ \A i \in 1 .. Len(s) + Len(t) : u[i] = IF i <= Len(s) THEN s[i] ELSE t[i - Len(s)]
  BY ConcatProperties
<1>2. Len(s) \in Nat /\ Len(t) \in Nat
  OBVIOUS
<1>3. ASSUME NEW x \in ToSet(u) PROVE x \in ToSet(s) \cup ToSet(t)
  <2>1. PICK i \in 1 .. Len(u) : u[i] = x
    BY <1>1, <1>3, InToSet
  <2>2. CASE i <= Len(s)
    BY <1>1, <1>2, <2>1, <2>2, InToSet
  <2>3. CASE ~(i <= Len(s))
    <3>1. i - Len(s) \in 1 .. Len(t) /\ t[i - Len(s)] = x
      BY <1>1, <1>2, <2>1, <2>3
    <3>2. QED
      BY <3>1, InToSet
  <2>4. QED
    BY <2>2, <2>3
<1>4. ASSUME NEW x \in ToSet(s) PROVE x \in ToSet(u)
  <2>1. PICK i \in 1 .. Len(s) : s[i] = x
    BY <1>4, InToSet
  <2>2. i \in 1 .. Len(u) /\ u[i] = x
    BY <1>1, <1>2, <2>1
  <2>3. QED
    BY <1>1, <2>2, InToSet
<1>5. ASSUME NEW x \in ToSet(t) PROVE x \in ToSet(u)
  <2>1. PICK i \in 1 .. Len(t) : t[i] = x
    BY <1>5, InToSet
  <2>2. i + Len(s) \in 1 .. Len(u) /\ u[i + Len(s)] = x
    BY <1>1, <1>2, <2>1
  <2>3. QED
    BY <1>1, <2>2, InToSet
<1>6. QED
  BY <1>3, <1>4, <1>5

\* The smallest position at which a set of positions is not empty.
LEMMA SmallestPosition ==
    ASSUME NEW T \in SUBSET Nat, T # {}
    PROVE  \E n \in T : \A k \in T : ~(k < n)
<1>1. \E n \in T : \A k \in T : ~(<<k, n>> \in OpToRel(<, Nat))
  BY NatLessThanWellFounded, WFMin
<1>2. \A k, n \in Nat : <<k, n>> \in OpToRel(<, Nat) <=> k < n
  BY DEF OpToRel
<1>3. QED
  BY <1>1, <1>2

\* A row on the topic has a first position there.
LEMMA FirstPosition ==
    ASSUME log \in Seq(Rows), NEW r \in ToSet(log)
    PROVE  /\ FirstAt(r) \in DOMAIN log /\ log[FirstAt(r)] = r
           /\ \A j \in 1 .. FirstAt(r) - 1 : log[j] # r
<1> DEFINE T == {i \in DOMAIN log : log[i] = r}
<1>1. DOMAIN log = 1 .. Len(log) /\ Len(log) \in Nat
  OBVIOUS
<1>2. T \in SUBSET Nat /\ T # {}
  BY <1>1, InToSet
<1>3. PICK n \in T : \A k \in T : ~(k < n)
  BY <1>2, SmallestPosition
<1>4. \A j \in 1 .. n - 1 : log[j] # r
  BY <1>1, <1>3
<1>5. QED
  BY <1>3, <1>4 DEF FirstAt

-----------------------------------------------------------------------------
(* What the steps do to the topic.                                         *)

\* What is left of a Publish that was cut off comes from the claim, in turn.
LEMMA LeftoverInTurn ==
    ASSUME TypeOK, KnownRows, ClaimOrder, NEW p \in Pollers, NEW l \in Leftover(p)
    PROVE  \E q \in Seq(Rows) :
               /\ l = log \o q
               /\ ToSet(q) \subseteq ToSet(claim[p])
               /\ Calm => InTurn(q)
<1>1. claim[p] \in Seq(Rows) /\ log \in Seq(Rows) /\ id \in [Rows -> Nat]
  BY DEF TypeOK
<1>2. CASE sent[p]
  <2>1. l = log \o <<>>
    BY <1>1, <1>2, ConcatEmptySeq DEF Leftover
  <2>2. ToSet(<<>>) = {} /\ DOMAIN <<>> = {}
    BY DEF ToSet
  <2>3. QED
    BY <2>1, <2>2, EmptySeq DEF InTurn
<1>3. CASE ~sent[p]
  <2> DEFINE C == ToSet(claim[p])
  <2>1. PICK q \in SeqOf(C, Len(claim[p])) :
            /\ l = log \o q
            /\ InIdOrder(q)
            /\ \A r \in ToSet(q), t \in C : Key[t] = Key[r] /\ id[t] < id[r] => t \in ToSet(q)
    BY <1>3 DEF Leftover
  <2>2. PICK n \in 0 .. Len(claim[p]) : q \in [1 .. n -> C]
    BY <2>1 DEF SeqOf
  <2>3. C \subseteq Rows
    BY <1>1, InToSet
  <2>4. q \in Seq(Rows) /\ DOMAIN q = 1 .. n /\ n \in Nat
    BY <1>1, <2>2, <2>3
  <2>5. ToSet(q) \subseteq C
    BY <2>2 DEF ToSet
  <2>6. ASSUME Calm, NEW j \in DOMAIN q, NEW r \in Rows, Before(r, q[j]), r \notin ToSet(log)
        PROVE  \E i \in 1 .. j - 1 : q[i] = r
    <3>1. q[j] \in ToSet(q) /\ q[j] \in C
      BY <2>2, <2>4 DEF ToSet
    <3>2. PICK k \in 1 .. Len(claim[p]) : claim[p][k] = q[j]
      BY <1>1, <3>1, InToSet
    <3>3. r \in C
      <4>1. InTurn(claim[p]) /\ k \in DOMAIN claim[p]
        BY <1>1, <2>6, <3>2 DEF ClaimOrder
      <4>2. PICK i \in 1 .. k - 1 : claim[p][i] = r
        BY <2>6, <3>2, <4>1 DEF InTurn
      <4>3. i \in 1 .. Len(claim[p])
        BY <1>1, <3>2, <4>2
      <4>4. QED
        BY <1>1, <4>2, <4>3, InToSet
    <3>4. r \in ToSet(q)
      BY <2>1, <2>6, <3>1, <3>3 DEF Before
    <3>5. PICK i \in 1 .. n : q[i] = r
      BY <2>4, <3>4 DEF ToSet
    <3>6. q[j] \in Rows /\ id[r] \in Nat /\ id[q[j]] \in Nat /\ id[q[i]] < id[q[j]]
      BY <1>1, <2>3, <2>6, <3>1, <3>5 DEF Before
    <3>7. ~(j < i) /\ i # j
      BY <2>1, <2>4, <2>6, <3>5, <3>6 DEF InIdOrder
    <3>8. QED
      BY <2>4, <2>6, <3>5, <3>7
  <2>7. QED
    BY <2>1, <2>4, <2>5, <2>6 DEF InTurn
<1>4. QED
  BY <1>2, <1>3

\* Rows that come in their turn keep the topic in order.
LEMMA AppendInTurn ==
    ASSUME TypeOK, KnownRows, LogOrder, NEW q \in Seq(Rows),
           \A r \in ToSet(q) : id[r] # 0, Calm => InTurn(q),
           log' = log \o q, id' = id, Calm' => Calm
    PROVE  /\ log' \in Seq(Rows)
           /\ ToSet(log') = ToSet(log) \cup ToSet(q)
           /\ \A r \in ToSet(log') : id[r] # 0
           /\ LogOrder'
<1>1. log \in Seq(Rows)
  BY DEF TypeOK
<1>2. /\ log' \in Seq(Rows) /\ Len(log') = Len(log) + Len(q)
      /\ \A i \in 1 .. Len(log) + Len(q) : log'[i] = IF i <= Len(log) THEN log[i] ELSE q[i - Len(log)]
  BY <1>1, ConcatProperties
<1>3. ToSet(log') = ToSet(log) \cup ToSet(q)
  BY <1>1, ToSetConcat
<1>4. Len(log) \in Nat /\ Len(q) \in Nat /\ DOMAIN log = 1 .. Len(log) /\ DOMAIN q = 1 .. Len(q)
      /\ DOMAIN log' = 1 .. Len(log')
  BY <1>1, <1>2
<1>5. ASSUME Calm', NEW j \in DOMAIN log', NEW r \in Rows, Before(r, log'[j])
      PROVE  \E i \in 1 .. j - 1 : log'[i] = r
  <2>1. Calm /\ Before(r, log'[j])
    BY <1>5
  <2>2. CASE j <= Len(log)
    <3>1. j \in DOMAIN log /\ log'[j] = log[j]
      BY <1>2, <1>4, <1>5, <2>2
    <3>2. PICK i \in 1 .. j - 1 : log[i] = r
      BY <2>1, <3>1 DEF LogOrder
    <3>3. log'[i] = r
      BY <1>2, <1>4, <2>2, <3>2
    <3>4. QED
      BY <3>3
  <2>3. CASE ~(j <= Len(log))
    <3>1. j - Len(log) \in DOMAIN q /\ log'[j] = q[j - Len(log)]
      BY <1>2, <1>4, <1>5, <2>3
    <3>2. CASE r \in ToSet(log)
      <4>1. PICK i \in 1 .. Len(log) : log[i] = r
        BY <1>1, <3>2, InToSet
      <4>2. i \in 1 .. j - 1 /\ log'[i] = r
        BY <1>2, <1>4, <1>5, <2>3, <4>1
      <4>3. QED
        BY <4>2
    <3>3. CASE r \notin ToSet(log)
      <4>1. PICK i \in 1 .. j - Len(log) - 1 : q[i] = r
        BY <2>1, <3>1, <3>3 DEF InTurn
      <4>2. i + Len(log) \in 1 .. j - 1 /\ log'[i + Len(log)] = r
        BY <1>2, <1>4, <1>5, <2>3, <4>1
      <4>3. QED
        BY <4>2
    <3>4. QED
      BY <3>2, <3>3
  <2>4. QED
    BY <1>4, <1>5, <2>2, <2>3
<1>6. LogOrder'
  BY <1>5, ZenonT(40) DEF LogOrder, Before
<1>7. QED
  BY <1>2, <1>3, <1>6 DEF KnownRows

\* A claim in turn stays so while the topic grows and no id changes.
LEMMA StillInTurn ==
    ASSUME NEW x \in Pollers, InTurn(claim[x]), claim'[x] = claim[x],
           id' = id, ToSet(log) \subseteq ToSet(log')
    PROVE  InTurn(claim[x])'
BY DEF InTurn, Before

\* The end of a drain transaction.
LEMMA RollbackClaims ==
    ASSUME TypeOK, NEW p \in Pollers, Rollback(p)
    PROVE  /\ claim' \in [Pollers -> Seq(Rows)] /\ sent' \in [Pollers -> BOOLEAN]
           /\ claim'[p] = <<>> /\ sent'[p] = FALSE
           /\ \A x \in Pollers \ {p} : claim'[x] = claim[x] /\ sent'[x] = sent[x]
           /\ ToSet(claim'[p]) = {} /\ DOMAIN claim'[p] = {}
<1>1. ToSet(<<>>) = {} /\ DOMAIN <<>> = {} /\ <<>> \in Seq(Rows)
  BY DEF ToSet
<1>2. QED
  BY <1>1 DEF TypeOK, Rollback

(***************************************************************************)
(* A drain of p ends with q of its rows on the topic, in turn: what        *)
(* PublishFails, MarkPublished, MarkFails, Stop and Crash have in common.  *)
(* p may leave the active role.                                            *)
(***************************************************************************)
Ended(p, q) ==
    /\ Rollback(p) /\ id' = id
    /\ q \in Seq(Rows) /\ ToSet(q) \subseteq ToSet(claim[p]) /\ (Calm => InTurn(q))
    /\ log' = log \o q
    /\ \A x \in Pollers : x # p => role'[x] = role[x]
    /\ Calm' => Calm

\* Such an end keeps the topic in order and the claims of the others as they are.
LEMMA EndedStep ==
    ASSUME IInv, NEW p \in Pollers, NEW q, Ended(p, q)
    PROVE  /\ log' \in Seq(Rows) /\ ToSet(log) \subseteq ToSet(log')
           /\ claim' \in [Pollers -> Seq(Rows)] /\ sent' \in [Pollers -> BOOLEAN]
           /\ \A x \in Pollers : sent'[x] => claim'[x] # <<>>
           /\ KnownRows' /\ ClaimOK' /\ LogOrder' /\ ClaimOrder'
<1>1. /\ claim' \in [Pollers -> Seq(Rows)] /\ sent' \in [Pollers -> BOOLEAN]
      /\ claim'[p] = <<>> /\ sent'[p] = FALSE
      /\ \A x \in Pollers \ {p} : claim'[x] = claim[x] /\ sent'[x] = sent[x]
      /\ ToSet(claim'[p]) = {} /\ DOMAIN claim'[p] = {}
  BY RollbackClaims DEF IInv, Ended
<1>2. /\ log' \in Seq(Rows) /\ LogOrder'
      /\ ToSet(log') = ToSet(log) \cup ToSet(q)
      /\ \A r \in ToSet(log') : id[r] # 0
  <2>1. \A r \in ToSet(q) : id[r] # 0
    BY DEF IInv, KnownRows, Ended
  <2>2. QED
    BY <2>1, AppendInTurn DEF IInv, Ended
<1>3. KnownRows'
  BY <1>1, <1>2 DEF IInv, KnownRows, Ended
<1>4. ClaimOK'
  BY <1>1, <1>2 DEF IInv, ClaimOK, Ended
<1>5. ClaimOrder'
  <2> SUFFICES ASSUME Calm', NEW x \in Pollers PROVE InTurn(claim[x])'
    BY DEF ClaimOrder
  <2>1. CASE x = p
    BY <1>1, <2>1 DEF InTurn
  <2>2. CASE x # p
    <3>1. InTurn(claim[x])
      BY DEF IInv, ClaimOrder, Ended
    <3>2. QED
      BY <1>1, <1>2, <2>2, <3>1, StillInTurn DEF Ended
  <2>3. QED
    BY <2>1, <2>2
<1>6. \A x \in Pollers : sent'[x] => claim'[x] # <<>>
  BY <1>1 DEF IInv, TypeOK
<1>7. QED
  BY <1>1, <1>2, <1>3, <1>4, <1>5, <1>6

-----------------------------------------------------------------------------
(* Every action preserves the invariant.                                   *)

\* An insert takes an id above all others.
LEMMA NewId ==
    ASSUME TypeOK, IdsOK, NEW r \in Rows, Insert(r)
    PROVE  /\ id' \in [Rows -> Nat] /\ IdsOK'
           /\ \A q \in Rows : id[q] # 0 => id'[q] = id[q] /\ q # r
           /\ \A q, s \in Rows : Before(q, s)' => q # r /\ (s # r => Before(q, s))
<1> DEFINE N == Cardinality(Inserted)
<1>1. N \in Nat
  BY FS_CardinalityType DEF IdsOK
<1>2. Inserted = {q \in Rows : id[q] # 0}
  BY DEF Inserted
<1>3. id' = [id EXCEPT ![r] = 1 + N] /\ id[r] = 0 /\ id \in [Rows -> Nat]
  BY <1>2 DEF Insert, IdsOK, TypeOK
<1>4. Inserted' = Inserted \cup {r} /\ r \notin Inserted
  BY <1>1, <1>3 DEF Inserted
<1>5. IsFiniteSet(Inserted') /\ Cardinality(Inserted') = N + 1
  BY <1>4, FS_AddElement DEF IdsOK
<1>6. \A q \in Rows : id'[q] = IF q = r THEN 1 + N ELSE id[q]
  BY <1>3
<1>7. \A q \in Rows : id[q] \in Nat /\ id[q] <= N
  BY <1>3 DEF IdsOK
<1>8. \A q \in Rows : id'[q] <= N + 1
  BY <1>1, <1>6, <1>7
<1>9. \A q \in Rows : state'[q] = "none" <=> id'[q] = 0
  <2>1. state' = [state EXCEPT ![r] = "open"] /\ DOMAIN state = Rows
    BY DEF Insert, TypeOK
  <2>2. 1 + N # 0
    BY <1>1
  <2>3. QED
    BY <1>6, <2>1, <2>2 DEF IdsOK
<1>10. \A q, s \in Rows : Before(q, s)' => q # r /\ (s # r => Before(q, s))
  <2> SUFFICES ASSUME NEW q \in Rows, NEW s \in Rows, Before(q, s)'
               PROVE  q # r /\ (s # r => Before(q, s))
    OBVIOUS
  <2>1. id'[q] < id'[s] /\ id'[q] # 0 /\ Key[q] = Key[s]
    BY DEF Before
  <2>2. q # r
    BY <1>1, <1>6, <1>7, <2>1
  <2>3. QED
    BY <1>6, <2>1, <2>2 DEF Before
<1>11. id' \in [Rows -> Nat]
  BY <1>1, <1>3
<1>12. \A q \in Rows : id[q] # 0 => id'[q] = id[q] /\ q # r
  BY <1>3, <1>6
<1>13. QED
  BY <1>5, <1>8, <1>9, <1>10, <1>11, <1>12 DEF IdsOK

\* An event is inserted once the events of its stream have committed, a reply
\* at any time.
LEMMA InsertStep ==
    ASSUME IInv, NEW r \in Rows, Insert(r)
    PROVE  IInv'
<1>1. /\ id' \in [Rows -> Nat] /\ IdsOK'
      /\ \A q \in Rows : id[q] # 0 => id'[q] = id[q] /\ q # r
      /\ \A q, s \in Rows : Before(q, s)' => q # r /\ (s # r => Before(q, s))
  BY NewId DEF IInv
<1>2. UNCHANGED <<log, role, lock, claim, sent, orphans, disruptions, crashed, lost, skipped>>
  BY DEF Insert, pollers, budget
<1>3. /\ state \in [Rows -> {"none", "open", "unpublished", "published", "pruned"}]
      /\ state' = [state EXCEPT ![r] = "open"] /\ state[r] = "none"
      /\ r \in Events => \A q \in Events : Key[q] = Key[r] => state[q] # "open"
  BY DEF IInv, TypeOK, Insert
<1>4. TypeOK'
  BY <1>1, <1>2, <1>3 DEF IInv, TypeOK
<1>5. log \in Seq(Rows) /\ ToSet(log) \subseteq Rows
      /\ \A p \in Pollers : claim[p] \in Seq(Rows) /\ ToSet(claim[p]) \subseteq Rows
  BY InToSet DEF IInv, TypeOK
<1>6. KnownRows'
  BY <1>1, <1>2, <1>5 DEF IInv, KnownRows
<1>7. ClaimOK' /\ MarkedIsOnTopic' /\ Sole'
  BY <1>2, <1>3 DEF IInv, ClaimOK, MarkedIsOnTopic, Sole, Calm
<1>8. KeyOrder'
  <2> SUFFICES ASSUME NEW q \in Rows, NEW s \in Rows, Before(q, s)' PROVE state'[q] # "open"
    BY DEF KeyOrder
  <2>1. q # r /\ state'[q] = state[q]
    BY <1>1, <1>3
  <2>2. CASE s = r
    BY <1>3, <2>1, <2>2 DEF Before
  <2>3. CASE s # r
    BY <1>1, <2>1, <2>3 DEF IInv, KeyOrder
  <2>4. QED
    BY <2>2, <2>3
<1>9. \A j \in DOMAIN log : log[j] \in Rows \ {r}
  BY <1>1, <1>5, InToSet DEF IInv, KnownRows
<1>10. LogOrder'
  BY <1>1, <1>2, <1>9 DEF IInv, LogOrder, Calm
<1>11. \A p \in Pollers : \A j \in DOMAIN claim[p] : claim[p][j] \in Rows \ {r}
  BY <1>1, <1>5, InToSet, SMTT(40) DEF IInv, KnownRows
<1>12. ClaimOrder'
  BY <1>1, <1>2, <1>11 DEF IInv, ClaimOrder, InTurn, Calm
<1>13. QED
  BY <1>1, <1>4, <1>6, <1>7, <1>8, <1>10, <1>12 DEF IInv

\* What does not depend on the table's published_at column or on the election.
Orders == KnownRows /\ LogOrder /\ ClaimOrder

\* They hold as long as neither the ids nor the topic nor a claim changes.
LEMMA OrdersKept ==
    ASSUME Orders, UNCHANGED <<id, log, claim>>, Calm' => Calm
    PROVE  Orders'
BY DEF Orders, KnownRows, LogOrder, ClaimOrder, InTurn, Before

\* Rows that change state after their insert keep their order.
LEMMA TableStep ==
    ASSUME IInv, UNCHANGED <<id, log, role, lock, claim, sent, orphans>>,
           UNCHANGED <<disruptions, crashed, lost, skipped>>,
           state' \in [Rows -> {"none", "open", "unpublished", "published", "pruned"}],
           \A q \in Rows : /\ state'[q] = "none" <=> state[q] = "none"
                           /\ state'[q] = "open" => state[q] = "open"
                           /\ state'[q] \in {"published", "pruned"} =>
                                state[q] \in {"published", "pruned"}
    PROVE  IInv'
<1>1. TypeOK'
  BY DEF IInv, TypeOK
<1>2. Orders'
  BY OrdersKept DEF IInv, Orders, Calm
<1>3. IdsOK' /\ KeyOrder'
  BY DEF IInv, IdsOK, KeyOrder, Inserted, Before
<1>4. MarkedIsOnTopic' /\ ClaimOK' /\ Sole'
  BY DEF IInv, MarkedIsOnTopic, ClaimOK, Sole, Calm
<1>5. QED
  BY <1>1, <1>2, <1>3, <1>4 DEF IInv, Orders

\* A commit makes a row visible.
LEMMA CommitRowStep ==
    ASSUME IInv, NEW r \in Rows, CommitRow(r)
    PROVE  IInv'
<1>1. state \in [Rows -> {"none", "open", "unpublished", "published", "pruned"}]
  BY DEF IInv, TypeOK
<1>2. state' = [state EXCEPT ![r] = "unpublished"] /\ state[r] = "open"
      /\ UNCHANGED <<id, log, role, lock, claim, sent, orphans>>
      /\ UNCHANGED <<disruptions, crashed, lost, skipped>>
  BY DEF CommitRow, pollers, budget
<1>3. QED
  BY <1>1, <1>2, TableStep

\* Pruned rows were published.
LEMMA PruneStep ==
    ASSUME IInv, NEW p \in Pollers, Prune(p)
    PROVE  IInv'
<1>1. state \in [Rows -> {"none", "open", "unpublished", "published", "pruned"}]
  BY DEF IInv, TypeOK
<1>2. PICK old \in SUBSET {r \in Rows : state[r] = "published"} :
          state' = [r \in Rows |-> IF r \in old THEN "pruned" ELSE state[r]]
  BY DEF Prune
<1>3. /\ UNCHANGED <<id, log, role, lock, claim, sent, orphans>>
      /\ UNCHANGED <<disruptions, crashed, lost, skipped>>
  BY DEF Prune, pollers, budget
<1>4. state' \in [Rows -> {"none", "open", "unpublished", "published", "pruned"}]
  BY <1>1, <1>2
<1>5. ASSUME NEW q \in Rows
      PROVE  /\ state'[q] = "none" <=> state[q] = "none"
             /\ state'[q] = "open" => state[q] = "open"
             /\ state'[q] \in {"published", "pruned"} => state[q] \in {"published", "pruned"}
  BY <1>1, <1>2
<1>6. QED
  BY <1>3, <1>4, <1>5, TableStep

\* Only the holder of the lock becomes active.
LEMMA StartStep ==
    ASSUME IInv, NEW p \in Pollers, Start(p)
    PROVE  IInv'
<1>1. UNCHANGED <<state, id, log, claim, sent, orphans, disruptions, crashed, lost, skipped>>
  BY DEF Start, table, budget
<1>2. role \in [Pollers -> {"down", "standby", "active"}] /\ role[p] = "down"
      /\ lock \in Pollers \cup {Nobody, Ghost}
  BY DEF Start, IInv, TypeOK
<1>3. \/ /\ lock = Nobody /\ lock' = p /\ role' = [role EXCEPT ![p] = "active"]
      \/ lock' = lock /\ role' = [role EXCEPT ![p] = "standby"]
  BY DEF Start
<1>4. TypeOK'
  BY <1>1, <1>2, <1>3 DEF IInv, TypeOK
<1>5. Orders'
  BY <1>1, OrdersKept DEF IInv, Orders, Calm
<1>6. IdsOK' /\ KeyOrder' /\ MarkedIsOnTopic'
  BY <1>1 DEF IInv, IdsOK, KeyOrder, Inserted, Before, MarkedIsOnTopic
<1>7. ClaimOK'
  BY <1>1, <1>2, <1>3 DEF IInv, ClaimOK
<1>8. Sole'
  BY <1>1, <1>2, <1>3, PollerAssumption DEF IInv, Sole, Calm
<1>9. QED
  BY <1>4, <1>5, <1>6, <1>7, <1>8 DEF IInv, Orders

\* A lost session ends the calm.
LEMMA LoseSessionStep ==
    ASSUME IInv, NEW p \in Pollers, LoseSession(p)
    PROVE  IInv'
<1>1. UNCHANGED <<state, id, log, role, claim, sent, orphans, crashed, skipped>>
      /\ lost' = TRUE /\ lock' = Nobody
      /\ disruptions < MaxDisruptions /\ disruptions' = disruptions + 1
  BY DEF LoseSession, Disrupt, table
<1>2. TypeOK'
  BY <1>1, PollerAssumption DEF IInv, TypeOK
<1>3. Orders'
  BY <1>1, OrdersKept DEF IInv, Orders, Calm
<1>4. IdsOK' /\ KeyOrder' /\ MarkedIsOnTopic' /\ ClaimOK' /\ Sole'
  BY <1>1 DEF IInv, IdsOK, KeyOrder, Inserted, Before, MarkedIsOnTopic, ClaimOK, Sole, Calm
<1>5. QED
  BY <1>2, <1>3, <1>4 DEF IInv, Orders

\* The server forgets dead sessions and their claims.
LEMMA ReapStep ==
    ASSUME IInv, ReapElection \/ ReapDrain
    PROVE  IInv'
<1>1. /\ UNCHANGED <<state, id, log, role, claim, sent, disruptions, crashed, lost, skipped>>
      /\ lock' = lock \/ (lock = Ghost /\ lock' = Nobody)
      /\ orphans' \subseteq orphans
  BY DEF ReapElection, ReapDrain, table, budget
<1>2. TypeOK'
  BY <1>1 DEF IInv, TypeOK
<1>3. Orders'
  BY <1>1, OrdersKept DEF IInv, Orders, Calm
<1>4. IdsOK' /\ KeyOrder' /\ MarkedIsOnTopic' /\ ClaimOK'
  BY <1>1 DEF IInv, IdsOK, KeyOrder, Inserted, Before, MarkedIsOnTopic, ClaimOK
<1>5. Sole'
  BY <1>1, PollerAssumption DEF IInv, Sole, Calm
<1>6. QED
  BY <1>2, <1>3, <1>4, <1>5 DEF IInv, Orders

\* A claim that steps over nothing is in turn: nobody else has locked an earlier
\* event of its streams.
LEMMA ClaimInTurn ==
    ASSUME IInv, NEW p \in Pollers, role[p] = "active", claim[p] = <<>>,
           Calm, orphans = {},
           NEW n \in Nat \ {0}, NEW b \in [1 .. n -> Claimable],
           InIdOrder(b), \A r \in Claimable \ ToSet(b) : id[b[n]] < id[r]
    PROVE  InTurn(b)
<1> SUFFICES ASSUME NEW j \in 1 .. n, NEW q \in Rows, Before(q, b[j]), q \notin ToSet(log)
             PROVE  \E i \in 1 .. j - 1 : b[i] = q
  BY DEF InTurn
<1>1. id \in [Rows -> Nat] /\ b[j] \in Rows /\ b[n] \in Rows
      /\ state \in [Rows -> {"none", "open", "unpublished", "published", "pruned"}]
  BY DEF IInv, TypeOK, Claimable
<1>2. Locked = {}
  <2>1. \A x \in Pollers : claim[x] = <<>>
    BY DEF IInv, ClaimOK, Sole
  <2>2. ToSet(<<>>) = {}
    BY DEF ToSet
  <2>3. QED
    BY <2>1, <2>2 DEF Locked
<1>3. state[q] = "unpublished"
  <2>1. state[q] # "none" /\ state[q] # "open"
    BY <1>1 DEF IInv, IdsOK, KeyOrder, Before
  <2>2. state[q] \notin {"published", "pruned"}
    BY DEF IInv, MarkedIsOnTopic
  <2>3. QED
    BY <1>1, <2>1, <2>2
<1>4. q \in Claimable
  BY <1>2, <1>3 DEF Claimable
<1>5. id[q] < id[b[j]] /\ id[q] \in Nat /\ id[b[j]] \in Nat /\ id[b[n]] \in Nat
  BY <1>1 DEF Before
<1>6. j = n \/ id[b[j]] < id[b[n]]
  BY DEF InIdOrder
<1>7. q \in ToSet(b)
  BY <1>4, <1>5, <1>6
<1>8. PICK i \in 1 .. n : b[i] = q
  BY <1>7 DEF ToSet
<1>9. ~(j < i) /\ i # j
  BY <1>5, <1>8 DEF InIdOrder
<1>10. QED
  BY <1>8, <1>9

\* A claim takes committed rows that nobody has locked.
LEMMA ClaimStep ==
    ASSUME IInv, NEW p \in Pollers, Claim(p)
    PROVE  IInv'
<1>1. /\ UNCHANGED <<state, id, log, role, lock, sent, orphans, disruptions, crashed, lost>>
      /\ skipped' = (skipped \/ orphans # {})
      /\ role[p] = "active" /\ claim[p] = <<>>
  BY DEF Claim, table
<1>2. PICK n \in 1 .. BatchSize : \E b \in [1 .. n -> Claimable] :
          /\ InIdOrder(b) /\ \A r \in Claimable \ ToSet(b) : id[b[n]] < id[r]
          /\ claim' = [claim EXCEPT ![p] = b]
  BY DEF Claim
<1>3. PICK b \in [1 .. n -> Claimable] :
          /\ InIdOrder(b) /\ \A r \in Claimable \ ToSet(b) : id[b[n]] < id[r]
          /\ claim' = [claim EXCEPT ![p] = b]
  BY <1>2
<1>4. Claimable \subseteq Rows /\ n \in Nat \ {0} /\ \A r \in Claimable : state[r] = "unpublished"
  BY <1>2, PollerAssumption DEF Claimable
<1>5. b \in Seq(Rows) /\ b # <<>>
  <2>1. b \in [1 .. n -> Rows] /\ 1 \in DOMAIN b
    BY <1>3, <1>4
  <2>2. QED
    BY <1>4, <2>1
<1>6. claim \in [Pollers -> Seq(Rows)] /\ claim'[p] = b
      /\ \A x \in Pollers : x # p => claim'[x] = claim[x]
  BY <1>3 DEF IInv, TypeOK
<1>7. ToSet(b) \subseteq Claimable
  BY <1>3 DEF ToSet
<1>8. TypeOK'
  <2>1. claim' \in [Pollers -> Seq(Rows)]
    BY <1>3, <1>5, <1>6
  <2>2. \A x \in Pollers : sent'[x] => claim'[x] # <<>>
    BY <1>1, <1>5, <1>6 DEF IInv, TypeOK
  <2>3. QED
    BY <1>1, <2>1, <2>2 DEF IInv, TypeOK
<1>9. KnownRows'
  <2>1. \A r \in ToSet(b) : id[r] # 0
    BY <1>4, <1>7 DEF IInv, IdsOK
  <2>2. QED
    BY <1>1, <1>6, <2>1 DEF IInv, KnownRows
<1>10. ~sent[p]
  BY <1>1 DEF IInv, TypeOK
<1>11. ClaimOK'
  BY <1>1, <1>6, <1>10 DEF IInv, ClaimOK
<1>12. IdsOK' /\ KeyOrder' /\ MarkedIsOnTopic' /\ Sole' /\ LogOrder'
  <2>1. Calm' => Calm
    BY <1>1 DEF Calm
  <2>2. IdsOK' /\ KeyOrder' /\ MarkedIsOnTopic'
    BY <1>1 DEF IInv, IdsOK, KeyOrder, Inserted, Before, MarkedIsOnTopic
  <2>3. Sole'
    BY <1>1, <2>1 DEF IInv, Sole
  <2>4. LogOrder'
    BY <1>1, <2>1 DEF IInv, LogOrder, Before
  <2>5. QED
    BY <2>2, <2>3, <2>4
<1>13. ClaimOrder'
  <2> SUFFICES ASSUME Calm', NEW x \in Pollers PROVE InTurn(claim[x])'
    BY DEF ClaimOrder
  <2>1. Calm /\ orphans = {}
    BY <1>1 DEF Calm
  <2>2. CASE x = p
    <3>1. InTurn(b)
      BY <1>1, <1>3, <1>4, <2>1, ClaimInTurn
    <3>2. InTurn(b)'
      BY <1>1, <3>1 DEF InTurn, Before
    <3>3. claim'[x] = b
      BY <1>6, <2>2
    <3>4. QED
      BY <3>2, <3>3 DEF InTurn
  <2>3. CASE x # p
    BY <1>1, <1>6, <2>1, <2>3, StillInTurn DEF IInv, ClaimOrder
  <2>4. QED
    BY <2>2, <2>3
<1>14. QED
  BY <1>8, <1>9, <1>11, <1>12, <1>13 DEF IInv

\* A claim is published in turn.
LEMMA PublishStep ==
    ASSUME IInv, NEW p \in Pollers, Publish(p)
    PROVE  IInv'
<1>1. /\ UNCHANGED <<state, id, role, lock, claim, orphans, disruptions, crashed, lost, skipped>>
      /\ log' = log \o claim[p] /\ sent' = [sent EXCEPT ![p] = TRUE]
      /\ claim[p] # <<>>
  BY DEF Publish, Draining, table, budget
<1>2. claim[p] \in Seq(Rows) /\ \A r \in ToSet(claim[p]) : id[r] # 0
  BY DEF IInv, TypeOK, KnownRows
<1>3. /\ log' \in Seq(Rows) /\ LogOrder'
      /\ ToSet(log') = ToSet(log) \cup ToSet(claim[p])
      /\ \A r \in ToSet(log') : id[r] # 0
  BY <1>1, <1>2, AppendInTurn DEF IInv, ClaimOrder, Calm
<1>4. TypeOK'
  BY <1>1, <1>3 DEF IInv, TypeOK
<1>5. KnownRows' /\ IdsOK' /\ KeyOrder' /\ Sole'
  BY <1>1, <1>3 DEF IInv, KnownRows, IdsOK, Inserted, KeyOrder, Before, Sole, Calm
<1>6. ClaimOK' /\ MarkedIsOnTopic'
  BY <1>1, <1>3 DEF IInv, TypeOK, ClaimOK, MarkedIsOnTopic
<1>7. ClaimOrder'
  BY <1>1, <1>3, StillInTurn DEF IInv, ClaimOrder, Calm
<1>8. QED
  BY <1>3, <1>4, <1>5, <1>6, <1>7 DEF IInv

\* A drain that was cut off: Publish failed, a shutdown or a crash.
LEMMA CutOffStep ==
    ASSUME IInv, NEW p \in Pollers, PublishFails(p) \/ Stop(p) \/ Crash(p)
    PROVE  IInv'
<1>1. /\ UNCHANGED <<state, id, lost, skipped>> /\ Rollback(p) /\ log' \in Leftover(p)
      /\ disruptions < MaxDisruptions /\ disruptions' = disruptions + 1
      /\ crashed' \in {crashed, TRUE}
  BY DEF PublishFails, Stop, Crash, Disrupt, table
<1>2. /\ role' \in {role, [role EXCEPT ![p] = "down"]}
      /\ lock' = lock \/ (lock = p /\ lock' \in {Nobody, Ghost} /\ role' = [role EXCEPT ![p] = "down"])
      /\ orphans' = orphans \/ orphans' = orphans \cup ({ToSet(claim[p])} \ {{}})
  BY DEF PublishFails, Stop, Crash, Orphaned
<1>3. Calm' <=> Calm
  BY <1>1 DEF Calm
<1>4. role \in [Pollers -> {"down", "standby", "active"}]
  BY DEF IInv, TypeOK
<1>5. PICK q \in Seq(Rows) : /\ log' = log \o q
                             /\ ToSet(q) \subseteq ToSet(claim[p]) /\ (Calm => InTurn(q))
  BY <1>1, LeftoverInTurn DEF IInv
<1>6. Ended(p, q)
  BY <1>1, <1>2, <1>3, <1>4, <1>5 DEF Ended
<1>7. /\ log' \in Seq(Rows) /\ ToSet(log) \subseteq ToSet(log')
      /\ claim' \in [Pollers -> Seq(Rows)] /\ sent' \in [Pollers -> BOOLEAN]
      /\ \A x \in Pollers : sent'[x] => claim'[x] # <<>>
      /\ KnownRows' /\ ClaimOK' /\ LogOrder' /\ ClaimOrder'
  BY <1>6, EndedStep
<1>8. TypeOK'
  <2>1. ToSet(claim[p]) \subseteq Rows
    BY InToSet DEF IInv, TypeOK
  <2>2. orphans' \subseteq SUBSET Rows
    BY <1>2, <2>1, ZenonT(40) DEF IInv, TypeOK
  <2>3. disruptions' \in 0 .. MaxDisruptions
    BY <1>1, PollerAssumption DEF IInv, TypeOK
  <2>4. role' \in [Pollers -> {"down", "standby", "active"}]
        /\ lock' \in Pollers \cup {Nobody, Ghost}
    BY <1>2, <1>4 DEF IInv, TypeOK
  <2>5. crashed' \in BOOLEAN /\ lost' \in BOOLEAN /\ skipped' \in BOOLEAN
    BY <1>1 DEF IInv, TypeOK
  <2>6. QED
    BY <1>1, <1>7, <2>2, <2>3, <2>4, <2>5 DEF IInv, TypeOK
<1>9. IdsOK' /\ KeyOrder' /\ MarkedIsOnTopic'
  BY <1>1, <1>7 DEF IInv, IdsOK, Inserted, KeyOrder, Before, MarkedIsOnTopic
<1>10. Sole'
  BY <1>2, <1>3, <1>4 DEF IInv, Sole
<1>11. QED
  BY <1>7, <1>8, <1>9, <1>10 DEF IInv

\* Rows are marked only when the claim is on the topic; a failed mark changes
\* nothing.
LEMMA MarkStep ==
    ASSUME IInv, NEW p \in Pollers, MarkPublished(p) \/ MarkFails(p)
    PROVE  IInv'
<1>1. /\ UNCHANGED <<id, log, role, lock, crashed, lost, skipped>>
      /\ Rollback(p) /\ sent[p]
      /\ disruptions' \in {disruptions, disruptions + 1}
      /\ disruptions' # disruptions => disruptions < MaxDisruptions
  BY DEF MarkPublished, MarkFails, Draining, Disrupt, table, budget
<1>2. state' = state \/ state' = [r \in Rows |-> IF r \in ToSet(claim[p]) THEN "published" ELSE state[r]]
  BY DEF MarkPublished, MarkFails, table
<1>3. state \in [Rows -> {"none", "open", "unpublished", "published", "pruned"}]
      /\ log \in Seq(Rows)
  BY DEF IInv, TypeOK
<1>4. ToSet(claim[p]) \subseteq ToSet(log) /\ \A r \in ToSet(claim[p]) : id[r] # 0
  BY <1>1 DEF IInv, ClaimOK, KnownRows
<1>5. Ended(p, <<>>)
  <2>1. ToSet(<<>>) = {} /\ DOMAIN <<>> = {} /\ <<>> \in Seq(Rows)
    BY DEF ToSet
  <2>2. log' = log \o <<>>
    BY <1>1, <1>3, ConcatEmptySeq
  <2>3. InTurn(<<>>)
    BY <2>1 DEF InTurn
  <2>4. QED
    BY <1>1, <2>1, <2>2, <2>3 DEF Ended, Calm
<1>6. /\ log' \in Seq(Rows) /\ ToSet(log) \subseteq ToSet(log')
      /\ claim' \in [Pollers -> Seq(Rows)] /\ sent' \in [Pollers -> BOOLEAN]
      /\ \A x \in Pollers : sent'[x] => claim'[x] # <<>>
      /\ KnownRows' /\ ClaimOK' /\ LogOrder' /\ ClaimOrder'
  BY <1>5, EndedStep
<1>7. TypeOK'
  <2>1. disruptions' \in 0 .. MaxDisruptions
    BY <1>1, PollerAssumption DEF IInv, TypeOK
  <2>2. state' \in [Rows -> {"none", "open", "unpublished", "published", "pruned"}]
    BY <1>2, <1>3
  <2>3. orphans' = orphans \/ orphans' = orphans \cup ({ToSet(claim[p])} \ {{}})
    BY DEF MarkPublished, MarkFails, Orphaned
  <2>4. ToSet(claim[p]) \subseteq Rows /\ orphans \subseteq SUBSET Rows
    BY InToSet DEF IInv, TypeOK
  <2>5. orphans' \subseteq SUBSET Rows
    BY <2>3, <2>4
  <2>6. QED
    BY <1>1, <1>6, <2>1, <2>2, <2>5 DEF IInv, TypeOK
<1>8. IdsOK'
  BY <1>1, <1>2, <1>3, <1>4 DEF IInv, IdsOK, Inserted
<1>9. KeyOrder' /\ MarkedIsOnTopic' /\ Sole'
  BY <1>1, <1>2, <1>3, <1>4 DEF IInv, KeyOrder, Before, MarkedIsOnTopic, Sole, Calm
<1>10. QED
  BY <1>6, <1>7, <1>8, <1>9 DEF IInv

-----------------------------------------------------------------------------
(* The theorems.                                                           *)

\* The invariant holds of an empty outbox.
LEMMA InitIInv == Init => IInv
<1> SUFFICES ASSUME Init PROVE IInv
  OBVIOUS
<1>1. ToSet(<<>>) = {} /\ DOMAIN <<>> = {} /\ <<>> \in Seq(Rows)
  BY DEF ToSet
<1>2. TypeOK
  <2>1. claim \in [Pollers -> Seq(Rows)] /\ log \in Seq(Rows)
    BY <1>1 DEF Init
  <2>2. disruptions \in 0 .. MaxDisruptions /\ id \in [Rows -> Nat]
    BY PollerAssumption DEF Init
  <2>3. sent \in [Pollers -> BOOLEAN] /\ \A p \in Pollers : ~sent[p]
    BY DEF Init
  <2>4. QED
    BY <2>1, <2>2, <2>3 DEF Init, TypeOK
<1>3. Inserted = {}
  BY DEF Init, Inserted
<1>4. IdsOK
  BY <1>3, FS_EmptySet DEF Init, IdsOK
<1>5. KnownRows /\ ClaimOK /\ MarkedIsOnTopic /\ KeyOrder
  BY <1>1 DEF Init, KnownRows, ClaimOK, MarkedIsOnTopic, KeyOrder, Before
<1>6. Sole /\ LogOrder /\ ClaimOrder
  BY <1>1 DEF Init, Sole, LogOrder, ClaimOrder, InTurn
<1>7. QED
  BY <1>2, <1>4, <1>5, <1>6 DEF IInv

\* Every action preserves it.
LEMMA NextIInv == IInv /\ [Next]_vars => IInv'
<1> SUFFICES ASSUME IInv, [Next]_vars PROVE IInv'
  OBVIOUS
<1>1. CASE \E r \in Rows : Insert(r) \/ CommitRow(r)
  BY <1>1, InsertStep, CommitRowStep
<1>2. CASE \E p \in Pollers : Start(p) \/ LoseSession(p)
  BY <1>2, StartStep, LoseSessionStep
<1>3. CASE \E p \in Pollers : Claim(p) \/ Publish(p) \/ Prune(p)
  BY <1>3, ClaimStep, PublishStep, PruneStep
<1>4. CASE \E p \in Pollers : MarkPublished(p) \/ MarkFails(p)
  BY <1>4, MarkStep
<1>5. CASE \E p \in Pollers : PublishFails(p) \/ Stop(p) \/ Crash(p)
  BY <1>5, CutOffStep
<1>6. CASE ReapElection \/ ReapDrain
  BY <1>6, ReapStep
<1>7. CASE UNCHANGED vars
  <2>1. UNCHANGED <<state, id, log, role, lock, claim, sent, orphans, disruptions, crashed, lost, skipped>>
    BY <1>7 DEF vars, table, pollers, budget
  <2>2. state' \in [Rows -> {"none", "open", "unpublished", "published", "pruned"}]
    BY <2>1 DEF IInv, TypeOK
  <2>3. QED
    BY <2>1, <2>2, TableStep
<1>8. QED
  BY <1>1, <1>2, <1>3, <1>4, <1>5, <1>6, <1>7 DEF Next, Drain

\* The invariant above holds in every reachable state.
THEOREM Inductive == Spec => []IInv
BY InitIInv, NextIInv, PTL DEF Spec

\* Every variable of the pollers, the table and the topic has its type, for any
\* number of rows: nothing counts as sent without a claim (drain).
THEOREM TypeCorrect == Spec => []TypeOK
<1>1. IInv => TypeOK
  BY DEF IInv
<1>2. QED
  BY <1>1, Inductive, PTL

\* No message is lost: drain marks and commits what Publish has put on the
\* topic, so a published or pruned row is there, whatever fails.
THEOREM NoLoss == Spec => []MarkedIsOnTopic
<1>1. IInv => MarkedIsOnTopic
  BY DEF IInv
<1>2. QED
  BY <1>1, Inductive, PTL

\* The events of a stream appear on the topic in id order, whatever replies are
\* inserted in between and whichever drains fail or are cut off, until a drain
\* steps over rows of an ended connection or two pollers are active: for any
\* batch size and any interleaving of writers and pollers.
THEOREM InOrder == Spec => []StreamInOrder
<1>1. IInv => StreamInOrder
  <2> SUFFICES ASSUME IInv, Calm, NEW q \in ToSet(log) \cap Events,
                      NEW r \in ToSet(log) \cap Events, Key[q] = Key[r], id[q] < id[r]
               PROVE  FirstAt(q) < FirstAt(r)
    BY DEF StreamInOrder, Calm
  <2>1. log \in Seq(Rows) /\ DOMAIN log = 1 .. Len(log) /\ q \in Rows
    BY InToSet DEF IInv, TypeOK
  <2>2. /\ FirstAt(q) \in DOMAIN log /\ log[FirstAt(q)] = q
        /\ \A j \in 1 .. FirstAt(q) - 1 : log[j] # q
        /\ FirstAt(r) \in DOMAIN log /\ log[FirstAt(r)] = r
    BY <2>1, FirstPosition
  <2>3. Before(q, log[FirstAt(r)])
    BY <2>2 DEF IInv, KnownRows, Before
  <2>4. PICK i \in 1 .. FirstAt(r) - 1 : log[i] = q
    BY <2>1, <2>2, <2>3 DEF IInv, LogOrder
  <2>5. QED
    BY <2>1, <2>2, <2>4
<1>2. QED
  BY <1>1, Inductive, PTL
=============================================================================
