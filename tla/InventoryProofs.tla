--------------------------- MODULE InventoryProofs ---------------------------
(***************************************************************************)
(* Proofs about Inventory, for any commands, seats, holds and any number   *)
(* of handlers and schedulers: the type invariant and StreamAlternates.    *)
(***************************************************************************)
EXTENDS Inventory, SequenceTheorems, TLAPS

-----------------------------------------------------------------------------
(* The fold of a stream.                                                   *)

\* A stream without its last event.
LEMMA FrontIsShorter ==
    ASSUME NEW S, NEW rs \in Seq(S), Len(rs) \in Nat \ {0}
    PROVE  /\ SubSeq(rs, 1, Len(rs) - 1) \in Seq(S)
           /\ Len(SubSeq(rs, 1, Len(rs) - 1)) = Len(rs) - 1
<1>1. SubSeq(rs, 1, Len(rs) - 1) \in Seq(S)
  OBVIOUS
<1>2. ASSUME NEW n, n = Len(rs) - 1
      PROVE  Len(SubSeq(rs, 1, n)) = n
  <2>1. n \in Nat
    BY <1>2
  <2>2. CASE n = 0
    BY <2>2, SubSeqEmpty
  <2>3. CASE n > 0
    <3>1. \A i \in 1 .. n : rs[i] \in S
      BY <1>2, <2>1
    <3>2. QED
      BY <2>1, <2>3, <3>1, SubSeqProperties
  <2>4. QED
    BY <2>1, <2>2, <2>3
<1>3. QED
  BY <1>1, <1>2

\* Fold satisfies its recursion: Apply looks at nothing of the state it is
\* given but the version, so the closed form below is a solution.
LEMMA FoldDef ==
    Fold = [rs \in Seq(Recorded) |->
                IF rs = <<>> THEN FreshSeat
                ELSE Apply(Fold[SubSeq(rs, 1, Len(rs) - 1)], rs[Len(rs)].msg)]
<1> DEFINE Step(f) == [rs \in Seq(Recorded) |->
                IF rs = <<>> THEN FreshSeat
                ELSE Apply(f[SubSeq(rs, 1, Len(rs) - 1)], rs[Len(rs)].msg)]
           g == [rs \in Seq(Recorded) |->
                IF rs = <<>> THEN FreshSeat
                ELSE Apply([FreshSeat EXCEPT !.version = Len(rs) - 1], rs[Len(rs)].msg)]
<1>1. g = Step(g)
  <2>1. ASSUME NEW rs \in Seq(Recorded), rs # <<>>
        PROVE  Apply(g[SubSeq(rs, 1, Len(rs) - 1)], rs[Len(rs)].msg)
                 = Apply([FreshSeat EXCEPT !.version = Len(rs) - 1], rs[Len(rs)].msg)
    <3> DEFINE front == SubSeq(rs, 1, Len(rs) - 1)
    <3>1. Len(rs) \in Nat \ {0}
      BY <2>1, EmptySeq
    <3>2. front \in Seq(Recorded) /\ Len(front) = Len(rs) - 1
      BY <3>1, FrontIsShorter
    <3>3. g[front].version = Len(rs) - 1
      <4>1. CASE front = <<>>
        BY <3>2, <4>1, EmptySeq DEF FreshSeat
      <4>2. CASE front # <<>>
        BY <3>1, <3>2, <4>2 DEF Apply, FreshSeat
      <4>3. QED
        BY <4>1, <4>2
    <3>4. QED
      BY <3>3 DEF Apply, FreshSeat
  <2>2. QED
    BY <2>1
<1>2. Fold = CHOOSE f : f = Step(f)
  BY DEF Fold
<1>3. QED
  BY <1>1, <1>2

\* A fresh stream folds to a free seat.
LEMMA FoldEmpty == Fold[<<>>] = FreshSeat
BY FoldDef

\* One more event is one more application.
LEMMA FoldAppend ==
    ASSUME NEW rs \in Seq(Recorded), NEW r \in Recorded
    PROVE  Fold[Append(rs, r)] = Apply(Fold[rs], r.msg)
<1> DEFINE q == Append(rs, r)
<1>1. q \in Seq(Recorded) /\ q # <<>> /\ q[Len(q)] = r
  OBVIOUS
<1>2. SubSeq(q, 1, Len(q) - 1) = rs
  OBVIOUS
<1>3. QED
  BY <1>1, <1>2, FoldDef

\* The last event alone decides whether a seat is held, and by whom.
LEMMA FoldLast ==
    ASSUME NEW rs \in Seq(Recorded), rs # <<>>
    PROVE  LET last == rs[Len(rs)].msg
           IN  /\ Fold[rs].status = "held" <=> last.type = "SeatHeld"
               /\ Fold[rs].status = "held" => Fold[rs].hold = last.hold
               /\ Fold[rs].status \in {"free", "held"}
               /\ Fold[rs].hold \in Holds \cup {NoHold}
               /\ Fold[rs].expires \in Int
               /\ Fold[rs] = [version |-> Fold[rs].version, status |-> Fold[rs].status,
                              hold |-> Fold[rs].hold, expires |-> Fold[rs].expires]
<1>1. Len(rs) \in Nat \ {0}
  BY EmptySeq
<1>2. rs[Len(rs)] \in Recorded
  BY <1>1
<1>3. rs[Len(rs)].msg.hold \in Holds /\ rs[Len(rs)].msg.expires \in Int
  BY <1>2 DEF Recorded, Message
<1>4. Fold[rs] = Apply(Fold[SubSeq(rs, 1, Len(rs) - 1)], rs[Len(rs)].msg)
  BY FoldDef
<1>5. QED
  BY <1>3, <1>4 DEF Apply, AsTime, Epoch, ZeroTime, NoDeadline

\* What a stream folds to is a seat, if its version is a number.
LEMMA FoldType ==
    ASSUME NEW rs \in Seq(Recorded), Fold[rs].version \in Nat
    PROVE  Fold[rs] \in SeatState
<1>1. CASE rs = <<>>
  BY <1>1, FoldEmpty DEF FreshSeat, SeatState, ZeroTime
<1>2. CASE rs # <<>>
  <2>1. /\ Fold[rs].status \in {"free", "held"}
        /\ Fold[rs].hold \in Holds \cup {NoHold}
        /\ Fold[rs].expires \in Int
    BY <1>2, FoldLast
  <2>2. Fold[rs] = [version |-> Fold[rs].version, status |-> Fold[rs].status,
                    hold |-> Fold[rs].hold, expires |-> Fold[rs].expires]
    BY <1>2, FoldLast
  <2>3. \A v \in Nat, st \in {"free", "held"}, hd \in Holds \cup {NoHold}, ex \in Int :
            [version |-> v, status |-> st, hold |-> hd, expires |-> ex] \in SeatState
    BY DEF SeatState
  <2>4. QED
    BY <2>1, <2>2, <2>3
<1>3. QED
  BY <1>1, <1>2

-----------------------------------------------------------------------------
(* Decisions.                                                              *)

\* An event may follow a state: a hold a free seat, an end its own hold.
Follows(s, m) ==
    IF m.type = "SeatHeld" THEN s.status = "free"
    ELSE s.status = "held" /\ m.hold = s.hold

\* What every decision on s looks like: at most one event, reply and timer.
WellFormed(s, o) ==
    /\ o.events = <<>> \/ \E m \in Message : o.events = <<m>> /\ Follows(s, m)
    /\ o.replies = <<>> \/ \E m \in Message : o.replies = <<m>>
    /\ o.timers = <<>> \/ \E t \in [fireAt : Int, token : Holds] : o.timers = <<t>>

\* Decide answers a command with an event that may follow, or a reply.
LEMMA DecideWellFormed ==
    ASSUME NEW s \in SeatState, NEW c \in Commands
    PROVE  WellFormed(s, Decide(s, c))
<1>1. /\ c.type \in CommandTypes /\ c.hold \in Holds
      /\ c.expires \in Int /\ AsTime(c.expires) \in Int
  BY CommandAssumption DEF NoDeadline, AsTime, Epoch
<1>2. s.expires \in Int /\ s.status \in {"free", "held"}
  BY DEF SeatState
<1>3. \A ty \in EventTypes \cup {"SeatUnavailable"}, hd \in Holds, ex \in Int :
          /\ Msg(ty, hd, ex) \in Message
          /\ Msg(ty, hd, ex).type = ty /\ Msg(ty, hd, ex).hold = hd
  BY DEF Msg, Message
<1>4. CASE c.type = "HoldSeat"
  <2>1. CASE LiveHold(s, c.hold)
    <3>1. Held(s) \in Message
      BY <1>1, <1>2, <1>3, <2>1 DEF Held, LiveHold, EventTypes
    <3>2. Decide(s, c) = [events |-> <<>>, replies |-> <<Held(s)>>, timers |-> <<>>]
      BY <1>4, <2>1 DEF Decide, Hold, Nothing
    <3>3. QED
      BY <3>1, <3>2 DEF WellFormed
  <2>2. CASE ~LiveHold(s, c.hold) /\ s.status # "free"
    <3>1. Msg("SeatUnavailable", c.hold, NoDeadline) \in Message
      BY <1>1 DEF Msg, Message, NoDeadline
    <3>2. Decide(s, c) = [events |-> <<>>, timers |-> <<>>,
                          replies |-> <<Msg("SeatUnavailable", c.hold, NoDeadline)>>]
      BY <1>4, <2>2 DEF Decide, Hold, Nothing
    <3>3. QED
      BY <3>1, <3>2 DEF WellFormed
  <2>3. CASE ~LiveHold(s, c.hold) /\ s.status = "free"
    <3>1. /\ Msg("SeatHeld", c.hold, c.expires) \in Message
          /\ Follows(s, Msg("SeatHeld", c.hold, c.expires))
      BY <1>1, <1>3, <2>3 DEF Follows, EventTypes
    <3>2. Decide(s, c) =
            [events |-> <<Msg("SeatHeld", c.hold, c.expires)>>, replies |-> <<>>,
             timers |-> <<[fireAt |-> AsTime(c.expires), token |-> c.hold]>>]
      BY <1>4, <2>3 DEF Decide, Hold, Nothing
    <3>3. [fireAt |-> AsTime(c.expires), token |-> c.hold] \in [fireAt : Int, token : Holds]
      BY <1>1
    <3>4. QED
      BY <3>1, <3>2, <3>3 DEF WellFormed
  <2>4. QED
    BY <2>1, <2>2, <2>3
<1>5. CASE c.type # "HoldSeat"
  <2> DEFINE released == Msg("SeatHoldReleased", c.hold, NoDeadline)
  <2>1. released \in Message /\ released.type = "SeatHoldReleased" /\ released.hold = c.hold
    BY <1>1, <1>3 DEF EventTypes, NoDeadline
  <2>2. CASE ~LiveHold(s, c.hold)
    <3>1. Decide(s, c) = [events |-> <<>>, replies |-> <<released>>, timers |-> <<>>]
      BY <1>5, <2>2 DEF Decide, Release, Nothing
    <3>2. QED
      BY <2>1, <3>1 DEF WellFormed
  <2>3. CASE LiveHold(s, c.hold)
    <3>1. Decide(s, c) = [events |-> <<released>>, replies |-> <<>>, timers |-> <<>>]
      BY <1>5, <2>3 DEF Decide, Release, Nothing
    <3>2. Follows(s, released)
      BY <2>1, <2>3 DEF Follows, LiveHold
    <3>3. QED
      BY <2>1, <3>1, <3>2 DEF WellFormed
  <2>4. QED
    BY <2>2, <2>3
<1>6. QED
  BY <1>4, <1>5

\* Expire ends the hold of its token or does nothing.
LEMMA ExpireWellFormed ==
    ASSUME NEW s \in SeatState, NEW h \in Holds
    PROVE  WellFormed(s, Expire(s, h))
<1> DEFINE expired == Msg("SeatHoldExpired", s.hold, NoDeadline)
<1>1. CASE ~LiveHold(s, h)
  BY <1>1 DEF Expire, Nothing, WellFormed
<1>2. CASE LiveHold(s, h)
  <2>1. expired \in Message /\ expired.type = "SeatHoldExpired" /\ expired.hold = s.hold
    BY <1>2 DEF Msg, Message, LiveHold, EventTypes, NoDeadline
  <2>2. Follows(s, expired)
    BY <1>2, <2>1 DEF Follows, LiveHold
  <2>3. Expire(s, h) = [events |-> <<expired>>, replies |-> <<>>, timers |-> <<>>]
    BY <1>2 DEF Expire, Nothing
  <2>4. QED
    BY <2>1, <2>2, <2>3 DEF WellFormed
<1>3. QED
  BY <1>1, <1>2

-----------------------------------------------------------------------------
(* The inductive invariant.                                                *)

\* An open transaction has a job of its worker's kind.
JobOK ==
    \A w \in Workers : pc[w] # "idle" =>
        IF w \in Handlers THEN job[w] \in Commands ELSE job[w] \in Timer

\* Versions count the events of a stream.
VersionOK == \A s \in Streams : Fold[events[s]].version = Len(events[s])

\* What a transaction has loaded is the stream as it is, or older.
SeenOK ==
    \A w \in Workers : pc[w] \in {"append", "enqueue", "commit"} =>
        /\ seen[w].version <= Len(events[job[w].seat])
        /\ seen[w].version = Len(events[job[w].seat]) => seen[w] = Fold[events[job[w].seat]]

\* w has inserted events that are not committed yet.
Appending(w) == pc[w] \in AfterAppend /\ Decision(w).events # <<>>

\* They follow the stream as it is: nobody can commit its next version first.
AppendOK ==
    \A w \in Workers : Appending(w) => seen[w].version = Len(events[job[w].seat])

\* And nobody else has appended to that stream.
Exclusive ==
    \A v, w \in Workers :
        Appending(v) /\ Appending(w) /\ job[v].seat = job[w].seat => v = w

IInv == TypeOK /\ JobOK /\ VersionOK /\ SeenOK /\ AppendOK /\ Exclusive /\ StreamAlternates

\* The values a finished transaction leaves behind have their types.
LEMMA Defaults == FreshSeat \in SeatState /\ NoMeta \in Meta /\ NoJob \in Job
BY DEF FreshSeat, SeatState, ZeroTime, NoMeta, Meta, NoJob, Job

\* The end of a transaction keeps the worker's variables typed.
LEMMA EndTxType ==
    ASSUME TypeOK, NEW w \in Workers, NEW l \in Labels, NEW j \in Job, EndTx(w, l, j)
    PROVE  /\ pc' \in [Workers -> Labels]
           /\ job' \in [Workers -> Job]
           /\ seen' \in [Workers -> SeatState]
           /\ origin' \in [Workers -> Meta]
           /\ row' \in [Workers -> Nat]
BY Defaults DEF TypeOK, EndTx

\* The end of a Handle resets its count of conflicts.
LEMMA RestartType ==
    ASSUME TypeOK, NEW w \in Workers, Restart(w)
    PROVE  tries' \in [Handlers -> 0 .. ConflictRetries]
BY BoundAssumption DEF TypeOK, Restart

\* The decision an open transaction has made is well formed.
LEMMA DecisionWellFormed ==
    ASSUME JobOK, NEW w \in Workers, pc[w] # "idle", NEW state \in SeatState
    PROVE  WellFormed(state, DecisionOn(state, w))
<1>1. CASE w \in Handlers
  BY <1>1, DecideWellFormed DEF JobOK, DecisionOn
<1>2. CASE w \notin Handlers
  <2>1. job[w].token \in Holds
    BY <1>2 DEF JobOK, Timer
  <2>2. QED
    BY <1>2, <2>1, ExpireWellFormed DEF DecisionOn
<1>3. QED
  BY <1>1, <1>2

\* An open transaction works on a stream.
LEMMA JobSeat ==
    ASSUME JobOK, NEW w \in Workers, pc[w] # "idle"
    PROVE  job[w].seat \in Streams
<1>1. CASE w \in Handlers
  BY <1>1, CommandAssumption DEF JobOK
<1>2. CASE w \notin Handlers
  BY <1>2 DEF JobOK, Timer
<1>3. QED
  BY <1>1, <1>2

\* The metadata of its effects.
LEMMA MetaOfType ==
    ASSUME TypeOK, JobOK, NEW w \in Workers, pc[w] # "idle"
    PROVE  MetaOf(w) \in Meta
<1>1. CASE w \in Handlers
  BY <1>1 DEF JobOK, MetaOf, Meta
<1>2. CASE w \notin Handlers
  <2>1. origin[w] \in Meta
    BY DEF TypeOK
  <2>2. QED
    BY <1>2, <2>1 DEF MetaOf, Meta
<1>3. QED
  BY <1>1, <1>2

\* What is committed to the log is nothing, or one event the state allows.
LEMMA AppendedShape ==
    ASSUME TypeOK, JobOK, NEW w \in Workers, pc[w] # "idle"
    PROVE  \/ Decision(w).events = <<>> /\ AppendedEvents(w) = <<>>
           \/ \E m \in Message :
                /\ Follows(seen[w], m)
                /\ AppendedEvents(w) = <<[msg |-> m, meta |-> MetaOf(w)]>>
                /\ Decision(w).events # <<>>
<1>1. seen[w] \in SeatState
  BY DEF TypeOK
<1>2. WellFormed(seen[w], Decision(w))
  BY <1>1, DecisionWellFormed DEF Decision
<1>3. CASE Decision(w).events = <<>>
  BY <1>3 DEF AppendedEvents
<1>4. ASSUME NEW m \in Message, Decision(w).events = <<m>>, Follows(seen[w], m)
      PROVE  /\ AppendedEvents(w) = <<[msg |-> m, meta |-> MetaOf(w)]>>
             /\ Decision(w).events # <<>>
  <2>1. DOMAIN <<m>> = 1 .. 1 /\ <<m>>[1] = m
    OBVIOUS
  <2>2. QED
    BY <1>4, <2>1 DEF AppendedEvents
<1>5. QED
  BY <1>2, <1>3, <1>4 DEF WellFormed

\* What it announces are messages.
LEMMA MessagesType ==
    ASSUME TypeOK, JobOK, NEW w \in Workers, pc[w] # "idle"
    PROVE  Messages(Decision(w)) \in Seq(Message)
<1>1. seen[w] \in SeatState
  BY DEF TypeOK
<1>2. WellFormed(seen[w], Decision(w))
  BY <1>1, DecisionWellFormed DEF Decision
<1>3. <<>> \in Seq(Message) /\ \A m \in Message : <<m>> \in Seq(Message)
  OBVIOUS
<1>4. Decision(w).events \in Seq(Message) /\ Decision(w).replies \in Seq(Message)
  BY <1>2, <1>3 DEF WellFormed
<1>5. QED
  BY <1>4, ConcatProperties DEF Messages

\* The timers it asks for are rows of the table.
LEMMA ScheduledTimersType ==
    ASSUME TypeOK, JobOK, NEW w \in Workers, pc[w] # "idle"
    PROVE  ScheduledTimers(w) \subseteq Timer
<1>1. seen[w] \in SeatState
  BY DEF TypeOK
<1>2. seen[w].version \in Nat
  BY <1>1 DEF SeatState
<1>3. WellFormed(seen[w], Decision(w))
  BY <1>1, DecisionWellFormed DEF Decision
<1>4. job[w].seat \in Streams
  BY JobSeat
<1>5. CASE Decision(w).timers = <<>>
  BY <1>5 DEF ScheduledTimers
<1>6. ASSUME NEW t \in [fireAt : Int, token : Holds], Decision(w).timers = <<t>>
      PROVE  ScheduledTimers(w) \subseteq Timer
  <2>1. DOMAIN <<t>> = {1} /\ <<t>>[1] = t
    OBVIOUS
  <2>2. ScheduledTimers(w) = {[seat |-> job[w].seat, version |-> seen[w].version + 1,
                               fireAt |-> t.fireAt, token |-> t.token]}
    BY <1>6, <2>1 DEF ScheduledTimers
  <2>3. QED
    BY <1>2, <1>4, <2>2 DEF Timer
<1>7. QED
  BY <1>3, <1>5, <1>6 DEF WellFormed

\* The rows it enqueues are rows of the outbox.
LEMMA EnqueuedRowsType ==
    ASSUME TypeOK, JobOK, NEW w \in Workers, pc[w] # "idle"
    PROVE  EnqueuedRows(w) \subseteq OutboxRow
<1> DEFINE ms == Messages(Decision(w))
<1>1. seen[w].version \in Nat /\ row[w] \in Nat
  BY DEF TypeOK, SeatState
<1>2. job[w].seat \in Streams /\ MetaOf(w) \in Meta
  BY JobSeat, MetaOfType
<1>3. \A i \in DOMAIN ms : i \in Nat \ {0} /\ ms[i] \in Message
  BY MessagesType
<1>4. \A id \in Nat, m \in Message, v \in Nat :
        [id |-> id, seat |-> job[w].seat, msg |-> m, meta |-> MetaOf(w), version |-> v]
            \in OutboxRow
  BY <1>2 DEF OutboxRow
<1>5. ASSUME NEW i \in DOMAIN ms, NEW v \in Nat
      PROVE  [id |-> row[w] + i - 1, seat |-> job[w].seat, msg |-> ms[i],
              meta |-> MetaOf(w), version |-> v] \in OutboxRow
  <2>1. row[w] + i - 1 \in Nat /\ ms[i] \in Message
    BY <1>1, <1>3
  <2>2. QED
    BY <1>4, <2>1
<1>6. \A i \in DOMAIN ms :
        (IF i \in DOMAIN Decision(w).events THEN seen[w].version + i ELSE 0) \in Nat
  BY <1>1, <1>3
<1>7. QED
  BY <1>5, <1>6 DEF EnqueuedRows

\* Concatenating what is committed appends it.
LEMMA AppendedLog ==
    ASSUME NEW rs \in Seq(Recorded)
    PROVE  /\ rs \o <<>> = rs
           /\ \A r \in Recorded : rs \o <<r>> = Append(rs, r)
BY ConcatEmptySeq, AppendIsConcat

-----------------------------------------------------------------------------
(* Types: every action keeps TypeOK and gives its worker a job of its kind. *)

\* Handlers and the consumer: a record arrives, is claimed, or was applied.
LEMMA HandlerType ==
    ASSUME TypeOK, JobOK, NEW h \in Handlers,
           \/ \E c \in Commands : Deliver(h, c)
           \/ HandlerStep(h)
    PROVE  TypeOK' /\ JobOK'
<1>1. h \in Workers
  BY DEF Workers
<1>2. CASE \E c \in Commands : Deliver(h, c)
  <2>1. PICK c \in Commands : Deliver(h, c)
    BY <1>2
  <2>2. "mark" \in Labels /\ c \in Job
    BY DEF Labels, Job
  <2>3. TypeOK'
    BY <1>1, <2>1, <2>2 DEF TypeOK, Deliver, tables
  <2>4. JobOK'
    BY <1>1, <2>1 DEF TypeOK, JobOK, Deliver
  <2>5. QED
    BY <2>3, <2>4
<1>3. CASE MarkConsumed(h)
  <2>1. "load" \in Labels
    BY DEF Labels
  <2>2. TypeOK'
    BY <1>1, <1>3, <2>1 DEF TypeOK, MarkConsumed, Goto, tables
  <2>3. JobOK'
    BY <1>1, <1>3 DEF TypeOK, JobOK, MarkConsumed, Goto
  <2>4. QED
    BY <2>2, <2>3
<1>4. CASE Duplicate(h)
  <2>1. job[h] \in Commands
    BY <1>1, <1>4 DEF Duplicate, JobOK
  <2>2. EndTx(h, "idle", NoJob) /\ Restart(h) /\ "idle" \in Labels
    BY <1>4 DEF Duplicate, Labels
  <2>3. TypeOK'
    BY <1>1, <1>4, <2>1, <2>2, EndTxType, RestartType, Defaults DEF TypeOK, Duplicate
  <2>4. JobOK'
    BY <1>1, <2>2 DEF TypeOK, JobOK, EndTx
  <2>5. QED
    BY <2>3, <2>4
<1>5. QED
  BY <1>2, <1>3, <1>4 DEF HandlerStep

\* The scheduler: a pass reads a batch, claims a timer, prunes, or is restarted.
LEMMA SchedulerType ==
    ASSUME TypeOK, JobOK, NEW s \in Schedulers,
           SchedulerStep(s) \/ Prune(s) \/ LoseBatch(s)
    PROVE  TypeOK' /\ JobOK'
<1>1. s \in Workers /\ s \notin Handlers
  BY WorkerAssumption DEF Workers
<1>2. CASE Tick(s)
  <2>1. PICK batch \in SUBSET DueTimers : due' = [due EXCEPT ![s] = batch]
    BY <1>2 DEF Tick
  <2>2. batch \subseteq Timer
    BY <2>1 DEF TypeOK, DueTimers
  <2>3. due' \in [Schedulers -> SUBSET Timer]
    BY <2>1, <2>2 DEF TypeOK
  <2>4. TypeOK'
    BY <1>2, <2>3 DEF TypeOK, Tick, tables, txs
  <2>5. JobOK'
    BY <1>2 DEF JobOK, Tick, txs
  <2>6. QED
    BY <2>4, <2>5
<1>3. CASE MarkFired(s)
  <2>1. PICK t \in EarlierOf(due[s]) :
            /\ due' = [due EXCEPT ![s] = @ \ {t}]
            /\ IF t \in timers
               THEN Goto(s, "load") /\ job' = [job EXCEPT ![s] = t]
               ELSE UNCHANGED <<pc, job>>
    BY <1>3 DEF MarkFired
  <2>2. t \in Timer /\ t \in Job /\ "load" \in Labels
    BY <2>1 DEF TypeOK, EarlierOf, Job, Labels
  <2>3. due' \in [Schedulers -> SUBSET Timer]
    BY <2>1 DEF TypeOK
  <2>4. pc' \in [Workers -> Labels] /\ job' \in [Workers -> Job]
    BY <1>1, <2>1, <2>2, ZenonT(40) DEF TypeOK, Goto
  <2>5. TypeOK'
    BY <1>3, <2>3, <2>4 DEF TypeOK, MarkFired, tables
  <2>6. JobOK'
    BY <1>1, <2>1, <2>2 DEF TypeOK, JobOK, Goto
  <2>7. QED
    BY <2>5, <2>6
<1>4. CASE Prune(s)
  <2>1. TypeOK'
    BY <1>4 DEF TypeOK, Prune, txs
  <2>2. JobOK'
    BY <1>4 DEF JobOK, Prune, txs
  <2>3. QED
    BY <2>1, <2>2
<1>5. CASE LoseBatch(s)
  <2>1. EndTx(s, "idle", NoJob) /\ "idle" \in Labels /\ faults' \in 0 .. MaxFaults
    BY <1>5, BoundAssumption DEF LoseBatch, Labels, TypeOK
  <2>2. due' \in [Schedulers -> SUBSET Timer]
    BY <1>5 DEF LoseBatch, TypeOK
  <2>3. TypeOK'
    BY <1>1, <1>5, <2>1, <2>2, EndTxType, Defaults DEF TypeOK, LoseBatch, tables
  <2>4. JobOK'
    BY <1>1, <2>1 DEF TypeOK, JobOK, EndTx
  <2>5. QED
    BY <2>3, <2>4
<1>6. QED
  BY <1>2, <1>3, <1>4, <1>5 DEF SchedulerStep

\* The rest of a transaction's body: load, append or conflict, enqueue.
LEMMA BodyType ==
    ASSUME TypeOK, JobOK, VersionOK, NEW w \in Workers,
           \/ LoadSeat(w) \/ AppendSeat(w) \/ VersionConflict(w)
           \/ Enqueue(w) \/ EnqueueInvalid(w)
    PROVE  TypeOK' /\ JobOK'
<1>1. \A l \in {"idle", "mark", "append", "enqueue", "commit"} : l \in Labels
  BY DEF Labels
<1>2. CASE LoadSeat(w)
  <2> DEFINE rs == events[job[w].seat]
  <2>1. job[w].seat \in Streams /\ rs \in Seq(Recorded)
    BY <1>2, JobSeat DEF LoadSeat, TypeOK
  <2>2. Fold[rs] \in SeatState
    BY <2>1, FoldType DEF VersionOK
  <2>3. LastMeta(rs) \in Meta
    <3>1. CASE rs = <<>>
      BY <3>1, Defaults DEF LastMeta
    <3>2. CASE rs # <<>>
      <4>1. Len(rs) \in 1 .. Len(rs)
        BY <2>1, <3>2, EmptySeq
      <4>2. rs[Len(rs)] \in Recorded
        BY <2>1, <4>1
      <4>3. QED
        BY <3>2, <4>2 DEF LastMeta, Recorded
    <3>3. QED
      BY <3>1, <3>2
  <2>4. PICK l \in {"append", "enqueue", "commit"} : pc' = [pc EXCEPT ![w] = l]
    BY <1>2 DEF LoadSeat, Goto
  <2>5. pc' \in [Workers -> Labels]
    BY <1>1, <2>4 DEF TypeOK
  <2>6. seen' \in [Workers -> SeatState] /\ origin' \in [Workers -> Meta]
    BY <1>2, <2>2, <2>3 DEF LoadSeat, TypeOK
  <2>7. TypeOK'
    BY <1>2, <2>5, <2>6 DEF TypeOK, LoadSeat, tables
  <2>8. JobOK'
    BY <1>2, <2>4 DEF TypeOK, JobOK, LoadSeat
  <2>9. QED
    BY <2>7, <2>8
<1>3. CASE AppendSeat(w)
  <2>1. TypeOK'
    BY <1>1, <1>3 DEF TypeOK, AppendSeat, Goto, tables
  <2>2. JobOK'
    BY <1>3 DEF TypeOK, JobOK, AppendSeat, Goto
  <2>3. QED
    BY <2>1, <2>2
<1>4. CASE VersionConflict(w)
  <2>1. job[w] \in Job /\ pc[w] = "append"
    BY <1>4 DEF TypeOK, VersionConflict
  <2>2. CASE w \in Handlers /\ tries[w] < ConflictRetries
    <3>1. EndTx(w, "mark", job[w]) /\ tries' = [tries EXCEPT ![w] = @ + 1]
      BY <1>4, <2>2 DEF VersionConflict
    <3>2. tries' \in [Handlers -> 0 .. ConflictRetries]
      BY <2>2, <3>1, BoundAssumption DEF TypeOK
    <3>3. TypeOK'
      BY <1>1, <1>4, <2>1, <3>1, <3>2, EndTxType DEF TypeOK, VersionConflict, tables
    <3>4. JobOK'
      BY <2>1, <3>1 DEF TypeOK, JobOK, EndTx
    <3>5. QED
      BY <3>3, <3>4
  <2>3. CASE ~(w \in Handlers /\ tries[w] < ConflictRetries)
    <3>1. EndTx(w, "idle", NoJob) /\ Restart(w)
      BY <1>4, <2>3 DEF VersionConflict
    <3>2. TypeOK'
      BY <1>1, <1>4, <3>1, EndTxType, RestartType, Defaults
         DEF TypeOK, VersionConflict, tables
    <3>3. JobOK'
      BY <3>1 DEF TypeOK, JobOK, EndTx
    <3>4. QED
      BY <3>2, <3>3
  <2>4. QED
    BY <2>2, <2>3
<1>5. CASE Enqueue(w)
  <2>1. Len(Messages(Decision(w))) \in Nat
    BY <1>5, MessagesType, LenProperties DEF Enqueue
  <2>2. serial' \in Nat /\ row' \in [Workers -> Nat]
    BY <1>5, <2>1 DEF TypeOK, Enqueue, NextRow
  <2>3. TypeOK'
    BY <1>1, <1>5, <2>2 DEF TypeOK, Enqueue, Goto, tables
  <2>4. JobOK'
    BY <1>5 DEF TypeOK, JobOK, Enqueue, Goto
  <2>5. QED
    BY <2>3, <2>4
<1>6. CASE EnqueueInvalid(w)
  <2>1. EndTx(w, "idle", NoJob) /\ Restart(w)
    BY <1>6 DEF EnqueueInvalid
  <2>2. TypeOK'
    BY <1>1, <1>6, <2>1, EndTxType, RestartType, Defaults
       DEF TypeOK, EnqueueInvalid, tables
  <2>3. JobOK'
    BY <2>1 DEF TypeOK, JobOK, EndTx
  <2>4. QED
    BY <2>2, <2>3
<1>7. QED
  BY <1>2, <1>3, <1>4, <1>5, <1>6

\* The log a commit leaves behind: as it was, or one event longer.
LEMMA CommittedLog ==
    ASSUME TypeOK, JobOK, NEW w \in Workers, CommitTx(w)
    PROVE  /\ job[w].seat \in Streams
           /\ \/ Decision(w).events = <<>> /\ events' = events
              \/ \E r \in Recorded :
                    /\ Follows(seen[w], r.msg)
                    /\ Decision(w).events # <<>>
                    /\ events' = [events EXCEPT ![job[w].seat] = Append(@, r)]
<1> DEFINE s == job[w].seat
<1>1. pc[w] # "idle" /\ events' = [events EXCEPT ![s] = @ \o AppendedEvents(w)]
  BY DEF CommitTx
<1>2. s \in Streams /\ events[s] \in Seq(Recorded)
  BY <1>1, JobSeat DEF TypeOK
<1>3. CASE Decision(w).events = <<>> /\ AppendedEvents(w) = <<>>
  <2>1. events' = [events EXCEPT ![s] = @]
    BY <1>1, <1>2, <1>3, AppendedLog
  <2>2. QED
    BY <1>2, <1>3, <2>1 DEF TypeOK
<1>4. ASSUME NEW m \in Message, Follows(seen[w], m), Decision(w).events # <<>>,
             AppendedEvents(w) = <<[msg |-> m, meta |-> MetaOf(w)]>>
      PROVE  \E r \in Recorded :
                    /\ Follows(seen[w], r.msg)
                    /\ Decision(w).events # <<>>
                    /\ events' = [events EXCEPT ![s] = Append(@, r)]
  <2> DEFINE r == [msg |-> m, meta |-> MetaOf(w)]
  <2>1. r \in Recorded /\ r.msg = m
    BY <1>1, MetaOfType DEF Recorded
  <2>2. events[s] \o <<r>> = Append(events[s], r)
    BY <1>2, <2>1, AppendedLog
  <2>3. events' = [events EXCEPT ![s] = Append(@, r)]
    BY <1>1, <1>4, <2>2
  <2> HIDE DEF r
  <2>4. QED
    BY <1>4, <2>1, <2>3
<1>5. QED
  BY <1>1, <1>2, <1>3, <1>4, AppendedShape

\* A commit, acknowledged or not.
LEMMA CommitType ==
    ASSUME TypeOK, JobOK, NEW w \in Workers,
           Commit(w) \/ (w \in Handlers /\ CommitUnacknowledged(w))
    PROVE  TypeOK' /\ JobOK'
<1>1. CommitTx(w) /\ pc[w] # "idle"
  BY DEF Commit, CommitUnacknowledged, CommitTx
<1>2. EndTx(w, "idle", NoJob) /\ Restart(w) /\ "idle" \in Labels
  BY <1>1 DEF CommitTx, Labels
<1>3. events' \in [Streams -> Seq(Recorded)]
  <2>1. events \in [Streams -> Seq(Recorded)] /\ job[w].seat \in Streams
    BY <1>1, CommittedLog DEF TypeOK
  <2>2. \A r \in Recorded : Append(events[job[w].seat], r) \in Seq(Recorded)
    BY <2>1
  <2>3. \A r \in Recorded :
            [events EXCEPT ![job[w].seat] = Append(@, r)] \in [Streams -> Seq(Recorded)]
    BY <2>1, <2>2
  <2>4. \/ events' = events
        \/ \E r \in Recorded : events' = [events EXCEPT ![job[w].seat] = Append(@, r)]
    <3>1. \/ Decision(w).events = <<>> /\ events' = events
          \/ \E r \in Recorded :
                /\ Follows(seen[w], r.msg)
                /\ Decision(w).events # <<>>
                /\ events' = [events EXCEPT ![job[w].seat] = Append(@, r)]
      BY <1>1, CommittedLog
    <3>2. QED
      BY <3>1
  <2>5. QED
    BY <2>1, <2>3, <2>4
<1>4. outbox' \subseteq OutboxRow
  BY <1>1, EnqueuedRowsType DEF TypeOK, CommitTx
<1>5. timers' \subseteq Timer /\ fired' \subseteq Timer
  <2>1. CASE w \in Handlers
    BY <1>1, <2>1, ScheduledTimersType DEF TypeOK, CommitTx
  <2>2. CASE w \notin Handlers
    BY <1>1, <2>2 DEF TypeOK, CommitTx, JobOK
  <2>3. QED
    BY <2>1, <2>2
<1>6. inbox' \subseteq {c.id : c \in Commands}
  <2>1. CASE w \in Handlers
    BY <1>1, <2>1 DEF TypeOK, CommitTx, JobOK
  <2>2. CASE w \notin Handlers
    BY <1>1, <2>2 DEF TypeOK, CommitTx
  <2>3. QED
    BY <2>1, <2>2
<1>7. acked' \subseteq {c.id : c \in Commands} /\ faults' \in 0 .. MaxFaults
  <2>1. w \in Handlers => job[w] \in Commands
    BY <1>1 DEF JobOK
  <2>2. QED
    BY <2>1, BoundAssumption DEF TypeOK, Commit, CommitUnacknowledged
<1>8. serial' \in Nat /\ due' \in [Schedulers -> SUBSET Timer] /\ now' \in 1 .. MaxTime
  BY <1>1 DEF TypeOK, CommitTx
<1>9. TypeOK'
  BY <1>2, <1>3, <1>4, <1>5, <1>6, <1>7, <1>8, EndTxType, RestartType, Defaults DEF TypeOK
<1>10. JobOK'
  BY <1>2 DEF TypeOK, JobOK, EndTx
<1>11. QED
  BY <1>9, <1>10

\* A rollback.
LEMMA AbortType ==
    ASSUME TypeOK, JobOK, NEW w \in Workers, Abort(w)
    PROVE  TypeOK' /\ JobOK'
<1>1. EndTx(w, "idle", NoJob) /\ Restart(w) /\ "idle" \in Labels
  BY DEF Abort, Labels
<1>2. faults' \in 0 .. MaxFaults
  BY BoundAssumption DEF TypeOK, Abort
<1>3. TypeOK'
  BY <1>1, <1>2, EndTxType, RestartType, Defaults DEF TypeOK, Abort, tables
<1>4. JobOK'
  BY <1>1 DEF TypeOK, JobOK, EndTx
<1>5. QED
  BY <1>3, <1>4

-----------------------------------------------------------------------------
(* The log.                                                                *)

\* v is where it was.
Unmoved(v) == pc'[v] = pc[v] /\ job'[v] = job[v] /\ seen'[v] = seen[v]

\* v is outside append .. commit, or goes on to commit what it has enqueued.
Harmless(v) ==
    \/ pc'[v] \in {"idle", "mark", "load"}
    \/ Unmoved(v)
    \/ pc[v] = "enqueue" /\ pc'[v] = "commit" /\ job'[v] = job[v] /\ seen'[v] = seen[v]

\* A worker that keeps its job and its state keeps its decision.
LEMMA SameDecision ==
    ASSUME NEW v \in Workers, job'[v] = job[v], seen'[v] = seen[v]
    PROVE  Decision(v)' = Decision(v)
BY DEF Decision, DecisionOn

\* A harmless step adds nobody to those that have appended.
LEMMA HarmlessAppending ==
    ASSUME NEW v \in Workers, Harmless(v), Appending(v)'
    PROVE  Appending(v) /\ job'[v] = job[v] /\ seen'[v] = seen[v]
<1>1. pc'[v] \in {"enqueue", "commit"}
  BY DEF Appending, AfterAppend
<1>2. job'[v] = job[v] /\ seen'[v] = seen[v] /\ pc[v] \in {"enqueue", "commit"}
  BY <1>1 DEF Harmless, Unmoved
<1>3. Decision(v)' = Decision(v)
  BY <1>2, SameDecision
<1>4. QED
  BY <1>2, <1>3 DEF Appending, AfterAppend

\* The parts of the invariant that speak of the log.
LogOK == VersionOK /\ SeenOK /\ AppendOK /\ Exclusive /\ StreamAlternates

\* Steps that neither write the log nor bring a worker closer to writing it.
LEMMA HarmlessStep ==
    ASSUME TypeOK, JobOK, LogOK, UNCHANGED events, \A v \in Workers : Harmless(v)
    PROVE  LogOK'
<1>1. VersionOK' /\ StreamAlternates'
  BY DEF LogOK, VersionOK, StreamAlternates, Ends
<1>2. SeenOK'
  <2>1. ASSUME NEW v \in Workers, pc'[v] \in {"append", "enqueue", "commit"}
        PROVE  /\ pc[v] \in {"append", "enqueue", "commit"}
               /\ job'[v] = job[v] /\ seen'[v] = seen[v]
    BY <2>1 DEF Harmless, Unmoved
  <2>2. QED
    BY <2>1 DEF LogOK, SeenOK
<1>3. AppendOK'
  BY HarmlessAppending DEF LogOK, AppendOK
<1>4. Exclusive'
  BY HarmlessAppending DEF LogOK, Exclusive
<1>5. QED
  BY <1>1, <1>2, <1>3, <1>4 DEF LogOK

\* The end of a transaction that commits nothing to the log.
LEMMA EndTxHarmless ==
    ASSUME TypeOK, NEW w \in Workers, NEW l \in {"idle", "mark"}, NEW j, EndTx(w, l, j)
    PROVE  \A v \in Workers : Harmless(v)
BY DEF TypeOK, EndTx, Harmless, Unmoved

\* LoadSeat: what is loaded is the stream as it is, and is not appended yet.
LEMMA LoadStep ==
    ASSUME TypeOK, JobOK, LogOK, NEW w \in Workers, LoadSeat(w)
    PROVE  LogOK'
<1> DEFINE s == job[w].seat
<1>1. s \in Streams /\ events' = events /\ job' = job
  BY JobSeat DEF LoadSeat, tables
<1>2. \A v \in Workers \ {w} : Unmoved(v)
  BY <1>1 DEF LoadSeat, Goto, TypeOK, Unmoved
<1>3. seen'[w] = Fold[events[s]]
  BY DEF LoadSeat, TypeOK
<1>4. ~Appending(w)'
  <2>1. Decision(w)' = DecisionOn(Fold[events[s]], w)
    BY <1>1, <1>3 DEF Decision, DecisionOn
  <2>2. CASE DecisionOn(Fold[events[s]], w).events # <<>>
    BY <2>2 DEF LoadSeat, Goto, TypeOK, Appending, AfterAppend
  <2>3. CASE DecisionOn(Fold[events[s]], w).events = <<>>
    BY <2>1, <2>3 DEF Appending
  <2>4. QED
    BY <2>2, <2>3
<1>5. VersionOK' /\ StreamAlternates'
  BY <1>1 DEF LogOK, VersionOK, StreamAlternates, Ends
<1>6. SeenOK'
  <2>1. seen'[w].version = Len(events[s])
    BY <1>1, <1>3 DEF LogOK, VersionOK
  <2>2. Len(events[s]) \in Nat
    BY <1>1 DEF TypeOK
  <2>3. ASSUME NEW v \in Workers, pc'[v] \in {"append", "enqueue", "commit"}
        PROVE  /\ seen'[v].version <= Len(events'[job'[v].seat])
               /\ seen'[v].version = Len(events'[job'[v].seat])
                    => seen'[v] = Fold[events'[job'[v].seat]]
    <3>1. CASE v = w
      BY <1>1, <1>3, <2>1, <2>2, <3>1
    <3>2. CASE v # w
      BY <1>1, <1>2, <2>3, <3>2 DEF LogOK, SeenOK, Unmoved
    <3>3. QED
      BY <3>1, <3>2
  <2>4. QED
    BY <2>3 DEF SeenOK
<1>7. \A v \in Workers : Appending(v)' =>
            v # w /\ Appending(v) /\ job'[v] = job[v] /\ seen'[v] = seen[v]
  BY <1>2, <1>4, HarmlessAppending DEF Harmless
<1>8. AppendOK' /\ Exclusive'
  BY <1>1, <1>7 DEF LogOK, AppendOK, Exclusive
<1>9. QED
  BY <1>5, <1>6, <1>8 DEF LogOK

\* AppendSeat: the key was free, so w is now the only one to have appended.
LEMMA AppendStep ==
    ASSUME TypeOK, JobOK, LogOK, NEW w \in Workers, AppendSeat(w)
    PROVE  LogOK'
<1>1. events' = events /\ job' = job /\ seen' = seen
  BY DEF AppendSeat, tables
<1>2. pc[w] = "append" /\ pc' = [pc EXCEPT ![w] = "enqueue"]
  BY DEF AppendSeat, Goto
<1>3. Len(events[job[w].seat]) = seen[w].version /\ ~VersionTaken(w)
  BY DEF AppendSeat
<1>4. VersionOK' /\ StreamAlternates'
  BY <1>1 DEF LogOK, VersionOK, StreamAlternates, Ends
<1>5. SeenOK'
  BY <1>1, <1>2 DEF LogOK, SeenOK, TypeOK
<1>6. \A v \in Workers : v # w /\ Appending(v)' => Appending(v)
  BY <1>1, <1>2, SameDecision DEF Appending, TypeOK
<1>7. AppendOK'
  BY <1>1, <1>3, <1>6 DEF LogOK, AppendOK
<1>8. \A v \in Workers : v # w /\ Appending(v) => job[v].seat # job[w].seat
  BY <1>3 DEF LogOK, AppendOK, VersionTaken, Appending
<1>9. Exclusive'
  BY <1>1, <1>6, <1>8 DEF LogOK, Exclusive
<1>10. QED
  BY <1>4, <1>5, <1>7, <1>9 DEF LogOK

\* Event i of a stream is one that may come after event i - 1.
InTurn(q, i) ==
    IF q[i].msg.type = "SeatHeld"
    THEN i > 1 => q[i - 1].msg.type # "SeatHeld"
    ELSE i > 1 /\ Ends(q[i], q[i - 1])

\* Who is left after a transaction has ended: the others, as they were.
LEMMA EndTxOthers ==
    ASSUME TypeOK, NEW w \in Workers, EndTx(w, "idle", NoJob)
    PROVE  pc'[w] = "idle" /\ \A v \in Workers \ {w} : Unmoved(v)
BY DEF TypeOK, EndTx, Unmoved

\* A commit that extends the log: the event was decided on the stream as it
\* still is, because w has appended (AppendOK), so it may follow it.
LEMMA CommitStep ==
    ASSUME TypeOK, JobOK, LogOK, NEW w \in Workers, CommitTx(w)
    PROVE  LogOK'
<1> DEFINE s == job[w].seat
           rs == events[s]
<1>1. EndTx(w, "idle", NoJob) /\ pc[w] = "commit"
  BY DEF CommitTx
<1>2. pc'[w] = "idle" /\ \A v \in Workers \ {w} : Unmoved(v)
  BY <1>1, EndTxOthers
<1>3. s \in Streams /\ rs \in Seq(Recorded) /\ Len(rs) \in Nat
  BY CommittedLog DEF TypeOK
<1>4. CASE events' = events
  <2>1. \A v \in Workers : Harmless(v)
    BY <1>2 DEF Harmless
  <2>2. QED
    BY <1>4, <2>1, HarmlessStep
<1>5. ASSUME NEW r \in Recorded, Follows(seen[w], r.msg), Decision(w).events # <<>>,
             events' = [events EXCEPT ![s] = Append(@, r)]
      PROVE  LogOK'
  <2>1. Appending(w) /\ seen[w].version = Len(rs)
    BY <1>1, <1>5 DEF Appending, AfterAppend, LogOK, AppendOK
  <2>2. seen[w] = Fold[rs]
    BY <1>1, <2>1 DEF LogOK, SeenOK
  <2>3. /\ events'[s] = Append(rs, r)
        /\ \A t \in Streams \ {s} : events'[t] = events[t]
        /\ Len(events'[s]) = Len(rs) + 1
    BY <1>3, <1>5 DEF TypeOK
  <2>4. VersionOK'
    <3>1. Fold[events'[s]] = Apply(Fold[rs], r.msg)
      BY <1>3, <2>3, FoldAppend
    <3>2. Fold[events'[s]].version = Len(rs) + 1
      BY <2>1, <2>2, <3>1 DEF Apply
    <3>3. QED
      BY <2>3, <3>2 DEF LogOK, VersionOK
  <2>5. SeenOK'
    <3>1. ASSUME NEW v \in Workers, pc'[v] \in {"append", "enqueue", "commit"}
          PROVE  /\ seen'[v].version <= Len(events'[job'[v].seat])
                 /\ seen'[v].version = Len(events'[job'[v].seat])
                      => seen'[v] = Fold[events'[job'[v].seat]]
      <4>1. v # w /\ pc[v] = pc'[v] /\ job'[v] = job[v] /\ seen'[v] = seen[v]
        BY <1>2, <3>1 DEF Unmoved
      <4>2. job[v].seat \in Streams
        BY <3>1, <4>1, JobSeat
      <4>3. /\ seen[v].version <= Len(events[job[v].seat])
            /\ seen[v].version = Len(events[job[v].seat]) => seen[v] = Fold[events[job[v].seat]]
        BY <3>1, <4>1 DEF LogOK, SeenOK
      <4>4. seen[v].version \in Nat
        BY DEF TypeOK, SeatState
      <4>5. CASE job[v].seat = s
        BY <1>3, <2>3, <4>1, <4>3, <4>4, <4>5
      <4>6. CASE job[v].seat # s
        BY <2>3, <4>1, <4>2, <4>3, <4>6
      <4>7. QED
        BY <4>5, <4>6
    <3>2. QED
      BY <3>1 DEF SeenOK
  <2>6. \A v \in Workers : Appending(v)' =>
            v # w /\ Appending(v) /\ job'[v] = job[v] /\ seen'[v] = seen[v]
    BY <1>2, HarmlessAppending DEF Harmless, Appending, AfterAppend
  <2>7. AppendOK'
    <3>1. ASSUME NEW v \in Workers, Appending(v)'
          PROVE  seen'[v].version = Len(events'[job'[v].seat])
      <4>1. v # w /\ Appending(v) /\ job'[v] = job[v] /\ seen'[v] = seen[v]
        BY <2>6, <3>1
      <4>2. job[v].seat # s
        BY <2>1, <4>1 DEF LogOK, Exclusive
      <4>3. job[v].seat \in Streams
        BY <4>1, JobSeat DEF Appending, AfterAppend
      <4>4. QED
        BY <2>3, <4>1, <4>2, <4>3 DEF LogOK, AppendOK
    <3>2. QED
      BY <3>1 DEF AppendOK
  <2>8. Exclusive'
    BY <2>6 DEF LogOK, Exclusive
  <2>9. StreamAlternates'
    <3> DEFINE q == events'[s]
    <3>1. \A k \in 1 .. Len(rs) : q[k] = rs[k]
      BY <1>3, <2>3
    <3>2. q[Len(rs) + 1] = r /\ DOMAIN q = 1 .. Len(rs) + 1
      BY <1>3, <2>3
    <3>3. \A i \in DOMAIN rs : InTurn(rs, i)
      BY <1>3 DEF LogOK, StreamAlternates, InTurn
    <3>4. InTurn(q, Len(rs) + 1)
      <4>1. CASE rs = <<>>
        <5>1. r.msg.type = "SeatHeld" /\ Len(rs) = 0
          BY <1>5, <2>2, <4>1, FoldEmpty DEF Follows, FreshSeat
        <5>2. QED
          BY <3>2, <5>1 DEF InTurn
      <4>2. CASE rs # <<>>
        <5>1. Len(rs) \in 1 .. Len(rs) /\ Len(rs) + 1 > 1 /\ (Len(rs) + 1) - 1 = Len(rs)
          BY <1>3, <4>2, EmptySeq
        <5>2. q[(Len(rs) + 1) - 1] = rs[Len(rs)]
          BY <3>1, <5>1
        <5>3. /\ Fold[rs].status = "held" <=> rs[Len(rs)].msg.type = "SeatHeld"
              /\ Fold[rs].status = "held" => Fold[rs].hold = rs[Len(rs)].msg.hold
          BY <1>3, <4>2, FoldLast
        <5> HIDE DEF q, rs
        <5>4. QED
          BY <1>5, <2>2, <3>2, <5>1, <5>2, <5>3 DEF Follows, Ends, InTurn
      <4>3. QED
        BY <4>1, <4>2
    <3>5. ASSUME NEW i \in 1 .. Len(rs)
          PROVE  InTurn(q, i)
      <4>1. i \in DOMAIN rs /\ InTurn(rs, i)
        BY <1>3, <3>3
      <4>2. q[i] = rs[i] /\ (i > 1 => q[i - 1] = rs[i - 1])
        BY <1>3, <3>1
      <4> HIDE DEF q, rs
      <4>3. QED
        BY <4>1, <4>2 DEF InTurn, Ends
    <3>6. \A i \in DOMAIN q : InTurn(q, i)
      BY <1>3, <3>2, <3>4, <3>5
    <3>7. \A t \in Streams \ {s} : \A i \in DOMAIN events'[t] : InTurn(events'[t], i)
      BY <2>3 DEF LogOK, StreamAlternates, InTurn
    <3>8. \A t \in Streams : \A i \in DOMAIN events'[t] : InTurn(events'[t], i)
      BY <3>6, <3>7
    <3>9. QED
      BY <3>8 DEF StreamAlternates, InTurn
  <2>10. QED
    BY <2>4, <2>5, <2>7, <2>8, <2>9 DEF LogOK
<1>6. QED
  BY <1>4, <1>5, CommittedLog

-----------------------------------------------------------------------------
(* The theorems.                                                           *)

\* Empty tables and idle workers satisfy the invariant.
LEMMA InitIInv == Init => IInv
<1> SUFFICES ASSUME Init PROVE IInv
  OBVIOUS
<1>1. TypeOK
  BY Defaults, BoundAssumption DEF Init, TypeOK, Labels
<1>2. VersionOK
  BY FoldEmpty DEF Init, VersionOK, FreshSeat
<1>3. JobOK /\ SeenOK /\ AppendOK /\ Exclusive /\ StreamAlternates
  BY DEF Init, JobOK, SeenOK, AppendOK, Exclusive, Appending, AfterAppend, StreamAlternates
<1>4. QED
  BY <1>1, <1>2, <1>3 DEF IInv

\* Every step keeps it.
LEMMA NextIInv == IInv /\ [Next]_vars => IInv'
<1> SUFFICES ASSUME IInv, [Next]_vars PROVE IInv'
  OBVIOUS
<1>1. TypeOK /\ JobOK /\ VersionOK /\ LogOK
  BY DEF IInv, LogOK
<1>2. (TypeOK' /\ JobOK' /\ LogOK') => IInv'
  BY DEF IInv, LogOK
<1>3. ASSUME NEW h \in Handlers, NEW c \in Commands, Deliver(h, c) PROVE IInv'
  <2>1. events' = events /\ \A v \in Workers : Harmless(v)
    BY <1>1, <1>3 DEF Deliver, tables, TypeOK, Harmless, Unmoved
  <2>2. QED
    BY <1>1, <1>2, <1>3, <2>1, HandlerType, HarmlessStep
<1>4. ASSUME NEW h \in Handlers, HandlerStep(h) PROVE IInv'
  <2>1. h \in Workers
    BY DEF Workers
  <2>2. CASE MarkConsumed(h)
    <3>1. events' = events /\ \A v \in Workers : Harmless(v)
      BY <1>1, <2>1, <2>2 DEF MarkConsumed, Goto, tables, TypeOK, Harmless, Unmoved
    <3>2. QED
      BY <1>1, <1>2, <1>4, <3>1, HandlerType, HarmlessStep
  <2>3. CASE Duplicate(h)
    <3>1. events' = events /\ EndTx(h, "idle", NoJob)
      BY <2>3 DEF Duplicate
    <3>2. QED
      BY <1>1, <1>2, <1>4, <2>1, <3>1, HandlerType, EndTxHarmless, HarmlessStep
  <2>4. QED
    BY <1>4, <2>2, <2>3 DEF HandlerStep
<1>5. ASSUME NEW h \in Handlers, CommitUnacknowledged(h) PROVE IInv'
  <2>1. h \in Workers /\ CommitTx(h)
    BY <1>5 DEF Workers, CommitUnacknowledged
  <2>2. QED
    BY <1>1, <1>2, <1>5, <2>1, CommitType, CommitStep
<1>6. ASSUME NEW s \in Schedulers, SchedulerStep(s) \/ Prune(s) \/ LoseBatch(s) PROVE IInv'
  <2>1. s \in Workers
    BY DEF Workers
  <2>2. CASE Tick(s) \/ Prune(s)
    <3>1. events' = events /\ \A v \in Workers : Harmless(v)
      BY <2>2 DEF Tick, Prune, tables, txs, Harmless, Unmoved
    <3>2. QED
      BY <1>1, <1>2, <1>6, <3>1, SchedulerType, HarmlessStep
  <2>3. CASE MarkFired(s)
    <3>1. events' = events /\ \A v \in Workers : Harmless(v)
      BY <1>1, <2>1, <2>3 DEF MarkFired, Goto, tables, TypeOK, Harmless, Unmoved
    <3>2. QED
      BY <1>1, <1>2, <1>6, <3>1, SchedulerType, HarmlessStep
  <2>4. CASE LoseBatch(s)
    <3>1. events' = events /\ EndTx(s, "idle", NoJob)
      BY <2>4 DEF LoseBatch, tables
    <3>2. QED
      BY <1>1, <1>2, <1>6, <2>1, <3>1, SchedulerType, EndTxHarmless, HarmlessStep
  <2>5. QED
    BY <1>6, <2>2, <2>3, <2>4 DEF SchedulerStep
<1>7. ASSUME NEW w \in Workers, TxStep(w) PROVE IInv'
  <2>1. CASE LoadSeat(w)
    BY <1>1, <1>2, <2>1, BodyType, LoadStep
  <2>2. CASE AppendSeat(w)
    BY <1>1, <1>2, <2>2, BodyType, AppendStep
  <2>3. CASE VersionConflict(w)
    <3>1. events' = events /\ (EndTx(w, "mark", job[w]) \/ EndTx(w, "idle", NoJob))
      BY <2>3 DEF VersionConflict, tables
    <3>2. \A v \in Workers : Harmless(v)
      BY <1>1, <3>1, EndTxHarmless
    <3>3. QED
      BY <1>1, <1>2, <2>3, <3>1, <3>2, BodyType, HarmlessStep
  <2>4. CASE Enqueue(w)
    <3>1. events' = events /\ \A v \in Workers : Harmless(v)
      BY <1>1, <2>4 DEF Enqueue, Goto, tables, TypeOK, Harmless, Unmoved
    <3>2. QED
      BY <1>1, <1>2, <2>4, <3>1, BodyType, HarmlessStep
  <2>5. CASE EnqueueInvalid(w)
    <3>1. events' = events /\ EndTx(w, "idle", NoJob)
      BY <2>5 DEF EnqueueInvalid, tables
    <3>2. QED
      BY <1>1, <1>2, <2>5, <3>1, BodyType, EndTxHarmless, HarmlessStep
  <2>6. CASE Commit(w)
    BY <1>1, <1>2, <2>6, CommitType, CommitStep DEF Commit
  <2>7. QED
    BY <1>7, <2>1, <2>2, <2>3, <2>4, <2>5, <2>6 DEF TxStep
<1>8. ASSUME NEW w \in Workers, Abort(w) PROVE IInv'
  <2>1. events' = events /\ EndTx(w, "idle", NoJob)
    BY <1>8 DEF Abort, tables
  <2>2. QED
    BY <1>1, <1>2, <1>8, <2>1, AbortType, EndTxHarmless, HarmlessStep
<1>9. CASE Advance \/ UNCHANGED vars
  <2>1. TypeOK'
    BY <1>1, <1>9, BoundAssumption DEF TypeOK, Advance, vars, tables, txs
  <2>2. JobOK'
    BY <1>1, <1>9 DEF JobOK, Advance, vars, txs
  <2>3. events' = events /\ \A v \in Workers : Harmless(v)
    BY <1>9 DEF Advance, vars, tables, txs, Harmless, Unmoved
  <2>4. QED
    BY <1>1, <1>2, <2>1, <2>2, <2>3, HarmlessStep
<1>10. QED
  BY <1>3, <1>4, <1>5, <1>6, <1>7, <1>8, <1>9 DEF Next

\* The invariant holds of every state of every behaviour.
THEOREM Inductive == Spec => []IInv
BY InitIInv, NextIInv, PTL DEF Spec

\* Type correctness: the tables and the open transactions keep their shape.
THEOREM TypeCorrect == Spec => []TypeOK
<1>1. IInv => TypeOK
  BY DEF IInv
<1>2. QED
  BY <1>1, Inductive, PTL

\* No seat is sold twice: for any number of handlers and schedulers and any
\* interleaving of their transactions, a stream alternates between a hold and
\* the end of that hold (eventstore.Append, commands.go Handle, expiry.go).
THEOREM Alternation == Spec => []StreamAlternates
<1>1. IInv => StreamAlternates
  BY DEF IInv
<1>2. QED
  BY <1>1, Inductive, PTL

=============================================================================
