------------------------- MODULE ReservationProofs -------------------------
(***************************************************************************)
(* What the transactions of Inventory leave in the tables they share:      *)
(* proofs of the invariants about the inbox, the timers and the outbox,    *)
(* and of the refinement of SeatReservation, for any commands, seats and   *)
(* holds and any number of handlers and schedulers.                        *)
(***************************************************************************)
EXTENDS InventoryProofs

-----------------------------------------------------------------------------
(* The inductive invariant.                                                *)

\* A deadline that the saga of this hold has chosen.
Genuine(hold, at) ==
    \E c \in Commands : c.type = "HoldSeat" /\ c.hold = hold /\ AsTime(c.expires) = at

Answered(c) ==
    \E r \in outbox : /\ r.meta = [corr |-> c.corr, cause |-> c.id]
                      /\ r.msg.hold = c.hold
                      /\ r.seat = c.seat

\* A command is in the inbox before anything names it as its cause, and its
\* answer is in the outbox as soon as it is there.
InboxOK ==
    /\ acked \subseteq inbox
    /\ \A c \in Commands : c.id \in inbox => Answered(c)
    /\ \A r \in outbox : r.meta.cause # NoCause => r.meta.cause \in inbox
    /\ \A q, r \in outbox : q.meta.cause = r.meta.cause /\ q.meta.cause # NoCause => q = r

\* Deadlines are those of commands, and a timer is not older than its SeatHeld.
TimersOK ==
    /\ \A t \in timers : t.version <= Len(events[t.seat]) /\ Genuine(t.token, t.fireAt)
    /\ \A s \in Schedulers : \A t \in due[s] : Genuine(t.token, t.fireAt) /\ t.fireAt <= now
    /\ \A s \in Streams : \A i \in DOMAIN events[s] :
        events[s][i].msg.type = "SeatHeld" =>
            Genuine(events[s][i].msg.hold, AsTime(events[s][i].msg.expires))

RowsOK == AnnouncedInOrder /\ \A r \in outbox : r.id \in 1 .. serial

\* Only a first delivery gets past its inbox row.
ClaimOK(w) == w \in Handlers /\ pc[w] \in AfterMark => job[w].id \notin inbox

\* A scheduler works on a timer that is due and whose SeatHeld is in the log.
FireOK(w) ==
    w \in Schedulers /\ pc[w] \in AfterMark =>
        /\ Genuine(job[w].token, job[w].fireAt) /\ job[w].fireAt <= now
        /\ job[w].version <= Len(events[job[w].seat])

\* What was loaded is not older than the timer; an up-to-date load has the flow
\* of the last event.
LoadOK(w) ==
    pc[w] \in {"append", "enqueue", "commit"} =>
        /\ w \in Schedulers => job[w].version <= seen[w].version
        /\ seen[w].version = Len(events[job[w].seat]) =>
                origin[w] = LastMeta(events[job[w].seat])

\* w has drawn an id for a row that is not committed yet.
Drawn(w) == pc[w] = "commit" /\ Messages(Decision(w)) # <<>>

\* The id is new, and above those of all events of the stream w has appended to.
DrawOK(w) ==
    Drawn(w) =>
        /\ row[w] \in 1 .. serial
        /\ \A r \in outbox : r.id # row[w]
        /\ Appending(w) =>
            \A r \in outbox : r.seat = job[w].seat /\ 0 < r.version => r.id < row[w]

WorkerOK(w) == ClaimOK(w) /\ FireOK(w) /\ LoadOK(w) /\ DrawOK(w)

\* No two transactions share a command or a row id.
PairsOK ==
    /\ \A g, h \in Handlers :
        pc[g] \in AfterMark /\ pc[h] \in AfterMark /\ job[g].id = job[h].id => g = h
    /\ \A v, w \in Workers : Drawn(v) /\ Drawn(w) /\ row[v] = row[w] => v = w

TablesOK ==
    /\ InboxOK /\ TimersOK /\ RowsOK
    /\ EveryEventAnnounced /\ HoldNeverStranded /\ ExpiryReachesHolder

EInv == TablesOK /\ PairsOK /\ \A w \in Workers : WorkerOK(w)

FullInv == IInv /\ EInv

-----------------------------------------------------------------------------
(* What a transaction commits.                                             *)

\* An event that a command leads to, and the timers that go with it.
Leads(c, m, ts) ==
    \/ /\ c.type = "HoldSeat" /\ m.type = "SeatHeld" /\ m.expires = c.expires
       /\ ts = <<[fireAt |-> AsTime(c.expires), token |-> c.hold]>>
    \/ /\ c.type = "ReleaseSeatHold" /\ m.type = "SeatHoldReleased"
       /\ ts = <<>>

\* Hold and Release answer with one message about the command's hold.
LEMMA DecideShape ==
    ASSUME NEW s \in SeatState, NEW c \in Commands
    PROVE  \E m \in Message :
              /\ m.hold = c.hold
              /\ \/ /\ Decide(s, c).events = <<>> /\ Decide(s, c).replies = <<m>>
                    /\ Decide(s, c).timers = <<>>
                 \/ /\ Decide(s, c).events = <<m>> /\ Decide(s, c).replies = <<>>
                    /\ Follows(s, m) /\ Leads(c, m, Decide(s, c).timers)
<1>1. /\ c.type \in CommandTypes /\ c.hold \in Holds /\ c.expires \in Int
  BY CommandAssumption DEF NoDeadline
<1>2. s.expires \in Int /\ s.status \in {"free", "held"}
  BY DEF SeatState
<1>3. \A ty \in EventTypes \cup {"SeatUnavailable"}, hd \in Holds, ex \in Int :
          /\ Msg(ty, hd, ex) \in Message /\ Msg(ty, hd, ex).expires = ex
          /\ Msg(ty, hd, ex).type = ty /\ Msg(ty, hd, ex).hold = hd
  BY DEF Msg, Message
<1>4. NoDeadline \in Int
  BY DEF NoDeadline
<1>5. CASE c.type = "HoldSeat"
  <2>1. CASE LiveHold(s, c.hold)
    <3>1. Held(s) \in Message /\ Held(s).hold = c.hold
      BY <1>1, <1>2, <1>3, <2>1 DEF Held, LiveHold, EventTypes
    <3>2. Decide(s, c) = [events |-> <<>>, replies |-> <<Held(s)>>, timers |-> <<>>]
      BY <1>5, <2>1 DEF Decide, Hold, Nothing
    <3>3. QED
      BY <3>1, <3>2
  <2>2. CASE ~LiveHold(s, c.hold) /\ s.status # "free"
    <3> DEFINE m == Msg("SeatUnavailable", c.hold, NoDeadline)
    <3>1. m \in Message /\ m.hold = c.hold
      BY <1>1, <1>3, <1>4
    <3>2. Decide(s, c) = [events |-> <<>>, timers |-> <<>>, replies |-> <<m>>]
      BY <1>5, <2>2 DEF Decide, Hold, Nothing
    <3> HIDE DEF m
    <3>3. QED
      BY <3>1, <3>2
  <2>3. CASE ~LiveHold(s, c.hold) /\ s.status = "free"
    <3> DEFINE m == Msg("SeatHeld", c.hold, c.expires)
    <3>1. m \in Message /\ m.hold = c.hold /\ m.type = "SeatHeld" /\ m.expires = c.expires
      BY <1>1, <1>3 DEF EventTypes
    <3>2. Decide(s, c) = [events |-> <<m>>, replies |-> <<>>,
             timers |-> <<[fireAt |-> AsTime(c.expires), token |-> c.hold]>>]
      BY <1>5, <2>3 DEF Decide, Hold, Nothing
    <3> HIDE DEF m
    <3>3. Follows(s, m) /\ Leads(c, m, Decide(s, c).timers)
      BY <1>5, <2>3, <3>1, <3>2 DEF Follows, Leads
    <3>4. QED
      BY <3>1, <3>2, <3>3
  <2>4. QED
    BY <2>1, <2>2, <2>3
<1>6. CASE c.type # "HoldSeat"
  <2> DEFINE m == Msg("SeatHoldReleased", c.hold, NoDeadline)
  <2>1. m \in Message /\ m.type = "SeatHoldReleased" /\ m.hold = c.hold
    BY <1>1, <1>3, <1>4 DEF EventTypes
  <2>2. CASE ~LiveHold(s, c.hold)
    <3>1. Decide(s, c) = [events |-> <<>>, replies |-> <<m>>, timers |-> <<>>]
      BY <1>6, <2>2 DEF Decide, Release, Nothing
    <3> HIDE DEF m
    <3>2. QED
      BY <2>1, <3>1
  <2>3. CASE LiveHold(s, c.hold)
    <3>1. Decide(s, c) = [events |-> <<m>>, replies |-> <<>>, timers |-> <<>>]
      BY <1>6, <2>3 DEF Decide, Release, Nothing
    <3> HIDE DEF m
    <3>2. c.type = "ReleaseSeatHold"
      BY <1>1, <1>6 DEF CommandTypes
    <3>3. Follows(s, m) /\ Leads(c, m, Decide(s, c).timers)
      BY <2>1, <2>3, <3>1, <3>2 DEF Follows, Leads, LiveHold
    <3>4. QED
      BY <2>1, <3>1, <3>3
  <2>4. QED
    BY <2>2, <2>3
<1>7. QED
  BY <1>5, <1>6

\* Expire ends the hold of its token, or there is nothing to say.
LEMMA ExpireShape ==
    ASSUME NEW s \in SeatState, NEW h \in Holds
    PROVE  \/ ~LiveHold(s, h) /\ Expire(s, h) = Nothing
           \/ \E m \in Message :
                /\ LiveHold(s, h) /\ Expire(s, h).events = <<m>> /\ Expire(s, h).replies = <<>>
                /\ Follows(s, m) /\ m.type = "SeatHoldExpired" /\ m.hold = h
<1> DEFINE m == Msg("SeatHoldExpired", s.hold, NoDeadline)
<1>1. CASE ~LiveHold(s, h)
  BY <1>1 DEF Expire
<1>2. CASE LiveHold(s, h)
  <2>1. m \in Message /\ m.type = "SeatHoldExpired" /\ m.hold = h /\ m.hold = s.hold
    BY <1>2 DEF Msg, Message, LiveHold, EventTypes, NoDeadline
  <2>2. Expire(s, h) = [events |-> <<m>>, replies |-> <<>>, timers |-> <<>>]
    BY <1>2 DEF Expire, Nothing
  <2> HIDE DEF m
  <2>3. Follows(s, m)
    BY <1>2, <2>1 DEF Follows, LiveHold
  <2>4. QED
    BY <1>2, <2>1, <2>2, <2>3
<1>3. QED
  BY <1>1, <1>2

\* The row and the timer of a transaction with one message.
IsRowOf(r, w, m) ==
    /\ r = [id |-> row[w], seat |-> job[w].seat, msg |-> m, meta |-> MetaOf(w),
            version |-> IF Decision(w).events # <<>> THEN seen[w].version + 1 ELSE 0]
    /\ r.id = row[w] /\ r.seat = job[w].seat /\ r.msg = m /\ r.meta = MetaOf(w)
    /\ r.version = IF Decision(w).events # <<>> THEN seen[w].version + 1 ELSE 0

IsTimerOf(t, w, m) ==
    /\ t = [seat |-> job[w].seat, version |-> seen[w].version + 1,
            fireAt |-> AsTime(m.expires), token |-> m.hold]
    /\ t.seat = job[w].seat /\ t.version = seen[w].version + 1
    /\ t.fireAt = AsTime(m.expires) /\ t.token = m.hold

\* A transaction without a message: a timer with nothing to expire.
Silent(w) ==
    /\ w \in Schedulers /\ w \notin Handlers /\ ~LiveHold(seen[w], job[w].token)
    /\ Decision(w).events = <<>> /\ Messages(Decision(w)) = <<>>
    /\ AppendedEvents(w) = <<>> /\ EnqueuedRows(w) = {}

\* A transaction that only answers.
Replies(w, m) ==
    /\ w \in Handlers /\ m.hold = job[w].hold
    /\ Decision(w).events = <<>> /\ Messages(Decision(w)) = <<m>>
    /\ AppendedEvents(w) = <<>> /\ ScheduledTimers(w) = {}

\* A transaction that appends m, for a command or for a timer.
Appends(w, m) ==
    /\ Decision(w).events = <<m>> /\ Messages(Decision(w)) = <<m>> /\ Follows(seen[w], m)
    /\ AppendedEvents(w) = <<[msg |-> m, meta |-> MetaOf(w)]>>
    /\ \/ /\ w \in Handlers /\ m.hold = job[w].hold
          /\ job[w].type = "HoldSeat" /\ m.type = "SeatHeld" /\ m.expires = job[w].expires
          /\ \E t \in Timer : ScheduledTimers(w) = {t} /\ IsTimerOf(t, w, m)
       \/ /\ w \in Handlers /\ m.hold = job[w].hold
          /\ job[w].type = "ReleaseSeatHold" /\ m.type = "SeatHoldReleased"
          /\ ScheduledTimers(w) = {}
       \/ /\ w \in Schedulers /\ w \notin Handlers
          /\ m.type = "SeatHoldExpired" /\ m.hold = job[w].token

\* Sequences with one element.
LEMMA OneElement ==
    ASSUME NEW m
    PROVE  /\ <<m>> \o <<>> = <<m>> /\ <<>> \o <<m>> = <<m>> /\ <<>> \o <<>> = <<>>
           /\ <<m>> # <<>> /\ DOMAIN <<m>> = {1} /\ <<m>>[1] = m /\ Len(<<m>>) = 1
<1>1. <<m>> \in Seq({m})
  OBVIOUS
<1>2. <<m>> \o <<>> = <<m>> /\ <<>> \o <<m>> = <<m>>
  BY <1>1, ConcatEmptySeq
<1>3. <<>> \o <<>> = <<>>
  BY <1>1, ConcatEmptySeq
<1>4. QED
  BY <1>2, <1>3

\* The rows of a transaction with one message.
LEMMA OneRow ==
    ASSUME TypeOK, JobOK, NEW w \in Workers, pc[w] # "idle", NEW m,
           Messages(Decision(w)) = <<m>>,
           Decision(w).events = <<>> \/ Decision(w).events = <<m>>
    PROVE  \E r \in OutboxRow : EnqueuedRows(w) = {r} /\ IsRowOf(r, w, m)
<1> DEFINE v == IF Decision(w).events # <<>> THEN seen[w].version + 1 ELSE 0
           r == [id |-> row[w], seat |-> job[w].seat, msg |-> m, meta |-> MetaOf(w), version |-> v]
<1>1. row[w] \in Nat /\ row[w] + 1 - 1 = row[w]
  BY DEF TypeOK
<1>2. DOMAIN <<m>> = {1} /\ <<m>>[1] = m /\ <<m>> # <<>>
  BY OneElement
<1>3. v = IF 1 \in DOMAIN Decision(w).events THEN seen[w].version + 1 ELSE 0
  <2>1. CASE Decision(w).events = <<>>
    BY <2>1
  <2>2. CASE Decision(w).events = <<m>>
    BY <1>2, <2>2
  <2>3. QED
    BY <2>1, <2>2
<1>4. EnqueuedRows(w) = {r}
  BY <1>1, <1>2, <1>3 DEF EnqueuedRows
<1>5. r \in OutboxRow
  BY <1>4, EnqueuedRowsType
<1>6. IsRowOf(r, w, m)
  BY DEF IsRowOf
<1> HIDE DEF r
<1>7. QED
  BY <1>4, <1>5, <1>6

\* The timers of a transaction that has one.
LEMMA OneTimer ==
    ASSUME TypeOK, JobOK, NEW w \in Workers, pc[w] # "idle", NEW m, NEW c,
           m.expires = c.expires, m.hold = c.hold,
           Decision(w).timers = <<[fireAt |-> AsTime(c.expires), token |-> c.hold]>>
    PROVE  \E t \in Timer : ScheduledTimers(w) = {t} /\ IsTimerOf(t, w, m)
<1> DEFINE x == [fireAt |-> AsTime(c.expires), token |-> c.hold]
           t == [seat |-> job[w].seat, version |-> seen[w].version + 1,
                 fireAt |-> AsTime(m.expires), token |-> m.hold]
<1>1. DOMAIN <<x>> = {1} /\ <<x>>[1] = x
  BY OneElement
<1>2. x.fireAt = AsTime(m.expires) /\ x.token = m.hold
  OBVIOUS
<1>3. Decision(w).timers = <<x>>
  OBVIOUS
<1> HIDE DEF x
<1>4. ScheduledTimers(w) = {t}
  BY <1>1, <1>2, <1>3 DEF ScheduledTimers
<1>5. t \in Timer
  BY <1>4, ScheduledTimersType
<1>6. IsTimerOf(t, w, m)
  BY DEF IsTimerOf
<1> HIDE DEF t
<1>7. QED
  BY <1>4, <1>5, <1>6

\* Every open transaction is silent, replies, or appends.
LEMMA EffectShape ==
    ASSUME TypeOK, JobOK, NEW w \in Workers, pc[w] # "idle"
    PROVE  \/ Silent(w)
           \/ \E m \in Message : Replies(w, m) \/ Appends(w, m)
<1> DEFINE o == Decision(w)
<1>1. seen[w] \in SeatState
  BY DEF TypeOK
<1>2. CASE w \in Handlers
  <2>1. job[w] \in Commands /\ o = Decide(seen[w], job[w])
    BY <1>2 DEF JobOK, Decision, DecisionOn
  <2>2. PICK m \in Message :
              /\ m.hold = job[w].hold
              /\ \/ o.events = <<>> /\ o.replies = <<m>> /\ o.timers = <<>>
                 \/ /\ o.events = <<m>> /\ o.replies = <<>>
                    /\ Follows(seen[w], m) /\ Leads(job[w], m, o.timers)
    BY <1>1, <2>1, DecideShape
  <2> HIDE DEF o
  <2>3. CASE o.events = <<>> /\ o.replies = <<m>> /\ o.timers = <<>>
    <3>1. Messages(o) = <<m>>
      BY <2>3, OneElement DEF Messages
    <3>2. AppendedEvents(w) = <<>> /\ ScheduledTimers(w) = {}
      BY <2>3 DEF AppendedEvents, ScheduledTimers, o
    <3>3. Replies(w, m)
      BY <1>2, <2>2, <2>3, <3>1, <3>2 DEF Replies, o
    <3>4. QED
      BY <3>3
  <2>4. CASE /\ o.events = <<m>> /\ o.replies = <<>>
             /\ Follows(seen[w], m) /\ Leads(job[w], m, o.timers)
    <3>1. Messages(o) = <<m>> /\ o.events # <<>>
      BY <2>4, OneElement DEF Messages
    <3>2. AppendedEvents(w) = <<[msg |-> m, meta |-> MetaOf(w)]>>
      <4>1. DOMAIN <<m>> = 1 .. 1 /\ <<m>>[1] = m
        OBVIOUS
      <4>2. QED
        BY <2>4, <4>1 DEF AppendedEvents, o
    <3>3. CASE o.timers = <<>>
      BY <1>2, <2>2, <2>4, <3>1, <3>2, <3>3, OneElement DEF Appends, Leads, ScheduledTimers, o
    <3>4. CASE o.timers # <<>>
      <4>1. /\ o.timers = <<[fireAt |-> AsTime(job[w].expires), token |-> job[w].hold]>>
            /\ job[w].type = "HoldSeat" /\ m.type = "SeatHeld" /\ m.expires = job[w].expires
        BY <2>4, <3>4 DEF Leads
      <4>2. \E t \in Timer : ScheduledTimers(w) = {t} /\ IsTimerOf(t, w, m)
        BY <2>2, <4>1, OneTimer DEF o
      <4>3. QED
        BY <1>2, <2>2, <2>4, <3>1, <3>2, <4>1, <4>2 DEF Appends, o
    <3>5. QED
      BY <3>3, <3>4
  <2>5. QED
    BY <2>2, <2>3, <2>4
<1>3. CASE w \notin Handlers
  <2>1. job[w].token \in Holds /\ o = Expire(seen[w], job[w].token) /\ w \in Schedulers
    BY <1>3 DEF JobOK, Decision, DecisionOn, Timer, Workers
  <2>2. CASE ~LiveHold(seen[w], job[w].token) /\ o = Nothing
    <3>1. o.events = <<>> /\ o.replies = <<>>
      BY <2>2 DEF Nothing
    <3> HIDE DEF o
    <3>2. Messages(o) = <<>>
      BY <3>1, OneElement DEF Messages
    <3>3. AppendedEvents(w) = <<>> /\ EnqueuedRows(w) = {}
      BY <3>1, <3>2 DEF AppendedEvents, EnqueuedRows, o
    <3>4. QED
      BY <1>3, <2>1, <2>2, <3>1, <3>2, <3>3 DEF Silent, o
  <2>3. ASSUME NEW m \in Message, o.events = <<m>>, o.replies = <<>>,
               Follows(seen[w], m), m.type = "SeatHoldExpired", m.hold = job[w].token
        PROVE  Appends(w, m)
    <3> HIDE DEF o
    <3>1. Messages(o) = <<m>>
      BY <2>3, OneElement DEF Messages
    <3>2. AppendedEvents(w) = <<[msg |-> m, meta |-> MetaOf(w)]>>
      <4>1. DOMAIN <<m>> = 1 .. 1 /\ <<m>>[1] = m
        OBVIOUS
      <4>2. QED
        BY <2>3, <4>1 DEF AppendedEvents, o
    <3>3. QED
      BY <1>3, <2>1, <2>3, <3>1, <3>2 DEF Appends, o
  <2>4. QED
    BY <1>1, <2>1, <2>2, <2>3, ExpireShape
<1>4. QED
  BY <1>2, <1>3

-----------------------------------------------------------------------------
(* Steps that commit nothing.                                              *)

\* v and its transaction are as they were.
Still(v) ==
    /\ pc'[v] = pc[v] /\ job'[v] = job[v] /\ seen'[v] = seen[v]
    /\ origin'[v] = origin[v] /\ row'[v] = row[v]

\* The committed tables are as they were; at most, a duplicate is acknowledged,
\* a batch is read, ids are drawn and time passes.
Uncommitted ==
    /\ UNCHANGED <<events, inbox, timers, outbox>>
    /\ acked' \subseteq acked \cup inbox
    /\ \A s \in Schedulers : due'[s] \subseteq due[s] \cup DueTimers
    /\ serial <= serial' /\ now <= now'

\* They keep what is known of them.
LEMMA TablesFrame ==
    ASSUME TypeOK, TypeOK', TablesOK, Uncommitted
    PROVE  TablesOK'
<1>1. /\ UNCHANGED <<events, inbox, timers, outbox>> /\ acked' \subseteq acked \cup inbox
      /\ \A s \in Schedulers : due'[s] \subseteq due[s] \cup DueTimers
      /\ serial <= serial' /\ now <= now'
  BY DEF Uncommitted
<1>2. serial \in Nat /\ serial' \in Nat /\ now \in Nat /\ now' \in Nat
  <2>1. now \in 1 .. MaxTime /\ now' \in 1 .. MaxTime /\ serial \in Nat /\ serial' \in Nat
    BY DEF TypeOK
  <2>2. QED
    BY <2>1
<1>3. \A at : at \in Int /\ at <= now => at <= now'
  BY <1>1, <1>2
<1>4. InboxOK'
  BY <1>1 DEF TablesOK, InboxOK, Answered
<1>5. TimersOK'
  <2>1. \A hold, at : Genuine(hold, at)' <=> Genuine(hold, at)
    BY DEF Genuine
  <2>2. \A s \in Schedulers : \A t \in due'[s] : Genuine(t.token, t.fireAt) /\ t.fireAt <= now'
    <3> SUFFICES ASSUME NEW s \in Schedulers, NEW t \in due'[s]
                 PROVE  Genuine(t.token, t.fireAt) /\ t.fireAt <= now'
      OBVIOUS
    <3>1. t \in Timer /\ t.fireAt \in Int
      BY DEF TypeOK, Timer
    <3>2. Genuine(t.token, t.fireAt) /\ t.fireAt <= now
      BY <1>1 DEF TablesOK, TimersOK, DueTimers
    <3>3. QED
      BY <1>3, <3>1, <3>2
  <2>3. QED
    BY <1>1, <2>1, <2>2 DEF TablesOK, TimersOK
<1>6. RowsOK'
  <2>1. \A r \in outbox' : r.id \in 1 .. serial'
    BY <1>1, <1>2 DEF TablesOK, RowsOK
  <2>2. QED
    BY <1>1, <2>1 DEF TablesOK, RowsOK, AnnouncedInOrder
<1>7. EveryEventAnnounced' /\ HoldNeverStranded'
  BY <1>1 DEF TablesOK, EveryEventAnnounced, HoldNeverStranded
<1>8. ExpiryReachesHolder'
  <2> SUFFICES ASSUME NEW s \in Streams, NEW i \in DOMAIN events[s],
                      events[s][i].msg.type = "SeatHoldExpired"
               PROVE  /\ i > 1
                      /\ events[s][i].meta = [corr |-> events[s][i - 1].meta.corr, cause |-> NoCause]
                      /\ AsTime(events[s][i - 1].msg.expires) <= now'
    BY <1>1 DEF ExpiryReachesHolder
  <2>1. /\ i > 1
        /\ events[s][i].meta = [corr |-> events[s][i - 1].meta.corr, cause |-> NoCause]
        /\ AsTime(events[s][i - 1].msg.expires) <= now
    BY DEF TablesOK, ExpiryReachesHolder
  <2>2. AsTime(events[s][i - 1].msg.expires) \in Int
    <3>1. events[s] \in Seq(Recorded) /\ i - 1 \in 1 .. Len(events[s])
      BY <2>1 DEF TypeOK
    <3>2. events[s][i - 1] \in Recorded
      BY <3>1
    <3>3. QED
      BY <3>2 DEF Recorded, Message, AsTime, Epoch, NoDeadline
  <2>3. QED
    BY <1>3, <2>1, <2>2
<1>9. QED
  BY <1>4, <1>5, <1>6, <1>7, <1>8 DEF TablesOK

\* So does a worker that does not move.
LEMMA WorkerFrame ==
    ASSUME TypeOK, TypeOK', JobOK, Uncommitted, NEW v \in Workers, Still(v), WorkerOK(v)
    PROVE  WorkerOK(v)'
<1>1. /\ UNCHANGED <<events, inbox, timers, outbox>> /\ serial <= serial' /\ now <= now'
  BY DEF Uncommitted
<1>2. serial \in Nat /\ serial' \in Nat /\ now \in Nat /\ now' \in Nat
  <2>1. now \in 1 .. MaxTime /\ now' \in 1 .. MaxTime /\ serial \in Nat /\ serial' \in Nat
    BY DEF TypeOK
  <2>2. QED
    BY <2>1
<1>3. Decision(v)' = Decision(v)
  BY SameDecision DEF Still
<1>4. ClaimOK(v)'
  BY <1>1 DEF WorkerOK, ClaimOK, Still
<1>5. FireOK(v)'
  <2> SUFFICES ASSUME v \in Schedulers, pc[v] \in AfterMark
               PROVE  /\ Genuine(job[v].token, job[v].fireAt) /\ job[v].fireAt <= now'
                      /\ job[v].version <= Len(events[job[v].seat])
    BY <1>1 DEF FireOK, Still, Genuine
  <2>1. /\ Genuine(job[v].token, job[v].fireAt) /\ job[v].fireAt <= now
        /\ job[v].version <= Len(events[job[v].seat])
    BY DEF WorkerOK, FireOK
  <2>2. job[v].fireAt \in Int
    BY WorkerAssumption DEF JobOK, AfterMark, Timer
  <2>3. QED
    BY <1>1, <1>2, <2>1, <2>2
<1>6. LoadOK(v)'
  BY <1>1 DEF WorkerOK, LoadOK, Still
<1>7. DrawOK(v)'
  <2>1. row[v] \in 1 .. serial => row[v] \in 1 .. serial'
    BY <1>1, <1>2
  <2>2. Drawn(v)' = Drawn(v) /\ Appending(v)' = Appending(v)
    BY <1>3 DEF Drawn, Appending, Still
  <2>3. QED
    BY <1>1, <2>1, <2>2 DEF WorkerOK, DrawOK, Still
<1>8. QED
  BY <1>4, <1>5, <1>6, <1>7 DEF WorkerOK

\* A worker outside the part of a transaction that holds locks.
LEMMA OutsideOK ==
    ASSUME NEW v \in Workers, pc'[v] \in {"idle", "mark"}
    PROVE  WorkerOK(v)' /\ ~Drawn(v)' /\ pc'[v] \notin AfterMark
BY DEF WorkerOK, ClaimOK, FireOK, LoadOK, DrawOK, Drawn, AfterMark

\* Steps in which workers stay where they are or leave their transaction.
LEMMA CalmStep ==
    ASSUME FullInv, TypeOK', Uncommitted,
           \A v \in Workers : Still(v) \/ pc'[v] \in {"idle", "mark"}
    PROVE  EInv'
<1>1. TypeOK /\ JobOK /\ TablesOK /\ PairsOK /\ \A v \in Workers : WorkerOK(v)
  BY DEF FullInv, IInv, EInv
<1>2. TablesOK'
  BY <1>1, TablesFrame
<1>3. \A v \in Workers : WorkerOK(v)'
  BY <1>1, WorkerFrame, OutsideOK
<1>4. \A v \in Workers : Drawn(v)' => Still(v) /\ Drawn(v)
  BY OutsideOK, SameDecision DEF Still, Drawn
<1>5. \A v \in Workers : pc'[v] \in AfterMark => Still(v)
  BY OutsideOK
<1>6. Handlers \subseteq Workers
  BY DEF Workers
<1>7. PairsOK'
  BY <1>1, <1>4, <1>5, <1>6 DEF PairsOK, Still
<1>8. QED
  BY <1>2, <1>3, <1>7 DEF EInv

\* Steps in which one worker moves on.
LEMMA MoveStep ==
    ASSUME FullInv, TypeOK', Uncommitted, NEW w \in Workers,
           \A v \in Workers \ {w} : Still(v), WorkerOK(w)',
           w \in Handlers /\ pc'[w] \in AfterMark =>
                \A h \in Handlers \ {w} : pc[h] \in AfterMark => job[h].id # job'[w].id,
           Drawn(w)' => \A v \in Workers \ {w} : Drawn(v) => row[v] # row'[w]
    PROVE  EInv'
<1>1. TypeOK /\ JobOK /\ TablesOK /\ PairsOK /\ \A v \in Workers : WorkerOK(v)
  BY DEF FullInv, IInv, EInv
<1>2. TablesOK'
  BY <1>1, TablesFrame
<1>3. \A v \in Workers : WorkerOK(v)'
  BY <1>1, WorkerFrame
<1>4. \A v \in Workers \ {w} : Drawn(v)' => Drawn(v) /\ row'[v] = row[v]
  BY SameDecision DEF Still, Drawn
<1>5. Handlers \subseteq Workers
  BY DEF Workers
<1>6. PairsOK'
  <2>1. ASSUME NEW g \in Handlers, NEW h \in Handlers, pc'[g] \in AfterMark,
               pc'[h] \in AfterMark, job'[g].id = job'[h].id
        PROVE  g = h
    BY <1>1, <1>5, <2>1 DEF PairsOK, Still
  <2>2. ASSUME NEW u \in Workers, NEW v \in Workers, Drawn(u)', Drawn(v)', row'[u] = row'[v]
        PROVE  u = v
    <3>1. CASE u # w /\ v # w
      BY <1>1, <1>4, <2>2, <3>1 DEF PairsOK
    <3>2. CASE u = w \/ v = w
      BY <1>4, <2>2, <3>2
    <3>3. QED
      BY <3>1, <3>2
  <2>3. QED
    BY <2>1, <2>2 DEF PairsOK
<1>7. QED
  BY <1>2, <1>3, <1>6 DEF EInv

\* The end of a transaction leaves the other workers alone.
LEMMA EndTxStill ==
    ASSUME TypeOK, NEW w \in Workers, NEW l, NEW j, EndTx(w, l, j)
    PROVE  pc'[w] = l /\ \A v \in Workers \ {w} : Still(v)
BY DEF TypeOK, EndTx, Still

\* Deliveries, duplicates, rollbacks, batches, pruning and the clock.
LEMMA CalmActions ==
    ASSUME FullInv, TypeOK',
           \/ \E h \in Handlers : Duplicate(h) \/ \E c \in Commands : Deliver(h, c)
           \/ \E s \in Schedulers : Tick(s) \/ Prune(s) \/ LoseBatch(s)
           \/ \E w \in Workers : VersionConflict(w) \/ EnqueueInvalid(w) \/ Abort(w)
           \/ Advance \/ UNCHANGED vars
    PROVE  EInv'
<1>1. /\ TypeOK /\ now \in Int /\ serial \in Nat /\ InboxOK
      /\ Handlers \subseteq Workers /\ Schedulers \subseteq Workers
  BY DEF FullInv, IInv, EInv, TablesOK, TypeOK, Workers
<1> DEFINE Calm == Uncommitted /\ \A v \in Workers : Still(v) \/ pc'[v] \in {"idle", "mark"}
<1>2. ASSUME NEW h \in Handlers, Duplicate(h) PROVE Calm
  <2>1. /\ UNCHANGED <<events, inbox, timers, outbox, serial, due, now>>
        /\ acked' = acked \cup {job[h].id} /\ job[h].id \in inbox /\ EndTx(h, "idle", NoJob)
    BY <1>2 DEF Duplicate
  <2>2. \A v \in Workers : Still(v) \/ pc'[v] \in {"idle", "mark"}
    BY <1>1, <2>1, EndTxStill
  <2>3. QED
    BY <1>1, <2>1, <2>2 DEF Uncommitted
<1>3. ASSUME NEW h \in Handlers, NEW c \in Commands, Deliver(h, c) PROVE Calm
  <2>1. UNCHANGED <<events, inbox, timers, outbox, acked, serial, due, now>>
    BY <1>3 DEF Deliver, tables
  <2>2. \A v \in Workers : Still(v) \/ pc'[v] \in {"idle", "mark"}
    BY <1>1, <1>3 DEF Deliver, Still, TypeOK
  <2>3. QED
    BY <1>1, <2>1, <2>2 DEF Uncommitted
<1>4. ASSUME NEW s \in Schedulers, Tick(s) PROVE Calm
  <2>1. UNCHANGED <<events, inbox, timers, outbox, acked, serial, now>>
    BY <1>4 DEF Tick, tables
  <2>2. \A v \in Workers : Still(v)
    BY <1>4 DEF Tick, txs, Still
  <2>3. PICK batch \in SUBSET DueTimers : due' = [due EXCEPT ![s] = batch]
    BY <1>4 DEF Tick
  <2>4. \A u \in Schedulers : due'[u] \subseteq due[u] \cup DueTimers
    BY <1>1, <2>3 DEF TypeOK
  <2>5. QED
    BY <1>1, <2>1, <2>2, <2>4 DEF Uncommitted
<1>5. ASSUME NEW s \in Schedulers, Prune(s) PROVE Calm
  <2>1. UNCHANGED <<events, inbox, timers, outbox, acked, serial, due, now>>
    BY <1>5 DEF Prune
  <2>2. \A v \in Workers : Still(v)
    BY <1>5 DEF Prune, txs, Still
  <2>3. QED
    BY <1>1, <2>1, <2>2 DEF Uncommitted
<1>6. ASSUME NEW s \in Schedulers, LoseBatch(s) PROVE Calm
  <2>1. /\ UNCHANGED <<events, inbox, timers, outbox, acked, serial, now>>
        /\ EndTx(s, "idle", NoJob) /\ due' = [due EXCEPT ![s] = {}]
    BY <1>6 DEF LoseBatch, tables
  <2>2. \A v \in Workers : Still(v) \/ pc'[v] \in {"idle", "mark"}
    BY <1>1, <2>1, EndTxStill
  <2>3. \A u \in Schedulers : due'[u] \subseteq due[u] \cup DueTimers
    BY <1>1, <2>1 DEF TypeOK
  <2>4. QED
    BY <1>1, <2>1, <2>2, <2>3 DEF Uncommitted
<1>7. ASSUME NEW w \in Workers, VersionConflict(w) \/ EnqueueInvalid(w) \/ Abort(w) PROVE Calm
  <2>1. /\ UNCHANGED <<events, inbox, timers, outbox, acked, serial, due, now>>
        /\ EndTx(w, "idle", NoJob) \/ EndTx(w, "mark", job[w])
    BY <1>7 DEF VersionConflict, EnqueueInvalid, Abort, tables
  <2>2. \A v \in Workers : Still(v) \/ pc'[v] \in {"idle", "mark"}
    BY <1>1, <2>1, EndTxStill
  <2>3. QED
    BY <1>1, <2>1, <2>2 DEF Uncommitted
<1>8. ASSUME Advance \/ UNCHANGED vars PROVE Calm
  <2>1. /\ UNCHANGED <<events, inbox, timers, outbox, acked, serial, due>>
        /\ now' = now \/ now' = now + 1
    BY <1>8 DEF Advance, vars, tables
  <2>2. \A v \in Workers : Still(v)
    BY <1>8 DEF Advance, vars, txs, Still
  <2>3. now <= now' /\ serial <= serial'
    BY <1>1, <2>1
  <2>4. Uncommitted
    BY <2>1, <2>3 DEF Uncommitted
  <2>5. QED
    BY <2>2, <2>4
<1> HIDE DEF Calm
<1>9. Calm
  <2>1. CASE \E h \in Handlers : Duplicate(h) \/ \E c \in Commands : Deliver(h, c)
    BY <1>2, <1>3, <2>1
  <2>2. CASE \E s \in Schedulers : Tick(s) \/ Prune(s) \/ LoseBatch(s)
    BY <1>4, <1>5, <1>6, <2>2
  <2>3. CASE \E w \in Workers : VersionConflict(w) \/ EnqueueInvalid(w) \/ Abort(w)
    BY <1>7, <2>3
  <2>4. QED
    BY <1>8, <2>1, <2>2, <2>3
<1>10. QED
  BY <1>9, CalmStep DEF Calm

\* MarkConsumed: the row was neither there nor locked, so no other handler is
\* past the inbox with this command.
LEMMA MarkConsumedStep ==
    ASSUME FullInv, TypeOK', NEW h \in Handlers, MarkConsumed(h)
    PROVE  EInv'
<1>1. /\ TypeOK /\ JobOK /\ h \in Workers /\ h \notin Schedulers /\ now \in Int /\ serial \in Nat
  BY WorkerAssumption DEF FullInv, IInv, TypeOK, Workers
<1>2. /\ UNCHANGED <<events, inbox, timers, outbox, acked, serial, due, now>>
      /\ UNCHANGED <<job, seen, origin, row>> /\ pc' = [pc EXCEPT ![h] = "load"]
      /\ pc[h] = "mark" /\ ~Claimed(h, job[h]) /\ job[h].id \notin inbox
  BY DEF MarkConsumed, Goto, tables
<1>3. pc'[h] = "load" /\ \A v \in Workers \ {h} : Still(v)
  BY <1>1, <1>2 DEF TypeOK, Still
<1>4. Uncommitted
  BY <1>1, <1>2 DEF Uncommitted
<1>5. WorkerOK(h)' /\ ~Drawn(h)'
  BY <1>1, <1>2, <1>3 DEF WorkerOK, ClaimOK, FireOK, LoadOK, DrawOK, Drawn
<1>6. ASSUME NEW g \in Handlers \ {h}, pc[g] \in AfterMark PROVE job[g].id # job'[h].id
  <2>1. job[g] # job[h] /\ g \in Workers
    BY <1>2, <1>6 DEF Claimed, Workers
  <2>2. job[g] \in Commands /\ job[h] \in Commands
    BY <1>1, <1>2, <1>6, <2>1 DEF JobOK, AfterMark
  <2>3. QED
    BY <1>2, <2>1, <2>2, CommandAssumption
<1>7. QED
  BY <1>1, <1>3, <1>4, <1>5, <1>6, MoveStep

\* MarkFired: the timer is due and still pending, or it is left alone.
LEMMA MarkFiredStep ==
    ASSUME FullInv, TypeOK', NEW s \in Schedulers, MarkFired(s)
    PROVE  EInv'
<1>1. /\ TypeOK /\ s \in Workers /\ s \notin Handlers /\ now \in Int /\ serial \in Nat
      /\ TimersOK
  BY WorkerAssumption DEF FullInv, IInv, EInv, TablesOK, TypeOK, Workers
<1>2. /\ UNCHANGED <<events, inbox, timers, outbox, acked, serial, now>>
      /\ UNCHANGED <<seen, origin, row>>
  BY DEF MarkFired, tables
<1>3. PICK t \in EarlierOf(due[s]) :
        /\ due' = [due EXCEPT ![s] = @ \ {t}]
        /\ IF t \in timers
           THEN pc' = [pc EXCEPT ![s] = "load"] /\ job' = [job EXCEPT ![s] = t]
           ELSE UNCHANGED <<pc, job>>
  BY DEF MarkFired, Goto
<1>4. Uncommitted
  <2>1. \A u \in Schedulers : due'[u] \subseteq due[u] \cup DueTimers
    BY <1>1, <1>3 DEF TypeOK
  <2>2. QED
    BY <1>1, <1>2, <2>1 DEF Uncommitted
<1>5. CASE t \notin timers
  <2>1. \A v \in Workers : Still(v)
    BY <1>2, <1>3, <1>5 DEF Still
  <2>2. QED
    BY <1>4, <2>1, CalmStep
<1>6. CASE t \in timers
  <2>1. /\ pc'[s] = "load" /\ job'[s] = t /\ \A v \in Workers \ {s} : Still(v)
    BY <1>1, <1>2, <1>3, <1>6 DEF TypeOK, Still
  <2>2. /\ Genuine(t.token, t.fireAt) /\ t.fireAt <= now /\ t.version <= Len(events[t.seat])
    BY <1>1, <1>3, <1>6 DEF TimersOK, EarlierOf
  <2>3. FireOK(s)'
    BY <1>2, <2>1, <2>2 DEF FireOK, Genuine
  <2>4. WorkerOK(s)' /\ ~Drawn(s)'
    BY <1>1, <2>1, <2>3 DEF WorkerOK, ClaimOK, LoadOK, DrawOK, Drawn
  <2>5. QED
    BY <1>1, <1>4, <2>1, <2>4, MoveStep
<1>7. QED
  BY <1>5, <1>6

\* LoadSeat: the load is up to date, and so not older than the timer.
LEMMA LoadSeatStep ==
    ASSUME FullInv, TypeOK', JobOK', NEW w \in Workers, LoadSeat(w)
    PROVE  EInv'
<1> DEFINE s == job[w].seat
<1>1. /\ TypeOK /\ JobOK /\ now \in Int /\ serial \in Nat /\ VersionOK /\ PairsOK /\ WorkerOK(w)
  BY DEF FullInv, IInv, EInv, TypeOK
<1>2. /\ UNCHANGED <<events, inbox, timers, outbox, acked, serial, due, now>>
      /\ UNCHANGED <<job, row>> /\ pc[w] = "load"
      /\ seen' = [seen EXCEPT ![w] = Fold[events[s]]]
      /\ origin' = [origin EXCEPT ![w] = LastMeta(events[s])]
      /\ pc' = [pc EXCEPT ![w] =
                IF DecisionOn(Fold[events[s]], w).events # <<>> THEN "append"
                ELSE IF w \in Handlers THEN "enqueue" ELSE "commit"]
  BY DEF LoadSeat, Goto, tables
<1>3. /\ seen'[w] = Fold[events[s]] /\ origin'[w] = LastMeta(events[s])
      /\ pc'[w] = (IF DecisionOn(Fold[events[s]], w).events # <<>> THEN "append"
                   ELSE IF w \in Handlers THEN "enqueue" ELSE "commit")
      /\ \A v \in Workers \ {w} : Still(v)
  BY <1>1, <1>2 DEF TypeOK, Still
<1>4. Uncommitted
  BY <1>1, <1>2 DEF Uncommitted
<1>5. pc[w] \in AfterMark /\ pc'[w] \in AfterMark /\ pc'[w] # "idle"
  BY <1>2, <1>3 DEF AfterMark
<1>6. ClaimOK(w)' /\ FireOK(w)'
  BY <1>1, <1>2, <1>5 DEF WorkerOK, ClaimOK, FireOK, Genuine
<1>7. LoadOK(w)'
  <2>1. seen'[w].version = Len(events[s])
    BY <1>1, <1>2, <1>3, JobSeat DEF VersionOK
  <2>2. w \in Schedulers => job[w].version <= Len(events[s])
    BY <1>1, <1>5 DEF WorkerOK, FireOK
  <2>3. QED
    BY <1>2, <1>3, <2>1, <2>2 DEF LoadOK
<1>8. ~Drawn(w)'
  <2>1. SUFFICES ASSUME pc'[w] = "commit" PROVE Messages(Decision(w)') = <<>>
    BY DEF Drawn
  <2>2. w \notin Handlers /\ DecisionOn(Fold[events[s]], w).events = <<>>
    BY <1>3, <2>1
  <2>3. Decision(w)' = DecisionOn(Fold[events[s]], w)
    BY <1>2, <1>3 DEF Decision, DecisionOn
  <2>4. Fold[events[s]] \in SeatState /\ job[w].token \in Holds
    <3>1. seen'[w] \in SeatState
      BY DEF TypeOK
    <3>2. QED
      BY <1>1, <1>2, <1>3, <2>2, <3>1 DEF JobOK, Timer
  <2>5. DecisionOn(Fold[events[s]], w) = Nothing
    <3>1. DecisionOn(Fold[events[s]], w) = Expire(Fold[events[s]], job[w].token)
      BY <2>2 DEF DecisionOn
    <3>2. \A m : <<m>> # <<>>
      OBVIOUS
    <3>3. QED
      BY <2>2, <2>4, <3>1, <3>2, ExpireShape
  <2>6. QED
    BY <2>3, <2>5, OneElement DEF Messages, Nothing
<1>9. WorkerOK(w)'
  BY <1>6, <1>7, <1>8 DEF WorkerOK, DrawOK
<1>10. \A h \in Handlers \ {w} : w \in Handlers /\ pc[h] \in AfterMark => job[h].id # job'[w].id
  BY <1>1, <1>2, <1>5 DEF PairsOK
<1>11. QED
  BY <1>3, <1>4, <1>8, <1>9, <1>10, MoveStep

\* AppendSeat: nothing but the program counter moves.
LEMMA AppendSeatStep ==
    ASSUME FullInv, TypeOK', NEW w \in Workers, AppendSeat(w)
    PROVE  EInv'
<1>1. /\ TypeOK /\ now \in Int /\ serial \in Nat /\ PairsOK /\ WorkerOK(w)
  BY DEF FullInv, IInv, EInv, TypeOK
<1>2. /\ UNCHANGED <<events, inbox, timers, outbox, acked, serial, due, now>>
      /\ UNCHANGED <<job, seen, origin, row>> /\ pc[w] = "append"
      /\ pc' = [pc EXCEPT ![w] = "enqueue"]
  BY DEF AppendSeat, Goto, tables
<1>3. pc'[w] = "enqueue" /\ \A v \in Workers \ {w} : Still(v)
  BY <1>1, <1>2 DEF TypeOK, Still
<1>4. Uncommitted
  BY <1>1, <1>2 DEF Uncommitted
<1>5. pc[w] \in AfterMark /\ pc'[w] \in AfterMark
  BY <1>2, <1>3 DEF AfterMark
<1>6. WorkerOK(w)' /\ ~Drawn(w)'
  BY <1>1, <1>2, <1>3, <1>5
     DEF WorkerOK, ClaimOK, FireOK, LoadOK, DrawOK, Drawn, Genuine
<1>7. \A h \in Handlers \ {w} : w \in Handlers /\ pc[h] \in AfterMark => job[h].id # job'[w].id
  BY <1>1, <1>2, <1>5 DEF PairsOK
<1>8. QED
  BY <1>3, <1>4, <1>6, <1>7, MoveStep

\* Enqueue: the sequence hands out an id above all that are in use.
LEMMA EnqueueStep ==
    ASSUME FullInv, TypeOK', NEW w \in Workers, Enqueue(w)
    PROVE  EInv'
<1>1. /\ TypeOK /\ JobOK /\ now \in Int /\ serial \in Nat /\ serial' \in Nat /\ PairsOK
      /\ RowsOK /\ \A v \in Workers : WorkerOK(v)
  BY DEF FullInv, IInv, EInv, TablesOK, TypeOK
<1>2. /\ UNCHANGED <<events, inbox, timers, outbox, acked, due, now>>
      /\ UNCHANGED <<job, seen, origin>> /\ pc[w] = "enqueue"
      /\ row' = [row EXCEPT ![w] = serial + 1]
      /\ serial' = serial + Len(Messages(Decision(w)))
      /\ pc' = [pc EXCEPT ![w] = "commit"]
  BY DEF Enqueue, Goto, tables, NextRow
<1>3. /\ pc'[w] = "commit" /\ row'[w] = serial + 1 /\ \A v \in Workers \ {w} : Still(v)
  BY <1>1, <1>2 DEF TypeOK, Still
<1>4. Messages(Decision(w)) \in Seq(Message) /\ Decision(w)' = Decision(w)
  BY <1>1, <1>2, MessagesType, SameDecision
<1>5. Len(Messages(Decision(w))) \in Nat /\ serial <= serial'
  BY <1>1, <1>2, <1>4
<1>6. Drawn(w)' => serial + 1 <= serial'
  <2> SUFFICES ASSUME Messages(Decision(w)) # <<>> PROVE serial + 1 <= serial'
    BY <1>4 DEF Drawn
  <2>1. Len(Messages(Decision(w))) # 0
    BY <1>4, EmptySeq
  <2>2. QED
    BY <1>1, <1>2, <1>5, <2>1
<1>7. Uncommitted
  BY <1>1, <1>2, <1>5 DEF Uncommitted
<1>8. pc[w] \in AfterMark /\ pc'[w] \in AfterMark
  BY <1>2, <1>3 DEF AfterMark
<1>9. ClaimOK(w)' /\ FireOK(w)' /\ LoadOK(w)'
  BY <1>1, <1>2, <1>3, <1>8 DEF WorkerOK, ClaimOK, FireOK, LoadOK, Genuine
<1>10. DrawOK(w)'
  <2> SUFFICES ASSUME Drawn(w)'
               PROVE  row'[w] \in 1 .. serial' /\ \A r \in outbox : r.id < row'[w] /\ r.id # row'[w]
    BY <1>2 DEF DrawOK
  <2>1. row'[w] \in 1 .. serial'
    BY <1>1, <1>3, <1>6
  <2>2. \A r \in outbox : r.id \in 1 .. serial
    BY <1>1 DEF RowsOK
  <2>3. QED
    BY <1>1, <1>3, <2>1, <2>2
<1>11. \A v \in Workers \ {w} : Drawn(v) => row[v] # row'[w]
  <2>1. \A v \in Workers : Drawn(v) => row[v] \in 1 .. serial
    BY <1>1 DEF WorkerOK, DrawOK
  <2>2. QED
    BY <1>1, <1>3, <2>1
<1>12. \A h \in Handlers \ {w} : w \in Handlers /\ pc[h] \in AfterMark => job[h].id # job'[w].id
  BY <1>1, <1>2, <1>8 DEF PairsOK
<1>13. WorkerOK(w)'
  BY <1>9, <1>10 DEF WorkerOK
<1>14. QED
  BY <1>3, <1>7, <1>11, <1>12, <1>13, MoveStep

-----------------------------------------------------------------------------
(* Steps that commit.                                                      *)

\* w is done, everybody else and what commits do not write is as it was.
Done(w) ==
    /\ pc[w] = "commit" /\ pc'[w] = "idle"
    /\ \A v \in Workers \ {w} : Still(v)
    /\ UNCHANGED <<serial, due, now>>
    /\ acked' \subseteq acked \cup inbox'

CommitsSilence(w) ==
    /\ Done(w) /\ Silent(w)
    /\ UNCHANGED <<events, outbox, inbox>> /\ timers' = timers \ {job[w]}

CommitsReply(w, m, r) ==
    /\ Done(w) /\ Replies(w, m) /\ IsRowOf(r, w, m) /\ outbox' = outbox \cup {r}
    /\ UNCHANGED <<events, timers>> /\ inbox' = inbox \cup {job[w].id}

CommitsEvent(w, m, r, e) ==
    /\ Done(w) /\ Appends(w, m) /\ IsRowOf(r, w, m) /\ outbox' = outbox \cup {r}
    /\ e.msg = m /\ e.meta = MetaOf(w)
    /\ events' = [events EXCEPT ![job[w].seat] = Append(@, e)]
    /\ IF w \in Handlers
       THEN inbox' = inbox \cup {job[w].id} /\ timers' = timers \cup ScheduledTimers(w)
       ELSE inbox' = inbox /\ timers' = timers \ {job[w]}

\* COMMIT makes visible one of these.
LEMMA CommitCases ==
    ASSUME TypeOK, JobOK, NEW w \in Workers, CommitTx(w), acked' \subseteq acked \cup inbox'
    PROVE  \/ CommitsSilence(w)
           \/ \E m \in Message, r \in OutboxRow : CommitsReply(w, m, r)
           \/ \E m \in Message, r \in OutboxRow, e \in Recorded : CommitsEvent(w, m, r, e)
<1>1. /\ pc[w] = "commit" /\ EndTx(w, "idle", NoJob) /\ UNCHANGED <<serial, due, now>>
      /\ events' = [events EXCEPT ![job[w].seat] = @ \o AppendedEvents(w)]
      /\ outbox' = outbox \cup EnqueuedRows(w)
      /\ w \in Handlers => /\ inbox' = inbox \cup {job[w].id}
                           /\ timers' = timers \cup ScheduledTimers(w)
      /\ w \notin Handlers => inbox' = inbox /\ timers' = timers \ {job[w]}
  BY DEF CommitTx
<1>2. Done(w)
  BY <1>1, EndTxStill DEF Done
<1>3. /\ job[w].seat \in Streams /\ events[job[w].seat] \in Seq(Recorded)
      /\ events \in [Streams -> Seq(Recorded)]
  BY <1>1, JobSeat DEF TypeOK
<1>4. AppendedEvents(w) = <<>> => events' = events
  BY <1>1, <1>3, AppendedLog
<1>5. CASE Silent(w)
  BY <1>1, <1>2, <1>4, <1>5 DEF CommitsSilence, Silent
<1>6. ASSUME NEW m \in Message, Replies(w, m)
      PROVE  \E r \in OutboxRow : CommitsReply(w, m, r)
  <2>1. PICK r \in OutboxRow : EnqueuedRows(w) = {r} /\ IsRowOf(r, w, m)
    BY <1>1, <1>6, OneRow DEF Replies
  <2>2. timers' = timers /\ inbox' = inbox \cup {job[w].id} /\ events' = events
    BY <1>1, <1>4, <1>6 DEF Replies
  <2>3. CommitsReply(w, m, r)
    BY <1>1, <1>2, <1>6, <2>1, <2>2 DEF CommitsReply
  <2>4. QED
    BY <2>3
<1>7. ASSUME NEW m \in Message, Appends(w, m)
      PROVE  \E r \in OutboxRow, e \in Recorded : CommitsEvent(w, m, r, e)
  <2> DEFINE e == [msg |-> m, meta |-> MetaOf(w)]
  <2>1. PICK r \in OutboxRow : EnqueuedRows(w) = {r} /\ IsRowOf(r, w, m)
    BY <1>1, <1>7, OneRow DEF Appends
  <2>2. e \in Recorded /\ e.msg = m /\ e.meta = MetaOf(w) /\ AppendedEvents(w) = <<e>>
    BY <1>1, <1>7, MetaOfType DEF Recorded, Appends
  <2> HIDE DEF e
  <2>3. events[job[w].seat] \o <<e>> = Append(events[job[w].seat], e)
    BY <1>3, <2>2, AppendedLog
  <2>4. events' = [events EXCEPT ![job[w].seat] = Append(@, e)]
    BY <1>1, <2>2, <2>3
  <2>5. CommitsEvent(w, m, r, e)
    BY <1>1, <1>2, <1>7, <2>1, <2>2, <2>4 DEF CommitsEvent
  <2>6. QED
    BY <2>2, <2>5
<1>8. QED
  BY <1>1, <1>5, <1>6, <1>7, EffectShape

\* A log that has one event more.
LEMMA LogGrows ==
    ASSUME NEW log \in [Streams -> Seq(Recorded)], NEW new, NEW s \in Streams, NEW e \in Recorded,
           new = [log EXCEPT ![s] = Append(@, e)]
    PROVE  /\ Len(log[s]) \in Nat /\ DOMAIN log[s] = 1 .. Len(log[s])
           /\ new[s] \in Seq(Recorded) /\ new[s] = Append(log[s], e)
           /\ Len(new[s]) = Len(log[s]) + 1 /\ DOMAIN new[s] = 1 .. Len(log[s]) + 1
           /\ new[s][Len(log[s]) + 1] = e
           /\ \A t \in Streams \ {s} : new[t] = log[t]
           /\ \A t \in Streams : \A i \in DOMAIN log[t] : i \in DOMAIN new[t] /\ new[t][i] = log[t][i]
           /\ \A t \in Streams : \A i \in DOMAIN new[t] :
                i \in DOMAIN log[t] \/ (t = s /\ i = Len(log[s]) + 1)
           /\ \A t \in Streams : Len(log[t]) \in Nat /\ Len(new[t]) \in Nat /\ Len(log[t]) <= Len(new[t])
<1>1. \A t \in Streams : log[t] \in Seq(Recorded) /\ Len(log[t]) \in Nat
  OBVIOUS
<1>2. new[s] = Append(log[s], e) /\ \A t \in Streams \ {s} : new[t] = log[t]
  OBVIOUS
<1>3. /\ new[s] \in Seq(Recorded) /\ Len(new[s]) = Len(log[s]) + 1
      /\ new[s][Len(log[s]) + 1] = e /\ \A i \in 1 .. Len(log[s]) : new[s][i] = log[s][i]
  BY <1>1, <1>2, AppendProperties
<1>4. DOMAIN new[s] = 1 .. Len(log[s]) + 1 /\ DOMAIN log[s] = 1 .. Len(log[s])
  BY <1>1, <1>3
<1>5. \A i \in 1 .. Len(log[s]) + 1 : i \in 1 .. Len(log[s]) \/ i = Len(log[s]) + 1
  BY <1>1
<1>6. \A i \in 1 .. Len(log[s]) : i \in 1 .. Len(log[s]) + 1
  BY <1>1
<1>7. \A t \in Streams : \A i \in DOMAIN log[t] : i \in DOMAIN new[t] /\ new[t][i] = log[t][i]
  BY <1>2, <1>3, <1>4, <1>6
<1>8. \A t \in Streams : \A i \in DOMAIN new[t] :
        i \in DOMAIN log[t] \/ (t = s /\ i = Len(log[s]) + 1)
  BY <1>2, <1>4, <1>5
<1>9. \A t \in Streams : Len(new[t]) \in Nat /\ Len(log[t]) <= Len(new[t])
  BY <1>1, <1>2, <1>3
<1>10. QED
  BY <1>1, <1>2, <1>3, <1>4, <1>7, <1>8, <1>9

\* An event is committed to the log it was decided on.
LEMMA EventFacts ==
    ASSUME IInv, NEW w \in Workers, NEW m \in Message, NEW r, NEW e \in Recorded,
           CommitsEvent(w, m, r, e)
    PROVE  /\ Appending(w) /\ job[w].seat \in Streams /\ events \in [Streams -> Seq(Recorded)]
           /\ events' = [events EXCEPT ![job[w].seat] = Append(@, e)]
           /\ seen[w].version = Len(events[job[w].seat]) /\ seen[w] = Fold[events[job[w].seat]]
           /\ r.version = Len(events[job[w].seat]) + 1
           /\ Fold[events'[job[w].seat]] = Apply(Fold[events[job[w].seat]], m)
<1>1. /\ pc[w] = "commit" /\ Decision(w).events = <<m>> /\ IsRowOf(r, w, m) /\ e.msg = m
      /\ events' = [events EXCEPT ![job[w].seat] = Append(@, e)]
  BY DEF CommitsEvent, Done, Appends
<1>2. Decision(w).events # <<>>
  BY <1>1, OneElement
<1>3. Appending(w)
  BY <1>1, <1>2 DEF Appending, AfterAppend
<1>4. job[w].seat \in Streams /\ events \in [Streams -> Seq(Recorded)]
  BY <1>1, JobSeat DEF IInv, TypeOK
<1>5. seen[w].version = Len(events[job[w].seat]) /\ seen[w] = Fold[events[job[w].seat]]
  BY <1>1, <1>3 DEF IInv, AppendOK, SeenOK
<1>6. r.version = seen[w].version + 1
  BY <1>1, <1>2 DEF IsRowOf
<1>7. events'[job[w].seat] = Append(events[job[w].seat], e)
  BY <1>1, <1>4
<1>8. Fold[events'[job[w].seat]] = Apply(Fold[events[job[w].seat]], m)
  BY <1>1, <1>4, <1>7, FoldAppend
<1>9. QED
  BY <1>1, <1>3, <1>4, <1>5, <1>6, <1>8

\* A row is committed with the id drawn for it.
LEMMA RowFacts ==
    ASSUME FullInv, NEW w \in Workers, NEW m \in Message, NEW r \in OutboxRow,
           CommitsReply(w, m, r) \/ \E e \in Recorded : CommitsEvent(w, m, r, e)
    PROVE  /\ Done(w) /\ IsRowOf(r, w, m) /\ outbox' = outbox \cup {r} /\ Drawn(w)
           /\ r.id \in 1 .. serial /\ \A q \in outbox : q.id # r.id
           /\ 0 < r.version =>
                /\ Appending(w)
                /\ \A q \in outbox : q.seat = r.seat /\ 0 < q.version => q.id < r.id
<1>1. /\ Done(w) /\ IsRowOf(r, w, m) /\ outbox' = outbox \cup {r}
      /\ Messages(Decision(w)) = <<m>>
  BY DEF CommitsReply, CommitsEvent, Replies, Appends
<1>2. Drawn(w) /\ pc[w] = "commit"
  BY <1>1, OneElement DEF Drawn, Done
<1>3. /\ row[w] \in 1 .. serial /\ \A q \in outbox : q.id # row[w]
      /\ Appending(w) => \A q \in outbox : q.seat = job[w].seat /\ 0 < q.version => q.id < row[w]
  BY <1>2 DEF FullInv, EInv, WorkerOK, DrawOK
<1>4. r.id = row[w] /\ r.seat = job[w].seat
  BY <1>1 DEF IsRowOf
<1>5. 0 < r.version => Appending(w)
  <2> SUFFICES ASSUME 0 < r.version PROVE Appending(w)
    OBVIOUS
  <2>1. Decision(w).events # <<>>
    BY <1>1 DEF IsRowOf
  <2>2. QED
    BY <1>2, <2>1 DEF Appending, AfterAppend
<1>6. QED
  BY <1>1, <1>2, <1>3, <1>4, <1>5

\* Rows keep their ids apart and a stream's rows in order: the new row is above
\* the others of its stream, and no announced version is above its own.
LEMMA RowsCommit ==
    ASSUME FullInv, NEW w \in Workers, NEW m \in Message, NEW r \in OutboxRow,
           CommitsReply(w, m, r) \/ \E e \in Recorded : CommitsEvent(w, m, r, e)
    PROVE  RowsOK'
<1>1. /\ outbox' = outbox \cup {r} /\ serial' = serial
      /\ r.id \in 1 .. serial /\ \A q \in outbox : q.id # r.id
      /\ 0 < r.version => \A q \in outbox : q.seat = r.seat /\ 0 < q.version => q.id < r.id
  BY RowFacts DEF Done
<1>2. /\ \A q \in outbox : q.id \in 1 .. serial /\ q.version \in Nat
      /\ AnnouncedInOrder /\ r.version \in Nat
  BY DEF FullInv, IInv, EInv, TablesOK, RowsOK, TypeOK, OutboxRow
<1>3. ASSUME NEW q \in outbox, q.seat = r.seat, 0 < r.version PROVE ~(r.version < q.version)
  <2>1. PICK e \in Recorded : CommitsEvent(w, m, r, e)
    <3>1. CASE CommitsReply(w, m, r)
      BY <1>3, <3>1 DEF CommitsReply, Replies, IsRowOf
    <3>2. QED
      BY <3>1
  <2>2. /\ r.version = Len(events[job[w].seat]) + 1 /\ job[w].seat \in Streams
        /\ events \in [Streams -> Seq(Recorded)]
    BY <2>1, EventFacts DEF FullInv
  <2>3. r.seat = job[w].seat
    BY <2>1 DEF CommitsEvent, IsRowOf
  <2>4. q.version # 0 => q.version \in DOMAIN events[q.seat]
    BY DEF FullInv, EInv, TablesOK, EveryEventAnnounced
  <2>5. Len(events[job[w].seat]) \in Nat /\ DOMAIN events[job[w].seat] = 1 .. Len(events[job[w].seat])
    BY <2>2
  <2>6. QED
    BY <1>2, <1>3, <2>2, <2>3, <2>4, <2>5
<1>4. ASSUME NEW q \in outbox', NEW x \in outbox'
      PROVE  /\ q.id = x.id => q = x
             /\ q.seat = x.seat /\ 0 < q.version /\ q.version < x.version => q.id < x.id
  <2>1. CASE q \in outbox /\ x \in outbox
    BY <1>2, <2>1 DEF AnnouncedInOrder
  <2>2. CASE q \in outbox /\ x = r
    BY <1>1, <1>2, <2>2
  <2>3. CASE q = r /\ x \in outbox
    BY <1>1, <1>3, <2>3
  <2>4. CASE q = r /\ x = r
    BY <1>2, <2>4
  <2>5. QED
    BY <1>1, <2>1, <2>2, <2>3, <2>4
<1>5. \A q \in outbox' : q.id \in 1 .. serial'
  BY <1>1, <1>2
<1>6. QED
  BY <1>4, <1>5 DEF RowsOK, AnnouncedInOrder

\* The flow of a command's effects; an expiry has no cause.
LEMMA MetaFacts ==
    ASSUME NEW w \in Workers
    PROVE  /\ w \in Handlers => /\ MetaOf(w) = [corr |-> job[w].corr, cause |-> job[w].id]
                                /\ MetaOf(w).cause = job[w].id
           /\ w \notin Handlers => /\ MetaOf(w) = [corr |-> origin[w].corr, cause |-> NoCause]
                                   /\ MetaOf(w).cause = NoCause
BY DEF MetaOf

\* A handler's row is the only one its command causes, for its inbox row was free.
LEMMA InboxCommit ==
    ASSUME FullInv, NEW w \in Workers, NEW m \in Message, NEW r \in OutboxRow,
           CommitsReply(w, m, r) \/ \E e \in Recorded : CommitsEvent(w, m, r, e)
    PROVE  InboxOK'
<1>1. /\ Done(w) /\ IsRowOf(r, w, m) /\ outbox' = outbox \cup {r}
      /\ acked' \subseteq acked \cup inbox' /\ pc[w] = "commit"
  BY RowFacts DEF Done
<1>2. r.seat = job[w].seat /\ r.msg = m /\ r.meta = MetaOf(w)
  BY <1>1 DEF IsRowOf
<1>3. InboxOK /\ JobOK
  BY DEF FullInv, EInv, TablesOK, IInv
<1>4. CASE w \in Handlers
  <2>1. inbox' = inbox \cup {job[w].id} /\ m.hold = job[w].hold
    BY <1>4, WorkerAssumption DEF CommitsReply, CommitsEvent, Replies, Appends
  <2>2. job[w] \in Commands /\ job[w].id \notin inbox
    BY <1>1, <1>3, <1>4 DEF JobOK, FullInv, EInv, WorkerOK, ClaimOK, AfterMark
  <2>3. r.meta = [corr |-> job[w].corr, cause |-> job[w].id] /\ r.meta.cause = job[w].id
    BY <1>2, <1>4, MetaFacts
  <2>4. acked' \subseteq inbox'
    BY <1>1, <1>3, <2>1 DEF InboxOK
  <2>5. ASSUME NEW c \in Commands, c.id \in inbox' PROVE Answered(c)'
    <3>1. CASE c.id \in inbox
      BY <1>1, <1>3, <3>1 DEF InboxOK, Answered
    <3>2. CASE c.id = job[w].id
      <4>1. c = job[w]
        BY <2>2, <3>2, CommandAssumption
      <4>2. r.meta = [corr |-> c.corr, cause |-> c.id] /\ r.msg.hold = c.hold /\ r.seat = c.seat
        BY <1>2, <2>1, <2>3, <4>1
      <4>3. r \in outbox'
        BY <1>1
      <4>4. QED
        BY <4>2, <4>3 DEF Answered
    <3>3. QED
      BY <2>1, <2>5, <3>1, <3>2
  <2>6. \A q \in outbox' : q.meta.cause # NoCause => q.meta.cause \in inbox'
    BY <1>1, <1>3, <2>1, <2>3 DEF InboxOK
  <2>7. ASSUME NEW q \in outbox', NEW x \in outbox', q.meta.cause = x.meta.cause,
               q.meta.cause # NoCause
        PROVE  q = x
    <3>1. \A y \in outbox : y.meta.cause # NoCause => y.meta.cause # r.meta.cause
      BY <1>3, <2>2, <2>3 DEF InboxOK
    <3>2. QED
      BY <1>1, <1>3, <2>7, <3>1 DEF InboxOK
  <2>8. QED
    BY <2>4, <2>5, <2>6, <2>7 DEF InboxOK
<1>5. CASE w \notin Handlers
  <2>1. inbox' = inbox
    BY <1>5 DEF CommitsReply, CommitsEvent, Replies
  <2>2. r.meta.cause = NoCause
    BY <1>2, <1>5, MetaFacts
  <2>3. acked' \subseteq inbox'
    BY <1>1, <1>3, <2>1 DEF InboxOK
  <2>4. \A c \in Commands : c.id \in inbox' => Answered(c)'
    BY <1>1, <1>3, <2>1 DEF InboxOK, Answered
  <2>5. \A q \in outbox' : q.meta.cause # NoCause => q.meta.cause \in inbox'
    BY <1>1, <1>3, <2>1, <2>2 DEF InboxOK
  <2>6. \A q, x \in outbox' : q.meta.cause = x.meta.cause /\ q.meta.cause # NoCause => q = x
    BY <1>1, <1>3, <2>2 DEF InboxOK
  <2>7. QED
    BY <2>3, <2>4, <2>5, <2>6 DEF InboxOK
<1>6. QED
  BY <1>4, <1>5

\* Workers that do not commit keep what is theirs: their command is another one,
\* their id another one, and if they have appended, their stream is another one.
LEMMA OthersCommit ==
    ASSUME FullInv, TypeOK', NEW w \in Workers,
           \/ CommitsSilence(w)
           \/ \E m \in Message, r \in OutboxRow : CommitsReply(w, m, r)
           \/ \E m \in Message, r \in OutboxRow, e \in Recorded : CommitsEvent(w, m, r, e)
    PROVE  PairsOK' /\ \A v \in Workers : WorkerOK(v)'
<1>1. /\ pc[w] = "commit" /\ pc'[w] = "idle" /\ \A v \in Workers \ {w} : Still(v)
      /\ UNCHANGED <<serial, due, now>>
  BY DEF CommitsSilence, CommitsReply, CommitsEvent, Done
<1>2. TypeOK /\ JobOK /\ PairsOK /\ \A v \in Workers : WorkerOK(v)
  BY DEF FullInv, IInv, EInv
<1>3. Handlers \subseteq Workers /\ pc[w] \in AfterMark
  BY <1>1 DEF Workers, AfterMark
<1>4. WorkerOK(w)' /\ ~Drawn(w)' /\ pc'[w] \notin AfterMark
  BY <1>1, OutsideOK
<1>5. \A v \in Workers \ {w} : Drawn(v)' = Drawn(v) /\ Appending(v)' = Appending(v)
  BY <1>1, SameDecision DEF Still, Drawn, Appending
<1>6. PairsOK'
  BY <1>1, <1>2, <1>3, <1>4, <1>5 DEF PairsOK, Still
<1>7. \A t \in Streams :
        /\ Len(events[t]) \in Nat /\ Len(events'[t]) \in Nat
        /\ Len(events[t]) <= Len(events'[t])
        /\ Len(events'[t]) = Len(events[t]) => events'[t] = events[t]
  <2>1. CASE events' = events
    <3>1. \A t \in Streams : Len(events[t]) \in Nat
      BY <1>2 DEF TypeOK
    <3>2. QED
      BY <2>1, <3>1
  <2>2. ASSUME NEW m \in Message, NEW r \in OutboxRow, NEW e \in Recorded, CommitsEvent(w, m, r, e)
        PROVE  \A t \in Streams :
                /\ Len(events[t]) \in Nat /\ Len(events'[t]) \in Nat
                /\ Len(events[t]) <= Len(events'[t])
                /\ Len(events'[t]) = Len(events[t]) => events'[t] = events[t]
    <3>1. /\ job[w].seat \in Streams /\ events \in [Streams -> Seq(Recorded)]
          /\ events' = [events EXCEPT ![job[w].seat] = Append(@, e)]
      BY <2>2, EventFacts DEF FullInv
    <3>2. /\ \A t \in Streams \ {job[w].seat} : events'[t] = events[t]
          /\ Len(events'[job[w].seat]) = Len(events[job[w].seat]) + 1
          /\ \A t \in Streams : Len(events[t]) \in Nat /\ Len(events'[t]) \in Nat
                                  /\ Len(events[t]) <= Len(events'[t])
      BY <3>1, LogGrows
    <3>3. Len(events'[job[w].seat]) # Len(events[job[w].seat])
      BY <3>1, <3>2
    <3>4. QED
      BY <3>2, <3>3
  <2>3. QED
    BY <2>1, <2>2 DEF CommitsSilence, CommitsReply
<1>8. ASSUME NEW v \in Workers, v # w PROVE WorkerOK(v)'
  <2>1. Still(v) /\ WorkerOK(v)
    BY <1>1, <1>2, <1>8
  <2>2. ClaimOK(v)'
    <3> SUFFICES ASSUME v \in Handlers, pc[v] \in AfterMark PROVE job[v].id \notin inbox'
      BY <2>1 DEF ClaimOK, Still
    <3>1. job[v].id \notin inbox
      BY <2>1 DEF WorkerOK, ClaimOK
    <3>2. w \in Handlers => job[v].id # job[w].id
      BY <1>2, <1>3, <1>8 DEF PairsOK
    <3>3. inbox' = inbox \/ (w \in Handlers /\ inbox' = inbox \cup {job[w].id})
      BY DEF CommitsSilence, CommitsReply, CommitsEvent, Replies
    <3>4. QED
      BY <3>1, <3>2, <3>3
  <2>3. FireOK(v)'
    <3> SUFFICES ASSUME v \in Schedulers, pc[v] \in AfterMark
                 PROVE  /\ Genuine(job[v].token, job[v].fireAt) /\ job[v].fireAt <= now
                        /\ job[v].version <= Len(events'[job[v].seat])
      BY <1>1, <2>1 DEF FireOK, Still, Genuine
    <3>1. /\ Genuine(job[v].token, job[v].fireAt) /\ job[v].fireAt <= now
          /\ job[v].version <= Len(events[job[v].seat])
      BY <2>1 DEF WorkerOK, FireOK
    <3>2. job[v].seat \in Streams /\ job[v].version \in Nat
      BY <1>2, WorkerAssumption DEF JobOK, AfterMark, Timer
    <3>3. QED
      BY <1>7, <3>1, <3>2
  <2>4. LoadOK(v)'
    <3> SUFFICES ASSUME pc[v] \in {"append", "enqueue", "commit"}
                 PROVE  /\ v \in Schedulers => job[v].version <= seen[v].version
                        /\ seen[v].version = Len(events'[job[v].seat]) =>
                                origin[v] = LastMeta(events'[job[v].seat])
      BY <2>1 DEF LoadOK, Still
    <3>1. /\ v \in Schedulers => job[v].version <= seen[v].version
          /\ seen[v].version = Len(events[job[v].seat]) =>
                                origin[v] = LastMeta(events[job[v].seat])
      BY <2>1 DEF WorkerOK, LoadOK
    <3>2. seen[v].version <= Len(events[job[v].seat]) /\ seen[v].version \in Nat
      BY <1>2 DEF FullInv, IInv, SeenOK, TypeOK, SeatState
    <3>3. job[v].seat \in Streams
      BY <1>2, JobSeat
    <3>4. seen[v].version = Len(events'[job[v].seat]) =>
            Len(events'[job[v].seat]) = Len(events[job[v].seat])
      BY <1>7, <3>2, <3>3
    <3>5. QED
      BY <1>7, <3>1, <3>3, <3>4
  <2>5. DrawOK(v)'
    <3> SUFFICES ASSUME Drawn(v)
                 PROVE  /\ row[v] \in 1 .. serial
                        /\ \A q \in outbox' : q.id # row[v]
                        /\ Appending(v) =>
                            \A q \in outbox' : q.seat = job[v].seat /\ 0 < q.version => q.id < row[v]
      BY <1>1, <1>5, <1>8, <2>1 DEF DrawOK, Still
    <3>1. /\ row[v] \in 1 .. serial
          /\ \A q \in outbox : q.id # row[v]
          /\ Appending(v) =>
                \A q \in outbox : q.seat = job[v].seat /\ 0 < q.version => q.id < row[v]
      BY <2>1 DEF WorkerOK, DrawOK
    <3>2. CASE CommitsSilence(w)
      BY <3>1, <3>2 DEF CommitsSilence
    <3>3. ASSUME NEW m \in Message, NEW r \in OutboxRow,
                 CommitsReply(w, m, r) \/ \E e \in Recorded : CommitsEvent(w, m, r, e)
          PROVE  /\ \A q \in outbox' : q.id # row[v]
                 /\ Appending(v) =>
                        \A q \in outbox' : q.seat = job[v].seat /\ 0 < q.version => q.id < row[v]
      <4>1. /\ outbox' = outbox \cup {r} /\ Drawn(w) /\ IsRowOf(r, w, m)
            /\ 0 < r.version => Appending(w)
        BY <3>3, RowFacts
      <4>2. r.id # row[v]
        BY <1>2, <1>8, <4>1 DEF PairsOK, IsRowOf
      <4>3. Appending(v) /\ 0 < r.version => r.seat # job[v].seat
        BY <1>8, <4>1 DEF FullInv, IInv, Exclusive, IsRowOf
      <4>4. QED
        BY <3>1, <4>1, <4>2, <4>3
    <3>4. QED
      BY <3>1, <3>2, <3>3
  <2>6. QED
    BY <2>2, <2>3, <2>4, <2>5 DEF WorkerOK
<1>9. QED
  BY <1>4, <1>6, <1>8

\* The row and the event of a commit are the same message.
LEMMA AnnouncedCommit ==
    ASSUME FullInv, NEW w \in Workers, NEW m \in Message, NEW r \in OutboxRow,
           CommitsReply(w, m, r) \/ \E e \in Recorded : CommitsEvent(w, m, r, e)
    PROVE  EveryEventAnnounced'
<1>1. outbox' = outbox \cup {r} /\ IsRowOf(r, w, m)
  BY RowFacts
<1>2. EveryEventAnnounced /\ \A q \in outbox : q.seat \in Streams
  BY DEF FullInv, IInv, EInv, TablesOK, TypeOK, OutboxRow
<1>3. CASE CommitsReply(w, m, r)
  <2>1. events' = events /\ r.version = 0
    BY <1>3 DEF CommitsReply, Replies, IsRowOf
  <2>2. QED
    BY <1>1, <1>2, <2>1 DEF EveryEventAnnounced
<1>4. ASSUME NEW e \in Recorded, CommitsEvent(w, m, r, e) PROVE EveryEventAnnounced'
  <2> DEFINE s == job[w].seat
             n == Len(events[s])
  <2>1. /\ s \in Streams /\ events \in [Streams -> Seq(Recorded)] /\ r.version = n + 1
        /\ events' = [events EXCEPT ![s] = Append(@, e)]
    BY <1>4, EventFacts DEF FullInv
  <2>2. /\ n + 1 \in DOMAIN events'[s] /\ events'[s][n + 1] = e
        /\ \A t \in Streams : \A i \in DOMAIN events[t] :
                i \in DOMAIN events'[t] /\ events'[t][i] = events[t][i]
        /\ \A t \in Streams : \A i \in DOMAIN events'[t] :
                i \in DOMAIN events[t] \/ (t = s /\ i = n + 1)
    BY <2>1, LogGrows, SMTT(40)
  <2>3. e = [msg |-> r.msg, meta |-> r.meta] /\ r.seat = s
    <3>1. e.msg = r.msg /\ e.meta = r.meta /\ r.seat = s
      BY <1>4 DEF CommitsEvent, IsRowOf
    <3>2. e = [msg |-> e.msg, meta |-> e.meta]
      BY DEF Recorded
    <3>3. QED
      BY <3>1, <3>2
  <2>4. ASSUME NEW t \in Streams, NEW i \in DOMAIN events'[t]
        PROVE  \E q \in outbox' : q.seat = t /\ q.version = i
    <3>1. CASE i \in DOMAIN events[t]
      BY <1>1, <1>2, <3>1 DEF EveryEventAnnounced
    <3>2. CASE t = s /\ i = n + 1
      BY <1>1, <2>1, <2>3, <3>2
    <3>3. QED
      BY <2>2, <2>4, <3>1, <3>2
  <2>5. ASSUME NEW q \in outbox', q.version # 0
        PROVE  /\ q.version \in DOMAIN events'[q.seat]
               /\ events'[q.seat][q.version] = [msg |-> q.msg, meta |-> q.meta]
    <3>1. CASE q \in outbox
      <4>1. /\ q.version \in DOMAIN events[q.seat] /\ q.seat \in Streams
            /\ events[q.seat][q.version] = [msg |-> q.msg, meta |-> q.meta]
        BY <1>2, <2>5, <3>1 DEF EveryEventAnnounced
      <4>2. QED
        BY <2>2, <4>1
    <3>2. CASE q = r
      BY <2>1, <2>2, <2>3, <3>2
    <3>3. QED
      BY <1>1, <2>5, <3>1, <3>2
  <2>6. QED
    BY <2>4, <2>5 DEF EveryEventAnnounced
<1>5. QED
  BY <1>3, <1>4

\* Two deadlines of one hold are the same.
LEMMA OneDeadline ==
    ASSUME NEW hold, NEW a, NEW b, Genuine(hold, a), Genuine(hold, b)
    PROVE  a = b
<1>1. PICK c \in Commands : c.type = "HoldSeat" /\ c.hold = hold /\ AsTime(c.expires) = a
  BY DEF Genuine
<1>2. PICK d \in Commands : d.type = "HoldSeat" /\ d.hold = hold /\ AsTime(d.expires) = b
  BY DEF Genuine
<1>3. c.expires = d.expires
  BY <1>1, <1>2, DeadlineAssumption
<1>4. QED
  BY <1>1, <1>2, <1>3

\* The timer of a SeatHeld has the deadline and the version of the event.
LEMMA TimersCommit ==
    ASSUME FullInv, NEW w \in Workers,
           \/ CommitsSilence(w)
           \/ \E m \in Message, r \in OutboxRow : CommitsReply(w, m, r)
           \/ \E m \in Message, r \in OutboxRow, e \in Recorded : CommitsEvent(w, m, r, e)
    PROVE  TimersOK'
<1>1. UNCHANGED <<due, now>> /\ pc[w] = "commit"
  BY DEF CommitsSilence, CommitsReply, CommitsEvent, Done
<1>2. TimersOK /\ TypeOK /\ JobOK
  BY DEF FullInv, IInv, EInv, TablesOK
<1>3. \A hold, at : Genuine(hold, at)' <=> Genuine(hold, at)
  BY DEF Genuine
<1>4. CASE events' = events /\ timers' \subseteq timers
  BY <1>1, <1>2, <1>3, <1>4 DEF TimersOK
<1>5. ASSUME NEW m \in Message, NEW r \in OutboxRow, NEW e \in Recorded, CommitsEvent(w, m, r, e)
      PROVE  TimersOK'
  <2> DEFINE s == job[w].seat
  <2>1. /\ s \in Streams /\ events \in [Streams -> Seq(Recorded)]
        /\ events' = [events EXCEPT ![s] = Append(@, e)]
        /\ seen[w].version = Len(events[s])
    BY <1>5, EventFacts DEF FullInv
  <2>2. /\ events'[s][Len(events[s]) + 1] = e /\ Len(events'[s]) = Len(events[s]) + 1
        /\ \A t \in Streams : \A i \in DOMAIN events[t] :
                i \in DOMAIN events'[t] /\ events'[t][i] = events[t][i]
        /\ \A t \in Streams : \A i \in DOMAIN events'[t] :
                i \in DOMAIN events[t] \/ (t = s /\ i = Len(events[s]) + 1)
        /\ \A t \in Streams :
            Len(events[t]) \in Nat /\ Len(events'[t]) \in Nat /\ Len(events[t]) <= Len(events'[t])
    BY <2>1, LogGrows
  <2>3. m.type = "SeatHeld" => Genuine(m.hold, AsTime(m.expires))
    <3> SUFFICES ASSUME m.type = "SeatHeld" PROVE Genuine(m.hold, AsTime(m.expires))
      OBVIOUS
    <3>1. /\ w \in Handlers /\ job[w].type = "HoldSeat"
          /\ m.hold = job[w].hold /\ m.expires = job[w].expires
      BY <1>5 DEF CommitsEvent, Appends
    <3>2. job[w] \in Commands
      BY <1>1, <1>2, <3>1 DEF JobOK
    <3>3. QED
      BY <3>1, <3>2 DEF Genuine
  <2>4. ASSUME NEW t \in timers' PROVE t.version <= Len(events'[t.seat]) /\ Genuine(t.token, t.fireAt)
    <3>1. CASE t \in timers
      <4>1. t.version <= Len(events[t.seat]) /\ Genuine(t.token, t.fireAt)
        BY <1>2, <3>1 DEF TimersOK
      <4>2. t.seat \in Streams /\ t.version \in Nat
        BY <1>2, <3>1 DEF TypeOK, Timer
      <4>3. QED
        BY <2>2, <4>1, <4>2
    <3>2. CASE t \notin timers
      <4>1. w \in Handlers /\ t \in ScheduledTimers(w)
        BY <1>5, <2>4, <3>2 DEF CommitsEvent
      <4>2. m.type = "SeatHeld" /\ IsTimerOf(t, w, m)
        BY <1>5, <4>1 DEF CommitsEvent, Appends
      <4>3. t.seat = s /\ t.version = Len(events[s]) + 1
        BY <2>1, <4>2 DEF IsTimerOf
      <4>4. Genuine(t.token, t.fireAt)
        BY <2>3, <4>2 DEF IsTimerOf
      <4>5. QED
        BY <2>1, <2>2, <4>3, <4>4
    <3>3. QED
      BY <3>1, <3>2
  <2>5. ASSUME NEW t \in Streams, NEW i \in DOMAIN events'[t], events'[t][i].msg.type = "SeatHeld"
        PROVE  Genuine(events'[t][i].msg.hold, AsTime(events'[t][i].msg.expires))
    <3>1. CASE i \in DOMAIN events[t]
      BY <1>2, <2>2, <2>5, <3>1 DEF TimersOK
    <3>2. CASE t = s /\ i = Len(events[s]) + 1
      <4>1. events'[t][i] = e /\ e.msg = m
        BY <1>5, <2>2, <3>2 DEF CommitsEvent
      <4>2. QED
        BY <2>3, <2>5, <4>1
    <3>3. QED
      BY <2>2, <2>5, <3>1, <3>2
  <2>6. QED
    BY <1>1, <1>2, <1>3, <2>4, <2>5 DEF TimersOK
<1>6. QED
  BY <1>4, <1>5 DEF CommitsSilence, CommitsReply

\* A seat that a commit leaves held has its timer: the one scheduled with the
\* hold, or the one it had.  A scheduler that found nothing to expire has seen
\* the SeatHeld of its timer, so that was not the live one.
LEMMA StrandedCommit ==
    ASSUME FullInv, NEW w \in Workers,
           \/ CommitsSilence(w)
           \/ \E m \in Message, r \in OutboxRow : CommitsReply(w, m, r)
           \/ \E m \in Message, r \in OutboxRow, e \in Recorded : CommitsEvent(w, m, r, e)
    PROVE  HoldNeverStranded'
<1>1. HoldNeverStranded /\ TypeOK /\ JobOK /\ VersionOK
  BY DEF FullInv, IInv, EInv, TablesOK
<1>2. CASE CommitsSilence(w)
  <2> SUFFICES ASSUME NEW s \in Streams, Fold[events[s]].status = "held"
               PROVE  [seat |-> s, version |-> Fold[events[s]].version,
                       fireAt |-> Fold[events[s]].expires, token |-> Fold[events[s]].hold] # job[w]
    BY <1>1, <1>2 DEF CommitsSilence, HoldNeverStranded
  <2> DEFINE t == [seat |-> s, version |-> Fold[events[s]].version,
                   fireAt |-> Fold[events[s]].expires, token |-> Fold[events[s]].hold]
  <2>1. SUFFICES ASSUME t = job[w] PROVE FALSE
    OBVIOUS
  <2>2. /\ job[w].seat = s /\ job[w].version = Fold[events[s]].version
        /\ job[w].token = Fold[events[s]].hold
    BY <2>1
  <2>3. pc[w] = "commit" /\ w \in Schedulers /\ ~LiveHold(seen[w], job[w].token)
    BY <1>2 DEF CommitsSilence, Done, Silent
  <2>4. /\ Fold[events[s]].version = Len(events[s]) /\ Len(events[s]) \in Nat
        /\ seen[w].version \in Nat
    BY <1>1 DEF VersionOK, TypeOK, SeatState
  <2>5. job[w].version <= seen[w].version
    BY <2>3 DEF FullInv, EInv, WorkerOK, LoadOK
  <2>6. /\ seen[w].version <= Len(events[s])
        /\ seen[w].version = Len(events[s]) => seen[w] = Fold[events[s]]
    BY <2>2, <2>3 DEF FullInv, IInv, SeenOK
  <2>7. seen[w] = Fold[events[s]]
    BY <2>2, <2>4, <2>5, <2>6
  <2>8. QED
    BY <2>2, <2>3, <2>7 DEF LiveHold
<1>3. ASSUME NEW m \in Message, NEW r \in OutboxRow, CommitsReply(w, m, r)
      PROVE  HoldNeverStranded'
  BY <1>1, <1>3 DEF CommitsReply, HoldNeverStranded
<1>4. ASSUME NEW m \in Message, NEW r \in OutboxRow, NEW e \in Recorded, CommitsEvent(w, m, r, e)
      PROVE  HoldNeverStranded'
  <2> DEFINE s == job[w].seat
  <2>1. /\ s \in Streams /\ events \in [Streams -> Seq(Recorded)]
        /\ events' = [events EXCEPT ![s] = Append(@, e)]
        /\ seen[w].version = Len(events[s]) /\ seen[w] = Fold[events[s]]
        /\ Fold[events'[s]] = Apply(Fold[events[s]], m)
    BY <1>4, EventFacts DEF FullInv
  <2>2. \A t \in Streams \ {s} : events'[t] = events[t]
    BY <2>1, LogGrows
  <2>3. ASSUME NEW t \in Streams, t # s, Fold[events'[t]].status = "held"
        PROVE  [seat |-> t, version |-> Fold[events'[t]].version,
                fireAt |-> Fold[events'[t]].expires, token |-> Fold[events'[t]].hold] \in timers'
    <3> DEFINE x == [seat |-> t, version |-> Fold[events'[t]].version,
                fireAt |-> Fold[events'[t]].expires, token |-> Fold[events'[t]].hold]
    <3>1. x \in timers
      BY <1>1, <2>2, <2>3 DEF HoldNeverStranded
    <3>2. x.seat = t
      OBVIOUS
    <3> HIDE DEF x
    <3>3. x # job[w]
      BY <2>3, <3>2
    <3>4. x \in timers'
      BY <1>4, <3>1, <3>3 DEF CommitsEvent
    <3>5. QED
      BY <3>4 DEF x
  <2>4. ASSUME Fold[events'[s]].status = "held"
        PROVE  [seat |-> s, version |-> Fold[events'[s]].version,
                fireAt |-> Fold[events'[s]].expires, token |-> Fold[events'[s]].hold] \in timers'
    <3>1. /\ m.type = "SeatHeld" /\ Fold[events'[s]].version = seen[w].version + 1
          /\ Fold[events'[s]].expires = AsTime(m.expires) /\ Fold[events'[s]].hold = m.hold
      BY <2>1, <2>4 DEF Apply
    <3>2. w \in Handlers /\ \E t \in Timer : ScheduledTimers(w) = {t} /\ IsTimerOf(t, w, m)
      BY <1>4, <3>1 DEF CommitsEvent, Appends
    <3>3. PICK t \in Timer : ScheduledTimers(w) = {t} /\ IsTimerOf(t, w, m)
      BY <3>2
    <3>4. t = [seat |-> s, version |-> Fold[events'[s]].version,
               fireAt |-> Fold[events'[s]].expires, token |-> Fold[events'[s]].hold]
      BY <3>1, <3>3 DEF IsTimerOf
    <3>5. t \in timers'
      BY <1>4, <3>2, <3>3 DEF CommitsEvent
    <3>6. QED
      BY <3>4, <3>5
  <2>5. QED
    BY <2>3, <2>4 DEF HoldNeverStranded
<1>5. QED
  BY <1>2, <1>3, <1>4

\* An expiry ends the hold of the last event, carries its flow, and its timer
\* was due: a hold has one deadline, whichever of its timers fired.
LEMMA ExpiryCommit ==
    ASSUME FullInv, NEW w \in Workers,
           \/ CommitsSilence(w)
           \/ \E m \in Message, r \in OutboxRow : CommitsReply(w, m, r)
           \/ \E m \in Message, r \in OutboxRow, e \in Recorded : CommitsEvent(w, m, r, e)
    PROVE  ExpiryReachesHolder'
<1>1. now' = now /\ pc[w] = "commit"
  BY DEF CommitsSilence, CommitsReply, CommitsEvent, Done
<1>2. ExpiryReachesHolder /\ TypeOK /\ TimersOK /\ WorkerOK(w)
  BY DEF FullInv, IInv, EInv, TablesOK
<1>3. CASE events' = events
  BY <1>1, <1>2, <1>3 DEF ExpiryReachesHolder
<1>4. ASSUME NEW m \in Message, NEW r \in OutboxRow, NEW e \in Recorded, CommitsEvent(w, m, r, e)
      PROVE  ExpiryReachesHolder'
  <2> DEFINE s == job[w].seat
             n == Len(events[s])
  <2>1. /\ s \in Streams /\ events \in [Streams -> Seq(Recorded)]
        /\ events' = [events EXCEPT ![s] = Append(@, e)]
        /\ seen[w].version = n /\ seen[w] = Fold[events[s]]
    BY <1>4, EventFacts DEF FullInv
  <2>2. /\ n \in Nat /\ events'[s][n + 1] = e /\ DOMAIN events[s] = 1 .. n
        /\ \A t \in Streams : \A i \in DOMAIN events[t] :
                i \in DOMAIN events'[t] /\ events'[t][i] = events[t][i]
        /\ \A t \in Streams : \A i \in DOMAIN events'[t] :
                i \in DOMAIN events[t] \/ (t = s /\ i = n + 1)
    BY <2>1, LogGrows
  <2>3. ASSUME NEW t \in Streams, NEW i \in DOMAIN events[t],
               events'[t][i].msg.type = "SeatHoldExpired"
        PROVE  /\ i > 1
               /\ events'[t][i].meta = [corr |-> events'[t][i - 1].meta.corr, cause |-> NoCause]
               /\ AsTime(events'[t][i - 1].msg.expires) <= now
    <3>1. events'[t][i] = events[t][i]
      BY <2>2
    <3>2. /\ i > 1
          /\ events[t][i].meta = [corr |-> events[t][i - 1].meta.corr, cause |-> NoCause]
          /\ AsTime(events[t][i - 1].msg.expires) <= now
      BY <1>2, <2>3, <3>1 DEF ExpiryReachesHolder
    <3>3. i - 1 \in DOMAIN events[t]
      <4>1. events[t] \in Seq(Recorded)
        BY <2>1
      <4>2. QED
        BY <3>2, <4>1
    <3>4. events'[t][i - 1] = events[t][i - 1]
      BY <2>2, <3>3
    <3>5. QED
      BY <3>1, <3>2, <3>4
  <2>4. ASSUME m.type = "SeatHoldExpired"
        PROVE  /\ n + 1 > 1 /\ events'[s][(n + 1) - 1] = events[s][n]
               /\ e.meta = [corr |-> events[s][n].meta.corr, cause |-> NoCause]
               /\ AsTime(events[s][n].msg.expires) <= now
    <3>1. w \in Schedulers /\ w \notin Handlers /\ m.hold = job[w].token /\ Follows(seen[w], m)
      BY <1>4, <2>4 DEF CommitsEvent, Appends
    <3>2. Fold[events[s]].status = "held" /\ Fold[events[s]].hold = job[w].token
      BY <2>1, <2>4, <3>1 DEF Follows
    <3>3. events[s] \in Seq(Recorded) /\ events[s] # <<>>
      BY <2>1, <3>2, FoldEmpty DEF FreshSeat
    <3>4. n \in 1 .. n /\ n + 1 > 1 /\ (n + 1) - 1 = n
      BY <2>2, <3>3, EmptySeq
    <3>5. events'[s][n] = events[s][n]
      BY <2>1, <2>2, <3>4
    <3>6. events[s][n].msg.type = "SeatHeld" /\ events[s][n].msg.hold = job[w].token
      BY <3>2, <3>3, FoldLast
    <3>7. origin[w] = events[s][n].meta
      <4>1. origin[w] = LastMeta(events[s])
        BY <1>1, <1>2, <2>1 DEF WorkerOK, LoadOK
      <4>2. QED
        BY <3>3, <4>1 DEF LastMeta
    <3>8. e.meta = [corr |-> events[s][n].meta.corr, cause |-> NoCause]
      BY <1>4, <3>1, <3>7, MetaFacts DEF CommitsEvent
    <3>9. AsTime(events[s][n].msg.expires) = job[w].fireAt /\ job[w].fireAt <= now
      <4>1. Genuine(job[w].token, job[w].fireAt) /\ job[w].fireAt <= now
        BY <1>1, <1>2, <3>1 DEF WorkerOK, FireOK, AfterMark
      <4>2. Genuine(events[s][n].msg.hold, AsTime(events[s][n].msg.expires))
        BY <1>2, <2>1, <2>2, <3>4, <3>6 DEF TimersOK
      <4>3. QED
        BY <3>6, <4>1, <4>2, OneDeadline
    <3>10. QED
      BY <3>4, <3>5, <3>8, <3>9
  <2>5. ASSUME NEW t \in Streams, NEW i \in DOMAIN events'[t],
               events'[t][i].msg.type = "SeatHoldExpired"
        PROVE  /\ i > 1
               /\ events'[t][i].meta = [corr |-> events'[t][i - 1].meta.corr, cause |-> NoCause]
               /\ AsTime(events'[t][i - 1].msg.expires) <= now
    <3>1. CASE i \in DOMAIN events[t]
      BY <2>3, <2>5, <3>1
    <3>2. CASE t = s /\ i = n + 1
      <4>1. events'[t][i] = e /\ e.msg = m
        BY <1>4, <2>2, <3>2 DEF CommitsEvent
      <4>2. m.type = "SeatHoldExpired"
        BY <2>5, <4>1
      <4>3. events'[t][i - 1] = events[s][n] /\ i > 1
        BY <2>4, <3>2, <4>2
      <4>4. QED
        BY <2>4, <4>1, <4>2, <4>3
    <3>3. QED
      BY <2>2, <2>5, <3>1, <3>2
  <2>6. QED
    BY <1>1, <2>5 DEF ExpiryReachesHolder
<1>5. QED
  BY <1>3, <1>4 DEF CommitsSilence, CommitsReply

\* A commit, acknowledged or not, keeps the invariant.
LEMMA CommitEInv ==
    ASSUME FullInv, TypeOK', NEW w \in Workers,
           Commit(w) \/ (w \in Handlers /\ CommitUnacknowledged(w))
    PROVE  EInv'
<1>1. CommitTx(w) /\ acked' \subseteq acked \cup inbox'
  BY DEF Commit, CommitUnacknowledged, CommitTx
<1>2. TypeOK /\ JobOK /\ TablesOK
  BY DEF FullInv, IInv, EInv
<1>3. \/ CommitsSilence(w)
      \/ \E m \in Message, r \in OutboxRow : CommitsReply(w, m, r)
      \/ \E m \in Message, r \in OutboxRow, e \in Recorded : CommitsEvent(w, m, r, e)
  BY <1>1, <1>2, CommitCases
<1>4. PairsOK' /\ \A v \in Workers : WorkerOK(v)'
  BY <1>3, OthersCommit
<1>5. TimersOK' /\ HoldNeverStranded' /\ ExpiryReachesHolder'
  BY <1>3, TimersCommit, StrandedCommit, ExpiryCommit
<1>6. InboxOK' /\ RowsOK' /\ EveryEventAnnounced'
  <2>1. CASE CommitsSilence(w)
    <3>1. UNCHANGED <<events, outbox, inbox, serial>> /\ acked' \subseteq acked \cup inbox
      BY <2>1 DEF CommitsSilence, Done
    <3>2. InboxOK /\ RowsOK /\ EveryEventAnnounced
      BY <1>2 DEF TablesOK
    <3>3. InboxOK'
      BY <3>1, <3>2 DEF InboxOK, Answered
    <3>4. RowsOK' /\ EveryEventAnnounced'
      BY <3>1, <3>2 DEF RowsOK, AnnouncedInOrder, EveryEventAnnounced
    <3>5. QED
      BY <3>3, <3>4
  <2>2. ASSUME NEW m \in Message, NEW r \in OutboxRow,
               CommitsReply(w, m, r) \/ \E e \in Recorded : CommitsEvent(w, m, r, e)
        PROVE  InboxOK' /\ RowsOK' /\ EveryEventAnnounced'
    BY <2>2, InboxCommit, RowsCommit, AnnouncedCommit
  <2>3. QED
    BY <1>3, <2>1, <2>2
<1>7. QED
  BY <1>4, <1>5, <1>6 DEF EInv, TablesOK

-----------------------------------------------------------------------------
(* The theorems.                                                           *)

\* Empty tables satisfy the invariant.
LEMMA InitEInv == Init => EInv
<1> SUFFICES ASSUME Init PROVE EInv
  OBVIOUS
<1>1. /\ events = [s \in Streams |-> <<>>] /\ inbox = {} /\ timers = {} /\ outbox = {}
      /\ acked = {} /\ due = [s \in Schedulers |-> {}]
  BY DEF Init
<1>2. \A s \in Streams : events[s] = <<>> /\ DOMAIN events[s] = {}
  BY <1>1
<1>3. InboxOK /\ TimersOK /\ RowsOK
  BY <1>1, <1>2 DEF InboxOK, TimersOK, RowsOK, AnnouncedInOrder
<1>4. EveryEventAnnounced /\ ExpiryReachesHolder
  BY <1>1, <1>2 DEF EveryEventAnnounced, ExpiryReachesHolder
<1>5. HoldNeverStranded
  <2>1. \A s \in Streams : Fold[events[s]].status # "held"
    BY <1>2, FoldEmpty DEF FreshSeat
  <2>2. QED
    BY <2>1 DEF HoldNeverStranded
<1>6. \A w \in Workers : pc[w] = "idle"
  BY DEF Init
<1>7. PairsOK /\ \A w \in Workers : WorkerOK(w)
  BY <1>6 DEF PairsOK, WorkerOK, ClaimOK, FireOK, LoadOK, DrawOK, Drawn, AfterMark, Workers
<1>8. QED
  BY <1>3, <1>4, <1>5, <1>7 DEF EInv, TablesOK

\* Every step keeps it.
LEMMA NextEInv == FullInv /\ [Next]_vars => FullInv'
<1> SUFFICES ASSUME FullInv, [Next]_vars PROVE FullInv'
  OBVIOUS
<1>1. IInv'
  BY NextIInv DEF FullInv
<1>2. TypeOK' /\ JobOK'
  BY <1>1 DEF IInv
<1>3. EInv' => FullInv'
  BY <1>1 DEF FullInv
<1>4. ASSUME NEW h \in Handlers, NEW c \in Commands, Deliver(h, c) PROVE EInv'
  BY <1>2, <1>4, CalmActions
<1>5. ASSUME NEW h \in Handlers, HandlerStep(h) PROVE EInv'
  BY <1>2, <1>5, CalmActions, MarkConsumedStep DEF HandlerStep
<1>6. ASSUME NEW h \in Handlers, CommitUnacknowledged(h) PROVE EInv'
  BY <1>2, <1>6, CommitEInv DEF Workers
<1>7. ASSUME NEW s \in Schedulers, SchedulerStep(s) \/ Prune(s) \/ LoseBatch(s) PROVE EInv'
  BY <1>2, <1>7, CalmActions, MarkFiredStep DEF SchedulerStep
<1>8. ASSUME NEW w \in Workers, TxStep(w) PROVE EInv'
  <2>1. CASE LoadSeat(w) \/ AppendSeat(w) \/ Enqueue(w)
    BY <1>2, <2>1, LoadSeatStep, AppendSeatStep, EnqueueStep
  <2>2. CASE VersionConflict(w) \/ EnqueueInvalid(w)
    BY <1>2, <2>2, CalmActions
  <2>3. CASE Commit(w)
    BY <1>2, <2>3, CommitEInv
  <2>4. QED
    BY <1>8, <2>1, <2>2, <2>3 DEF TxStep
<1>9. ASSUME NEW w \in Workers, Abort(w) PROVE EInv'
  BY <1>2, <1>9, CalmActions
<1>10. ASSUME Advance \/ UNCHANGED vars PROVE EInv'
  BY <1>2, <1>10, CalmActions
<1>11. EInv'
  BY <1>4, <1>5, <1>6, <1>7, <1>8, <1>9, <1>10 DEF Next
<1>12. QED
  BY <1>3, <1>11

\* The invariant holds of every state of every behaviour.
THEOREM EffectsInductive == Spec => []FullInv
<1>1. Init => FullInv
  BY InitIInv, InitEInv DEF FullInv
<1>2. QED
  BY <1>1, NextEInv, PTL DEF Spec

\* A command takes effect once: however often it is delivered, whichever
\* handlers race for it and whether or not its commit was acknowledged, one row
\* answers it and at most one event names it as its cause (inbox.MarkConsumed
\* in the transaction of applyInOneTransaction).
THEOREM Once == Spec => []AppliedOnce
<1>1. FullInv => AppliedOnce
  <2> SUFFICES ASSUME FullInv PROVE AppliedOnce
    OBVIOUS
  <2>1. InboxOK /\ EveryEventAnnounced
    BY DEF FullInv, EInv, TablesOK
  <2>2. \A s \in Streams : \A v \in DOMAIN events[s] : \E r \in outbox :
            r.seat = s /\ r.version = v /\ events[s][v].meta = r.meta
    <3> SUFFICES ASSUME NEW s \in Streams, NEW v \in DOMAIN events[s]
                 PROVE  \E r \in outbox :
                            r.seat = s /\ r.version = v /\ events[s][v].meta = r.meta
      OBVIOUS
    <3>1. PICK r \in outbox : r.seat = s /\ r.version = v
      BY <2>1 DEF EveryEventAnnounced
    <3>2. v # 0
      <4>1. events[s] \in Seq(Recorded)
        BY DEF FullInv, IInv, TypeOK
      <4>2. QED
        BY <4>1
    <3>3. events[s][v] = [msg |-> r.msg, meta |-> r.meta]
      BY <2>1, <3>1, <3>2 DEF EveryEventAnnounced
    <3>4. QED
      BY <3>1, <3>3
  <2>3. ASSUME NEW s \in Streams, NEW t \in Streams,
               NEW i \in DOMAIN events[s], NEW j \in DOMAIN events[t],
               events[s][i].meta.cause = events[t][j].meta.cause,
               events[s][i].meta.cause # NoCause
        PROVE  s = t /\ i = j
    <3>1. PICK q \in outbox : q.seat = s /\ q.version = i /\ events[s][i].meta = q.meta
      BY <2>2
    <3>2. PICK r \in outbox : r.seat = t /\ r.version = j /\ events[t][j].meta = r.meta
      BY <2>2
    <3>3. q = r
      BY <2>1, <2>3, <3>1, <3>2 DEF InboxOK
    <3>4. QED
      BY <3>1, <3>2, <3>3
  <2>4. QED
    BY <2>1, <2>3 DEF AppliedOnce, InboxOK
<1>2. QED
  BY <1>1, EffectsInductive, PTL

\* When Handle returns nil, after a first delivery or after a duplicate, the
\* outbox has the command's answer (commands.go Handle, inbox.MarkConsumed).
THEOREM Answers == Spec => []AckedIsAnswered
<1>1. FullInv => AckedIsAnswered
  <2> SUFFICES ASSUME FullInv PROVE AckedIsAnswered
    OBVIOUS
  <2>1. InboxOK
    BY DEF FullInv, EInv, TablesOK
  <2>2. QED
    BY <2>1 DEF InboxOK, Answered, AckedIsAnswered
<1>2. QED
  BY <1>1, EffectsInductive, PTL

\* Events and their announcements commit together: one row for each event, and
\* no row for an event that is not there (AppendSeat and Enqueue share one
\* transaction).
THEOREM Announced == Spec => []EveryEventAnnounced
<1>1. FullInv => EveryEventAnnounced
  BY DEF FullInv, EInv, TablesOK
<1>2. QED
  BY <1>1, EffectsInductive, PTL

\* Row ids, drawn before the commit, follow the versions of a seat's stream: a
\* writer draws its id after its event has the version, and the next version
\* is written by one who has seen it (eventstore.Append, outbox.Enqueue).
THEOREM AnnouncedOrder == Spec => []AnnouncedInOrder
<1>1. FullInv => AnnouncedInOrder
  BY DEF FullInv, EInv, TablesOK, RowsOK
<1>2. QED
  BY <1>1, EffectsInductive, PTL

\* A held seat has its timer pending, with its deadline, version and token
\* (scheduleTimers in the hold's transaction, MarkFired in the expiry's).
THEOREM NeverStranded == Spec => []HoldNeverStranded
<1>1. FullInv => HoldNeverStranded
  BY DEF FullInv, EInv, TablesOK
<1>2. QED
  BY <1>1, EffectsInductive, PTL

\* An expiry is told to the flow of the hold it ends, and never before the
\* deadline of that hold (Expirer.Fire, timers.Due).
THEOREM ExpiryTold == Spec => []ExpiryReachesHolder
<1>1. FullInv => ExpiryReachesHolder
  BY DEF FullInv, EInv, TablesOK
<1>2. QED
  BY <1>1, EffectsInductive, PTL

-----------------------------------------------------------------------------
(* The refinement of SeatReservation.                                      *)

\* What the abstract specification sees of the log.
Holding == [s \in Streams |-> HolderOf(s)]

\* A seat that is free has no hold and no deadline left.
LEMMA FreeIsFree ==
    ASSUME NEW rs \in Seq(Recorded), Fold[rs].status = "free"
    PROVE  Fold[rs].hold = NoHold /\ Fold[rs].expires = ZeroTime
<1>1. CASE rs = <<>>
  BY <1>1, FoldEmpty DEF FreshSeat
<1>2. CASE rs # <<>>
  <2>1. Fold[rs] = Apply(Fold[SubSeq(rs, 1, Len(rs) - 1)], rs[Len(rs)].msg)
    BY <1>2, FoldDef
  <2>2. QED
    BY <2>1 DEF Apply
<1>3. QED
  BY <1>1, <1>2

\* A deadline a saga chose is a time, and the absent one is the epoch: neither
\* is the zero time a free seat has.
LEMMA GenuineTime ==
    ASSUME NEW hold, NEW at, Genuine(hold, at)
    PROVE  at \in Nat /\ at # ZeroTime
<1>1. PICK c \in Commands : c.type = "HoldSeat" /\ c.hold = hold /\ AsTime(c.expires) = at
  BY DEF Genuine
<1>2. c.expires \in Nat \cup {NoDeadline}
  BY CommandAssumption
<1>3. QED
  BY <1>1, <1>2 DEF AsTime, NoDeadline, Epoch, ZeroTime

\* A held seat has a deadline its saga chose, so it is not the free seat.
LEMMA HeldIsTaken ==
    ASSUME FullInv, NEW s \in Streams, Fold[events[s]].status = "held"
    PROVE  /\ Genuine(Fold[events[s]].hold, Fold[events[s]].expires)
           /\ HolderOf(s) # FreeSeat
<1> DEFINE t == [seat |-> s, version |-> Fold[events[s]].version,
                 fireAt |-> Fold[events[s]].expires, token |-> Fold[events[s]].hold]
<1>1. t \in timers /\ TimersOK
  BY DEF FullInv, EInv, TablesOK, HoldNeverStranded
<1>2. t.token = Fold[events[s]].hold /\ t.fireAt = Fold[events[s]].expires
  OBVIOUS
<1> HIDE DEF t
<1>3. Genuine(Fold[events[s]].hold, Fold[events[s]].expires)
  BY <1>1, <1>2 DEF TimersOK
<1>4. Fold[events[s]].expires # ZeroTime
  BY <1>3, GenuineTime
<1>5. HolderOf(s) # FreeSeat
  <2>1. HolderOf(s).until # FreeSeat.until
    BY <1>4, SMTT(40) DEF HolderOf, FreeSeat
  <2>2. QED
    BY <2>1
<1>6. QED
  BY <1>3, <1>5

\* An appended event changes the holder of its seat, and of no other.
LEMMA HoldingCommit ==
    ASSUME IInv, NEW w \in Workers, NEW m \in Message, NEW r, NEW e \in Recorded,
           CommitsEvent(w, m, r, e)
    PROVE  Holding' = [Holding EXCEPT ![job[w].seat] =
                          IF m.type = "SeatHeld"
                          THEN [hold |-> m.hold, until |-> AsTime(m.expires)]
                          ELSE FreeSeat]
<1> DEFINE s == job[w].seat
<1>1. /\ s \in Streams /\ events \in [Streams -> Seq(Recorded)]
      /\ events' = [events EXCEPT ![s] = Append(@, e)]
      /\ Fold[events'[s]] = Apply(Fold[events[s]], m)
  BY EventFacts
<1>2. \A t \in Streams \ {s} : events'[t] = events[t]
  BY <1>1, LogGrows
<1>3. Holding' = [t \in Streams |-> [hold |-> Fold[events'[t]].hold, until |-> Fold[events'[t]].expires]]
  BY DEF Holding, HolderOf
<1>4. Holding = [t \in Streams |-> [hold |-> Fold[events[t]].hold, until |-> Fold[events[t]].expires]]
  BY DEF Holding, HolderOf
<1>5. [hold |-> Fold[events'[s]].hold, until |-> Fold[events'[s]].expires]
        = IF m.type = "SeatHeld" THEN [hold |-> m.hold, until |-> AsTime(m.expires)] ELSE FreeSeat
  BY <1>1 DEF Apply, FreeSeat
<1> HIDE DEF s
<1>6. QED
  BY <1>1, <1>2, <1>3, <1>4, <1>5 DEF s

\* Empty streams are free seats.
LEMMA ReservationInit == Init => Reservation!Init
<1> SUFFICES ASSUME Init PROVE Reservation!Init
  OBVIOUS
<1>1. \A s \in Streams : events[s] = <<>>
  BY DEF Init
<1>2. \A s \in Streams : HolderOf(s) = FreeSeat
  BY <1>1, FoldEmpty DEF HolderOf, FreshSeat, FreeSeat
<1>3. inbox = {} /\ now = 1
  BY DEF Init
<1>4. QED
  BY <1>2, <1>3 DEF Reservation!Init

\* Only a commit and the clock change what the abstract specification sees.
LEMMA ReservationCalm ==
    ASSUME UNCHANGED <<events, inbox, now>>
    PROVE  UNCHANGED Reservation!vars
BY DEF Reservation!vars, HolderOf

\* The commit of an event takes a seat, gives it back, or lets its hold run out.
LEMMA ReservationEvent ==
    ASSUME FullInv, NEW w \in Workers, NEW m \in Message, NEW r \in OutboxRow, NEW e \in Recorded,
           CommitsEvent(w, m, r, e)
    PROVE  Reservation!Next
<1> DEFINE s == job[w].seat
           c == job[w]
<1>1. /\ s \in Streams /\ events \in [Streams -> Seq(Recorded)]
      /\ seen[w] = Fold[events[s]]
  BY EventFacts DEF FullInv
<1>2. pc[w] = "commit" /\ now' = now /\ Follows(Fold[events[s]], m)
  BY <1>1 DEF CommitsEvent, Done, Appends
<1>3. [t \in Streams |-> HolderOf(t)]' = [[t \in Streams |-> HolderOf(t)] EXCEPT ![s] =
          IF m.type = "SeatHeld" THEN [hold |-> m.hold, until |-> AsTime(m.expires)] ELSE FreeSeat]
  BY HoldingCommit DEF FullInv, Holding
<1>4. [t \in Streams |-> HolderOf(t)][s] = HolderOf(s)
  BY <1>1
<1>5. ASSUME w \in Handlers
      PROVE  c \in Commands /\ c.id \notin inbox /\ inbox' = inbox \cup {c.id}
  <2>1. c \in Commands
    BY <1>2, <1>5 DEF FullInv, IInv, JobOK
  <2>2. c.id \notin inbox
    BY <1>2, <1>5 DEF FullInv, EInv, WorkerOK, ClaimOK, AfterMark
  <2>3. inbox' = inbox \cup {c.id}
    BY <1>5 DEF CommitsEvent
  <2>4. QED
    BY <2>1, <2>2, <2>3
<1>6. \/ /\ w \in Handlers /\ m.hold = c.hold
         /\ c.type = "HoldSeat" /\ m.type = "SeatHeld" /\ m.expires = c.expires
      \/ /\ w \in Handlers /\ m.hold = c.hold
         /\ c.type = "ReleaseSeatHold" /\ m.type = "SeatHoldReleased"
      \/ /\ w \in Schedulers /\ w \notin Handlers
         /\ m.type = "SeatHoldExpired" /\ m.hold = c.token
  BY DEF CommitsEvent, Appends
<1>7. CASE /\ w \in Handlers /\ m.hold = c.hold
           /\ c.type = "HoldSeat" /\ m.type = "SeatHeld" /\ m.expires = c.expires
  <2>1. Fold[events[s]].status = "free"
    BY <1>2, <1>7 DEF Follows
  <2>2. HolderOf(s) = FreeSeat
    BY <1>1, <2>1, FreeIsFree DEF HolderOf, FreeSeat
  <2>3. [hold |-> m.hold, until |-> AsTime(m.expires)]
           = [hold |-> c.hold, until |-> CommandDeadline(c)]
    BY <1>7 DEF CommandDeadline
  <2>4. Reservation!Take(c)
    BY <1>2, <1>3, <1>4, <1>5, <1>7, <2>2, <2>3 DEF Reservation!Take, Reservation!Settle
  <2>5. QED
    BY <1>5, <1>7, <2>4 DEF Reservation!Next
<1>8. CASE /\ w \in Handlers /\ m.hold = c.hold
           /\ c.type = "ReleaseSeatHold" /\ m.type = "SeatHoldReleased"
  <2>1. Fold[events[s]].status = "held" /\ Fold[events[s]].hold = c.hold
    BY <1>2, <1>8 DEF Follows
  <2>2. HolderOf(s) # FreeSeat /\ HolderOf(s).hold = c.hold
    BY <1>1, <2>1, HeldIsTaken DEF HolderOf
  <2>3. Reservation!GiveBack(c)
    BY <1>2, <1>3, <1>4, <1>5, <1>8, <2>2 DEF Reservation!GiveBack, Reservation!Settle
  <2>4. QED
    BY <1>5, <1>8, <2>3 DEF Reservation!Next
<1>9. CASE /\ w \in Schedulers /\ w \notin Handlers
           /\ m.type = "SeatHoldExpired" /\ m.hold = c.token
  <2>1. Fold[events[s]].status = "held" /\ Fold[events[s]].hold = c.token
    BY <1>2, <1>9 DEF Follows
  <2>2. HolderOf(s) # FreeSeat /\ Genuine(c.token, Fold[events[s]].expires)
    BY <1>1, <2>1, HeldIsTaken
  <2>3. Genuine(c.token, c.fireAt) /\ c.fireAt <= now
    BY <1>2, <1>9 DEF FullInv, EInv, WorkerOK, FireOK, AfterMark
  <2>4. Fold[events[s]].expires = c.fireAt
    BY <2>2, <2>3, OneDeadline
  <2>5. HolderOf(s).until <= now
    BY <2>3, <2>4 DEF HolderOf
  <2>6. inbox' = inbox
    BY <1>9 DEF CommitsEvent
  <2>7. Reservation!RunOut(s)
    BY <1>2, <1>3, <1>4, <1>9, <2>2, <2>5, <2>6 DEF Reservation!RunOut
  <2>8. QED
    BY <1>1, <2>7 DEF Reservation!Next
<1>10. QED
  BY <1>6, <1>7, <1>8, <1>9

\* Every commit is a step of the abstract specification or invisible to it.
LEMMA ReservationCommit ==
    ASSUME FullInv, NEW w \in Workers, CommitTx(w), acked' \subseteq acked \cup inbox'
    PROVE  Reservation!Next \/ UNCHANGED Reservation!vars
<1>1. TypeOK /\ JobOK
  BY DEF FullInv, IInv
<1>2. \/ CommitsSilence(w)
      \/ \E m \in Message, r \in OutboxRow : CommitsReply(w, m, r)
      \/ \E m \in Message, r \in OutboxRow, e \in Recorded : CommitsEvent(w, m, r, e)
  BY <1>1, CommitCases
<1>3. CASE CommitsSilence(w)
  BY <1>3, ReservationCalm DEF CommitsSilence, Done
<1>4. ASSUME NEW m \in Message, NEW r \in OutboxRow, CommitsReply(w, m, r)
      PROVE  Reservation!Next
  <2>1. w \in Handlers /\ pc[w] = "commit" /\ inbox' = inbox \cup {job[w].id}
    BY <1>4 DEF CommitsReply, Done, Replies
  <2>2. job[w] \in Commands
    BY <1>1, <2>1 DEF JobOK
  <2>3. job[w].id \notin inbox
    BY <2>1 DEF FullInv, EInv, WorkerOK, ClaimOK, AfterMark
  <2>4. events' = events /\ now' = now
    BY <1>4 DEF CommitsReply, Done
  <2>5. [t \in Streams |-> HolderOf(t)]' = [t \in Streams |-> HolderOf(t)]
    BY <2>4 DEF HolderOf
  <2>6. Reservation!Answer(job[w])
    BY <2>1, <2>3, <2>4, <2>5 DEF Reservation!Answer, Reservation!Settle
  <2>7. QED
    BY <2>2, <2>6 DEF Reservation!Next
<1>5. ASSUME NEW m \in Message, NEW r \in OutboxRow, NEW e \in Recorded, CommitsEvent(w, m, r, e)
      PROVE  Reservation!Next
  BY <1>5, ReservationEvent
<1>6. QED
  BY <1>2, <1>3, <1>4, <1>5

\* Every step is a step of the abstract specification or invisible to it.
LEMMA ReservationStep == FullInv /\ [Next]_vars => [Reservation!Next]_(Reservation!vars)
<1> SUFFICES ASSUME FullInv, [Next]_vars
             PROVE  Reservation!Next \/ UNCHANGED Reservation!vars
  OBVIOUS
<1>1. ASSUME NEW h \in Handlers, NEW c \in Commands, Deliver(h, c)
      PROVE  UNCHANGED Reservation!vars
  BY <1>1, ReservationCalm DEF Deliver, tables
<1>2. ASSUME NEW h \in Handlers, HandlerStep(h) PROVE UNCHANGED Reservation!vars
  BY <1>2, ReservationCalm DEF HandlerStep, MarkConsumed, Duplicate, tables
<1>3. CASE \E h \in Handlers : CommitUnacknowledged(h)
  BY <1>3, ReservationCommit DEF Workers, CommitUnacknowledged
<1>4. ASSUME NEW s \in Schedulers, SchedulerStep(s) \/ Prune(s) \/ LoseBatch(s)
      PROVE  UNCHANGED Reservation!vars
  BY <1>4, ReservationCalm DEF SchedulerStep, Tick, MarkFired, Prune, LoseBatch, tables
<1>5. CASE \E w \in Workers : Commit(w)
  <2>1. PICK w \in Workers : Commit(w)
    BY <1>5
  <2>2. CommitTx(w) /\ acked' \subseteq acked \cup inbox'
    BY <2>1 DEF Commit, CommitTx
  <2>3. QED
    BY <2>2, ReservationCommit
<1>6. ASSUME NEW w \in Workers,
             \/ LoadSeat(w) \/ AppendSeat(w) \/ VersionConflict(w)
             \/ Enqueue(w) \/ EnqueueInvalid(w) \/ Abort(w)
      PROVE  UNCHANGED Reservation!vars
  BY <1>6, ReservationCalm
     DEF LoadSeat, AppendSeat, VersionConflict, Enqueue, EnqueueInvalid, Abort, tables
<1>7. CASE Advance
  <2>1. now' = now + 1 /\ events' = events /\ inbox' = inbox
    BY <1>7 DEF Advance, tables
  <2>2. [t \in Streams |-> HolderOf(t)]' = [t \in Streams |-> HolderOf(t)]
    BY <2>1 DEF HolderOf
  <2>3. Reservation!Pass
    BY <2>1, <2>2 DEF Reservation!Pass
  <2>4. QED
    BY <2>3 DEF Reservation!Next
<1>8. CASE UNCHANGED vars
  BY <1>8, ReservationCalm DEF vars, tables
<1>9. QED
  BY <1>1, <1>2, <1>3, <1>4, <1>5, <1>6, <1>7, <1>8 DEF Next, TxStep

\* The service keeps its promise to the sagas: the transactions, the log and
\* the timers implement SeatReservation.  A hold is taken on a free seat and by
\* a command not yet consumed, is given back by its own release or after its
\* own deadline, and nothing else a handler or a scheduler does is visible
\* (commands.go Handle, expiry.go Fire).
THEOREM Refinement == Spec => ReservationSpec
<1>1. Spec => []FullInv
  BY EffectsInductive
<1>2. QED
  BY <1>1, ReservationInit, ReservationStep, PTL DEF Spec, ReservationSpec, Reservation!Spec
=============================================================================
