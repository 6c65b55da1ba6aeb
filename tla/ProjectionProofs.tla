-------------------------- MODULE ProjectionProofs --------------------------
(***************************************************************************)
(* Proofs about Projection, for any seats, projectors and rebuilders and   *)
(* any number of events, rebuilds, faults and dead letters: the type       *)
(* invariant, NeverDraggedBack, VisibleUntilRebuilt and BrowseIsCurrent.   *)
(***************************************************************************)
EXTENDS Projection, FiniteSetTheorems, TLAPS

-----------------------------------------------------------------------------
(* The inductive invariant.                                                *)

\* The events of all streams: Announced counts them.
Events == {e \in Seats \X (1 .. MaxEvents) : e[2] <= version[e[1]]}

\* Where a transaction can be, and that it has a seat where it needs one.
PcOK ==
    \A w \in Workers :
        /\ pc[w] = "idle" => written[w] = {}
        /\ pc[w] \in {"load", "upsert"} => seat[w] \in Seats
        /\ w \in Projectors =>
            /\ pc[w] \in {"idle", "load", "upsert", "commit"}
            /\ pc[w] # "idle" => seat[w] \in Seats
        /\ w \in Rebuilders /\ rebuilds = 0 => pc[w] = "idle"

\* A row is locked by one transaction at a time.
LocksOK == \A v, w \in Workers : v # w => written[v] \cap written[w] = {}

\* What a transaction has written is newer than the committed row, or the
\* deletion of a rebuild; and a rebuild loads a stream after it has locked the
\* row, so what it will write is newer as well.
RowsOK ==
    /\ \A s \in Seats : view[s] <= version[s]
    /\ \A w \in Workers : \A s \in Seats :
        /\ mine[w][s] <= version[s]
        /\ s \notin written[w] => mine[w][s] = 0
        /\ s \in written[w] => mine[w][s] >= view[s] \/ (mine[w][s] = 0 /\ w \in Rebuilders)
    /\ \A w \in Workers : pc[w] = "upsert" =>
        /\ seen[w] <= version[seat[w]]
        /\ seat[w] \in written[w] => seen[w] >= view[seat[w]]

\* A notification announces an event of the stream, and the projector that was
\* handed it loads, and writes, at least that version.
NoticesOK ==
    /\ \A e \in notices : e[2] <= version[e[1]]
    /\ \A w \in Projectors :
        /\ pc[w] # "idle" => notice[w] <= version[seat[w]]
        /\ pc[w] = "upsert" => notice[w] <= seen[w]
        /\ pc[w] = "commit" /\ notice[w] # 0 =>
                seat[w] \in written[w] /\ mine[w][seat[w]] >= notice[w]

IInv ==
    /\ TypeOK /\ IsFiniteSet(Events) /\ PcOK /\ LocksOK /\ RowsOK /\ NoticesOK
    /\ VisibleUntilRebuilt

-----------------------------------------------------------------------------
(* The bound on events.                                                    *)

\* Announced bounds the length of every stream.
LEMMA Room ==
    ASSUME TypeOK, IsFiniteSet(Events), NEW s \in Seats, Announced < MaxEvents
    PROVE  version[s] < MaxEvents /\ replies < MaxEvents
<1>1. /\ version[s] \in 0 .. MaxEvents /\ replies \in 0 .. MaxEvents /\ MaxEvents \in Nat
      /\ Cardinality(Events) \in Nat
  BY ProjectionAssumption, FS_CardinalityType DEF TypeOK
<1>2. replies + Cardinality(Events) < MaxEvents
  BY DEF Announced, Events
<1>3. ASSUME version[s] = MaxEvents PROVE FALSE
  <2> DEFINE f == [i \in 1 .. MaxEvents |-> <<s, i>>]
             all == {s} \X (1 .. MaxEvents)
  <2>1. all \subseteq Events
    BY <1>3 DEF Events
  <2>2. IsFiniteSet(all) /\ Cardinality(all) <= Cardinality(Events)
    BY <2>1, FS_Subset
  <2>3. IsFiniteSet(1 .. MaxEvents) /\ Cardinality(1 .. MaxEvents) = MaxEvents
    BY <1>1, FS_Interval
  <2>4. f \in Injection(1 .. MaxEvents, all)
    BY DEF Injection, IsInjective
  <2>5. Cardinality(1 .. MaxEvents) <= Cardinality(all)
    BY <2>2, <2>4, FS_Injection
  <2>6. Cardinality(all) \in Nat
    BY <2>2, FS_CardinalityType
  <2>7. QED
    BY <1>1, <1>2, <2>2, <2>3, <2>5, <2>6
<1>4. QED
  BY <1>1, <1>2, <1>3

-----------------------------------------------------------------------------
(* The write side.                                                         *)

\* A new event is announced.
LEMMA AppendEventStep ==
    ASSUME IInv, NEW s \in Seats, AppendEvent(s)
    PROVE  IInv'
<1> DEFINE n == version[s] + 1
<1>1. /\ UNCHANGED <<view, dead, pc, seat, notice, todo, doomed, seen, written, mine>>
      /\ UNCHANGED <<rebuilds, faults, replies>>
      /\ version' = [version EXCEPT ![s] = n]
      /\ notices' = notices \cup {<<s, n>>}
  BY DEF AppendEvent, work
<1>2. version[s] < MaxEvents
  BY Room DEF AppendEvent, IInv
<1>3. version \in [Seats -> 0 .. MaxEvents] /\ MaxEvents \in Nat /\ n \in 1 .. MaxEvents
  BY <1>2, ProjectionAssumption DEF IInv, TypeOK
<1>4. \A q \in Seats : version'[q] = IF q = s THEN n ELSE version[q]
  BY <1>1, <1>3
<1>5. \A q \in Seats : version[q] \in Nat /\ version'[q] \in Nat /\ version[q] <= version'[q]
  BY <1>3, <1>4
<1>6. IsFiniteSet(Events')
  <2>1. Events' = Events \cup {<<s, n>>}
    BY <1>3, <1>4 DEF Events
  <2>2. QED
    BY <2>1, FS_AddElement DEF IInv
<1>7. TypeOK'
  BY <1>1, <1>3 DEF IInv, TypeOK
<1>8. PcOK' /\ LocksOK'
  BY <1>1 DEF IInv, PcOK, LocksOK
<1>9. RowsOK'
  <2>1. \A q \in Seats : view[q] <= version'[q]
    BY <1>3, <1>5 DEF IInv, TypeOK, RowsOK
  <2>2. \A w \in Workers, q \in Seats : mine[w][q] <= version'[q]
    BY <1>3, <1>5 DEF IInv, TypeOK, RowsOK
  <2>3. \A w \in Workers : pc[w] = "upsert" => seen[w] <= version'[seat[w]]
    BY <1>3, <1>5 DEF IInv, TypeOK, RowsOK, PcOK
  <2>4. QED
    BY <1>1, <2>1, <2>2, <2>3 DEF IInv, RowsOK
<1>10. NoticesOK'
  <2>1. \A e \in notices : e[2] <= version'[e[1]]
    BY <1>3, <1>5 DEF IInv, TypeOK, NoticesOK
  <2>2. \A e \in notices' : e[2] <= version'[e[1]]
    BY <1>1, <1>3, <1>4, <2>1
  <2>3. \A w \in Projectors : pc[w] # "idle" => notice[w] <= version'[seat[w]]
    BY <1>3, <1>5 DEF IInv, TypeOK, NoticesOK, PcOK, Workers
  <2>4. QED
    BY <1>1, <2>2, <2>3 DEF IInv, NoticesOK
<1>11. VisibleUntilRebuilt'
  <2> SUFFICES ASSUME rebuilds = 0, NEW q \in Seats, NEW v \in 1 .. version'[q],
                      <<q, v>> \notin notices' \cup dead
               PROVE  view[q] >= v
    BY <1>1 DEF VisibleUntilRebuilt, SettledIsVisible
  <2>1. v \in 1 .. version[q] /\ <<q, v>> \notin notices \cup dead
    BY <1>1, <1>3, <1>4
  <2>2. QED
    BY <2>1 DEF IInv, VisibleUntilRebuilt, SettledIsVisible
<1>12. QED
  BY <1>6, <1>7, <1>8, <1>9, <1>10, <1>11 DEF IInv

\* A step that touches neither streams nor rows keeps what is said about them.
LEMMA TablesKept ==
    ASSUME IInv, UNCHANGED <<version, view, dead, notices>>,
           rebuilds' = 0 => rebuilds = 0
    PROVE  IsFiniteSet(Events') /\ VisibleUntilRebuilt'
<1>1. Events' = Events
  BY DEF Events
<1>2. VisibleUntilRebuilt'
  BY DEF IInv, VisibleUntilRebuilt, SettledIsVisible
<1>3. QED
  BY <1>1, <1>2 DEF IInv

\* A reply announces no event.
LEMMA NotifyStep ==
    ASSUME IInv, NEW s \in Seats, Notify(s)
    PROVE  IInv'
<1>1. /\ UNCHANGED <<version, view, dead, pc, seat, notice, todo, doomed, seen, written, mine>>
      /\ UNCHANGED <<rebuilds, faults>>
      /\ replies' = replies + 1
      /\ notices' = notices \cup {<<s, 0>>}
  BY DEF Notify, work
<1>2. replies < MaxEvents /\ MaxEvents \in Nat
  BY Room, ProjectionAssumption DEF Notify, IInv
<1>3. TypeOK'
  <2>1. replies' \in 0 .. MaxEvents /\ 0 \in 0 .. MaxEvents
    BY <1>1, <1>2 DEF IInv, TypeOK
  <2>2. notices' \cup dead' \subseteq Seats \X (0 .. MaxEvents)
    BY <1>1, <2>1 DEF IInv, TypeOK
  <2>3. QED
    BY <1>1, <2>1, <2>2 DEF IInv, TypeOK
<1>4. IsFiniteSet(Events')
  BY <1>1 DEF IInv, Events
<1>5. PcOK' /\ LocksOK' /\ RowsOK'
  BY <1>1 DEF IInv, PcOK, LocksOK, RowsOK
<1>6. NoticesOK'
  <2>1. version[s] >= 0
    BY ProjectionAssumption DEF IInv, TypeOK
  <2>2. QED
    BY <1>1, <2>1 DEF IInv, NoticesOK
<1>7. VisibleUntilRebuilt'
  BY <1>1 DEF IInv, VisibleUntilRebuilt, SettledIsVisible
<1>8. QED
  BY <1>3, <1>4, <1>5, <1>6, <1>7 DEF IInv

-----------------------------------------------------------------------------
(* Transactions.                                                           *)

\* A projector is handed a record.
LEMMA ProjectStep ==
    ASSUME IInv, NEW w \in Projectors, NEW s \in Seats, NEW v \in 0 .. MaxEvents,
           Project(w, s, v)
    PROVE  IInv'
<1>1. /\ UNCHANGED <<version, view, notices, dead, todo, doomed, seen, written, mine>>
      /\ UNCHANGED <<rebuilds, faults, replies>>
      /\ pc[w] = "idle" /\ <<s, v>> \in notices
      /\ seat' = [seat EXCEPT ![w] = s] /\ notice' = [notice EXCEPT ![w] = v]
      /\ pc' = [pc EXCEPT ![w] = "load"]
  BY DEF Project, Goto
<1>2. w \in Workers /\ w \notin Rebuilders
  BY ProjectionAssumption DEF Workers
<1>3. TypeOK'
  BY <1>1, <1>2 DEF IInv, TypeOK
<1>4. /\ seat'[w] = s /\ notice'[w] = v /\ pc'[w] = "load"
      /\ \A x \in Workers \ {w} : seat'[x] = seat[x] /\ notice'[x] = notice[x] /\ pc'[x] = pc[x]
  BY <1>1, <1>2 DEF IInv, TypeOK
<1>5. PcOK' /\ LocksOK'
  BY <1>1, <1>2, <1>4 DEF IInv, PcOK, LocksOK
<1>6. RowsOK'
  BY <1>1, <1>2, <1>4 DEF IInv, RowsOK
<1>7. NoticesOK'
  <2>1. v <= version[s]
    BY <1>1 DEF IInv, NoticesOK
  <2>2. QED
    BY <1>1, <1>4, <2>1 DEF IInv, NoticesOK, Workers
<1>8. QED
  BY <1>1, <1>3, <1>5, <1>6, <1>7, TablesKept DEF IInv

\* A rebuild starts, finds the rows to delete, or goes on to the next stream.
LEMMA RebuildStep ==
    ASSUME IInv, NEW w \in Workers,
           (w \in Rebuilders /\ RebuildStreams(w)) \/ RebuildDelete(w) \/ RebuildNext(w)
    PROVE  IInv'
<1>1. /\ UNCHANGED <<version, view, notices, dead, notice, seen, written, mine>>
      /\ UNCHANGED <<faults, replies>>
  BY DEF RebuildStreams, RebuildDelete, RebuildNext
<1>2. w \in Rebuilders /\ w \notin Projectors
  BY ProjectionAssumption DEF RebuildDelete, RebuildNext, IInv, PcOK, Workers
<1>3. PICK label \in {"delete", "deleting", "load", "commit"} :
        /\ pc' = [pc EXCEPT ![w] = label]
        /\ label = "load" => \E s \in Seats : seat' = [seat EXCEPT ![w] = s]
        /\ label # "load" => seat' = seat
  BY DEF RebuildStreams, RebuildDelete, RebuildNext, Goto, IInv, TypeOK
<1>4. rebuilds' \in 0 .. MaxRebuilds /\ rebuilds' # 0 /\ (rebuilds' = 0 => rebuilds = 0)
  <2>1. CASE RebuildStreams(w)
    BY <2>1, ProjectionAssumption DEF RebuildStreams, IInv, TypeOK
  <2>2. CASE RebuildDelete(w) \/ RebuildNext(w)
    BY <1>2, <2>2 DEF RebuildDelete, RebuildNext, IInv, TypeOK, PcOK
  <2>3. QED
    BY <2>1, <2>2
<1>5. todo' \in [Workers -> SUBSET Seats] /\ doomed' \in [Workers -> SUBSET Seats]
  <2>1. CASE RebuildStreams(w)
    BY <2>1 DEF RebuildStreams, IInv, TypeOK
  <2>2. CASE RebuildDelete(w)
    BY <2>2 DEF RebuildDelete, IInv, TypeOK
  <2>3. CASE RebuildNext(w)
    BY <2>3 DEF RebuildNext, IInv, TypeOK
  <2>4. QED
    BY <2>1, <2>2, <2>3
<1>6. TypeOK'
  <2>1. pc' \in [Workers -> {"idle", "delete", "deleting", "next", "load", "upsert", "commit"}]
    BY <1>3 DEF IInv, TypeOK
  <2>2. seat' \in [Workers -> Seats \cup {NoSeat}]
    BY <1>3 DEF IInv, TypeOK
  <2>3. QED
    BY <1>1, <1>4, <1>5, <2>1, <2>2 DEF IInv, TypeOK
<1>7. /\ pc'[w] = label /\ (label = "load" => seat'[w] \in Seats)
      /\ \A x \in Workers \ {w} : pc'[x] = pc[x] /\ seat'[x] = seat[x]
  BY <1>3 DEF IInv, TypeOK
<1>8. PcOK' /\ LocksOK'
  BY <1>1, <1>2, <1>4, <1>7 DEF IInv, PcOK, LocksOK
<1>9. RowsOK'
  BY <1>1, <1>7 DEF IInv, RowsOK
<1>10. NoticesOK'
  BY <1>1, <1>2, <1>7 DEF IInv, NoticesOK, Workers
<1>11. QED
  BY <1>1, <1>4, <1>6, <1>8, <1>9, <1>10, TablesKept DEF IInv

\* A row is locked and deleted when no other transaction has it.
LEMMA RebuildDeleteRowStep ==
    ASSUME IInv, NEW w \in Workers, RebuildDeleteRow(w)
    PROVE  IInv'
<1>1. /\ UNCHANGED <<version, view, notices, dead, seat, notice, todo, seen, mine>>
      /\ UNCHANGED <<rebuilds, faults, replies>>
      /\ pc[w] = "deleting"
  BY DEF RebuildDeleteRow
<1>2. w \in Rebuilders /\ w \notin Projectors
  BY <1>1, ProjectionAssumption DEF IInv, PcOK, Workers
<1>3. CASE doomed[w] = {}
  <2>1. pc' = [pc EXCEPT ![w] = "next"] /\ UNCHANGED <<doomed, written>>
    BY <1>3 DEF RebuildDeleteRow, Goto
  <2>2. TypeOK'
    BY <1>1, <2>1 DEF IInv, TypeOK
  <2>3. pc'[w] = "next" /\ \A x \in Workers \ {w} : pc'[x] = pc[x]
    BY <2>1 DEF IInv, TypeOK
  <2>4. PcOK' /\ LocksOK' /\ RowsOK'
    BY <1>1, <1>2, <2>1, <2>3 DEF IInv, PcOK, LocksOK, RowsOK
  <2>5. NoticesOK'
    BY <1>1, <1>2, <2>1, <2>3 DEF IInv, NoticesOK, Workers
  <2>6. QED
    BY <1>1, <2>2, <2>4, <2>5, TablesKept DEF IInv
<1>4. CASE doomed[w] # {}
  <2>1. PICK s \in doomed[w] :
            /\ ~LockedByOther(w, s) /\ written' = [written EXCEPT ![w] = @ \cup {s}]
            /\ doomed' = [doomed EXCEPT ![w] = @ \ {s}] /\ UNCHANGED pc
    BY <1>4 DEF RebuildDeleteRow
  <2>2. s \in Seats
    BY DEF IInv, TypeOK
  <2>3. TypeOK'
    BY <1>1, <2>1, <2>2 DEF IInv, TypeOK
  <2>4. written'[w] = written[w] \cup {s} /\ \A x \in Workers \ {w} : written'[x] = written[x]
    BY <2>1 DEF IInv, TypeOK
  <2>5. PcOK' /\ LocksOK'
    BY <1>1, <2>1, <2>4 DEF IInv, PcOK, LocksOK, LockedByOther
  <2>6. RowsOK'
    <3>1. \A x \in Workers, q \in Seats :
            /\ q \notin written'[x] => mine[x][q] = 0
            /\ q \in written'[x] => mine[x][q] >= view[q] \/ (mine[x][q] = 0 /\ x \in Rebuilders)
      BY <1>2, <2>4 DEF IInv, RowsOK
    <3>2. \A x \in Workers : pc[x] = "upsert" => written'[x] = written[x]
      BY <1>1, <2>4
    <3>3. QED
      BY <1>1, <2>1, <3>1, <3>2 DEF IInv, RowsOK
  <2>7. NoticesOK'
    BY <1>1, <1>2, <2>1, <2>4 DEF IInv, NoticesOK, Workers
  <2>8. QED
    BY <1>1, <2>3, <2>5, <2>6, <2>7, TablesKept DEF IInv
<1>5. QED
  BY <1>3, <1>4

\* A stream is loaded as it is: at least what was announced, and what the view
\* has.
LEMMA LoadStep ==
    ASSUME IInv, NEW w \in Workers, Load(w)
    PROVE  IInv'
<1> DEFINE s == seat[w]
<1>1. /\ UNCHANGED <<version, view, notices, dead, seat, notice, todo, doomed, written, mine>>
      /\ UNCHANGED <<rebuilds, faults, replies>>
      /\ pc[w] = "load" /\ seen' = [seen EXCEPT ![w] = version[s]]
      /\ pc' = [pc EXCEPT ![w] = IF version[s] = 0 THEN After(w) ELSE "upsert"]
  BY DEF Load, Goto
<1>2. s \in Seats /\ version[s] \in 0 .. MaxEvents /\ MaxEvents \in Nat
  BY <1>1, ProjectionAssumption DEF IInv, PcOK, TypeOK
<1>3. TypeOK'
  BY <1>1, <1>2 DEF IInv, TypeOK, After
<1>4. /\ seen'[w] = version[s]
      /\ pc'[w] = IF version[s] = 0 THEN After(w) ELSE "upsert"
      /\ \A x \in Workers \ {w} : seen'[x] = seen[x] /\ pc'[x] = pc[x]
  BY <1>1 DEF IInv, TypeOK
<1>5. After(w) \in {"next", "commit"} /\ (w \in Projectors => After(w) = "commit")
  BY ProjectionAssumption DEF After
<1>6. PcOK' /\ LocksOK'
  BY <1>1, <1>2, <1>4, <1>5 DEF IInv, PcOK, LocksOK
<1>7. RowsOK'
  <2>1. view[s] <= version[s]
    BY <1>2 DEF IInv, RowsOK
  <2>2. QED
    BY <1>1, <1>2, <1>4, <1>5, <2>1 DEF IInv, RowsOK
<1>8. NoticesOK'
  <2>1. w \in Projectors => notice[w] <= version[s] /\ notice[w] \in Nat
    BY <1>1 DEF IInv, NoticesOK, TypeOK
  <2>2. \A x \in Projectors :
            /\ pc'[x] = "upsert" => notice[x] <= seen'[x]
            /\ pc'[x] = "commit" /\ notice[x] # 0 =>
                    seat[x] \in written[x] /\ mine[x][seat[x]] >= notice[x]
            /\ pc'[x] # "idle" => notice[x] <= version[seat[x]]
    BY <1>1, <1>2, <1>4, <2>1 DEF IInv, NoticesOK, Workers
  <2>3. QED
    BY <1>1, <2>2 DEF IInv, NoticesOK
<1>9. QED
  BY <1>1, <1>3, <1>6, <1>7, <1>8, TablesKept DEF IInv

\* The upsert never writes below the row it meets.
LEMMA UpsertStep ==
    ASSUME IInv, NEW w \in Workers, Upsert(w)
    PROVE  IInv'
<1> DEFINE s == seat[w]
           row == IF Current(w, s) < seen[w] THEN seen[w] ELSE Current(w, s)
<1>1. /\ UNCHANGED <<version, view, notices, dead, seat, notice, todo, doomed, seen>>
      /\ UNCHANGED <<rebuilds, faults, replies>>
      /\ pc[w] = "upsert" /\ ~LockedByOther(w, s)
      /\ written' = [written EXCEPT ![w] = @ \cup {s}]
      /\ mine' = [mine EXCEPT ![w][s] = row]
      /\ pc' = [pc EXCEPT ![w] = After(w)]
  BY DEF Upsert, Goto
<1>2. s \in Seats /\ version[s] \in 0 .. MaxEvents /\ MaxEvents \in Nat
      /\ view[s] \in 0 .. MaxEvents /\ mine[w][s] \in 0 .. MaxEvents /\ seen[w] \in 0 .. MaxEvents
  BY <1>1, ProjectionAssumption DEF IInv, PcOK, TypeOK
<1>3. /\ row \in 0 .. MaxEvents /\ row >= seen[w] /\ row <= version[s]
      /\ row >= view[s]
  <2>1. seen[w] <= version[s] /\ (s \in written[w] => seen[w] >= view[s])
        /\ view[s] <= version[s] /\ mine[w][s] <= version[s]
    BY <1>1, <1>2 DEF IInv, RowsOK
  <2>2. QED
    BY <1>2, <2>1 DEF Current
<1>4. After(w) \in {"next", "commit"} /\ (w \in Projectors => After(w) = "commit")
  BY ProjectionAssumption DEF After
<1>5. TypeOK'
  <2>1. mine' \in [Workers -> [Seats -> 0 .. MaxEvents]]
    BY <1>1, <1>2, <1>3 DEF IInv, TypeOK
  <2>2. written' \in [Workers -> SUBSET Seats]
    BY <1>1, <1>2 DEF IInv, TypeOK
  <2>3. QED
    BY <1>1, <1>4, <2>1, <2>2 DEF IInv, TypeOK
<1>6. /\ written'[w] = written[w] \cup {s} /\ pc'[w] = After(w)
      /\ \A x \in Workers \ {w} : written'[x] = written[x] /\ pc'[x] = pc[x]
      /\ \A x \in Workers, q \in Seats : mine'[x][q] = IF x = w /\ q = s THEN row ELSE mine[x][q]
  BY <1>1, <1>2 DEF IInv, TypeOK
<1>7. PcOK' /\ LocksOK'
  <2>1. PcOK'
    BY <1>1, <1>2, <1>4, <1>6 DEF IInv, PcOK
  <2>2. LocksOK'
    BY <1>1, <1>6 DEF IInv, LocksOK, LockedByOther
  <2>3. QED
    BY <2>1, <2>2
<1>8. RowsOK'
  <2>1. \A x \in Workers, q \in Seats :
            /\ mine'[x][q] <= version[q]
            /\ q \notin written'[x] => mine'[x][q] = 0
            /\ q \in written'[x] =>
                    mine'[x][q] >= view[q] \/ (mine'[x][q] = 0 /\ x \in Rebuilders)
    BY <1>3, <1>6 DEF IInv, RowsOK
  <2>2. \A x \in Workers : pc'[x] = "upsert" =>
            seen[x] <= version[seat[x]] /\ (seat[x] \in written'[x] => seen[x] >= view[seat[x]])
    BY <1>4, <1>6 DEF IInv, RowsOK
  <2>3. QED
    BY <1>1, <2>1, <2>2 DEF IInv, RowsOK
<1>9. NoticesOK'
  <2>1. w \in Projectors => row >= notice[w] /\ notice[w] <= version[s]
    BY <1>1, <1>2, <1>3 DEF IInv, NoticesOK, TypeOK
  <2>2. \A x \in Projectors :
            /\ pc'[x] = "upsert" => notice[x] <= seen[x]
            /\ pc'[x] = "commit" /\ notice[x] # 0 =>
                    seat[x] \in written'[x] /\ mine'[x][seat[x]] >= notice[x]
            /\ pc'[x] # "idle" => notice[x] <= version[seat[x]]
    <3> SUFFICES ASSUME NEW x \in Projectors
                 PROVE  /\ pc'[x] = "upsert" => notice[x] <= seen[x]
                        /\ pc'[x] = "commit" /\ notice[x] # 0 =>
                                seat[x] \in written'[x] /\ mine'[x][seat[x]] >= notice[x]
                        /\ pc'[x] # "idle" => notice[x] <= version[seat[x]]
      OBVIOUS
    <3>1. CASE x = w
      BY <1>2, <1>4, <1>6, <2>1, <3>1
    <3>2. CASE x # w
      <4>1. x \in Workers /\ written'[x] = written[x] /\ pc'[x] = pc[x]
        BY <1>6, <3>2 DEF Workers
      <4>2. pc[x] # "idle" => seat[x] \in Seats
        BY <4>1 DEF IInv, PcOK
      <4>3. pc[x] # "idle" => mine'[x][seat[x]] = mine[x][seat[x]]
        BY <1>6, <3>2, <4>1, <4>2
      <4>4. QED
        BY <4>1, <4>3 DEF IInv, NoticesOK
    <3>3. QED
      BY <3>1, <3>2
  <2>3. QED
    BY <1>1, <2>2 DEF IInv, NoticesOK
<1>10. QED
  BY <1>1, <1>5, <1>7, <1>8, <1>9, TablesKept DEF IInv

\* A transaction that ends leaves nothing behind.
LEMMA EndTxShape ==
    ASSUME IInv, NEW w \in Workers, EndTx(w)
    PROVE  /\ pc' \in [Workers -> {"idle", "delete", "deleting", "next", "load", "upsert", "commit"}]
           /\ seat' \in [Workers -> Seats \cup {NoSeat}] /\ notice' \in [Workers -> 0 .. MaxEvents]
           /\ todo' \in [Workers -> SUBSET Seats] /\ doomed' \in [Workers -> SUBSET Seats]
           /\ seen' \in [Workers -> 0 .. MaxEvents] /\ written' \in [Workers -> SUBSET Seats]
           /\ mine' \in [Workers -> [Seats -> 0 .. MaxEvents]]
           /\ pc'[w] = "idle" /\ written'[w] = {} /\ \A s \in Seats : mine'[w][s] = 0
           /\ \A x \in Workers \ {w} :
                /\ pc'[x] = pc[x] /\ seat'[x] = seat[x] /\ notice'[x] = notice[x]
                /\ seen'[x] = seen[x] /\ written'[x] = written[x] /\ mine'[x] = mine[x]
           /\ PcOK /\ UNCHANGED rebuilds => PcOK'
           /\ LocksOK'
<1>1. 0 \in 0 .. MaxEvents
  BY ProjectionAssumption
<1>2. [s \in Seats |-> 0] \in [Seats -> 0 .. MaxEvents]
  BY <1>1
<1>3. /\ pc' \in [Workers -> {"idle", "delete", "deleting", "next", "load", "upsert", "commit"}]
      /\ seat' \in [Workers -> Seats \cup {NoSeat}] /\ notice' \in [Workers -> 0 .. MaxEvents]
      /\ todo' \in [Workers -> SUBSET Seats] /\ doomed' \in [Workers -> SUBSET Seats]
      /\ seen' \in [Workers -> 0 .. MaxEvents] /\ written' \in [Workers -> SUBSET Seats]
  BY <1>1 DEF EndTx, IInv, TypeOK
<1>4. mine' \in [Workers -> [Seats -> 0 .. MaxEvents]]
  BY <1>2 DEF EndTx, IInv, TypeOK
<1>5. /\ pc'[w] = "idle" /\ written'[w] = {} /\ \A s \in Seats : mine'[w][s] = 0
      /\ \A x \in Workers \ {w} :
            /\ pc'[x] = pc[x] /\ seat'[x] = seat[x] /\ notice'[x] = notice[x]
            /\ seen'[x] = seen[x] /\ written'[x] = written[x] /\ mine'[x] = mine[x]
  BY DEF EndTx, IInv, TypeOK
<1>6. PcOK /\ UNCHANGED rebuilds => PcOK'
  BY <1>5 DEF PcOK
<1>7. LocksOK'
  BY <1>5 DEF IInv, LocksOK
<1>8. QED
  BY <1>3, <1>4, <1>5, <1>6, <1>7

\* A transaction that fails, or whose record is dead-lettered, changes no row.
LEMMA FailStep ==
    ASSUME IInv, NEW w \in Workers, Abort(w) \/ (w \in Projectors /\ DeadLetter(w))
    PROVE  IInv'
<1>1. /\ UNCHANGED <<version, view, rebuilds, replies>> /\ EndTx(w) /\ pc[w] # "idle"
      /\ faults' \in 0 .. MaxFaults
  BY ProjectionAssumption DEF Abort, DeadLetter, IInv, TypeOK
<1>2. /\ pc' \in [Workers -> {"idle", "delete", "deleting", "next", "load", "upsert", "commit"}]
      /\ seat' \in [Workers -> Seats \cup {NoSeat}] /\ notice' \in [Workers -> 0 .. MaxEvents]
      /\ todo' \in [Workers -> SUBSET Seats] /\ doomed' \in [Workers -> SUBSET Seats]
      /\ seen' \in [Workers -> 0 .. MaxEvents] /\ written' \in [Workers -> SUBSET Seats]
      /\ mine' \in [Workers -> [Seats -> 0 .. MaxEvents]]
      /\ pc'[w] = "idle" /\ written'[w] = {} /\ \A s \in Seats : mine'[w][s] = 0
      /\ \A x \in Workers \ {w} :
            /\ pc'[x] = pc[x] /\ seat'[x] = seat[x] /\ notice'[x] = notice[x]
            /\ seen'[x] = seen[x] /\ written'[x] = written[x] /\ mine'[x] = mine[x]
      /\ PcOK' /\ LocksOK'
  BY <1>1, EndTxShape DEF IInv
<1>3. /\ notices' \cup dead' \subseteq Seats \X (0 .. MaxEvents)
      /\ notices \cup dead \subseteq notices' \cup dead' /\ notices' \subseteq notices
  <2>1. CASE Abort(w)
    BY <2>1 DEF Abort, IInv, TypeOK
  <2>2. CASE w \in Projectors /\ DeadLetter(w)
    <3>1. seat[w] \in Seats /\ notice[w] \in 0 .. MaxEvents
      BY <1>1, <2>2 DEF IInv, PcOK, TypeOK
    <3>2. QED
      BY <2>2, <3>1 DEF DeadLetter, IInv, TypeOK
  <2>3. QED
    BY <2>1, <2>2
<1>4. TypeOK'
  BY <1>1, <1>2, <1>3 DEF IInv, TypeOK
<1>5. IsFiniteSet(Events')
  BY <1>1 DEF IInv, Events
<1>6. RowsOK'
  <2>1. \A s \in Seats : version[s] \in Nat
    BY DEF IInv, TypeOK
  <2>2. \A x \in Workers, s \in Seats :
            /\ mine'[x][s] <= version[s]
            /\ s \notin written'[x] => mine'[x][s] = 0
            /\ s \in written'[x] =>
                    mine'[x][s] >= view[s] \/ (mine'[x][s] = 0 /\ x \in Rebuilders)
    BY <1>2, <2>1 DEF IInv, RowsOK
  <2>3. QED
    BY <1>1, <1>2, <2>2 DEF IInv, RowsOK
<1>7. NoticesOK'
  BY <1>1, <1>2, <1>3 DEF IInv, NoticesOK, Workers
<1>8. VisibleUntilRebuilt'
  BY <1>1, <1>3 DEF IInv, VisibleUntilRebuilt, SettledIsVisible
<1>9. QED
  BY <1>2, <1>4, <1>5, <1>6, <1>7, <1>8 DEF IInv

\* What a commit does to the view: the rows it has written, none older than the
\* one it replaces unless it deletes it.
LEMMA CommitRows ==
    ASSUME IInv, NEW w \in Workers, Commit(w)
    PROVE  \A s \in Seats :
            /\ view'[s] = IF s \in written[w] THEN mine[w][s] ELSE view[s]
            /\ view'[s] \in 0 .. MaxEvents /\ view'[s] <= version[s]
            /\ view'[s] >= view[s] \/ (view'[s] = 0 /\ w \in Rebuilders)
<1>1. \A s \in Seats : view'[s] = IF s \in written[w] THEN mine[w][s] ELSE view[s]
  BY DEF Commit, Publish
<1>2. \A s \in Seats : view[s] \in 0 .. MaxEvents /\ mine[w][s] \in 0 .. MaxEvents
  BY DEF IInv, TypeOK
<1>3. QED
  BY <1>1, <1>2, ProjectionAssumption DEF IInv, RowsOK

\* A commit settles the record it was for, and its rows are the newest.
LEMMA CommitStep ==
    ASSUME IInv, NEW w \in Workers, Commit(w)
    PROVE  IInv'
<1>1. /\ UNCHANGED <<version, dead, rebuilds, faults, replies>> /\ EndTx(w) /\ pc[w] = "commit"
      /\ notices' = IF w \in Projectors THEN notices \ {<<seat[w], notice[w]>>} ELSE notices
      /\ view' = [s \in Seats |-> IF s \in written[w] THEN mine[w][s] ELSE view[s]]
  BY DEF Commit, Publish
<1>2. /\ pc' \in [Workers -> {"idle", "delete", "deleting", "next", "load", "upsert", "commit"}]
      /\ seat' \in [Workers -> Seats \cup {NoSeat}] /\ notice' \in [Workers -> 0 .. MaxEvents]
      /\ todo' \in [Workers -> SUBSET Seats] /\ doomed' \in [Workers -> SUBSET Seats]
      /\ seen' \in [Workers -> 0 .. MaxEvents] /\ written' \in [Workers -> SUBSET Seats]
      /\ mine' \in [Workers -> [Seats -> 0 .. MaxEvents]]
      /\ pc'[w] = "idle" /\ written'[w] = {} /\ \A s \in Seats : mine'[w][s] = 0
      /\ \A x \in Workers \ {w} :
            /\ pc'[x] = pc[x] /\ seat'[x] = seat[x] /\ notice'[x] = notice[x]
            /\ seen'[x] = seen[x] /\ written'[x] = written[x] /\ mine'[x] = mine[x]
      /\ PcOK' /\ LocksOK'
  BY <1>1, EndTxShape DEF IInv
<1>3. \A s \in Seats :
        /\ view'[s] = IF s \in written[w] THEN mine[w][s] ELSE view[s]
        /\ view'[s] \in 0 .. MaxEvents /\ view'[s] <= version[s]
        /\ view'[s] >= view[s] \/ (view'[s] = 0 /\ w \in Rebuilders)
  BY CommitRows
<1>4. TypeOK'
  <2>1. view' \in [Seats -> 0 .. MaxEvents]
    BY <1>1, <1>3
  <2>2. QED
    BY <1>1, <1>2, <2>1 DEF IInv, TypeOK
<1>5. IsFiniteSet(Events')
  BY <1>1 DEF IInv, Events
<1>6. RowsOK'
  <2>1. \A s \in Seats : version[s] \in Nat
    BY DEF IInv, TypeOK
  <2>2. \A x \in Workers \ {w}, s \in Seats : s \in written[x] => view'[s] = view[s]
    BY <1>3 DEF IInv, LocksOK
  <2>3. \A x \in Workers, s \in Seats :
            /\ mine'[x][s] <= version[s]
            /\ s \notin written'[x] => mine'[x][s] = 0
            /\ s \in written'[x] =>
                    mine'[x][s] >= view'[s] \/ (mine'[x][s] = 0 /\ x \in Rebuilders)
    BY <1>2, <2>1, <2>2 DEF IInv, RowsOK
  <2>4. \A x \in Workers : pc'[x] = "upsert" =>
            /\ seen'[x] <= version[seat'[x]]
            /\ seat'[x] \in written'[x] => seen'[x] >= view'[seat'[x]]
    <3> SUFFICES ASSUME NEW x \in Workers, pc'[x] = "upsert"
                 PROVE  /\ seen'[x] <= version[seat'[x]]
                        /\ seat'[x] \in written'[x] => seen'[x] >= view'[seat'[x]]
      OBVIOUS
    <3>1. x # w /\ pc[x] = "upsert" /\ seat'[x] = seat[x] /\ seat[x] \in Seats
      BY <1>2 DEF IInv, PcOK
    <3>2. seen'[x] = seen[x] /\ written'[x] = written[x]
      BY <1>2, <3>1
    <3>3. /\ seen[x] <= version[seat[x]]
          /\ seat[x] \in written[x] => seen[x] >= view[seat[x]]
      BY <3>1 DEF IInv, RowsOK
    <3>4. seat[x] \in written[x] => view'[seat[x]] = view[seat[x]]
      BY <2>2, <3>1
    <3>5. QED
      BY <3>1, <3>2, <3>3, <3>4
  <2>5. QED
    BY <1>1, <1>3, <2>3, <2>4 DEF RowsOK
<1>7. NoticesOK'
  BY <1>1, <1>2 DEF IInv, NoticesOK, Workers
<1>8. VisibleUntilRebuilt'
  <2> SUFFICES ASSUME rebuilds = 0, NEW s \in Seats, NEW v \in 1 .. version[s],
                      <<s, v>> \notin notices' \cup dead
               PROVE  view'[s] >= v
    BY <1>1 DEF VisibleUntilRebuilt, SettledIsVisible
  <2>1. w \in Projectors /\ w \notin Rebuilders
    BY <1>1 DEF IInv, PcOK, Workers
  <2>2. version[s] \in Nat /\ view[s] \in Nat /\ view'[s] \in Nat /\ view'[s] >= view[s]
    BY <1>3, <2>1 DEF IInv, TypeOK
  <2>3. CASE <<s, v>> \notin notices
    <3>1. view[s] >= v
      BY <1>1, <2>3 DEF IInv, VisibleUntilRebuilt, SettledIsVisible
    <3>2. QED
      BY <2>2, <3>1
  <2>4. CASE <<s, v>> \in notices
    <3>1. s = seat[w] /\ v = notice[w]
      BY <1>1, <2>1, <2>4
    <3>2. s \in written[w] /\ mine[w][s] >= v
      BY <1>1, <2>1, <2>2, <3>1 DEF IInv, NoticesOK
    <3>3. QED
      BY <1>3, <3>2
  <2>5. QED
    BY <2>3, <2>4
<1>9. QED
  BY <1>2, <1>4, <1>5, <1>6, <1>7, <1>8 DEF IInv

-----------------------------------------------------------------------------
(* The theorems.                                                           *)

\* The invariant holds of empty tables.
LEMMA InitIInv == Init => IInv
<1> SUFFICES ASSUME Init PROVE IInv
  OBVIOUS
<1>1. 0 \in 0 .. MaxEvents /\ 0 \in 0 .. MaxRebuilds /\ 0 \in 0 .. MaxFaults
  BY ProjectionAssumption
<1>2. [s \in Seats |-> 0] \in [Seats -> 0 .. MaxEvents]
  BY <1>1
<1>3. TypeOK
  BY <1>1, <1>2 DEF Init, TypeOK
<1>4. Events = {}
  BY DEF Init, Events
<1>5. IsFiniteSet(Events)
  BY <1>4, FS_EmptySet
<1>6. PcOK /\ LocksOK /\ RowsOK
  BY DEF Init, PcOK, LocksOK, RowsOK
<1>7. NoticesOK /\ VisibleUntilRebuilt
  BY DEF Init, NoticesOK, VisibleUntilRebuilt, SettledIsVisible, Workers
<1>8. QED
  BY <1>3, <1>5, <1>6, <1>7 DEF IInv

\* Every action preserves it.
LEMMA NextIInv == IInv /\ [Next]_vars => IInv'
<1> SUFFICES ASSUME IInv, [Next]_vars PROVE IInv'
  OBVIOUS
<1>1. ASSUME NEW s \in Seats, AppendEvent(s) \/ Notify(s) PROVE IInv'
  BY <1>1, AppendEventStep, NotifyStep
<1>2. ASSUME NEW w \in Projectors, NEW s \in Seats, NEW v \in 0 .. MaxEvents, Project(w, s, v)
      PROVE  IInv'
  BY <1>2, ProjectStep
<1>3. ASSUME NEW w \in Workers,
             (w \in Rebuilders /\ RebuildStreams(w)) \/ RebuildDelete(w) \/ RebuildNext(w)
      PROVE  IInv'
  BY <1>3, RebuildStep
<1>4. ASSUME NEW w \in Workers, RebuildDeleteRow(w) \/ Load(w) \/ Upsert(w) \/ Commit(w)
      PROVE  IInv'
  BY <1>4, RebuildDeleteRowStep, LoadStep, UpsertStep, CommitStep
<1>5. ASSUME NEW w \in Workers, Abort(w) \/ (w \in Projectors /\ DeadLetter(w)) PROVE IInv'
  BY <1>5, FailStep
<1>6. CASE UNCHANGED vars
  <2>1. /\ UNCHANGED <<version, view, notices, dead, rebuilds, faults, replies>>
        /\ UNCHANGED <<pc, seat, notice, todo, doomed, seen, written, mine>>
    BY <1>6 DEF vars, work
  <2>2. TypeOK'
    BY <2>1 DEF IInv, TypeOK
  <2>3. PcOK' /\ LocksOK' /\ RowsOK' /\ NoticesOK'
    BY <2>1 DEF IInv, PcOK, LocksOK, RowsOK, NoticesOK
  <2>4. QED
    BY <2>1, <2>2, <2>3, TablesKept DEF IInv
<1>7. QED
  BY <1>1, <1>2, <1>3, <1>4, <1>5, <1>6 DEF Next, Step, Workers

\* The invariant above holds in every reachable state.
THEOREM Inductive == Spec => []IInv
BY InitIInv, NextIInv, PTL DEF Spec

\* Streams, view and transactions of the projection have their types: in
\* particular no row is ahead of MaxEvents, the bound on announcements.
THEOREM TypeCorrect == Spec => []TypeOK
<1>1. IInv => TypeOK
  BY DEF IInv
<1>2. QED
  BY <1>1, Inductive, PTL

\* upsertAvailabilitySQL never drags a row back: whatever projectors and
\* rebuilds run at once, a commit that leaves a row leaves a newer one.
THEOREM NotDraggedBack == Spec => NeverDraggedBack
<1>1. ASSUME IInv, [Next]_vars
      PROVE  [\A s \in Seats : view'[s] # 0 => view'[s] >= view[s]]_vars
  <2>1. ASSUME NEW w \in Workers, Commit(w), NEW s \in Seats, view'[s] # 0
        PROVE  view'[s] >= view[s]
    BY <1>1, <2>1, CommitRows
  <2>2. (~ \E w \in Workers : Commit(w)) => view' = view
    BY <1>1 DEF Next, Step, vars, AppendEvent, Notify, Project, RebuildStreams, RebuildDelete,
        RebuildDeleteRow, RebuildNext, Load, Upsert, Abort, DeadLetter
  <2>3. \A s \in Seats : view[s] >= view[s]
    BY <1>1 DEF IInv, TypeOK
  <2>4. QED
    BY <2>1, <2>2, <2>3
<1>2. QED
  BY <1>1, Inductive, PTL DEF Spec, NeverDraggedBack

\* Before the first rebuild a settled notification shows in the view, in
\* whatever order, how often and to however many projectors they are delivered.
THEOREM Visible == Spec => []VisibleUntilRebuilt
<1>1. IInv => VisibleUntilRebuilt
  BY DEF IInv
<1>2. QED
  BY <1>1, Inductive, PTL

\* What project writes, LoadAvailability reads back: the text of the status and
\* the NULL of a free seat's deadline lose nothing.
LEMMA ReadsBack ==
    ASSUME NEW s \in Seats, view[s] \in Nat
    PROVE  /\ LoadAvailability(s) = IF view[s] = 0 THEN NoRow ELSE Folded(view[s])
           /\ s \in HeldSeats <=> view[s] % 2 = 1
<1>1. Text(StatusHeld) = "held" /\ Text(StatusFree) = "free" /\ StatusHeld # StatusFree
  BY DEF Text, StatusHeld, StatusFree
<1>2. ParseStatus("held") = StatusHeld /\ ParseStatus("free") = StatusFree
  BY <1>1 DEF ParseStatus
<1>3. CASE view[s] = 0
  BY <1>3 DEF LoadAvailability, HeldSeats
<1>4. CASE view[s] # 0 /\ view[s] % 2 = 1
  <2>1. Folded(view[s]) = [status |-> StatusHeld, until |-> view[s]]
    BY <1>4 DEF Folded
  <2>2. Stored(Folded(view[s])) = [status |-> "held", until |-> view[s]]
    BY <1>1, <1>4, <2>1 DEF Stored
  <2>3. view[s] # NULL
    BY DEF NULL
  <2>4. QED
    BY <1>1, <1>2, <1>4, <2>1, <2>2, <2>3 DEF LoadAvailability, HeldSeats
<1>5. CASE view[s] # 0 /\ view[s] % 2 # 1
  <2>1. Folded(view[s]) = [status |-> StatusFree, until |-> 0]
    BY <1>5 DEF Folded
  <2>2. Stored(Folded(view[s])) = [status |-> "free", until |-> NULL]
    BY <1>1, <2>1 DEF Stored
  <2>3. QED
    BY <1>1, <1>2, <1>5, <2>1, <2>2 DEF LoadAvailability, HeldSeats
<1>6. QED
  BY <1>3, <1>4, <1>5

\* Once the notifications of a seat are settled, LoadAvailability and HeldSeats
\* say what its stream says.
THEOREM Browse == Spec => []BrowseIsCurrent
<1>1. IInv => BrowseIsCurrent
  <2> SUFFICES ASSUME IInv, NEW s \in Seats, rebuilds = 0,
                      (notices \cup dead) \cap ({s} \X (1 .. version[s])) = {}
               PROVE  /\ LoadAvailability(s) = IF version[s] = 0 THEN NoRow ELSE Folded(version[s])
                      /\ s \in HeldSeats <=> version[s] % 2 = 1
    BY DEF BrowseIsCurrent
  <2>1. version[s] \in Nat /\ view[s] \in Nat /\ view[s] <= version[s]
    BY DEF IInv, TypeOK, RowsOK
  <2>2. view[s] = version[s]
    <3>1. CASE version[s] = 0
      BY <2>1, <3>1
    <3>2. CASE version[s] # 0
      <4>1. version[s] \in 1 .. version[s] /\ <<s, version[s]>> \notin notices \cup dead
        BY <2>1, <3>2
      <4>2. QED
        BY <2>1, <4>1 DEF IInv, VisibleUntilRebuilt, SettledIsVisible
    <3>3. QED
      BY <3>1, <3>2
  <2>3. QED
    BY <2>1, <2>2, ReadsBack
<1>2. QED
  BY <1>1, Inductive, PTL
=============================================================================
