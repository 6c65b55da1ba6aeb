--------------------------- MODULE RolloutProofs ---------------------------
(***************************************************************************)
(* Proofs about Rollout, for any processes, any commits with any .proto    *)
(* files beside those of this one, and any number of runs, starts and      *)
(* records: the type invariant, NeverBreaks, HandledAsSent,                *)
(* SettledWhileUnchanged and EnvelopeKept.                                 *)
(***************************************************************************)
EXTENDS Rollout, WellFoundedInduction, FiniteSetTheorems, SequenceTheorems, TLAPS

-----------------------------------------------------------------------------
(* The inductive invariant.                                                *)

Schemas == [subject : {Subject(t) : t \in Types},
            fields : {Proto[c][t] : c \in Commits, t \in Types}]

\* schemactl registers only behind a level it has seen to be BACKWARD.
CtlOK ==
    /\ level \in {"NONE", "BACKWARD"}
    /\ registry \in Seq(Schemas)
    /\ ctl \in [pc : {"idle", "pin", "check", "register"}, commit : Commits \cup {0},
                next : 0 .. Len(Bindings)]
    /\ ctl.pc # "idle" => ctl.commit \in Commits /\ ctl.next \in 1 .. Len(Bindings)
    /\ ctl.pc = "register" => level = "BACKWARD"
    /\ runs \in 0 .. MaxRuns /\ faults \in 0 .. MaxFaults

\* An id that a process has resolved for a type is one of its subject.
ProcOK ==
    /\ build \in [Processes -> Commits \cup {0}] /\ deployed \subseteq Commits
    /\ ids \in [Processes -> [Types -> {0} \cup DOMAIN registry]]
    /\ \A p \in Processes :
        /\ build[p] # 0 => build[p] \in deployed
        /\ \A t \in Types : ids[p][t] # 0 => ids[p][t] \in Ids(Subject(t))
    /\ starts \in 0 .. MaxStarts

Attributes == Required \cup Optional

\* The attributes the argument reads by name.
Named(e)    == e["ce_id"] # ""
IdOf(e)     == e["ce_id"]
Sourced(e)  == e["ce_source"] # ""
TypeOf(e)   == e["ce_type"]

Values     == {ToString(i) : i \in 1 .. MaxSends} \cup {"", "x", "/sagaflow/booking"} \cup Types
Envelopes  == [Attributes -> Values]

\* Only a foreign record lacks a required attribute, and it lacks the id.
SentOK ==
    /\ sent \in Seq(Envelopes) /\ Len(sent) <= MaxSends
    /\ \A i \in 1 .. Len(sent) : Sourced(sent[i])

\* A frame names an id of its type and holds the fields of a deployed commit.
FrameOK(f) ==
    /\ f.type \in Types /\ f.id \in Ids(Subject(f.type))
    /\ \E c \in deployed : f.fields = Proto[c][f.type]

\* Headers on the wire hold an envelope, or nothing but the version.
Carries(ws, e) ==
    LET h == ToRecord(ws)
    IN  /\ Get(h, "ce_specversion") = "1.0" /\ Get(h, "ce_id") = IdOf(e)
        /\ Named(e) => Parse(h) = e

\* A command that is on the topic, or was, still tells what was sent.
RecordOK(m) ==
    /\ m = [n |-> m.n, frame |-> m.frame, headers |-> m.headers]
    /\ m.n \in 1 .. Len(sent) /\ FrameOK(m.frame)
    /\ m.frame.type \in Range(Commands) /\ TypeOf(sent[m.n]) = m.frame.type
    /\ Carries(m.headers, sent[m.n])

\* An announcement carries on the flow of a command.
Answers(m, n) ==
    LET e == Parse(ToRecord(m.headers))
    IN  /\ IdOf(sent[n]) = e["ce_causationid"]
        /\ sent[n]["ce_correlationid"] = e["ce_correlationid"]
        /\ sent[n]["traceparent"] = e["traceparent"]

MessagesOK ==
    /\ \A m \in topic \cup dlq : RecordOK(m)
    /\ \A m \in out : FrameOK(m.frame) /\ \E n \in 1 .. Len(sent) : Answers(m, n)
    /\ \A e \in store : e.type \in Types /\ \E c \in deployed : e.fields = Proto[c][e.type]
    /\ \A h \in handled : \E n \in 1 .. Len(sent) :
            h = <<n, TypeOf(sent[n])>> /\ TypeOf(sent[n]) \in Types

\* Every subject has one version, and nothing but this commit was deployed.
Unchanged ==
    /\ \A t \in Types : \A i, j \in Ids(Subject(t)) : i = j
    /\ deployed \subseteq {1}

Settled == Unchanged => \A m \in dlq : ~Named(sent[m.n])

IInv == CtlOK /\ NeverBreaks /\ ProcOK /\ SentOK /\ MessagesOK /\ Settled

-----------------------------------------------------------------------------
(* Types, subjects and ids.                                                *)

\* The six messages of the contracts.
LEMMA TypesOK ==
    /\ Types = {"HoldSeat", "ReleaseSeatHold", "SeatHeld", "SeatHoldReleased",
                "SeatHoldExpired", "SeatUnavailable"}
    /\ Range(Commands) = {"HoldSeat", "ReleaseSeatHold"}
    /\ Bindings \in Seq(Types) /\ Commands \in Seq(Types) /\ Len(Bindings) = 6
<1> DEFINE Names == {"HoldSeat", "ReleaseSeatHold", "SeatHeld", "SeatHoldReleased",
                     "SeatHoldExpired", "SeatUnavailable"}
<1>1. /\ Commands \in Seq(Names) /\ Len(Commands) = 2
      /\ Commands[1] = "HoldSeat" /\ Commands[2] = "ReleaseSeatHold"
  BY DEF Commands
<1>2. /\ Events \in Seq(Names) /\ Len(Events) = 4
      /\ Events[1] = "SeatHeld" /\ Events[2] = "SeatHoldReleased"
      /\ Events[3] = "SeatHoldExpired" /\ Events[4] = "SeatUnavailable"
  BY DEF Events
<1>3. /\ Bindings \in Seq(Names) /\ Len(Bindings) = 6 /\ DOMAIN Bindings = 1 .. 6
      /\ \A i \in 1 .. 2 : Bindings[i] = Commands[i]
      /\ \A i \in 3 .. 6 : Bindings[i] = Events[i - 2]
  <2> HIDE DEF Names
  <2>1. /\ Bindings \in Seq(Names) /\ Len(Bindings) = Len(Commands) + Len(Events)
        /\ \A i \in 1 .. Len(Commands) + Len(Events) :
                Bindings[i] = IF i <= Len(Commands) THEN Commands[i] ELSE Events[i - Len(Commands)]
    BY <1>1, <1>2, ConcatProperties DEF Bindings
  <2>2. QED
    BY <1>1, <1>2, <2>1
<1>4. Range(Commands) = {"HoldSeat", "ReleaseSeatHold"}
  BY <1>1 DEF Range
<1>5. /\ Bindings[1] = "HoldSeat" /\ Bindings[2] = "ReleaseSeatHold"
      /\ Bindings[3] = "SeatHeld" /\ Bindings[4] = "SeatHoldReleased"
      /\ Bindings[5] = "SeatHoldExpired" /\ Bindings[6] = "SeatUnavailable"
  BY <1>1, <1>2, <1>3
<1>6. Types = {Bindings[i] : i \in 1 .. 6}
  BY <1>3 DEF Types, Range
<1>7. 1 .. 6 = {1, 2, 3, 4, 5, 6}
  OBVIOUS
<1>8. Types = {"HoldSeat", "ReleaseSeatHold", "SeatHeld", "SeatHoldReleased",
               "SeatHoldExpired", "SeatUnavailable"}
  BY <1>5, <1>6, <1>7
<1>9. Bindings \in Seq(Types)
  <2>1. Names = Types
    BY <1>8
  <2>2. QED
    BY <1>3, <2>1
<1>10. Commands \in Seq(Types)
  <2>1. Names = Types
    BY <1>8
  <2>2. QED
    BY <1>1, <2>1
<1>11. QED
  BY <1>3, <1>4, <1>8, <1>9, <1>10

\* What a process speaks are types, and commands are among them.
LEMMA SpeaksOK ==
    ASSUME NEW p \in Processes
    PROVE  /\ Speaks(p) \in Seq(Types) /\ Range(Speaks(p)) \subseteq Types
           /\ Range(Commands) \subseteq Range(Speaks(p))
           /\ \A i \in DOMAIN Speaks(p) : Speaks(p)[i] \in Types
           /\ DOMAIN Speaks(p) = 1 .. Len(Speaks(p)) /\ Len(Speaks(p)) \in Nat
<1>1. Commands \in Seq(Types) /\ Bindings \in Seq(Types)
  BY TypesOK
<1>2. Speaks(p) \in Seq(Types)
  BY <1>1 DEF Speaks
<1>3. Range(Commands) \subseteq Range(Speaks(p))
  BY TypesOK DEF Speaks, Types
<1>4. DOMAIN Speaks(p) = 1 .. Len(Speaks(p)) /\ Len(Speaks(p)) \in Nat
  BY <1>2
<1>5. \A i \in DOMAIN Speaks(p) : Speaks(p)[i] \in Types
  BY <1>2, <1>4
<1>6. QED
  BY <1>2, <1>3, <1>4, <1>5 DEF Range

\* Subject (registry.go) tells types apart.
LEMMA SubjectInjective == \A t, u : Subject(t) = Subject(u) => t = u
BY DEF Subject

\* The greatest of some positions.
LEMMA MaxOfPositions ==
    ASSUME NEW n \in Nat, NEW T \in SUBSET (1 .. n), T # {}
    PROVE  Max(T) \in T /\ \A x \in T : x <= Max(T)
<1> DEFINE U == {k \in Nat : n - k \in T}
<1>1. U \in SUBSET Nat /\ U # {}
  <2>1. PICK x \in T : TRUE
    OBVIOUS
  <2>2. x \in Nat /\ n - x \in Nat /\ n - (n - x) = x
    BY <2>1
  <2>3. n - x \in U
    BY <2>1, <2>2
  <2>4. QED
    BY <2>3
<1>2. \E k \in U : \A j \in U : ~(<<j, k>> \in OpToRel(<, Nat))
  BY <1>1, NatLessThanWellFounded, WFMin
<1>3. PICK k \in U : \A j \in U : ~(<<j, k>> \in OpToRel(<, Nat))
  BY <1>2
<1>4. \A j \in U : j \in Nat /\ k \in Nat /\ ~(j < k)
  BY <1>3 DEF OpToRel
<1>5. n - k \in T
  BY <1>3
<1>6. \A x \in T : x <= n - k
  <2> TAKE x \in T
  <2>1. x \in Nat /\ n - x \in Nat /\ n - (n - x) = x
    OBVIOUS
  <2>2. n - x \in U
    BY <2>1
  <2>3. QED
    BY <1>4, <2>1, <2>2
<1>7. \A x \in T : x \in Int
  OBVIOUS
<1>8. QED
  BY <1>5, <1>6, <1>7 DEF Max

\* The registry's ids are positions; the latest one is the greatest.
LEMMA IdsOK ==
    ASSUME registry \in Seq(Schemas), NEW subject
    PROVE  /\ Ids(subject) \subseteq DOMAIN registry /\ DOMAIN registry = 1 .. Len(registry)
           /\ Len(registry) \in Nat
           /\ Ids(subject) # {} =>
                /\ Max(Ids(subject)) \in Ids(subject)
                /\ \A i \in Ids(subject) : i <= Max(Ids(subject))
<1>1. DOMAIN registry = 1 .. Len(registry) /\ Len(registry) \in Nat
  OBVIOUS
<1>2. Ids(subject) \subseteq DOMAIN registry
  BY DEF Ids
<1>3. QED
  BY <1>1, <1>2, MaxOfPositions

-----------------------------------------------------------------------------
(* Headers.                                                                *)

\* record and toRecord: a header map survives the wire.
LEMMA WireOK ==
    ASSUME NEW D, NEW h, h = [k \in D |-> h[k]]
    PROVE  ToRecord(Wire(h)) = h
<1>1. DOMAIN h = D
  OBVIOUS
<1>2. {w[1] : w \in Wire(h)} = D
  <2>1. Wire(h) = {<<k, h[k]>> : k \in D}
    BY <1>1 DEF Wire
  <2>2. \A k \in D : <<k, h[k]>> \in Wire(h) /\ <<k, h[k]>>[1] = k
    BY <2>1
  <2>3. \A w \in Wire(h) : w[1] \in D
    BY <2>1
  <2>4. \A k \in D : \E w \in Wire(h) : w[1] = k
    BY <2>2
  <2>5. QED
    BY <2>3, <2>4
<1>3. ASSUME NEW k \in D PROVE (CHOOSE w \in Wire(h) : w[1] = k)[2] = h[k]
  <2>1. <<k, h[k]>> \in Wire(h)
    BY <1>1 DEF Wire
  <2>2. \A w \in Wire(h) : w[1] = k => w = <<k, h[k]>>
    BY DEF Wire
  <2> DEFINE v == CHOOSE w \in Wire(h) : w[1] = k
  <2>3. v \in Wire(h) /\ v[1] = k
    <3>1. \E w \in Wire(h) : w[1] = k
      BY <2>1
    <3>2. QED
      BY <3>1
  <2> HIDE DEF v
  <2>4. v[2] = h[k]
    BY <2>2, <2>3
  <2>5. QED
    BY <2>4 DEF v
<1>4. ToRecord(Wire(h)) = [k \in D |-> h[k]]
  BY <1>2, <1>3, ZenonT(40) DEF ToRecord
<1>5. QED
  BY <1>4

\* Headers and Parse: an envelope survives its headers.
LEMMA RoundTrip ==
    ASSUME NEW e, e = [k \in Attributes |-> e[k]]
    PROVE  /\ Parse(ToRecord(Wire(Headers(e)))) = e
           /\ Get(ToRecord(Wire(Headers(e))), "ce_specversion") = "1.0"
           /\ \A k \in Attributes : Get(ToRecord(Wire(Headers(e))), k) = e[k]
<1> DEFINE D == {"ce_specversion", "content-type"} \cup Required \cup {o \in Optional : e[o] # ""}
           h == Headers(e)
<1>1. h = [k \in D |-> h[k]] /\ DOMAIN h = D
  BY DEF Headers
<1>2. ToRecord(Wire(h)) = h
  BY <1>1, WireOK
<1>3. h["ce_specversion"] = "1.0"
  BY DEF Headers
<1>4. ASSUME NEW k \in Attributes PROVE Get(h, k) = e[k]
  <2>1. k # "ce_specversion" /\ k # "content-type"
    BY DEF Attributes, Required, Optional
  <2>2. k \in D \/ e[k] = ""
    BY DEF Attributes
  <2>3. k \in D => h[k] = e[k]
    BY <2>1 DEF Headers
  <2>4. QED
    BY <1>1, <2>2, <2>3 DEF Get
<1>5. Get(h, "ce_specversion") = "1.0"
  BY <1>1, <1>3 DEF Get
<1>6. Parse(h) = [k \in Attributes |-> e[k]]
  BY <1>4 DEF Parse, Attributes
<1> HIDE DEF h
<1>7. QED
  BY <1>2, <1>4, <1>5, <1>6 DEF h

\* deadLetter: the attributes are those of the original.
LEMMA DeadLetterKeeps ==
    ASSUME NEW ws
    PROVE  LET h == ToRecord(ws)
               d == ToRecord(Wire(DeadLetterHeaders(h)))
           IN  /\ Parse(d) = Parse(h)
               /\ \A k \in Attributes \cup {"ce_specversion"} : Get(d, k) = Get(h, k)
<1> DEFINE h == ToRecord(ws)
           x == DeadLetterHeaders(h)
           D == DOMAIN h \cup Provenance
<1>1. x = [k \in D |-> x[k]] /\ DOMAIN x = D
  BY DEF DeadLetterHeaders
<1>2. ToRecord(Wire(x)) = x
  BY <1>1, WireOK
<1>3. ASSUME NEW k \in Attributes \cup {"ce_specversion"} PROVE Get(x, k) = Get(h, k)
  <2>1. k \notin Provenance
    BY DEF Attributes, Required, Optional, Provenance
  <2>2. k \in DOMAIN h => x[k] = h[k]
    BY <2>1 DEF DeadLetterHeaders
  <2>3. QED
    BY <1>1, <2>1, <2>2 DEF Get
<1>4. Parse(x) = Parse(h)
  BY <1>3 DEF Parse, Attributes
<1> HIDE DEF x, h
<1>5. QED
  BY <1>2, <1>3, <1>4 DEF x, h

-----------------------------------------------------------------------------
(* The registry and schemactl.                                             *)

\* Messages stay in order while ids are added and commits are deployed.
LEMMA MessagesFrame ==
    ASSUME MessagesOK, Settled,
           \A t \in Types : Ids(Subject(t)) \subseteq Ids(Subject(t))',
           deployed \subseteq deployed',
           UNCHANGED <<topic, dlq, out, store, handled, sent>>
    PROVE  MessagesOK' /\ Settled'
<1>1. \A f : FrameOK(f) => FrameOK(f)'
  BY DEF FrameOK
<1>2. \A m : RecordOK(m) => RecordOK(m)'
  BY <1>1 DEF RecordOK
<1>3. \A m, n : Answers(m, n) => Answers(m, n)'
  BY DEF Answers
<1>4. MessagesOK'
  BY <1>1, <1>2, <1>3 DEF MessagesOK
<1>5. Unchanged' => Unchanged
  BY DEF Unchanged
<1>6. Settled'
  BY <1>5 DEF Settled
<1>7. QED
  BY <1>4, <1>6

\* A step of schemactl that registers nothing.
LEMMA CtlFrame ==
    ASSUME IInv, CtlOK', registry' = registry,
           UNCHANGED <<build, deployed, ids, starts>>,
           UNCHANGED <<topic, dlq, out, store, handled, sent, redrives>>
    PROVE  IInv'
<1>1. \A x : Ids(x)' = Ids(x)
  BY DEF Ids
<1>2. NeverBreaks' /\ SentOK'
  BY DEF IInv, NeverBreaks, SentOK
<1>3. ProcOK'
  BY <1>1 DEF IInv, ProcOK
<1>4. MessagesOK' /\ Settled'
  BY <1>1, MessagesFrame DEF IInv
<1>5. QED
  BY <1>2, <1>3, <1>4 DEF IInv

\* schemactl starts, pins the level, reads it back, or gives up.
LEMMA CtlStep ==
    ASSUME IInv, (\E c \in Commits : CtlStart(c)) \/ CtlPin \/ CtlCheck \/ CtlFails
    PROVE  IInv'
<1>1. /\ registry' = registry /\ UNCHANGED <<build, deployed, ids, starts>>
      /\ UNCHANGED <<topic, dlq, out, store, handled, sent, redrives>>
  BY DEF CtlStart, CtlPin, CtlCheck, CtlFails, proc, msgs
<1>2. Idle \in [pc : {"idle", "pin", "check", "register"}, commit : Commits \cup {0},
                next : 0 .. Len(Bindings)] /\ Idle.pc = "idle"
  BY TypesOK DEF Idle
<1>3. CtlOK'
  <2>1. ASSUME NEW c \in Commits, CtlStart(c) PROVE CtlOK'
    BY <2>1, TypesOK, RolloutAssumption DEF IInv, CtlOK, CtlStart
  <2>2. CASE CtlPin
    BY <2>2 DEF IInv, CtlOK, CtlPin
  <2>3. CASE CtlCheck
    BY <1>2, <2>3 DEF IInv, CtlOK, CtlCheck
  <2>4. CASE CtlFails
    BY <1>2, <2>4, RolloutAssumption DEF IInv, CtlOK, CtlFails, Fault
  <2>5. QED
    BY <2>1, <2>2, <2>3, <2>4
<1>4. QED
  BY <1>1, <1>3, CtlFrame

\* A schema is registered behind the latest of its subject, which it reads and
\* which reads all earlier ones.
LEMMA AppendOK ==
    ASSUME IInv, NEW schema \in Schemas, registry' = Append(registry, schema),
           \/ Ids(schema.subject) = {}
           \/ Compatible(schema.fields, registry[Max(Ids(schema.subject))].fields)
    PROVE  /\ registry' \in Seq(Schemas) /\ NeverBreaks'
           /\ DOMAIN registry \subseteq DOMAIN registry'
           /\ \A x : Ids(x) \subseteq Ids(x)'
<1> DEFINE n == Len(registry)
<1>1. /\ registry \in Seq(Schemas) /\ n \in Nat /\ DOMAIN registry = 1 .. n
      /\ registry' \in Seq(Schemas) /\ Len(registry') = n + 1 /\ DOMAIN registry' = 1 .. n + 1
      /\ registry'[n + 1] = schema
      /\ \A i \in 1 .. n : registry'[i] = registry[i]
  BY AppendProperties DEF IInv, CtlOK
<1>2. DOMAIN registry \subseteq DOMAIN registry'
  BY <1>1
<1>3. \A x : Ids(x) \subseteq Ids(x)'
  BY <1>1, <1>2 DEF Ids
<1>4. NeverBreaks'
  <2> SUFFICES ASSUME NEW i \in 1 .. n + 1, NEW j \in 1 .. n + 1, i < j,
                      registry'[i].subject = registry'[j].subject
               PROVE  registry'[i].fields \subseteq registry'[j].fields
    BY <1>1 DEF NeverBreaks, Compatible
  <2>1. i \in 1 .. n /\ registry'[i] = registry[i]
    BY <1>1
  <2>2. CASE j \in 1 .. n
    BY <1>1, <2>1, <2>2 DEF IInv, NeverBreaks, Compatible
  <2>3. CASE j = n + 1
    <3> DEFINE k == Max(Ids(schema.subject))
    <3>1. i \in Ids(schema.subject)
      BY <1>1, <2>1, <2>3 DEF Ids
    <3>2. k \in Ids(schema.subject) /\ i <= k
      BY <1>1, <3>1, IdsOK
    <3>3. registry[k].fields \subseteq schema.fields
      BY <3>1 DEF Compatible
    <3> HIDE DEF k
    <3>4. k \in 1 .. n /\ registry[k].subject = registry[i].subject
      BY <1>1, <3>1, <3>2 DEF Ids
    <3>5. registry[i].fields \subseteq registry[k].fields
      <4>1. CASE i = k
        BY <4>1
      <4>2. CASE i # k
        <5>1. i < k
          BY <2>1, <3>2, <3>4, <4>2
        <5>2. QED
          BY <1>1, <2>1, <3>4, <5>1 DEF IInv, NeverBreaks, Compatible
      <4>3. QED
        BY <4>1, <4>2
    <3>6. QED
      BY <1>1, <2>1, <2>3, <3>3, <3>5
  <2>4. QED
    BY <2>2, <2>3
<1>5. QED
  BY <1>1, <1>2, <1>3, <1>4

\* register: one more binding.
LEMMA RegisterStep ==
    ASSUME IInv, CtlRegister
    PROVE  IInv'
<1> DEFINE t == Bindings[ctl.next]
           schema == [subject |-> Subject(t), fields |-> Proto[ctl.commit][t]]
<1>1. /\ UNCHANGED <<level, runs, build, deployed, ids, starts, faults>>
      /\ UNCHANGED <<topic, dlq, out, store, handled, sent>>
      /\ ctl.pc = "register"
      /\ \/ registry' = registry
         \/ registry' = Append(registry, schema) /\ Accepts(schema.subject, schema.fields)
      /\ ctl' = Idle \/ (ctl.next < Len(Bindings) /\ ctl' = [ctl EXCEPT !.next = @ + 1])
  BY DEF CtlRegister, proc, msgs
<1>2. /\ ctl.commit \in Commits /\ ctl.next \in 1 .. Len(Bindings) /\ level = "BACKWARD"
      /\ registry \in Seq(Schemas)
  BY <1>1 DEF IInv, CtlOK
<1>3. t \in Types
  <2>1. Bindings \in Seq(Types)
    BY TypesOK
  <2>2. QED
    BY <1>2, <2>1
<1>4. schema \in Schemas /\ schema.subject = Subject(t)
  BY <1>2, <1>3 DEF Schemas
<1> HIDE DEF schema
<1>5. /\ registry' \in Seq(Schemas) /\ NeverBreaks'
      /\ DOMAIN registry \subseteq DOMAIN registry'
      /\ \A x : Ids(x) \subseteq Ids(x)'
  <2>1. CASE registry' = registry
    BY <1>2, <2>1 DEF IInv, NeverBreaks, Ids
  <2>2. CASE registry' = Append(registry, schema) /\ Accepts(schema.subject, schema.fields)
    <3>1. \/ Ids(schema.subject) = {}
          \/ Compatible(schema.fields, registry[Max(Ids(schema.subject))].fields)
      BY <1>2, <2>2 DEF Accepts
    <3>2. QED
      BY <1>4, <2>2, <3>1, AppendOK
  <2>3. QED
    BY <1>1, <2>1, <2>2
<1>6. CtlOK'
  <2>1. Idle \in [pc : {"idle", "pin", "check", "register"}, commit : Commits \cup {0},
                  next : 0 .. Len(Bindings)] /\ Idle.pc = "idle"
    BY TypesOK DEF Idle
  <2>2. CASE ctl' = Idle
    BY <1>1, <1>5, <2>1, <2>2 DEF IInv, CtlOK
  <2>3. CASE ctl.next < Len(Bindings) /\ ctl' = [ctl EXCEPT !.next = @ + 1]
    <3>1. ctl.next + 1 \in 1 .. Len(Bindings) /\ ctl.next + 1 \in 0 .. Len(Bindings)
      BY <1>2, <2>3, TypesOK
    <3>2. /\ ctl' \in [pc : {"idle", "pin", "check", "register"}, commit : Commits \cup {0},
                       next : 0 .. Len(Bindings)]
          /\ ctl'.pc = ctl.pc /\ ctl'.commit = ctl.commit /\ ctl'.next = ctl.next + 1
      BY <2>3, <3>1 DEF IInv, CtlOK
    <3>3. QED
      BY <1>1, <1>2, <1>5, <3>1, <3>2 DEF IInv, CtlOK
  <2>4. QED
    BY <1>1, <2>2, <2>3
<1>7. ProcOK'
  <2>1. ids' \in [Processes -> [Types -> {0} \cup DOMAIN registry']]
    BY <1>1, <1>5 DEF IInv, ProcOK
  <2>2. QED
    BY <1>1, <1>5, <2>1 DEF IInv, ProcOK
<1>8. SentOK'
  BY <1>1 DEF IInv, SentOK
<1>9. MessagesOK' /\ Settled'
  BY <1>1, <1>5, MessagesFrame DEF IInv
<1>10. QED
  BY <1>5, <1>6, <1>7, <1>8, <1>9 DEF IInv

-----------------------------------------------------------------------------
(* Processes.                                                              *)

\* A process starts, resolves an id, or goes down.
LEMMA ProcessStep ==
    ASSUME IInv, NEW p \in Processes,
           (\E c \in Commits : Start(p, c)) \/ Stop(p) \/ Resolve(p) \/ FailsClosed(p)
    PROVE  IInv'
<1>1. /\ UNCHANGED <<level, registry, ctl, runs, faults>>
      /\ UNCHANGED <<topic, dlq, out, store, handled, sent>>
  BY DEF Start, Stop, Resolve, FailsClosed, reg, msgs
<1>2. \A x : Ids(x)' = Ids(x)
  BY <1>1 DEF Ids
<1>3. CtlOK' /\ NeverBreaks' /\ SentOK'
  BY <1>1 DEF IInv, CtlOK, NeverBreaks, SentOK
<1>4. NoIds \in [Types -> {0} \cup DOMAIN registry] /\ \A t \in Types : NoIds[t] = 0
  BY DEF NoIds
<1>5. ProcOK' /\ deployed \subseteq deployed'
  <2>1. ASSUME NEW c \in Commits, Start(p, c) PROVE ProcOK' /\ deployed \subseteq deployed'
    <3>1. /\ starts < MaxStarts /\ starts' = starts + 1 /\ ids' = ids
          /\ build' = [build EXCEPT ![p] = c] /\ deployed' = deployed \cup {c}
      BY <2>1 DEF Start
    <3>2. starts' \in 0 .. MaxStarts
      BY <3>1, RolloutAssumption DEF IInv, ProcOK
    <3>3. build' \in [Processes -> Commits \cup {0}]
      BY <3>1 DEF IInv, ProcOK
    <3>4. \A q \in Processes : build'[q] # 0 => build'[q] \in deployed'
      BY <3>1 DEF IInv, ProcOK
    <3>5. QED
      BY <1>1, <1>2, <3>1, <3>2, <3>3, <3>4 DEF IInv, ProcOK
  <2>2. CASE Stop(p) \/ FailsClosed(p)
    <3>1. /\ UNCHANGED <<deployed, starts>>
          /\ build' = [build EXCEPT ![p] = 0] /\ ids' = [ids EXCEPT ![p] = NoIds]
      BY <2>2 DEF Stop, FailsClosed
    <3>2. /\ build' \in [Processes -> Commits \cup {0}]
          /\ \A q \in Processes : build'[q] # 0 => build'[q] \in deployed'
      BY <3>1 DEF IInv, ProcOK
    <3>3. /\ ids' \in [Processes -> [Types -> {0} \cup DOMAIN registry]]
          /\ \A q \in Processes, t \in Types : ids'[q][t] # 0 => ids'[q][t] \in Ids(Subject(t))
      BY <1>4, <3>1 DEF IInv, ProcOK
    <3>4. QED
      BY <1>1, <1>2, <3>1, <3>2, <3>3 DEF IInv, ProcOK
  <2>3. CASE Resolve(p)
    <3>1. UNCHANGED <<build, deployed, starts>>
      BY <2>3 DEF Resolve
    <3>2. PICK i \in DOMAIN Speaks(p) :
            /\ Ids(Subject(Speaks(p)[i])) # {}
            /\ ids' = [ids EXCEPT ![p][Speaks(p)[i]] = Max(Ids(Subject(Speaks(p)[i])))]
      BY <2>3 DEF Resolve
    <3> DEFINE u == Speaks(p)[i]
    <3>3. u \in Types /\ Max(Ids(Subject(u))) \in Ids(Subject(u))
      BY <3>2, SpeaksOK, IdsOK DEF IInv, CtlOK
    <3>4. Max(Ids(Subject(u))) \in DOMAIN registry
      BY <3>3 DEF Ids
    <3> DEFINE max == Max(Ids(Subject(u)))
    <3>5. ids' = [ids EXCEPT ![p][u] = max]
      BY <3>2
    <3> HIDE DEF u, max
    <3>6. max \in DOMAIN registry /\ max \in Ids(Subject(u)) /\ u \in Types
      BY <3>3, <3>4 DEF max
    <3>7. /\ ids' \in [Processes -> [Types -> {0} \cup DOMAIN registry]]
          /\ \A q \in Processes, t \in Types : ids'[q][t] = ids[q][t] \/ (t = u /\ ids'[q][t] = max)
      BY <3>5, <3>6 DEF IInv, ProcOK
    <3>8. \A q \in Processes, t \in Types : ids'[q][t] # 0 => ids'[q][t] \in Ids(Subject(t))
      BY <3>6, <3>7 DEF IInv, ProcOK
    <3>9. QED
      BY <1>1, <1>2, <3>1, <3>7, <3>8 DEF IInv, ProcOK
  <2>4. QED
    BY <2>1, <2>2, <2>3
<1>6. MessagesOK' /\ Settled'
  BY <1>1, <1>2, <1>5, MessagesFrame DEF IInv
<1>7. QED
  BY <1>3, <1>5, <1>6 DEF IInv

-----------------------------------------------------------------------------
(* Messages.                                                               *)

\* Records, envelopes and headers alone change.
LEMMA MessageFrame ==
    ASSUME IInv, UNCHANGED <<level, registry, ctl, runs, faults>>,
           UNCHANGED <<build, deployed, ids, starts>>,
           SentOK', MessagesOK', Settled'
    PROVE  IInv'
<1>1. \A x : Ids(x)' = Ids(x)
  BY DEF Ids
<1>2. CtlOK' /\ NeverBreaks' /\ ProcOK'
  BY <1>1 DEF IInv, CtlOK, NeverBreaks, ProcOK
<1>3. QED
  BY <1>2 DEF IInv

\* A sequence with one element more.
LEMMA Longer ==
    ASSUME NEW S, NEW s \in Seq(S), NEW x \in S, NEW t, t = Append(s, x)
    PROVE  /\ t \in Seq(S) /\ Len(s) \in Nat /\ Len(t) = Len(s) + 1 /\ t[Len(s) + 1] = x
           /\ \A i \in 1 .. Len(s) : t[i] = s[i]
           /\ \A i \in 1 .. Len(s) : i \in 1 .. Len(t)
           /\ Len(s) + 1 \in 1 .. Len(t)
           /\ \A i \in 1 .. Len(t) : i \in 1 .. Len(s) \/ i = Len(s) + 1
<1>1. /\ t \in Seq(S) /\ Len(s) \in Nat /\ Len(t) = Len(s) + 1 /\ t[Len(s) + 1] = x
      /\ \A i \in 1 .. Len(s) : t[i] = s[i]
  BY AppendProperties
<1>2. QED
  BY <1>1

\* One more envelope is sent; the earlier ones stay, and what is known of records,
\* announcements and commands with them.
LEMMA SentGrows ==
    ASSUME IInv, NEW e \in Envelopes, Sourced(e),
           Len(sent) < MaxSends, sent' = Append(sent, e),
           UNCHANGED <<registry, deployed>>
    PROVE  /\ SentOK' /\ sent'[Len(sent) + 1] = e /\ Len(sent) + 1 \in 1 .. Len(sent')
           /\ \A i \in 1 .. Len(sent) : i \in 1 .. Len(sent') /\ sent'[i] = sent[i]
           /\ \A f : FrameOK(f) => FrameOK(f)'
           /\ \A m : RecordOK(m) => RecordOK(m)'
           /\ \A m, n : n \in 1 .. Len(sent) /\ Answers(m, n) => Answers(m, n)'
<1>1. sent \in Seq(Envelopes)
  BY DEF IInv, SentOK
<1>2. /\ sent' \in Seq(Envelopes) /\ Len(sent) \in Nat /\ Len(sent') = Len(sent) + 1
      /\ sent'[Len(sent) + 1] = e /\ Len(sent) + 1 \in 1 .. Len(sent')
      /\ \A i \in 1 .. Len(sent) : i \in 1 .. Len(sent') /\ sent'[i] = sent[i]
      /\ \A i \in 1 .. Len(sent') : i \in 1 .. Len(sent) \/ i = Len(sent) + 1
  BY <1>1, Longer
<1>3. SentOK'
  <2>1. Len(sent') <= MaxSends
    BY <1>2, RolloutAssumption
  <2>2. \A i \in 1 .. Len(sent') : Sourced(sent'[i])
    BY <1>2 DEF IInv, SentOK
  <2>3. QED
    BY <1>2, <2>1, <2>2 DEF SentOK
<1>4. \A f : FrameOK(f) => FrameOK(f)'
  BY DEF FrameOK, Ids
<1>5. \A m : RecordOK(m) => RecordOK(m)'
  <2> SUFFICES ASSUME NEW m, RecordOK(m) PROVE RecordOK(m)'
    OBVIOUS
  <2>1. m.n \in 1 .. Len(sent) /\ m.n \in 1 .. Len(sent') /\ sent'[m.n] = sent[m.n]
    BY <1>2 DEF RecordOK
  <2>2. QED
    BY <1>4, <2>1 DEF RecordOK
<1>6. \A m, n : n \in 1 .. Len(sent) /\ Answers(m, n) => Answers(m, n)'
  BY <1>2 DEF Answers
<1>7. QED
  BY <1>2, <1>3, <1>4, <1>5, <1>6

\* A sender that is ready frames a command under an id of its type.
LEMMA SenderFrame ==
    ASSUME IInv, NEW p \in Processes, Ready(p), NEW t \in Range(Speaks(p))
    PROVE  t \in Types /\ FrameOK(Frame(p, t)) /\ Frame(p, t).type = t
<1>1. t \in Types
  BY SpeaksOK
<1>2. ids[p][t] \in Ids(Subject(t))
  BY <1>1 DEF IInv, ProcOK, Ready
<1>3. build[p] \in deployed
  BY DEF IInv, ProcOK, Ready
<1>4. QED
  BY <1>1, <1>2, <1>3 DEF FrameOK, Frame

\* A new record on the topic, with its envelope in sent.
LEMMA SendFrame ==
    ASSUME IInv, NEW e \in Envelopes, Sourced(e),
           Len(sent) < MaxSends, sent' = Append(sent, e),
           UNCHANGED <<level, registry, ctl, runs, faults>>,
           UNCHANGED <<build, deployed, ids, starts>>,
           UNCHANGED <<dlq, out, store, handled>>,
           NEW f, FrameOK(f), f.type \in Range(Commands), TypeOf(e) = f.type,
           NEW ws, Carries(ws, e),
           topic' = topic \cup {[n |-> Len(sent) + 1, frame |-> f, headers |-> ws]}
    PROVE  IInv'
<1>1. /\ SentOK' /\ sent'[Len(sent) + 1] = e /\ Len(sent) + 1 \in 1 .. Len(sent')
      /\ \A i \in 1 .. Len(sent) : i \in 1 .. Len(sent') /\ sent'[i] = sent[i]
      /\ \A g : FrameOK(g) => FrameOK(g)'
      /\ \A m : RecordOK(m) => RecordOK(m)'
      /\ \A m, n : n \in 1 .. Len(sent) /\ Answers(m, n) => Answers(m, n)'
  BY SentGrows
<1>2. \A r : r = [n |-> Len(sent) + 1, frame |-> f, headers |-> ws] => RecordOK(r)'
  <2> SUFFICES ASSUME NEW r, r = [n |-> Len(sent) + 1, frame |-> f, headers |-> ws]
               PROVE  RecordOK(r)'
    OBVIOUS
  <2>1. r.n = Len(sent) + 1 /\ r.frame = f /\ r.headers = ws
    OBVIOUS
  <2>2. r = [n |-> r.n, frame |-> r.frame, headers |-> r.headers]
    OBVIOUS
  <2>3. FrameOK(r.frame)' /\ r.n \in 1 .. Len(sent') /\ sent'[r.n] = e
    BY <1>1, <2>1
  <2>4. QED
    BY <2>1, <2>2, <2>3 DEF RecordOK
<1>3. \A m \in topic' \cup dlq' : RecordOK(m)'
  BY <1>1, <1>2 DEF IInv, MessagesOK
<1>4. 1 .. Len(sent) \subseteq 1 .. Len(sent')
  BY <1>1
<1>5. \A m \in out' : FrameOK(m.frame)' /\ \E n \in 1 .. Len(sent') : Answers(m, n)'
  BY <1>1, <1>4 DEF IInv, MessagesOK
<1>6. \A h \in handled' : \E n \in 1 .. Len(sent') :
            h = <<n, TypeOf(sent'[n])>> /\ TypeOf(sent'[n]) \in Types
  BY <1>1, <1>4 DEF IInv, MessagesOK
<1>7. MessagesOK'
  BY <1>3, <1>5, <1>6 DEF IInv, MessagesOK
<1>8. Settled'
  <2>1. Unchanged' => Unchanged
    BY DEF Unchanged, Ids
  <2>2. \A m \in dlq : sent'[m.n] = sent[m.n]
    BY <1>1 DEF IInv, MessagesOK, RecordOK
  <2>3. QED
    BY <2>1, <2>2 DEF IInv, Settled
<1>9. QED
  BY <1>1, <1>7, <1>8, MessageFrame

\* Commands leave with their envelope in the headers, foreign records without.
LEMMA SendStep ==
    ASSUME IInv, NEW p \in Processes, NEW t \in Range(Commands),
           SendForeign(p, t) \/ \E opt \in {{}, Optional} : Send(p, t, opt)
    PROVE  IInv'
<1>1. /\ UNCHANGED <<level, registry, ctl, runs, faults>>
      /\ UNCHANGED <<build, deployed, ids, starts>>
      /\ UNCHANGED <<dlq, out, store, handled>>
      /\ Ready(p) /\ Len(sent) < MaxSends
  BY DEF Send, SendForeign, reg, proc
<1>2. t \in Types /\ FrameOK(Frame(p, t)) /\ Frame(p, t).type = t
  BY <1>1, SpeaksOK, SenderFrame
<1>3. Len(sent) \in Nat /\ ToString(Len(sent) + 1) \in Values
  <2>1. Len(sent) \in Nat /\ MaxSends \in Nat
    BY RolloutAssumption DEF IInv, SentOK
  <2>2. Len(sent) + 1 \in 1 .. MaxSends
    BY <1>1, <2>1
  <2>3. QED
    BY <2>1, <2>2 DEF Values
<1>4. ASSUME NEW opt
      PROVE  /\ Envelope(t, opt) \in Envelopes
             /\ Sourced(Envelope(t, opt))
             /\ TypeOf(Envelope(t, opt)) = t
  <2>1. \A k \in Attributes : Envelope(t, opt)[k] \in Values
    BY <1>2, <1>3 DEF Envelope, Attributes, Values
  <2>2. Envelope(t, opt) = [k \in Attributes |-> Envelope(t, opt)[k]]
    BY DEF Envelope, Attributes
  <2>3. /\ Envelope(t, opt)["ce_source"] = "/sagaflow/booking"
        /\ Envelope(t, opt)["ce_type"] = t
    BY DEF Envelope, Required
  <2> DEFINE v == Envelope(t, opt)
  <2> HIDE DEF v
  <2>4. v \in [Attributes -> Values]
    BY <2>1, <2>2 DEF v
  <2>5. QED
    BY <2>3, <2>4 DEF Envelopes, Sourced, TypeOf, v
<1>5. ASSUME NEW opt, Send(p, t, opt) PROVE IInv'
  <2> DEFINE e == Envelope(t, opt)
             ws == Wire(Headers(e))
  <2>1. /\ sent' = Append(sent, e)
        /\ topic' = topic \cup {[n |-> Len(sent) + 1, frame |-> Frame(p, t), headers |-> ws]}
    BY <1>5 DEF Send
  <2>2. e \in Envelopes /\ Sourced(e) /\ TypeOf(e) = t
    BY <1>4
  <2>3. e = [k \in Attributes |-> e[k]]
    BY DEF Envelope, Attributes
  <2> HIDE DEF e
  <2>4. "ce_id" \in Attributes
    BY DEF Attributes, Required
  <2>5. Carries(ws, e)
    BY <2>3, <2>4, RoundTrip DEF Carries, IdOf
  <2> HIDE DEF ws
  <2>6. QED
    BY <1>1, <1>2, <2>1, <2>2, <2>5, SendFrame
<1>6. ASSUME SendForeign(p, t) PROVE IInv'
  <2> DEFINE v == Envelope(t, {})
             e == [v EXCEPT !["ce_id"] = ""]
             h == [k \in {"ce_specversion"} |-> "1.0"]
             ws == Wire(h)
  <2>1. /\ sent' = Append(sent, e)
        /\ topic' = topic \cup {[n |-> Len(sent) + 1, frame |-> Frame(p, t), headers |-> ws]}
    BY <1>6 DEF SendForeign
  <2>2. v \in [Attributes -> Values] /\ v["ce_source"] # "" /\ v["ce_type"] = t
    BY <1>4 DEF Envelopes, Sourced, TypeOf
  <2> HIDE DEF v
  <2>3. "" \in Values /\ {"ce_id", "ce_source", "ce_type"} \subseteq Attributes
    BY DEF Values, Attributes, Required
  <2>4. /\ e \in [Attributes -> Values] /\ e["ce_source"] # "" /\ e["ce_type"] = t
        /\ e["ce_id"] = ""
    BY <2>2, <2>3
  <2> HIDE DEF e
  <2>5. ToRecord(ws) = h
    BY WireOK
  <2>6. Get(h, "ce_specversion") = "1.0" /\ Get(h, "ce_id") = ""
    BY DEF Get
  <2> HIDE DEF h
  <2>7. Carries(ws, e)
    BY <2>4, <2>5, <2>6 DEF Carries, IdOf, Named
  <2>8. e \in Envelopes /\ Sourced(e) /\ TypeOf(e) = t
    BY <2>4 DEF Envelopes, Sourced, TypeOf
  <2> HIDE DEF ws
  <2>9. QED
    BY <1>1, <1>2, <2>1, <2>7, <2>8, SendFrame
<1>7. QED
  BY <1>5, <1>6

\* Serde.Decode: an id belongs to one subject, so a frame decodes as its type.
LEMMA DecodeOK ==
    ASSUME IInv, NEW p \in Processes, NEW f, FrameOK(f), NEW cmd \in DecodesAs(p, f)
    PROVE  cmd = f.type
<1>1. PICK i \in DOMAIN Speaks(p) : cmd = Speaks(p)[i] /\ ids[p][Speaks(p)[i]] = f.id
  BY DEF DecodesAs
<1>2. cmd \in Types /\ ids[p][cmd] = f.id
  BY <1>1, SpeaksOK
<1>3. f.id \in Ids(Subject(f.type)) /\ f.id # 0
  BY IdsOK DEF FrameOK, IInv, CtlOK
<1>4. f.id \in Ids(Subject(cmd))
  BY <1>2, <1>3 DEF IInv, ProcOK
<1>5. Subject(cmd) = Subject(f.type)
  BY <1>3, <1>4 DEF Ids
<1>6. QED
  BY <1>5, SubjectInjective

\* A record with an id carries a well-formed envelope.
LEMMA NamedIsWellFormed ==
    ASSUME SentOK, NEW m, RecordOK(m), Named(sent[m.n])
    PROVE  WellFormed(ToRecord(m.headers))
<1> DEFINE h == ToRecord(m.headers)
           e == sent[m.n]
<1>1. Get(h, "ce_specversion") = "1.0" /\ Parse(h) = e
  BY DEF RecordOK, Carries
<1>2. \A k \in Required : Get(h, k) = Parse(h)[k]
  BY DEF Parse
<1>3. e["ce_id"] # ""
  BY DEF Named
<1>4. e["ce_source"] # ""
  BY DEF SentOK, RecordOK, Sourced
<1>5. e["ce_type"] # ""
  <2>1. TypeOf(e) \in {"HoldSeat", "ReleaseSeatHold"}
    BY TypesOK DEF RecordOK
  <2>2. QED
    BY <2>1 DEF TypeOf
<1> HIDE DEF h, e
<1>6. ASSUME NEW k \in Required PROVE Get(h, k) # ""
  <2>1. Get(h, k) = e[k]
    BY <1>1, <1>2
  <2>2. QED
    BY <1>3, <1>4, <1>5, <2>1 DEF Required
<1>7. QED
  BY <1>1, <1>6 DEF WellFormed, h

\* While nothing changes, a service that is ready reads every record with an id.
LEMMA ReadableWhileUnchanged ==
    ASSUME IInv, Unchanged, NEW p \in Services, Ready(p),
           NEW m, RecordOK(m), Named(sent[m.n])
    PROVE  Readable(p, m)
<1>1. p \in Processes
  BY DEF Processes
<1>2. WellFormed(ToRecord(m.headers))
  BY NamedIsWellFormed DEF IInv
<1>3. DecodesAs(p, m.frame) # {}
  <2> DEFINE t == m.frame.type
             known == {i \in DOMAIN Speaks(p) : ids[p][Speaks(p)[i]] = m.frame.id}
  <2>1. t \in Types /\ t \in Range(Speaks(p)) /\ m.frame.id \in Ids(Subject(t))
    BY <1>1, SpeaksOK DEF RecordOK, FrameOK
  <2>2. ids[p][t] \in Ids(Subject(t))
    BY <1>1, <2>1 DEF IInv, ProcOK, Ready
  <2>3. ids[p][t] = m.frame.id
    BY <2>1, <2>2 DEF Unchanged
  <2>4. PICK i \in DOMAIN Speaks(p) : Speaks(p)[i] = t
    BY <2>1 DEF Range
  <2>5. i \in known
    BY <2>3, <2>4
  <2>6. known \subseteq 1 .. Len(Speaks(p)) /\ Len(Speaks(p)) \in Nat
    BY <1>1, SpeaksOK
  <2>7. Max(known) \in known /\ \A k \in known : k <= Max(known)
    <3> HIDE DEF known
    <3>1. QED
      BY <2>5, <2>6, MaxOfPositions
  <2>8. Speaks(p)[Max(known)] \in DecodesAs(p, m.frame)
    BY <2>7 DEF DecodesAs
  <2>9. QED
    BY <2>8
<1>4. Replays(p)
  <2>1. build[p] = 1
    BY <1>1 DEF IInv, ProcOK, Ready, Unchanged
  <2>2. \A e \in store : e.fields = Proto[1][e.type]
    BY DEF IInv, MessagesOK, Unchanged
  <2>3. QED
    BY <2>1, <2>2 DEF Replays
<1>5. QED
  BY <1>2, <1>3, <1>4 DEF Readable

\* Records move between topic and dead letters.
LEMMA MoveFrame ==
    ASSUME IInv, UNCHANGED <<level, registry, ctl, runs, faults>>,
           UNCHANGED <<build, deployed, ids, starts>>, UNCHANGED <<out, store, handled, sent>>,
           \A m \in topic' \cup dlq' : RecordOK(m),
           Unchanged => \A m \in dlq' : ~Named(sent[m.n])
    PROVE  IInv'
<1>1. SentOK'
  BY DEF IInv, SentOK
<1>2. \A f : FrameOK(f)' <=> FrameOK(f)
  BY DEF FrameOK, Ids
<1>3. \A m : RecordOK(m)' <=> RecordOK(m)
  BY <1>2 DEF RecordOK
<1>4. \A m, n : Answers(m, n)' <=> Answers(m, n)
  BY DEF Answers
<1>5. MessagesOK'
  BY <1>2, <1>3, <1>4 DEF IInv, MessagesOK
<1>6. Unchanged' => Unchanged
  BY DEF Unchanged, Ids
<1>7. Settled'
  BY <1>6 DEF Settled
<1>8. QED
  BY <1>1, <1>5, <1>7, MessageFrame

\* deadLetter: the headers keep the envelope; while nothing changes only a record
\* without an id gets here.
LEMMA DeadLetterStep ==
    ASSUME IInv, NEW p \in Processes, NEW m \in topic, DeadLetter(p, m)
    PROVE  IInv'
<1>1. /\ p \in Services /\ Ready(p) /\ ~Readable(p, m) /\ topic' = topic \ {m}
      /\ dlq' = dlq \cup {[m EXCEPT !.headers = Wire(DeadLetterHeaders(ToRecord(m.headers)))]}
      /\ UNCHANGED <<level, registry, ctl, runs, faults>>
      /\ UNCHANGED <<build, deployed, ids, starts>> /\ UNCHANGED <<out, store, handled, sent>>
  BY DEF DeadLetter, reg, proc
<1> DEFINE ws == Wire(DeadLetterHeaders(ToRecord(m.headers)))
           d == [m EXCEPT !.headers = ws]
<1>2. RecordOK(m)
  BY DEF IInv, MessagesOK
<1>3. Carries(ws, sent[m.n])
  <2>1. "ce_id" \in Attributes
    BY DEF Attributes, Required
  <2>2. QED
    BY <1>2, <2>1, DeadLetterKeeps DEF RecordOK, Carries
<1>4. dlq' = dlq \cup {d}
  BY <1>1
<1> HIDE DEF ws
<1>5. d = [n |-> m.n, frame |-> m.frame, headers |-> ws]
  <2>1. m = [n |-> m.n, frame |-> m.frame, headers |-> m.headers]
    BY <1>2 DEF RecordOK
  <2>2. QED
    BY <2>1
<1> HIDE DEF d
<1>6. d.n = m.n /\ d.frame = m.frame /\ d.headers = ws
  BY <1>5
<1>7. RecordOK(d)
  BY <1>2, <1>3, <1>5, <1>6 DEF RecordOK
<1>8. Unchanged => ~Named(sent[d.n])
  BY <1>1, <1>2, <1>6, ReadableWhileUnchanged
<1>9. \A r \in topic' \cup dlq' : RecordOK(r)
  BY <1>1, <1>4, <1>7 DEF IInv, MessagesOK
<1>10. Unchanged => \A r \in dlq' : ~Named(sent[r.n])
  BY <1>4, <1>8 DEF IInv, Settled
<1>11. QED
  BY <1>1, <1>9, <1>10, MoveFrame

\* A dead letter is put back as it is.
LEMMA RedriveStep ==
    ASSUME IInv, NEW m \in dlq, Redrive(m)
    PROVE  IInv'
<1>1. /\ topic' = topic \cup {m} /\ dlq' = dlq \ {m}
      /\ UNCHANGED <<level, registry, ctl, runs, faults>>
      /\ UNCHANGED <<build, deployed, ids, starts>> /\ UNCHANGED <<out, store, handled, sent>>
  BY DEF Redrive, reg, proc
<1>2. \A r \in topic' \cup dlq' : RecordOK(r)
  BY <1>1 DEF IInv, MessagesOK
<1>3. Unchanged => \A r \in dlq' : ~Named(sent[r.n])
  BY <1>1 DEF IInv, Settled
<1>4. QED
  BY <1>1, <1>2, <1>3, MoveFrame

\* outgoing: a reply names the command that caused it and keeps its flow and trace.
LEMMA ReplyOK ==
    ASSUME NEW e, e = [k \in Attributes |-> e[k]], NEW t
    PROVE  /\ Reply(e, t) = [k \in Attributes |-> Reply(e, t)[k]]
           /\ Reply(e, t)["ce_causationid"] = e["ce_id"]
           /\ Reply(e, t)["ce_correlationid"] = e["ce_correlationid"]
           /\ Reply(e, t)["traceparent"] = e["traceparent"]
<1>1. {"ce_id", "ce_type", "ce_source", "ce_subject", "ce_causationid", "ce_correlationid",
       "traceparent"} \subseteq Attributes
  BY DEF Attributes, Required, Optional
<1>2. QED
  BY <1>1 DEF Reply

\* Every outcome is a type, so a service has an id for it.
LEMMA OutcomeIsSpoken ==
    ASSUME NEW p \in Services, NEW cmd, NEW o \in Outcomes(cmd)
    PROVE  o[1] \in Range(Speaks(p))
<1>1. o[1] \in Types
  <2>1. o[1] \in {"SeatHeld", "SeatUnavailable", "SeatHoldReleased"}
    <3>1. \E t \in {"SeatHeld", "SeatUnavailable", "SeatHoldReleased"} : \E b \in BOOLEAN : o = <<t, b>>
      BY Zenon DEF Outcomes
    <3>2. QED
      BY <3>1
  <2>2. QED
    BY <2>1, TypesOK
<1>2. QED
  BY <1>1 DEF Types, Speaks

\* Handle: the command is handled as what it was sent as, the stored event holds
\* the fields of this build, and the announcement carries on the command's flow.
LEMMA HandleStep ==
    ASSUME IInv, NEW p \in Processes, NEW m \in topic, Handle(p, m)
    PROVE  IInv'
<1>1. /\ p \in Services /\ Ready(p) /\ Readable(p, m) /\ topic' = topic \ {m}
      /\ UNCHANGED <<level, registry, ctl, runs, faults>>
      /\ UNCHANGED <<build, deployed, ids, starts>> /\ UNCHANGED <<dlq, sent>>
  BY DEF Handle, reg, proc
<1>2. PICK cmd \in DecodesAs(p, m.frame) : \E o \in Outcomes(cmd) :
        /\ handled' = handled \cup {<<m.n, cmd>>}
        /\ store' = IF o[2] THEN store \cup {[type |-> o[1], fields |-> Proto[build[p]][o[1]]]}
                    ELSE store
        /\ out' = out \cup {[frame |-> Frame(p, o[1]),
                              headers |-> Wire(Headers(Reply(Parse(ToRecord(m.headers)), o[1])))]}
  BY DEF Handle
<1>3. PICK o \in Outcomes(cmd) :
        /\ handled' = handled \cup {<<m.n, cmd>>}
        /\ store' = IF o[2] THEN store \cup {[type |-> o[1], fields |-> Proto[build[p]][o[1]]]}
                    ELSE store
        /\ out' = out \cup {[frame |-> Frame(p, o[1]),
                              headers |-> Wire(Headers(Reply(Parse(ToRecord(m.headers)), o[1])))]}
  BY <1>2
<1>4. RecordOK(m)
  BY DEF IInv, MessagesOK
<1>5. cmd = TypeOf(sent[m.n]) /\ cmd \in Types /\ m.n \in 1 .. Len(sent)
  BY <1>4, DecodeOK DEF RecordOK, FrameOK
<1>6. o[1] \in Types /\ FrameOK(Frame(p, o[1])) /\ build[p] \in deployed
  <2>1. o[1] \in Range(Speaks(p))
    BY <1>1, OutcomeIsSpoken
  <2>2. o[1] \in Types /\ FrameOK(Frame(p, o[1]))
    BY <1>1, <2>1, SenderFrame
  <2>3. build[p] \in deployed
    BY <1>1 DEF IInv, ProcOK, Ready
  <2>4. QED
    BY <2>2, <2>3
<1> DEFINE e  == Parse(ToRecord(m.headers))
           ws == Wire(Headers(Reply(e, o[1])))
           r  == [frame |-> Frame(p, o[1]), headers |-> ws]
<1>7. e = sent[m.n] /\ e = [k \in Attributes |-> e[k]]
  <2>1. Named(sent[m.n])
    <3>1. Get(ToRecord(m.headers), "ce_id") # ""
      BY <1>1 DEF Readable, WellFormed, Required
    <3>2. QED
      BY <1>4, <3>1 DEF RecordOK, Carries, IdOf, Named
  <2>2. e = sent[m.n]
    BY <1>4, <2>1 DEF RecordOK, Carries
  <2>3. e = [k \in Attributes |-> e[k]]
    BY DEF Parse, Attributes
  <2>4. QED
    BY <2>2, <2>3
<1>8. out' = out \cup {r}
  BY <1>3
<1>9. Answers(r, m.n)
  <2> HIDE DEF e
  <2>1. Reply(e, o[1]) = [k \in Attributes |-> Reply(e, o[1])[k]]
    BY <1>7, ReplyOK
  <2>2. Parse(ToRecord(ws)) = Reply(e, o[1])
    BY <2>1, RoundTrip
  <2>3. r.headers = ws
    OBVIOUS
  <2> HIDE DEF ws, r
  <2>4. QED
    BY <1>7, <2>2, <2>3, ReplyOK DEF Answers, IdOf
<1>10. r.frame = Frame(p, o[1])
  OBVIOUS
<1> HIDE DEF e, ws, r
<1>11. \A f : FrameOK(f)' <=> FrameOK(f)
  BY <1>1 DEF FrameOK, Ids
<1>12. \A x : RecordOK(x)' <=> RecordOK(x)
  BY <1>1, <1>11 DEF RecordOK
<1>13. \A x, n : Answers(x, n)' <=> Answers(x, n)
  BY <1>1 DEF Answers
<1>14. \A x \in topic' \cup dlq' : RecordOK(x)'
  BY <1>1, <1>12 DEF IInv, MessagesOK
<1>15. \A x \in out' : FrameOK(x.frame)' /\ \E n \in 1 .. Len(sent') : Answers(x, n)'
  <2> SUFFICES ASSUME NEW x \in out'
               PROVE  FrameOK(x.frame)' /\ \E n \in 1 .. Len(sent') : Answers(x, n)'
    OBVIOUS
  <2>1. FrameOK(x.frame) /\ \E n \in 1 .. Len(sent) : Answers(x, n)
    BY <1>5, <1>6, <1>8, <1>9, <1>10 DEF IInv, MessagesOK
  <2>2. QED
    BY <1>1, <1>11, <1>13, <2>1
<1>16. \A x \in store' : x.type \in Types /\ \E c \in deployed' : x.fields = Proto[c][x.type]
  BY <1>1, <1>3, <1>6 DEF IInv, MessagesOK
<1>17. \A x \in handled' : \E n \in 1 .. Len(sent') :
            x = <<n, TypeOf(sent'[n])>> /\ TypeOf(sent'[n]) \in Types
  BY <1>1, <1>3, <1>5 DEF IInv, MessagesOK
<1>18. MessagesOK'
  BY <1>14, <1>15, <1>16, <1>17 DEF MessagesOK
<1>19. Settled' /\ SentOK'
  BY <1>1 DEF IInv, Settled, Unchanged, SentOK, Ids
<1>20. QED
  BY <1>1, <1>18, <1>19, MessageFrame

-----------------------------------------------------------------------------
(* The invariant holds.                                                    *)

\* An empty registry, nothing deployed, nothing sent.
LEMMA InitOK == Init => IInv
<1> SUFFICES ASSUME Init PROVE IInv
  OBVIOUS
<1>1. CtlOK
  BY TypesOK, RolloutAssumption DEF Init, CtlOK, Idle
<1>2. NeverBreaks
  BY DEF Init, NeverBreaks
<1>3. ProcOK
  BY RolloutAssumption DEF Init, ProcOK, NoIds
<1>4. SentOK
  BY RolloutAssumption DEF Init, SentOK
<1>5. MessagesOK /\ Settled
  BY DEF Init, MessagesOK, Settled
<1>6. QED
  BY <1>1, <1>2, <1>3, <1>4, <1>5 DEF IInv

\* Every step of schemactl, of a process, of a record and of the operator keeps it.
LEMMA NextOK == IInv /\ [Next]_vars => IInv'
<1> SUFFICES ASSUME IInv, [Next]_vars PROVE IInv'
  OBVIOUS
<1>1. CASE UNCHANGED vars
  <2>1. CtlOK'
    BY <1>1 DEF IInv, CtlOK, vars, reg
  <2>2. QED
    BY <1>1, <2>1, CtlFrame DEF vars, reg, proc, msgs
<1>2. CASE (\E c \in Commits : CtlStart(c)) \/ CtlPin \/ CtlCheck \/ CtlFails
  BY <1>2, CtlStep
<1>3. CASE CtlRegister
  BY <1>3, RegisterStep
<1>4. ASSUME NEW p \in Processes,
             (\E c \in Commits : Start(p, c)) \/ Stop(p) \/ Resolve(p) \/ FailsClosed(p)
      PROVE  IInv'
  BY <1>4, ProcessStep
<1>5. ASSUME NEW p \in Processes, NEW t \in Range(Commands),
             SendForeign(p, t) \/ \E opt \in {{}, Optional} : Send(p, t, opt)
      PROVE  IInv'
  BY <1>5, SendStep
<1>6. ASSUME NEW p \in Processes, NEW m \in topic, Handle(p, m) \/ DeadLetter(p, m)
      PROVE  IInv'
  BY <1>6, HandleStep, DeadLetterStep
<1>7. ASSUME NEW m \in dlq, Redrive(m) PROVE IInv'
  BY <1>7, RedriveStep
<1>8. QED
  BY <1>1, <1>2, <1>3, <1>4, <1>5, <1>6, <1>7 DEF Next

\* What the registry, the processes and the records hold at every moment of a
\* rollout.
THEOREM Inductive == Spec => []IInv
<1>1. Init => IInv
  BY InitOK
<1>2. IInv /\ [Next]_vars => IInv'
  BY NextOK
<1>3. QED
  BY <1>1, <1>2, PTL DEF Spec

\* The registry, the ids of the processes and the records keep their shape.
THEOREM TypeCorrect == Spec => []TypeOK
<1>1. IInv => TypeOK
  <2> SUFFICES ASSUME IInv PROVE TypeOK
    OBVIOUS
  <2>1. ASSUME NEW i \in DOMAIN registry PROVE registry[i].subject[1] \in {Topic(t) : t \in Types}
    <3>1. registry[i] \in Schemas
      BY DEF IInv, CtlOK
    <3>2. PICK t \in Types : registry[i].subject = Subject(t)
      BY <3>1 DEF Schemas
    <3>3. QED
      BY <3>2 DEF Subject
  <2>2. ctl.pc \in {"idle", "pin", "check", "register"} /\ ctl.next \in 0 .. Len(Bindings)
    BY DEF IInv, CtlOK
  <2>3. \A f : FrameOK(f) => IsFrame(f)
    BY DEF FrameOK, IsFrame, Ids
  <2>4. \A m \in topic \cup dlq \cup out : IsFrame(m.frame)
    BY <2>3 DEF IInv, MessagesOK, RecordOK
  <2>5. handled \subseteq (1 .. MaxSends) \X Types
    <3>1. 1 .. Len(sent) \subseteq 1 .. MaxSends
      <4>1. Len(sent) \in Nat /\ Len(sent) <= MaxSends /\ MaxSends \in Nat
        BY RolloutAssumption DEF IInv, SentOK
      <4>2. QED
        BY <4>1
    <3>2. QED
      BY <3>1 DEF IInv, MessagesOK
  <2>6. QED
    BY <2>1, <2>2, <2>4, <2>5 DEF IInv, CtlOK, ProcOK, TypeOK
<1>2. QED
  BY <1>1, Inductive, PTL

(***************************************************************************)
(* schemactl (setCompatibility, then register): whatever commits it runs   *)
(* from and wherever its runs fail, a later version of a subject reads     *)
(* every earlier one.  The level is read back before anything is           *)
(* registered and never leaves BACKWARD again, and the registry compares a *)
(* schema with the latest version, which by the same invariant reads the   *)
(* ones before it.                                                         *)
(***************************************************************************)
THEOREM Evolves == Spec => []NeverBreaks
<1>1. IInv => NeverBreaks
  BY DEF IInv
<1>2. QED
  BY <1>1, Inductive, PTL

(***************************************************************************)
(* Serde.Encode and Decode: an id belongs to one subject and a subject to  *)
(* one type, so a command is handled as what it was sent as, whichever     *)
(* versions the two ends have resolved.                                    *)
(***************************************************************************)
THEOREM KeptApart == Spec => []HandledAsSent
<1>1. IInv => HandledAsSent
  <2> SUFFICES ASSUME IInv PROVE HandledAsSent
    OBVIOUS
  <2>1. \A f : FrameOK(f) => registry[f.id].subject = Subject(f.type)
    BY DEF FrameOK, Ids
  <2>2. \A m \in topic \cup dlq \cup out : registry[m.frame.id].subject = Subject(m.frame.type)
    BY <2>1 DEF IInv, MessagesOK, RecordOK
  <2>3. \A h \in handled : h[2] = sent[h[1]]["ce_type"]
    <3> SUFFICES ASSUME NEW h \in handled PROVE h[2] = sent[h[1]]["ce_type"]
      OBVIOUS
    <3>1. PICK n \in 1 .. Len(sent) : h = <<n, TypeOf(sent[n])>>
      BY DEF IInv, MessagesOK
    <3>2. h[1] = n /\ h[2] = TypeOf(sent[n])
      BY <3>1
    <3>3. QED
      BY <3>2 DEF TypeOf
  <2>4. QED
    BY <2>2, <2>3 DEF HandledAsSent
<1>2. QED
  BY <1>1, Inductive, PTL

(***************************************************************************)
(* While every subject has one version and this commit alone is deployed,  *)
(* a service decodes every record and every stored event: the consumer     *)
(* dead-letters only what lacks its required attributes.                   *)
(***************************************************************************)
THEOREM NothingLost == Spec => []SettledWhileUnchanged
<1>1. IInv => SettledWhileUnchanged
  <2> SUFFICES ASSUME IInv, \A t \in Types : Cardinality(Ids(Subject(t))) <= 1, deployed = {1}
               PROVE  \A m \in dlq : sent[m.n]["ce_id"] = ""
    BY DEF SettledWhileUnchanged
  <2>1. ASSUME NEW t \in Types, NEW i \in Ids(Subject(t)), NEW j \in Ids(Subject(t)) PROVE i = j
    <3>1. IsFiniteSet(Ids(Subject(t)))
      <4>1. Ids(Subject(t)) \subseteq 1 .. Len(registry) /\ Len(registry) \in Nat
        BY IdsOK DEF IInv, CtlOK
      <4>2. QED
        <5>1. IsFiniteSet(1 .. Len(registry))
          BY <4>1, FS_Interval
        <5>2. QED
          BY <4>1, <5>1, FS_Subset
    <3>2. SUFFICES ASSUME i # j PROVE FALSE
      OBVIOUS
    <3>3. {i, j} \subseteq Ids(Subject(t)) /\ Cardinality({i, j}) = 2
      <4>1. IsFiniteSet({i}) /\ Cardinality({i}) = 1
        BY FS_Singleton
      <4>2. Cardinality({i} \cup {j}) = Cardinality({i}) + 1
        <5>1. j \notin {i}
          BY <3>2
        <5>2. QED
          BY <4>1, <5>1, FS_AddElement
      <4>3. {i} \cup {j} = {i, j}
        OBVIOUS
      <4>4. QED
        BY <4>1, <4>2, <4>3
    <3>4. Cardinality({i, j}) <= Cardinality(Ids(Subject(t)))
      BY <3>1, <3>3, FS_Subset
    <3>5. Cardinality(Ids(Subject(t))) \in Nat
      BY <3>1, FS_CardinalityType
    <3>6. QED
      BY <3>3, <3>4, <3>5
  <2>2. Unchanged
    BY <2>1 DEF Unchanged
  <2>3. \A m \in dlq : ~Named(sent[m.n])
    BY <2>2 DEF IInv, Settled
  <2>4. QED
    BY <2>3 DEF Named
<1>2. QED
  BY <1>1, Inductive, PTL

(***************************************************************************)
(* envelope.Headers and Parse, record and toRecord, deadLetter: the        *)
(* envelope of a command survives the wire, the dead-letter topic and the  *)
(* way back, and outgoing carries its correlation, causation and trace on. *)
(***************************************************************************)
THEOREM FlowKept == Spec => []EnvelopeKept
<1>1. IInv => EnvelopeKept
  <2> SUFFICES ASSUME IInv PROVE EnvelopeKept
    OBVIOUS
  <2>1. ASSUME NEW m \in topic \cup dlq, sent[m.n]["ce_id"] # ""
        PROVE  Parse(ToRecord(m.headers)) = sent[m.n]
    BY <2>1 DEF IInv, MessagesOK, RecordOK, Carries, Named
  <2>2. DOMAIN sent = 1 .. Len(sent)
    BY DEF IInv, SentOK
  <2>3. \A m \in out : \E n \in DOMAIN sent : Answers(m, n)
    BY <2>2 DEF IInv, MessagesOK
  <2>4. QED
    BY <2>1, <2>3 DEF EnvelopeKept, Answers, IdOf
<1>2. QED
  BY <1>1, Inductive, PTL
=============================================================================
