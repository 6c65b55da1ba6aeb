------------------------------ MODULE Rollout ------------------------------
(***************************************************************************)
(* Message contracts while they change: the schema registry and the        *)
(* operator's schemactl, the ids each process resolves when it starts      *)
(* (platform/schema), the frames and CloudEvents headers of its records    *)
(* (platform/envelope, platform/kafka) and the events it stores            *)
(* (platform/codec).                                                       *)
(*                                                                         *)
(* A .proto file is the set of its fields; a commit of the repository has  *)
(* one for each message type.  A service handles commands: it decodes the  *)
(* record, replays the stored events of the stream, stores one more and    *)
(* announces it.  Whatever it cannot read is dead-lettered, and an         *)
(* operator may put a dead letter back on its topic.                       *)
(***************************************************************************)
EXTENDS Integers, Sequences, FiniteSets, FiniteSetsExt, Functions, TLC

CONSTANTS
    Senders,        \* processes that send commands (booking)
    Services,       \* processes that handle them (inventory)
    Commits,        \* commits of the repository
    Proto,          \* commit -> message type -> fields of its .proto file
    MaxRuns,        \* bound: runs of schemactl
    MaxStarts,      \* bound: processes started
    MaxSends,       \* bound: records sent by senders
    MaxFaults,      \* bound: calls to the registry that fail
    MaxRedrives     \* bound: dead letters put back

Processes == Senders \cup Services

-----------------------------------------------------------------------------
(* The contracts of this commit.                                           *)

HoldSeat         == {"hold_id", "booking_id", "seat_id", "expires_at"}
ReleaseSeatHold  == {"hold_id", "booking_id", "seat_id", "reason"}
SeatHeld         == {"hold_id", "booking_id", "seat_id", "expires_at"}
SeatHoldReleased == {"hold_id", "booking_id", "seat_id", "reason"}
SeatHoldExpired  == {"hold_id", "booking_id", "seat_id"}
SeatUnavailable  == {"hold_id", "booking_id", "seat_id", "reason"}

Commands == <<"HoldSeat", "ReleaseSeatHold">>
Events   == <<"SeatHeld", "SeatHoldReleased", "SeatHoldExpired", "SeatUnavailable">>
Bindings == Commands \o Events
Types    == Range(Bindings)

Base == [t \in Types |->
            CASE t = "HoldSeat" -> HoldSeat [] t = "ReleaseSeatHold" -> ReleaseSeatHold
              [] t = "SeatHeld" -> SeatHeld [] t = "SeatHoldReleased" -> SeatHoldReleased
              [] t = "SeatHoldExpired" -> SeatHoldExpired
              [] t = "SeatUnavailable" -> SeatUnavailable]

ASSUME RolloutAssumption ==
    /\ Senders \cap Services = {}
    /\ Commits \subseteq Nat \ {0} /\ 1 \in Commits
    /\ DOMAIN Proto = Commits /\ Proto[1] = Base
    /\ {MaxRuns, MaxStarts, MaxSends, MaxFaults, MaxRedrives} \subseteq Nat

-----------------------------------------------------------------------------
(* Envelopes and headers.                                                  *)

Topic(t) == IF t \in Range(Commands) THEN "inventory.commands" ELSE "inventory.events"

Required == {"ce_id", "ce_source", "ce_type"}
Optional == {"ce_subject", "ce_correlationid", "ce_causationid", "traceparent"}

\* An envelope has every attribute; one that is not set is empty.
Headers(e) ==
    [k \in {"ce_specversion", "content-type"} \cup Required \cup {o \in Optional : e[o] # ""} |->
        CASE k = "ce_specversion" -> "1.0"
          [] k = "content-type" -> "application/protobuf"
          [] OTHER -> e[k]]

Get(h, k) == IF k \in DOMAIN h THEN h[k] ELSE ""

\* Mutant: every attribute is required.
WellFormedStrict(h) == \A k \in Required \cup Optional : Get(h, k) # ""

WellFormed(h) == Get(h, "ce_specversion") = "1.0" /\ \A k \in Required : Get(h, k) # ""

Parse(h) == [k \in Required \cup Optional |-> Get(h, k)]

\* record and toRecord: a map becomes a list of pairs, in any order, and back.
Wire(h)      == {<<k, h[k]>> : k \in DOMAIN h}
ToRecord(ws) == [k \in {w[1] : w \in ws} |-> (CHOOSE w \in ws : w[1] = k)[2]]

Provenance == {"sagaflow_dlq_topic", "sagaflow_dlq_partition",
               "sagaflow_dlq_offset", "sagaflow_dlq_error"}

\* deadLetter: the original headers and where, and why, the record failed.
DeadLetterHeaders(h) ==
    [k \in DOMAIN h \cup Provenance |-> IF k \in Provenance THEN "x" ELSE h[k]]

-----------------------------------------------------------------------------
VARIABLES
    level,      \* global compatibility level of the registry
    registry,   \* schemas in the order they were registered; the index is the id
    ctl,        \* the running schemactl
    build,      \* process -> commit it was built from, 0 while it is down
    deployed,   \* commits that processes have been started from
    ids,        \* process -> message type -> id its serde has for it, or 0
    topic,      \* records on the command topic not yet settled
    dlq,        \* dead letters
    out,        \* records on the event topic
    store,      \* events of one stream
    handled,    \* command -> type it was handled as
    sent,       \* envelopes of the commands sent, in order
    runs, starts, faults, redrives

reg  == <<level, registry, ctl, runs>>
proc == <<build, deployed, ids, starts>>
msgs == <<topic, dlq, out, store, handled, sent, redrives>>
vars == <<reg, proc, msgs, faults>>

NoIds == [t \in Types |-> 0]
Idle  == [pc |-> "idle", commit |-> 0, next |-> 0]

Init ==
    /\ level = "NONE" /\ registry = <<>> /\ ctl = Idle
    /\ build = [p \in Processes |-> 0]
    /\ deployed = {}
    /\ ids = [p \in Processes |-> NoIds]
    /\ topic = {} /\ dlq = {} /\ out = {} /\ store = {} /\ handled = {} /\ sent = <<>>
    /\ runs = 0 /\ starts = 0 /\ faults = 0 /\ redrives = 0

Fault == faults < MaxFaults /\ faults' = faults + 1

-----------------------------------------------------------------------------
(* The registry (external) and schemactl.                                  *)

\* TopicRecordNameStrategy.
Subject(t) == <<Topic(t), t>>

Ids(subject) == {i \in DOMAIN registry : registry[i].subject = subject}

\* A reader with the new schema reads what was written with the old one.
Compatible(new, old) == old \subseteq new

Accepts(subject, fields) ==
    \/ level = "NONE" \/ Ids(subject) = {}
    \/ Compatible(fields, registry[Max(Ids(subject))].fields)

CtlStart(c) ==
    /\ ctl = Idle
    /\ runs < MaxRuns /\ runs' = runs + 1
    /\ ctl' = [pc |-> "pin", commit |-> c, next |-> 1]
    /\ UNCHANGED <<level, registry, proc, msgs, faults>>

\* SetCompatibility.  An answer without the field reads as success although
\* the level has not changed, so the answer says nothing.
CtlPin ==
    /\ ctl.pc = "pin"
    /\ level' \in {level, "BACKWARD"}
    /\ ctl' = [ctl EXCEPT !.pc = "check"]
    /\ UNCHANGED <<registry, runs, proc, msgs, faults>>

\* Mutant: the answer to SetCompatibility is trusted.
CtlCheckTrusts ==
    /\ ctl.pc = "check"
    /\ ctl' = [ctl EXCEPT !.pc = "register"]
    /\ UNCHANGED <<level, registry, runs, proc, msgs, faults>>

\* The level is read back; anything but BACKWARD ends the run.
CtlCheck ==
    /\ ctl.pc = "check"
    /\ ctl' = IF level = "BACKWARD" THEN [ctl EXCEPT !.pc = "register"] ELSE Idle
    /\ UNCHANGED <<level, registry, runs, proc, msgs, faults>>

\* register: one binding after the other.  A schema that is already a version
\* of its subject keeps its id; a refused one ends the run.
CtlRegister ==
    LET t      == Bindings[ctl.next]
        schema == [subject |-> Subject(t), fields |-> Proto[ctl.commit][t]]
    IN  /\ ctl.pc = "register"
        /\ IF schema \in Range(registry) THEN UNCHANGED registry
           ELSE registry' = IF Accepts(schema.subject, schema.fields)
                            THEN Append(registry, schema) ELSE registry
        /\ ctl' = IF schema \in Range(registry') /\ ctl.next < Len(Bindings)
                  THEN [ctl EXCEPT !.next = @ + 1] ELSE Idle
        /\ UNCHANGED <<level, runs, proc, msgs, faults>>

\* A call fails, or the operator gives up: what is registered stays.
CtlFails ==
    /\ ctl # Idle /\ Fault
    /\ ctl' = Idle
    /\ UNCHANGED <<level, registry, runs, proc, msgs>>

-----------------------------------------------------------------------------
(* A process resolves its ids when it starts.                              *)

Speaks(p) == IF p \in Services THEN Bindings ELSE Commands

\* Mutant: the process does not wait for its ids.
ReadyEarly(p) == build[p] # 0

Ready(p) == build[p] # 0 /\ \A t \in Range(Speaks(p)) : ids[p][t] # 0

Start(p, c) ==
    /\ build[p] = 0
    /\ starts < MaxStarts /\ starts' = starts + 1
    /\ build' = [build EXCEPT ![p] = c]
    /\ deployed' = deployed \cup {c}
    /\ UNCHANGED <<reg, ids, msgs, faults>>

Stop(p) ==
    /\ build[p] # 0
    /\ build' = [build EXCEPT ![p] = 0]
    /\ ids' = [ids EXCEPT ![p] = NoIds]
    /\ UNCHANGED <<reg, deployed, starts, msgs, faults>>

\* The types before the i-th are resolved, it is not.
Resolving(p, i) ==
    /\ build[p] # 0
    /\ ids[p][Speaks(p)[i]] = 0
    /\ \A j \in 1 .. i - 1 : ids[p][Speaks(p)[j]] # 0

\* Mutant: the first id is taken for all types of the topic.
ResolveOnce(p) ==
    /\ \E i \in DOMAIN Speaks(p) :
        LET t == Speaks(p)[i]
        IN  /\ Resolving(p, i) /\ Ids(Subject(t)) # {}
            /\ ids' = [ids EXCEPT ![p] = [u \in Types |->
                          IF Topic(u) = Topic(t) /\ u \in Range(Speaks(p))
                          THEN Max(Ids(Subject(t))) ELSE @[u]]]
    /\ UNCHANGED <<reg, build, deployed, starts, msgs, faults>>

\* NewTopicSerde: the latest version of each subject, one call at a time.
Resolve(p) ==
    /\ \E i \in DOMAIN Speaks(p) :
        LET t == Speaks(p)[i]
        IN  /\ Resolving(p, i) /\ Ids(Subject(t)) # {}
            /\ ids' = [ids EXCEPT ![p][t] = Max(Ids(Subject(t)))]
    /\ UNCHANGED <<reg, build, deployed, starts, msgs, faults>>

\* ErrSubjectNotRegistered: the process does not start.
FailsClosed(p) ==
    /\ \E i \in DOMAIN Speaks(p) : Resolving(p, i) /\ Ids(Subject(Speaks(p)[i])) = {}
    /\ build' = [build EXCEPT ![p] = 0]
    /\ ids' = [ids EXCEPT ![p] = NoIds]
    /\ UNCHANGED <<reg, deployed, starts, msgs, faults>>

-----------------------------------------------------------------------------
(* Records.                                                                *)

\* Serde.Encode: the fields of this build under the id resolved at start.
Frame(p, t) == [id |-> ids[p][t], type |-> t, fields |-> Proto[build[p]][t]]

\* Serde.Decode: the type registered under the id; the last one registered wins.
DecodesAs(p, frame) ==
    LET known == {i \in DOMAIN Speaks(p) : ids[p][Speaks(p)[i]] = frame.id}
    IN  {Speaks(p)[i] : i \in {j \in known : \A k \in known : k <= j}}

Envelope(t, opt) ==
    [k \in Required \cup Optional |->
        CASE k = "ce_id" -> ToString(Len(sent) + 1)
          [] k = "ce_source" -> "/sagaflow/booking" [] k = "ce_type" -> t
          [] OTHER -> IF k \in opt THEN "x" ELSE ""]

\* A sender's command, with or without the optional attributes.
Send(p, t, opt) ==
    LET e == Envelope(t, opt)
    IN  /\ p \in Senders /\ Ready(p)
        /\ Len(sent) < MaxSends /\ sent' = Append(sent, e)
        /\ topic' = topic \cup {[n |-> Len(sent) + 1, frame |-> Frame(p, t),
                                 headers |-> Wire(Headers(e))]}
        /\ UNCHANGED <<reg, proc, dlq, out, store, handled, redrives, faults>>

\* Another producer's record, without a ce_id.
SendForeign(p, t) ==
    /\ p \in Senders /\ Ready(p)
    /\ Len(sent) < MaxSends /\ sent' = Append(sent, [Envelope(t, {}) EXCEPT !["ce_id"] = ""])
    /\ topic' = topic \cup {[n |-> Len(sent) + 1, frame |-> Frame(p, t),
                             headers |-> Wire([k \in {"ce_specversion"} |-> "1.0"])]}
    /\ UNCHANGED <<reg, proc, dlq, out, store, handled, redrives, faults>>

\* codec.Decode of every stored event: a field the build does not know is an error.
Replays(p) == \A e \in store : e.fields \subseteq Proto[build[p]][e.type]

Readable(p, m) ==
    /\ WellFormed(ToRecord(m.headers))
    /\ DecodesAs(p, m.frame) # {}
    /\ Replays(p)

\* Decide: the message a command may lead to, and whether it is an event.
Outcomes(t) ==
    IF t = "HoldSeat" THEN {<<"SeatHeld", TRUE>>, <<"SeatHeld", FALSE>>, <<"SeatUnavailable", FALSE>>}
    ELSE {<<"SeatHoldReleased", TRUE>>, <<"SeatHoldReleased", FALSE>>}

\* Mutant: a reply starts a trace of its own.
ReplyUntraced(e, t) ==
    [e EXCEPT !["ce_id"] = "re " \o e["ce_id"], !["ce_type"] = t,
              !["ce_source"] = "/sagaflow/inventory", !["ce_subject"] = "seat",
              !["ce_causationid"] = e["ce_id"], !["traceparent"] = ""]

\* outgoing: an id and a type of its own, the flow of the command.
Reply(e, t) ==
    [e EXCEPT !["ce_id"] = "re " \o e["ce_id"], !["ce_type"] = t,
              !["ce_source"] = "/sagaflow/inventory", !["ce_subject"] = "seat",
              !["ce_causationid"] = e["ce_id"]]

\* Commands and Handle: the event is stored (codec.Encode) and announced.
Handle(p, m) ==
    /\ p \in Services /\ Ready(p) /\ m \in topic /\ Readable(p, m)
    /\ topic' = topic \ {m}
    /\ \E cmd \in DecodesAs(p, m.frame) : \E o \in Outcomes(cmd) :
        /\ handled' = handled \cup {<<m.n, cmd>>}
        /\ store' = IF o[2] THEN store \cup {[type |-> o[1], fields |-> Proto[build[p]][o[1]]]}
                    ELSE store
        /\ out' = out \cup {[frame |-> Frame(p, o[1]),
                              headers |-> Wire(Headers(Reply(Parse(ToRecord(m.headers)), o[1])))]}
    /\ UNCHANGED <<reg, proc, dlq, sent, redrives, faults>>

\* ErrPermanent at once, or after the retry budget for a stream that does not
\* decode: the record goes to the dead-letter topic and is marked.
DeadLetter(p, m) ==
    /\ p \in Services /\ Ready(p) /\ m \in topic /\ ~Readable(p, m)
    /\ topic' = topic \ {m}
    /\ dlq' = dlq \cup {[m EXCEPT !.headers = Wire(DeadLetterHeaders(ToRecord(m.headers)))]}
    /\ UNCHANGED <<reg, proc, out, store, handled, sent, redrives, faults>>

\* An operator puts a dead letter back as it is.
Redrive(m) ==
    /\ m \in dlq
    /\ redrives < MaxRedrives /\ redrives' = redrives + 1
    /\ dlq' = dlq \ {m} /\ topic' = topic \cup {m}
    /\ UNCHANGED <<reg, proc, out, store, handled, sent, faults>>

-----------------------------------------------------------------------------
Next ==
    \/ \E c \in Commits : CtlStart(c)
    \/ CtlPin \/ CtlCheck \/ CtlRegister \/ CtlFails
    \/ \E p \in Processes :
        \/ \E c \in Commits : Start(p, c)
        \/ Stop(p) \/ Resolve(p) \/ FailsClosed(p)
        \/ \E t \in Range(Commands) :
            SendForeign(p, t) \/ \E opt \in {{}, Optional} : Send(p, t, opt)
        \/ \E m \in topic : Handle(p, m) \/ DeadLetter(p, m)
    \/ \E m \in dlq : Redrive(m)

Spec == Init /\ [][Next]_vars

-----------------------------------------------------------------------------
(* Properties.                                                             *)

IsFrame(f) == f.id \in DOMAIN registry /\ f.type \in Types

\* The shape of the registry, the processes and the records.
TypeOK ==
    /\ level \in {"NONE", "BACKWARD"}
    /\ \A i \in DOMAIN registry : registry[i].subject[1] \in {Topic(t) : t \in Types}
    /\ ctl.pc \in {"idle", "pin", "check", "register"} /\ ctl.next \in 0 .. Len(Bindings)
    /\ build \in [Processes -> Commits \cup {0}]
    /\ ids \in [Processes -> [Types -> {0} \cup DOMAIN registry]]
    /\ \A m \in topic \cup dlq \cup out : IsFrame(m.frame)
    /\ handled \subseteq (1 .. MaxSends) \X Types
    /\ runs \in 0 .. MaxRuns /\ starts \in 0 .. MaxStarts /\ faults \in 0 .. MaxFaults

(***************************************************************************)
(* schemactl pins the level before it registers anything, "so an           *)
(* incompatible change in this very run is rejected" (main.go:58-59).      *)
(* Whatever commits it is run from, in whatever order, and wherever runs   *)
(* fail, a later version of a subject reads every earlier one.             *)
(***************************************************************************)
NeverBreaks ==
    \A i, j \in DOMAIN registry :
        i < j /\ registry[i].subject = registry[j].subject =>
            Compatible(registry[j].fields, registry[i].fields)

(***************************************************************************)
(* Subject keeps the types of a topic apart: a record is framed under an   *)
(* id of its own type, and a command is handled as what it was sent as,    *)
(* also when processes resolve their ids while schemactl is at work.       *)
(***************************************************************************)
HandledAsSent ==
    /\ \A m \in topic \cup dlq \cup out : registry[m.frame.id].subject = Subject(m.frame.type)
    /\ \A h \in handled : h[2] = sent[h[1]]["ce_type"]

(***************************************************************************)
(* While every subject has one version and one build is deployed, only a   *)
(* record without its required attributes is dead-lettered: resolving ids  *)
(* at start, failing closed and refusing unknown fields cost nothing.      *)
(***************************************************************************)
SettledWhileUnchanged ==
    (/\ \A t \in Types : Cardinality(Ids(Subject(t))) <= 1
     /\ deployed = {1})
        => \A m \in dlq : sent[m.n]["ce_id"] = ""

(***************************************************************************)
(* envelope.go:22-25: (ID, Source) is the deduplication key, and a dead    *)
(* letter keeps the original headers "so the failure stays traceable and   *)
(* the record stays replayable" (consumer.go:289-290).  The envelope of a  *)
(* command survives headers, dead-lettering and redriving, and every       *)
(* announcement carries on the flow and the trace of the command that      *)
(* caused it.                                                              *)
(***************************************************************************)
EnvelopeKept ==
    /\ \A m \in topic \cup dlq : sent[m.n]["ce_id"] # "" => Parse(ToRecord(m.headers)) = sent[m.n]
    /\ \A m \in out :
        LET e == Parse(ToRecord(m.headers))
        IN  \E n \in DOMAIN sent :
                /\ sent[n]["ce_id"] = e["ce_causationid"]
                /\ sent[n]["ce_correlationid"] = e["ce_correlationid"]
                /\ sent[n]["traceparent"] = e["traceparent"]

(***************************************************************************)
(* schema/doc.go:11-14: services are "deployed on different days" and a    *)
(* consumer has "to keep working against messages the producer half        *)
(* already started sending".  A record framed under the id of the very     *)
(* schema it was encoded from, which by NeverBreaks is compatible with the *)
(* other versions of its subject, is not dead-lettered.                    *)
(***************************************************************************)
RegisteredIsReadable ==
    \A m \in dlq : registry[m.frame.id].fields = m.frame.fields => sent[m.n]["ce_id"] = ""
=============================================================================
