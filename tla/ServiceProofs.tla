--------------------------- MODULE ServiceProofs ---------------------------
(***************************************************************************)
(* Proofs about Service, for any number of replicas, migrations, starts    *)
(* and faults: the type invariant, ServesWhenReady, NoUseAfterClose,       *)
(* NothingLeftOpen and AllLoopsOrNone.                                     *)
(***************************************************************************)
EXTENDS Service, TLAPS

-----------------------------------------------------------------------------
(* The inductive invariant.                                                *)

\* Each migration has run once, in order, and none is missing between two.
AppliedOK ==
    /\ Len(applied) <= Migrations
    /\ \A i \in DOMAIN applied : applied[i] = i

\* The labels of the poller between TryElect and release.
Reigns == {"elected", "polling", "draining"}

\* The session locks belong to the replicas whose code is between lock and
\* unlock, and the one that migrates is up to date with the database.
LocksOK(r) ==
    /\ migrating = r <=> pc[r] = "migrating"
    /\ pc[r] = "migrating" => at[r] = Len(applied)
    /\ elected = r <=> loop[r]["outbox"] \in Reigns

\* What the steps of New behind r have brought about, and have opened.
ReadyOK(r) ==
    /\ pc[r] \in {"open", "serdes", "topics", "producer", "commands", "events", "running"}
        => Len(applied) = Migrations
    /\ pc[r] \in {"topics", "producer", "commands", "events", "running"} => registered
    /\ pc[r] \in {"producer", "commands", "events", "running"} => topics = Topics
    /\ pc[r] \in {"down", "migrate", "migrating", "open"} => open[r] = {}
    /\ pc[r] \in {"serdes", "topics", "producer"} => open[r] = {"pool"}
    /\ pc[r] = "commands" => open[r] = {"pool", "producer"}
    /\ pc[r] = "events" => open[r] = {"pool", "producer", "commands"}
    /\ pc[r] = "running" => open[r] = {"pool", "producer", "commands", "events"}

\* A connection is out of the pool exactly while a loop is between taking and
\* returning it; outside Run no loop is.
LoopsOK(r) ==
    /\ pc[r] # "running" => \A l \in Loops : loop[r][l] \in {"off", "done"}
    /\ \A l \in Loops \ {"outbox"} : l \in conns[r] <=> loop[r][l] = "busy"
    /\ "election" \in conns[r] <=> loop[r]["outbox"] \in Reigns
    /\ "listen" \in conns[r] <=> loop[r]["outbox"] \in {"polling", "draining"}
    /\ "drain" \in conns[r] <=> loop[r]["outbox"] = "draining"
    /\ listener[r] => "listen" \in conns[r]
    /\ pc[r] = "running" => ((\E l \in Loops : loop[r][l] = "done") => cancelled[r])

IInv == TypeOK /\ AppliedOK /\ \A r \in Replicas : LocksOK(r) /\ ReadyOK(r) /\ LoopsOK(r)

-----------------------------------------------------------------------------
(* A step of one replica.                                                  *)

\* The processes other than r are left alone.
OthersUnchanged(r) ==
    \A s \in Replicas \ {r} :
        /\ pc'[s] = pc[s] /\ at'[s] = at[s] /\ open'[s] = open[s]
        /\ cancelled'[s] = cancelled[s] /\ loop'[s] = loop[s]
        /\ conns'[s] = conns[s] /\ listener'[s] = listener[s]

\* What replicas share only grows, a lock only passes between r and Nobody, and
\* only the holder of its lock migrates.
SharedGrows(r) ==
    /\ applied' = applied \/ (pc[r] = "migrating" /\ Len(applied) < Migrations)
    /\ migrating' \in {migrating, r} \/ (migrating = r /\ migrating' = Nobody)
    /\ elected' \in {elected, r} \/ (elected = r /\ elected' = Nobody)
    /\ migrating' = r => migrating \in {r, Nobody}
    /\ elected' = r => elected \in {r, Nobody}
    /\ topics \subseteq topics' /\ topics' \subseteq Topics
    /\ registered => registered'

\* Such a step preserves the invariant if it does for r.
LEMMA Frame ==
    ASSUME IInv, NEW r \in Replicas, OthersUnchanged(r), SharedGrows(r),
           TypeOK', AppliedOK', LocksOK(r)', ReadyOK(r)', LoopsOK(r)'
    PROVE  IInv'
<1> SUFFICES ASSUME NEW s \in Replicas \ {r}
             PROVE  LocksOK(s)' /\ ReadyOK(s)' /\ LoopsOK(s)'
  BY DEF IInv
<1>1. /\ pc'[s] = pc[s] /\ at'[s] = at[s] /\ open'[s] = open[s]
      /\ cancelled'[s] = cancelled[s] /\ loop'[s] = loop[s]
      /\ conns'[s] = conns[s] /\ listener'[s] = listener[s]
  BY DEF OthersUnchanged
<1>2. /\ LocksOK(s) /\ ReadyOK(s) /\ LoopsOK(s) /\ LocksOK(r)
  BY DEF IInv
<1>3. (migrating' = s <=> migrating = s) /\ (elected' = s <=> elected = s)
  BY ReplicaAssumption DEF SharedGrows
<1>4. pc[s] = "migrating" => applied' = applied
  BY <1>2 DEF SharedGrows, LocksOK
<1>5. LocksOK(s)'
  BY <1>1, <1>2, <1>3, <1>4 DEF LocksOK
<1>6. /\ Len(applied) = Migrations => applied' = applied
      /\ topics = Topics => topics' = Topics
  <2>1. Len(applied) = Migrations => applied' = applied
    BY ReplicaAssumption DEF SharedGrows
  <2>2. topics = Topics => topics' = Topics
    BY DEF SharedGrows
  <2>3. QED
    BY <2>1, <2>2
<1>7. ReadyOK(s)'
  BY <1>1, <1>2, <1>6 DEF ReadyOK, SharedGrows
<1>8. LoopsOK(s)'
  BY <1>1, <1>2 DEF LoopsOK
<1>9. QED
  BY <1>5, <1>7, <1>8

\* An operator registers the schemas.
LEMMA RegisterStep ==
    ASSUME IInv, RegisterSchemas
    PROVE  IInv'
<1>1. /\ UNCHANGED <<applied, migrating, topics, elected, pc, at, open, cancelled>>
      /\ UNCHANGED <<loop, conns, listener, failure, starts, faults>> /\ registered'
  BY DEF RegisterSchemas, local
<1>2. registered' \in BOOLEAN
  BY DEF RegisterSchemas
<1>3. TypeOK' /\ AppliedOK'
  BY <1>1, <1>2 DEF IInv, TypeOK, AppliedOK
<1>4. \A r \in Replicas : LocksOK(r)' /\ ReadyOK(r)' /\ LoopsOK(r)'
  BY <1>1 DEF IInv, LocksOK, ReadyOK, LoopsOK
<1>5. QED
  BY <1>3, <1>4 DEF IInv

\* A process starts with nothing.
LEMMA StartStep ==
    ASSUME IInv, NEW r \in Replicas, Start(r)
    PROVE  IInv'
<1>1. /\ UNCHANGED <<applied, migrating, topics, registered, elected, at, open, cancelled>>
      /\ UNCHANGED <<loop, conns, listener, failure, faults>>
      /\ starts < MaxStarts /\ starts' = starts + 1
      /\ pc[r] = "down" /\ pc' = [pc EXCEPT ![r] = "migrate"]
  BY DEF Start, Goto, shared
<1>2. TypeOK' /\ AppliedOK'
  BY <1>1, ReplicaAssumption DEF IInv, TypeOK, AppliedOK, Starting, TakesContext
<1>3. pc'[r] = "migrate" /\ OthersUnchanged(r) /\ SharedGrows(r)
  BY <1>1, ReplicaAssumption DEF IInv, TypeOK, OthersUnchanged, SharedGrows
<1>4. LocksOK(r)' /\ ReadyOK(r)' /\ LoopsOK(r)'
  BY <1>1, <1>3 DEF IInv, LocksOK, ReadyOK, LoopsOK
<1>5. QED
  BY <1>2, <1>3, <1>4, Frame

\* A signal only cancels the context.
LEMMA SignalStep ==
    ASSUME IInv, NEW r \in Replicas, Signal(r)
    PROVE  IInv'
<1>1. /\ UNCHANGED <<applied, migrating, topics, registered, elected, pc, at, open>>
      /\ UNCHANGED <<loop, conns, listener, failure, starts, faults>>
      /\ cancelled' = [cancelled EXCEPT ![r] = TRUE]
  BY DEF Signal, shared
<1>2. TypeOK' /\ AppliedOK'
  BY <1>1 DEF IInv, TypeOK, AppliedOK
<1>3. cancelled'[r] /\ OthersUnchanged(r) /\ SharedGrows(r)
  BY <1>1, ReplicaAssumption DEF IInv, TypeOK, OthersUnchanged, SharedGrows
<1>4. LocksOK(r)' /\ ReadyOK(r)' /\ LoopsOK(r)'
  BY <1>1, <1>3 DEF IInv, LocksOK, ReadyOK, LoopsOK
<1>5. QED
  BY <1>2, <1>3, <1>4, Frame

\* What Gone does to r and to nobody else.
LEMMA GoneOK ==
    ASSUME IInv, NEW r \in Replicas, Gone(r)
    PROVE  /\ pc'[r] = "down" /\ ~cancelled'[r]
           /\ \A l \in Loops : loop'[r][l] = "off"
           /\ \A s \in Replicas \ {r} :
                /\ pc'[s] = pc[s] /\ at'[s] = at[s]
                /\ cancelled'[s] = cancelled[s] /\ loop'[s] = loop[s]
           /\ pc' \in [Replicas -> Starting \cup {"down", "running", "closing"}]
           /\ at' \in [Replicas -> 0 .. Migrations]
           /\ cancelled' \in [Replicas -> BOOLEAN] /\ failure' \in [Replicas -> BOOLEAN]
           /\ loop' \in [Replicas -> [Loops -> {"off", "idle", "busy", "standby", "elected",
                                                "polling", "draining", "done"}]]
<1>1. Off \in [Loops -> {"off", "idle", "busy", "standby", "elected",
                         "polling", "draining", "done"}]
  BY DEF Off
<1>2. 0 \in 0 .. Migrations
  BY ReplicaAssumption
<1>3. loop'[r] = Off /\ \A l \in Loops : Off[l] = "off"
  BY DEF Gone, Off, IInv, TypeOK
<1>4. QED
  BY <1>1, <1>2, <1>3 DEF Gone, Goto, IInv, TypeOK

\* A killed process leaves its locks and its connections to the servers.
LEMMA KillStep ==
    ASSUME IInv, NEW r \in Replicas, Kill(r)
    PROVE  IInv'
<1>1. /\ UNCHANGED <<applied, topics, registered, starts>>
      /\ faults < MaxFaults /\ faults' = faults + 1 /\ Gone(r)
      /\ migrating' = Free(migrating, r) /\ elected' = Free(elected, r)
      /\ open' = [open EXCEPT ![r] = {}] /\ conns' = [conns EXCEPT ![r] = {}]
      /\ listener' = [listener EXCEPT ![r] = FALSE]
  BY DEF Kill
<1>2. TypeOK'
  BY <1>1, GoneOK, ReplicaAssumption DEF IInv, TypeOK, Free
<1>3. AppliedOK'
  BY <1>1 DEF IInv, AppliedOK
<1>4. open'[r] = {} /\ conns'[r] = {} /\ ~listener'[r]
  BY <1>1 DEF IInv, TypeOK
<1>5. OthersUnchanged(r)
  BY <1>1, GoneOK DEF IInv, TypeOK, OthersUnchanged
<1>6. SharedGrows(r)
  BY <1>1, ReplicaAssumption DEF IInv, TypeOK, SharedGrows, Free
<1>7. migrating' # r /\ elected' # r
  BY <1>1, ReplicaAssumption DEF Free
<1>8. LocksOK(r)' /\ ReadyOK(r)' /\ LoopsOK(r)'
  BY <1>1, <1>4, <1>7, GoneOK DEF LocksOK, ReadyOK, LoopsOK, Reigns, Loops
<1>9. QED
  BY <1>2, <1>3, <1>5, <1>6, <1>8, Frame

-----------------------------------------------------------------------------
(* Steps of New.                                                           *)

\* The lock was free, so nobody else migrates.
LEMMA MigrateStep ==
    ASSUME IInv, NEW r \in Replicas, Migrate(r)
    PROVE  IInv'
<1>1. /\ UNCHANGED <<applied, topics, registered, elected, open, cancelled, loop, conns>>
      /\ UNCHANGED <<listener, failure, starts, faults>>
      /\ pc[r] = "migrate" /\ pc' = [pc EXCEPT ![r] = "migrating"]
      /\ migrating = Nobody /\ migrating' = r
      /\ at' = [at EXCEPT ![r] = Len(applied)]
  BY DEF Migrate, Goto
<1>2. Len(applied) \in 0 .. Migrations
  BY ReplicaAssumption DEF IInv, TypeOK, AppliedOK
<1>3. TypeOK' /\ AppliedOK'
  BY <1>1, <1>2 DEF IInv, TypeOK, AppliedOK, Starting, TakesContext
<1>4. pc'[r] = "migrating" /\ at'[r] = Len(applied)
  BY <1>1 DEF IInv, TypeOK
<1>5. OthersUnchanged(r) /\ SharedGrows(r)
  BY <1>1 DEF IInv, TypeOK, OthersUnchanged, SharedGrows
<1>6. LocksOK(r)' /\ ReadyOK(r)' /\ LoopsOK(r)'
  BY <1>1, <1>4 DEF IInv, LocksOK, ReadyOK, LoopsOK
<1>7. QED
  BY <1>3, <1>5, <1>6, Frame

\* The holder of the lock applies the migration after the last applied one.
LEMMA ApplyStep ==
    ASSUME IInv, NEW r \in Replicas, ApplyMigration(r)
    PROVE  IInv'
<1>1. /\ UNCHANGED <<migrating, topics, registered, elected, pc, open, cancelled, loop>>
      /\ UNCHANGED <<conns, listener, failure, starts, faults>>
      /\ pc[r] = "migrating" /\ at[r] < Migrations
      /\ applied' = Append(applied, at[r] + 1) /\ at' = [at EXCEPT ![r] = @ + 1]
  BY DEF ApplyMigration
<1>2. at[r] = Len(applied) /\ Len(applied) \in Nat /\ Len(applied) < Migrations
  BY <1>1, ReplicaAssumption DEF IInv, TypeOK, LocksOK
<1>3. at[r] + 1 \in 1 .. Migrations
  BY <1>1, <1>2, ReplicaAssumption
<1>4. applied' \in Seq(1 .. Migrations) /\ Len(applied') = Len(applied) + 1
  BY <1>1, <1>3 DEF IInv, TypeOK
<1>5. AppliedOK'
  <2>1. \A i \in DOMAIN applied' : applied'[i] = i
    BY <1>1, <1>2, <1>3, <1>4 DEF IInv, TypeOK, AppliedOK
  <2>2. QED
    BY <1>2, <1>4, <2>1, ReplicaAssumption DEF AppliedOK
<1>6. at' \in [Replicas -> 0 .. Migrations] /\ at'[r] = at[r] + 1
  BY <1>1, <1>3 DEF IInv, TypeOK
<1>7. TypeOK'
  BY <1>1, <1>4, <1>6 DEF IInv, TypeOK
<1>8. OthersUnchanged(r) /\ SharedGrows(r)
  BY <1>1, <1>2, ReplicaAssumption DEF IInv, TypeOK, OthersUnchanged, SharedGrows
<1>9. LocksOK(r)' /\ ReadyOK(r)' /\ LoopsOK(r)'
  BY <1>1, <1>2, <1>4, <1>6 DEF IInv, LocksOK, ReadyOK, LoopsOK
<1>10. QED
  BY <1>5, <1>7, <1>8, <1>9, Frame

\* The lock is given up when the last migration has run.
LEMMA MigrateDoneStep ==
    ASSUME IInv, NEW r \in Replicas, MigrateDone(r)
    PROVE  IInv'
<1>1. /\ UNCHANGED <<applied, topics, registered, elected, at, open, cancelled, loop>>
      /\ UNCHANGED <<conns, listener, failure, starts, faults>>
      /\ pc[r] = "migrating" /\ at[r] = Migrations
      /\ migrating' = Free(migrating, r) /\ pc' = [pc EXCEPT ![r] = "open"]
  BY DEF MigrateDone, Goto
<1>2. migrating = r /\ migrating' = Nobody /\ Len(applied) = Migrations
  BY <1>1 DEF IInv, LocksOK, Free
<1>3. TypeOK' /\ AppliedOK'
  BY <1>1, <1>2 DEF IInv, TypeOK, AppliedOK, Starting, TakesContext
<1>4. pc'[r] = "open" /\ OthersUnchanged(r)
  BY <1>1 DEF IInv, TypeOK, OthersUnchanged
<1>5. SharedGrows(r)
  BY <1>1, <1>2, ReplicaAssumption DEF IInv, TypeOK, SharedGrows
<1>6. LocksOK(r)' /\ ReadyOK(r)' /\ LoopsOK(r)'
  BY <1>1, <1>2, <1>4, ReplicaAssumption DEF IInv, LocksOK, ReadyOK, LoopsOK
<1>7. QED
  BY <1>3, <1>4, <1>5, <1>6, Frame

\* A step that opens something moves one replica on and opens just that.
LEMMA OpensOK ==
    ASSUME IInv, NEW r \in Replicas, NEW label, NEW what, NEW label2,
           what \subseteq {"pool", "producer", "commands", "events"},
           label2 \in Starting \cup {"running"},
           Opens(r, label, what, label2),
           applied' = applied, migrating' = migrating, registered' = registered,
           elected' = elected, loop' = loop, topics' \subseteq Topics
    PROVE  /\ TypeOK' /\ AppliedOK'
           /\ pc[r] = label /\ pc'[r] = label2 /\ open'[r] = open[r] \cup what
           /\ OthersUnchanged(r)
           /\ UNCHANGED <<at, cancelled, conns, listener>>
<1>1. /\ UNCHANGED <<at, cancelled, conns, listener, failure, starts, faults>>
      /\ pc[r] = label /\ pc' = [pc EXCEPT ![r] = label2]
      /\ open' = [open EXCEPT ![r] = @ \cup what]
  BY DEF Opens, Goto
<1>2. pc'[r] = label2 /\ open'[r] = open[r] \cup what
  BY <1>1 DEF IInv, TypeOK
<1>3. pc' \in [Replicas -> Starting \cup {"down", "running", "closing"}]
  BY <1>1 DEF IInv, TypeOK
<1>4. open' \in [Replicas -> SUBSET {"pool", "producer", "commands", "events"}]
  BY <1>1 DEF IInv, TypeOK
<1>5. TypeOK' /\ AppliedOK'
  BY <1>1, <1>3, <1>4 DEF IInv, TypeOK, AppliedOK
<1>6. OthersUnchanged(r)
  BY <1>1 DEF IInv, TypeOK, OthersUnchanged
<1>7. QED
  BY <1>1, <1>2, <1>5, <1>6

\* The steps of New up to the consumers, one after the other.
LEMMA OpensStep ==
    ASSUME IInv, NEW r \in Replicas,
           \/ OpenPool(r) \/ Serdes(r) \/ EnsureTopics(r)
           \/ NewProducer(r) \/ NewCommands(r)
    PROVE  IInv'
<1>1. CASE OpenPool(r)
  <2>1. /\ Opens(r, "open", {"pool"}, "serdes")
        /\ UNCHANGED <<applied, migrating, topics, registered, elected, loop>>
    BY <1>1 DEF OpenPool, shared
  <2>2. "serdes" \in Starting /\ topics' \subseteq Topics
    BY <2>1 DEF Starting, TakesContext, IInv, TypeOK
  <2>3. /\ TypeOK' /\ AppliedOK'
        /\ pc[r] = "open" /\ pc'[r] = "serdes" /\ open'[r] = open[r] \cup {"pool"}
        /\ OthersUnchanged(r) /\ UNCHANGED <<at, cancelled, conns, listener>>
    BY <2>1, <2>2, OpensOK
  <2>4. LocksOK(r)' /\ ReadyOK(r)' /\ LoopsOK(r)'
    BY <2>1, <2>3 DEF IInv, LocksOK, ReadyOK, LoopsOK
  <2>5. SharedGrows(r)
    BY <2>1, ReplicaAssumption DEF IInv, TypeOK, SharedGrows
  <2>6. QED
    BY <2>3, <2>4, <2>5, Frame
<1>2. CASE Serdes(r)
  <2>1. /\ Opens(r, "serdes", {}, "topics") /\ registered
        /\ UNCHANGED <<applied, migrating, topics, registered, elected, loop>>
    BY <1>2 DEF Serdes, shared
  <2>2. "topics" \in Starting /\ topics' \subseteq Topics
    BY <2>1 DEF Starting, TakesContext, IInv, TypeOK
  <2>3. /\ TypeOK' /\ AppliedOK'
        /\ pc[r] = "serdes" /\ pc'[r] = "topics" /\ open'[r] = open[r] \cup {}
        /\ OthersUnchanged(r) /\ UNCHANGED <<at, cancelled, conns, listener>>
    BY <2>1, <2>2, OpensOK
  <2>4. LocksOK(r)' /\ ReadyOK(r)' /\ LoopsOK(r)'
    BY <2>1, <2>3 DEF IInv, LocksOK, ReadyOK, LoopsOK
  <2>5. SharedGrows(r)
    BY <2>1, ReplicaAssumption DEF IInv, TypeOK, SharedGrows
  <2>6. QED
    BY <2>3, <2>4, <2>5, Frame
<1>3. CASE EnsureTopics(r)
  <2>1. /\ Opens(r, "topics", {}, "producer") /\ topics' = topics \cup Topics
        /\ UNCHANGED <<applied, migrating, registered, elected, loop>>
    BY <1>3 DEF EnsureTopics
  <2>2. "producer" \in Starting /\ topics' = Topics
    BY <2>1 DEF Starting, IInv, TypeOK
  <2>3. /\ TypeOK' /\ AppliedOK'
        /\ pc[r] = "topics" /\ pc'[r] = "producer" /\ open'[r] = open[r] \cup {}
        /\ OthersUnchanged(r) /\ UNCHANGED <<at, cancelled, conns, listener>>
    BY <2>1, <2>2, OpensOK
  <2>4. LocksOK(r)' /\ ReadyOK(r)' /\ LoopsOK(r)'
    BY <2>1, <2>2, <2>3 DEF IInv, LocksOK, ReadyOK, LoopsOK
  <2>5. SharedGrows(r)
    BY <2>1, <2>2, ReplicaAssumption DEF IInv, TypeOK, SharedGrows
  <2>6. QED
    BY <2>3, <2>4, <2>5, Frame
<1>4. CASE NewProducer(r)
  <2>1. /\ Opens(r, "producer", {"producer"}, "commands")
        /\ UNCHANGED <<applied, migrating, topics, registered, elected, loop>>
    BY <1>4 DEF NewProducer, shared
  <2>2. "commands" \in Starting /\ topics' \subseteq Topics
    BY <2>1 DEF Starting, IInv, TypeOK
  <2>3. /\ TypeOK' /\ AppliedOK'
        /\ pc[r] = "producer" /\ pc'[r] = "commands" /\ open'[r] = open[r] \cup {"producer"}
        /\ OthersUnchanged(r) /\ UNCHANGED <<at, cancelled, conns, listener>>
    BY <2>1, <2>2, OpensOK
  <2>4. LocksOK(r)' /\ ReadyOK(r)' /\ LoopsOK(r)'
    BY <2>1, <2>3 DEF IInv, LocksOK, ReadyOK, LoopsOK
  <2>5. SharedGrows(r)
    BY <2>1, ReplicaAssumption DEF IInv, TypeOK, SharedGrows
  <2>6. QED
    BY <2>3, <2>4, <2>5, Frame
<1>5. CASE NewCommands(r)
  <2>1. /\ Opens(r, "commands", {"commands"}, "events")
        /\ UNCHANGED <<applied, migrating, topics, registered, elected, loop>>
    BY <1>5 DEF NewCommands, shared
  <2>2. "events" \in Starting /\ topics' \subseteq Topics
    BY <2>1 DEF Starting, IInv, TypeOK
  <2>3. /\ TypeOK' /\ AppliedOK'
        /\ pc[r] = "commands" /\ pc'[r] = "events" /\ open'[r] = open[r] \cup {"commands"}
        /\ OthersUnchanged(r) /\ UNCHANGED <<at, cancelled, conns, listener>>
    BY <2>1, <2>2, OpensOK
  <2>4. LocksOK(r)' /\ ReadyOK(r)' /\ LoopsOK(r)'
    BY <2>1, <2>3 DEF IInv, LocksOK, ReadyOK, LoopsOK
  <2>5. SharedGrows(r)
    BY <2>1, ReplicaAssumption DEF IInv, TypeOK, SharedGrows
  <2>6. QED
    BY <2>3, <2>4, <2>5, Frame
<1>6. QED
  BY <1>1, <1>2, <1>3, <1>4, <1>5

\* The last step of New: the four loops start idle and hold no connection.
LEMMA NewEventsStep ==
    ASSUME IInv, NEW r \in Replicas, NewEvents(r)
    PROVE  IInv'
<1>1. /\ UNCHANGED <<applied, migrating, topics, registered, elected, at, cancelled>>
      /\ UNCHANGED <<conns, listener, failure, starts, faults>>
      /\ pc[r] = "events" /\ pc' = [pc EXCEPT ![r] = "running"]
      /\ open' = [open EXCEPT ![r] = @ \cup {"events"}]
      /\ loop' = [loop EXCEPT ![r] = [l \in Loops |-> "idle"]]
  BY DEF NewEvents, Opens, Goto, shared
<1>2. /\ pc'[r] = "running" /\ open'[r] = open[r] \cup {"events"}
      /\ \A l \in Loops : loop'[r][l] = "idle"
  BY <1>1 DEF IInv, TypeOK
<1>3. [l \in Loops |-> "idle"] \in [Loops -> {"off", "idle", "busy", "standby", "elected",
                                              "polling", "draining", "done"}]
  OBVIOUS
<1>4. TypeOK' /\ AppliedOK'
  BY <1>1, <1>3 DEF IInv, TypeOK, AppliedOK
<1>5. OthersUnchanged(r)
  BY <1>1 DEF IInv, TypeOK, OthersUnchanged
<1>6. SharedGrows(r)
  BY <1>1, ReplicaAssumption DEF IInv, TypeOK, SharedGrows
<1>7. "outbox" \in Loops /\ \A l \in Loops : loop[r][l] \in {"off", "done"}
  BY <1>1 DEF IInv, LoopsOK, Loops
<1>8. LocksOK(r)'
  BY <1>1, <1>2, <1>7 DEF IInv, LocksOK, Reigns
<1>9. ReadyOK(r)'
  BY <1>1, <1>2 DEF IInv, ReadyOK
<1>10. LoopsOK(r)'
  BY <1>1, <1>2, <1>7 DEF IInv, LoopsOK, Reigns
<1>11. QED
  BY <1>4, <1>5, <1>6, <1>8, <1>9, <1>10, Frame

\* A failed step of New gives up the migrator's lock; what is open stays so
\* until Close.
LEMMA FailStartStep ==
    ASSUME IInv, NEW r \in Replicas, Refused(r) \/ Unreachable(r)
    PROVE  IInv'
<1>1. /\ FailStart(r) /\ faults' \in 0 .. MaxFaults
  BY ReplicaAssumption DEF Refused, Unreachable, IInv, TypeOK
<1>2. /\ UNCHANGED <<applied, registered, elected, at, open, cancelled, loop, conns>>
      /\ UNCHANGED <<listener, starts>>
      /\ pc[r] \in Starting /\ pc' = [pc EXCEPT ![r] = "closing"]
      /\ failure' = [failure EXCEPT ![r] = TRUE]
      /\ migrating' = Free(migrating, r)
      /\ topics \subseteq topics' /\ topics' \subseteq Topics
  BY <1>1 DEF FailStart, Goto, IInv, TypeOK
<1>3. TypeOK' /\ AppliedOK'
  BY <1>1, <1>2 DEF IInv, TypeOK, AppliedOK, Free
<1>4. pc'[r] = "closing" /\ OthersUnchanged(r)
  BY <1>2 DEF IInv, TypeOK, OthersUnchanged
<1>5. SharedGrows(r) /\ migrating' # r
  BY <1>2, ReplicaAssumption DEF IInv, TypeOK, SharedGrows, Free
<1>6. pc[r] # "running"
  BY <1>2 DEF Starting, TakesContext
<1>7. LocksOK(r)' /\ ReadyOK(r)' /\ LoopsOK(r)'
  BY <1>2, <1>4, <1>5, <1>6 DEF IInv, LocksOK, ReadyOK, LoopsOK
<1>8. QED
  BY <1>3, <1>4, <1>5, <1>7, Frame

-----------------------------------------------------------------------------
(* Steps of Run.                                                           *)

\* The labels of loops, and the users of connections.
Labels == {"off", "idle", "busy", "standby", "elected", "polling", "draining", "done"}
Users  == {"commands", "events", "timers", "election", "listen", "drain"}

\* Moving a loop of r moves nothing else.
LEMMA MoveOK ==
    ASSUME IInv, NEW r \in Replicas, NEW l \in Loops, NEW label \in Labels, Move(r, l, label)
    PROVE  /\ loop' \in [Replicas -> [Loops -> Labels]]
           /\ loop'[r][l] = label
           /\ \A k \in Loops \ {l} : loop'[r][k] = loop[r][k]
           /\ \A s \in Replicas \ {r} : loop'[s] = loop[s]
BY DEF Move, IInv, TypeOK, Labels

\* Nor does taking or returning a connection.
LEMMA ConnsOK ==
    ASSUME IInv, NEW r \in Replicas, NEW u \in Users, Acquire(r, u) \/ Release(r, u)
    PROVE  /\ conns' \in [Replicas -> SUBSET Users]
           /\ Acquire(r, u) => u \in conns'[r]
           /\ Release(r, u) => u \notin conns'[r]
           /\ \A v \in Users \ {u} : v \in conns'[r] <=> v \in conns[r]
           /\ \A s \in Replicas \ {r} : conns'[s] = conns[s]
<1>1. conns \in [Replicas -> SUBSET Users]
  BY DEF IInv, TypeOK, Users
<1>2. CASE Acquire(r, u)
  <2>1. conns' = [conns EXCEPT ![r] = @ \cup {u}]
    BY <1>2 DEF Acquire
  <2>2. conns'[r] = conns[r] \cup {u} /\ \A s \in Replicas \ {r} : conns'[s] = conns[s]
    BY <1>1, <2>1
  <2>3. conns' \in [Replicas -> SUBSET Users]
    BY <1>1, <2>1
  <2>4. ~Release(r, u)
    <3> SUFFICES ASSUME Release(r, u) PROVE FALSE
      OBVIOUS
    <3>1. conns'[r] = conns[r] \ {u}
      BY <1>1 DEF Release
    <3>2. QED
      BY <2>2, <3>1
  <2>5. QED
    BY <2>2, <2>3, <2>4
<1>3. CASE Release(r, u)
  <2>1. conns' = [conns EXCEPT ![r] = @ \ {u}]
    BY <1>3 DEF Release
  <2>2. conns'[r] = conns[r] \ {u} /\ \A s \in Replicas \ {r} : conns'[s] = conns[s]
    BY <1>1, <2>1
  <2>3. conns' \in [Replicas -> SUBSET Users]
    BY <1>1, <2>1
  <2>4. ~Acquire(r, u)
    <3> SUFFICES ASSUME Acquire(r, u) PROVE FALSE
      OBVIOUS
    <3>1. conns'[r] = conns[r] \cup {u}
      BY <1>1 DEF Acquire
    <3>2. QED
      BY <2>2, <3>1
  <2>5. QED
    BY <2>2, <2>3, <2>4
<1>4. QED
  BY <1>2, <1>3

\* A step of a running r that touches its loops, its connections, its listener
\* and the poller's lock, and nothing else.
RunStep(r) ==
    /\ UNCHANGED <<applied, migrating, topics, registered, pc, at, open, starts>>
    /\ pc[r] = "running"
    /\ elected' \in {elected, r} \/ (elected = r /\ elected' = Nobody)
    /\ elected' = r => elected \in {r, Nobody}
    /\ loop' \in [Replicas -> [Loops -> Labels]] /\ conns' \in [Replicas -> SUBSET Users]
    /\ listener' \in [Replicas -> BOOLEAN]
    /\ cancelled' \in [Replicas -> BOOLEAN] /\ failure' \in [Replicas -> BOOLEAN]
    /\ faults' \in 0 .. MaxFaults
    /\ \A s \in Replicas \ {r} :
        /\ loop'[s] = loop[s] /\ conns'[s] = conns[s]
        /\ listener'[s] = listener[s] /\ cancelled'[s] = cancelled[s]

\* For such a step only the loops of r and the poller's lock are in question.
LEMMA RunFrame ==
    ASSUME IInv, NEW r \in Replicas, RunStep(r),
           elected' = r <=> loop'[r]["outbox"] \in Reigns, LoopsOK(r)'
    PROVE  IInv'
<1>1. /\ UNCHANGED <<applied, migrating, topics, registered, pc, at, open, starts>>
      /\ pc[r] = "running"
  BY DEF RunStep
<1>2. TypeOK' /\ AppliedOK'
  BY <1>1 DEF RunStep, IInv, TypeOK, AppliedOK, Labels, Users
<1>3. OthersUnchanged(r)
  BY <1>1 DEF RunStep, OthersUnchanged
<1>4. SharedGrows(r)
  BY <1>1, ReplicaAssumption DEF RunStep, IInv, TypeOK, SharedGrows
<1>5. LocksOK(r)' /\ ReadyOK(r)'
  BY <1>1 DEF IInv, LocksOK, ReadyOK
<1>6. QED
  BY <1>2, <1>3, <1>4, <1>5, Frame

\* A record, a timer or a query: one connection, from Begin to End.
LEMMA LoopStepOK ==
    ASSUME IInv, NEW r \in Replicas, NEW l \in Loops \ {"outbox"}, LoopStep(r, l)
    PROVE  IInv'
<1>1. /\ UNCHANGED <<applied, migrating, topics, registered, elected, pc, at, open>>
      /\ UNCHANGED <<cancelled, listener, failure, starts, faults>>
      /\ pc[r] = "running"
  BY DEF LoopStep, Begin, End, Return, At, shared
<1>2. l \in Users /\ l \in Loops /\ "outbox" \in Loops
  BY DEF Loops, Consumers, Users
<1>3. PICK new \in Labels :
        /\ Move(r, l, new) /\ conns' \in [Replicas -> SUBSET Users]
        /\ l \in conns'[r] <=> new = "busy"
        /\ \A v \in Users \ {l} : v \in conns'[r] <=> v \in conns[r]
        /\ \A s \in Replicas \ {r} : conns'[s] = conns[s]
        /\ new = "done" => cancelled[r]
  <2>1. CASE Begin(r, l)
    <3>1. Move(r, l, "busy") /\ Acquire(r, l) /\ "busy" \in Labels
      BY <2>1 DEF Begin, Labels
    <3>2. QED
      BY <1>2, <3>1, ConnsOK
  <2>2. CASE End(r, l)
    <3>1. Move(r, l, "idle") /\ Release(r, l) /\ "idle" \in Labels
      BY <2>2 DEF End, Labels
    <3>2. QED
      BY <1>2, <3>1, ConnsOK
  <2>3. CASE Return(r, l)
    <3>1. /\ Move(r, l, "done") /\ conns' = conns /\ "done" \in Labels /\ cancelled[r]
          /\ loop[r][l] = "idle"
      BY <2>3 DEF Return, Labels, At
    <3>2. l \notin conns[r]
      BY <3>1 DEF IInv, LoopsOK
    <3>3. conns' \in [Replicas -> SUBSET Users]
      BY <3>1 DEF IInv, TypeOK, Users
    <3>4. QED
      BY <3>1, <3>2, <3>3
  <2>4. QED
    BY <2>1, <2>2, <2>3 DEF LoopStep
<1>4. /\ loop' \in [Replicas -> [Loops -> Labels]]
      /\ loop'[r][l] = new
      /\ \A k \in Loops \ {l} : loop'[r][k] = loop[r][k]
      /\ \A s \in Replicas \ {r} : loop'[s] = loop[s]
  BY <1>2, <1>3, MoveOK
<1>5. RunStep(r)
  BY <1>1, <1>3, <1>4 DEF RunStep, IInv, TypeOK
<1>6. loop'[r]["outbox"] = loop[r]["outbox"]
  BY <1>2, <1>4
<1>7. elected' = r <=> loop'[r]["outbox"] \in Reigns
  BY <1>1, <1>6 DEF IInv, LocksOK
<1>8. LoopsOK(r)'
  <2>1. \A k \in Loops \ {"outbox"} : k \in conns'[r] <=> loop'[r][k] = "busy"
    <3>1. Loops \ {"outbox"} \subseteq Users
      BY DEF Loops, Consumers, Users
    <3>2. QED
      BY <1>3, <1>4, <3>1 DEF IInv, LoopsOK
  <2>2. {"election", "listen", "drain"} \subseteq Users \ {l}
    BY DEF Users, Loops, Consumers
  <2>3. (\E k \in Loops : loop'[r][k] = "done") => cancelled'[r]
    BY <1>1, <1>3, <1>4 DEF IInv, LoopsOK
  <2>4. QED
    BY <1>1, <1>3, <1>6, <2>1, <2>2, <2>3 DEF IInv, LoopsOK
<1>9. QED
  BY <1>5, <1>7, <1>8, RunFrame

-----------------------------------------------------------------------------
(* Steps of the poller.                                                    *)

\* The connections and the lock that go with a label of the poller.
Holds(r, new) ==
    /\ elected' = r <=> new \in Reigns
    /\ "election" \in conns'[r] <=> new \in Reigns
    /\ "listen" \in conns'[r] <=> new \in {"polling", "draining"}
    /\ "drain" \in conns'[r] <=> new = "draining"
    /\ listener'[r] => "listen" \in conns'[r]
    /\ \A v \in {"commands", "events", "timers"} : v \in conns'[r] <=> v \in conns[r]

\* A step of the poller that ends with them is in order.
LEMMA PollerFrame ==
    ASSUME IInv, NEW r \in Replicas, RunStep(r), NEW new \in Labels,
           loop'[r]["outbox"] = new,
           \A k \in Loops \ {"outbox"} : loop'[r][k] = loop[r][k],
           Holds(r, new), new = "done" => cancelled'[r], cancelled[r] => cancelled'[r]
    PROVE  IInv'
<1>1. elected' = r <=> loop'[r]["outbox"] \in Reigns
  BY DEF Holds
<1>2. \A k \in Loops \ {"outbox"} : k \in conns'[r] <=> loop'[r][k] = "busy"
  BY DEF Holds, IInv, LoopsOK, Loops, Consumers
<1>3. (\E k \in Loops : loop'[r][k] = "done") => cancelled'[r]
  BY DEF RunStep, IInv, LoopsOK, Loops
<1>4. LoopsOK(r)'
  BY <1>2, <1>3 DEF RunStep, Holds, LoopsOK
<1>5. QED
  BY <1>1, <1>4, RunFrame

\* TryElect takes the lock when it is free, and returns the connection otherwise.
LEMMA TryElectStep ==
    ASSUME IInv, NEW r \in Replicas, TryElect(r)
    PROVE  IInv'
<1>1. /\ UNCHANGED <<applied, migrating, topics, registered, pc, at, open, cancelled>>
      /\ UNCHANGED <<listener, failure, starts, faults>>
      /\ pc[r] = "running" /\ loop[r]["outbox"] = "idle"
  BY DEF TryElect, At
<1>2. /\ "outbox" \in Loops /\ "election" \in Users
      /\ {"elected", "standby"} \subseteq Labels
      /\ {"commands", "events", "timers", "listen", "drain"} \subseteq Users \ {"election"}
  BY DEF Loops, Users, Labels
<1>3. CASE elected = Nobody
  <2>1. elected' = r /\ Acquire(r, "election") /\ Move(r, "outbox", "elected")
    BY <1>3 DEF TryElect
  <2>2. /\ loop' \in [Replicas -> [Loops -> Labels]] /\ loop'[r]["outbox"] = "elected"
        /\ \A k \in Loops \ {"outbox"} : loop'[r][k] = loop[r][k]
        /\ \A s \in Replicas \ {r} : loop'[s] = loop[s]
    BY <1>2, <2>1, MoveOK
  <2>3. /\ conns' \in [Replicas -> SUBSET Users] /\ "election" \in conns'[r]
        /\ \A v \in Users \ {"election"} : v \in conns'[r] <=> v \in conns[r]
        /\ \A s \in Replicas \ {r} : conns'[s] = conns[s]
    BY <1>2, <2>1, ConnsOK
  <2>4. RunStep(r)
    BY <1>1, <1>3, <2>1, <2>2, <2>3 DEF RunStep, IInv, TypeOK
  <2>5. Holds(r, "elected")
    BY <1>1, <1>2, <2>1, <2>3 DEF Holds, Reigns, IInv, LoopsOK
  <2>6. QED
    BY <1>1, <1>2, <2>2, <2>4, <2>5, PollerFrame
<1>4. CASE elected # Nobody
  <2>1. elected' = elected /\ conns' = conns /\ Move(r, "outbox", "standby")
    BY <1>4 DEF TryElect
  <2>2. /\ loop' \in [Replicas -> [Loops -> Labels]] /\ loop'[r]["outbox"] = "standby"
        /\ \A k \in Loops \ {"outbox"} : loop'[r][k] = loop[r][k]
        /\ \A s \in Replicas \ {r} : loop'[s] = loop[s]
    BY <1>2, <2>1, MoveOK
  <2>3. RunStep(r)
    <3>1. conns \in [Replicas -> SUBSET Users]
      BY DEF IInv, TypeOK, Users
    <3>2. elected' = r => elected \in {r, Nobody}
      BY <2>1
    <3>3. QED
      BY <1>1, <2>1, <2>2, <3>1, <3>2 DEF RunStep, IInv, TypeOK
  <2>4. Holds(r, "standby")
    BY <1>1, <2>1 DEF Holds, Reigns, IInv, LoopsOK, LocksOK
  <2>5. QED
    BY <1>1, <1>2, <2>2, <2>3, <2>4, PollerFrame
<1>5. QED
  BY <1>3, <1>4

\* The listener reads from a connection of its own, the drain from a third.
LEMMA ListenStep ==
    ASSUME IInv, NEW r \in Replicas, Listen(r) \/ Drain(r) \/ DrainEnds(r) \/ StopListening(r)
    PROVE  IInv'
<1>1. /\ UNCHANGED <<applied, migrating, topics, registered, elected, pc, at, open>>
      /\ UNCHANGED <<cancelled, failure, starts, faults>>
      /\ pc[r] = "running"
      /\ listener' \in [Replicas -> BOOLEAN]
      /\ \A s \in Replicas \ {r} : listener'[s] = listener[s]
  <2>1. CASE Listen(r)
    BY <2>1 DEF Listen, At, shared, IInv, TypeOK
  <2>2. CASE Drain(r) \/ DrainEnds(r) \/ StopListening(r)
    BY <2>2 DEF Drain, DrainEnds, StopListening, At, shared, IInv, TypeOK
  <2>3. QED
    BY <2>1, <2>2
<1>2. /\ "outbox" \in Loops /\ {"listen", "drain"} \subseteq Users
      /\ {"elected", "polling", "draining"} \subseteq Labels
      /\ {"commands", "events", "timers", "election", "drain"} \subseteq Users \ {"listen"}
      /\ {"commands", "events", "timers", "election", "listen"} \subseteq Users \ {"drain"}
  BY DEF Loops, Users, Labels
<1>3. PICK new \in {"elected", "polling", "draining"} :
        /\ Move(r, "outbox", new) /\ Holds(r, new)
        /\ conns' \in [Replicas -> SUBSET Users]
        /\ \A s \in Replicas \ {r} : conns'[s] = conns[s]
  <2>1. CASE Listen(r)
    <3>1. /\ Move(r, "outbox", "polling") /\ Acquire(r, "listen")
          /\ loop[r]["outbox"] = "elected"
      BY <2>1 DEF Listen, At
    <3>2. /\ conns' \in [Replicas -> SUBSET Users] /\ "listen" \in conns'[r]
          /\ \A v \in Users \ {"listen"} : v \in conns'[r] <=> v \in conns[r]
          /\ \A s \in Replicas \ {r} : conns'[s] = conns[s]
      BY <1>2, <3>1, ConnsOK
    <3>3. Holds(r, "polling")
      BY <1>1, <1>2, <3>1, <3>2 DEF Holds, Reigns, IInv, LoopsOK, LocksOK
    <3>4. QED
      BY <3>1, <3>2, <3>3
  <2>2. CASE Drain(r)
    <3>1. /\ Move(r, "outbox", "draining") /\ Acquire(r, "drain")
          /\ loop[r]["outbox"] = "polling" /\ listener' = listener
      BY <2>2 DEF Drain, At
    <3>2. /\ conns' \in [Replicas -> SUBSET Users] /\ "drain" \in conns'[r]
          /\ \A v \in Users \ {"drain"} : v \in conns'[r] <=> v \in conns[r]
          /\ \A s \in Replicas \ {r} : conns'[s] = conns[s]
      BY <1>2, <3>1, ConnsOK
    <3>3. Holds(r, "draining")
      BY <1>1, <1>2, <3>1, <3>2 DEF Holds, Reigns, IInv, LoopsOK, LocksOK
    <3>4. QED
      BY <3>1, <3>2, <3>3
  <2>3. CASE DrainEnds(r)
    <3>1. /\ Move(r, "outbox", "polling") /\ Release(r, "drain")
          /\ loop[r]["outbox"] = "draining" /\ listener' = listener
      BY <2>3 DEF DrainEnds, At
    <3>2. /\ conns' \in [Replicas -> SUBSET Users] /\ "drain" \notin conns'[r]
          /\ \A v \in Users \ {"drain"} : v \in conns'[r] <=> v \in conns[r]
          /\ \A s \in Replicas \ {r} : conns'[s] = conns[s]
      BY <1>2, <3>1, ConnsOK
    <3>3. Holds(r, "polling")
      BY <1>1, <1>2, <3>1, <3>2 DEF Holds, Reigns, IInv, LoopsOK, LocksOK
    <3>4. QED
      BY <3>1, <3>2, <3>3
  <2>4. CASE StopListening(r)
    <3>1. /\ Move(r, "outbox", "elected") /\ Release(r, "listen")
          /\ loop[r]["outbox"] = "polling" /\ listener' = listener /\ ~listener[r]
      BY <2>4 DEF StopListening, At
    <3>2. /\ conns' \in [Replicas -> SUBSET Users] /\ "listen" \notin conns'[r]
          /\ \A v \in Users \ {"listen"} : v \in conns'[r] <=> v \in conns[r]
          /\ \A s \in Replicas \ {r} : conns'[s] = conns[s]
      BY <1>2, <3>1, ConnsOK
    <3>3. Holds(r, "elected")
      BY <1>1, <1>2, <3>1, <3>2 DEF Holds, Reigns, IInv, LoopsOK, LocksOK
    <3>4. QED
      BY <3>1, <3>2, <3>3
  <2>5. QED
    BY <2>1, <2>2, <2>3, <2>4
<1>4. /\ loop' \in [Replicas -> [Loops -> Labels]] /\ loop'[r]["outbox"] = new
      /\ \A k \in Loops \ {"outbox"} : loop'[r][k] = loop[r][k]
      /\ \A s \in Replicas \ {r} : loop'[s] = loop[s]
  BY <1>2, <1>3, MoveOK
<1>5. RunStep(r)
  BY <1>1, <1>3, <1>4 DEF RunStep, IInv, TypeOK
<1>6. QED
  BY <1>1, <1>2, <1>3, <1>4, <1>5, PollerFrame

\* The goroutine ends; its connection stays out until stopListening.
LEMMA ListenerStep ==
    ASSUME IInv, NEW r \in Replicas, ListenerEnds(r) \/ ListenerDrops(r)
    PROVE  IInv'
<1>1. /\ UNCHANGED <<applied, migrating, topics, registered, elected, pc, at, open>>
      /\ UNCHANGED <<cancelled, loop, conns, failure, starts>>
      /\ listener[r] /\ listener' = [listener EXCEPT ![r] = FALSE]
      /\ faults' \in 0 .. MaxFaults
  BY ReplicaAssumption DEF ListenerEnds, ListenerDrops, shared, IInv, TypeOK
<1>2. ~listener'[r] /\ OthersUnchanged(r)
  BY <1>1 DEF IInv, TypeOK, OthersUnchanged
<1>3. TypeOK' /\ AppliedOK'
  BY <1>1 DEF IInv, TypeOK, AppliedOK
<1>4. SharedGrows(r)
  BY <1>1, ReplicaAssumption DEF IInv, TypeOK, SharedGrows
<1>5. LocksOK(r)' /\ ReadyOK(r)' /\ LoopsOK(r)'
  BY <1>1, <1>2 DEF IInv, LocksOK, ReadyOK, LoopsOK
<1>6. QED
  BY <1>2, <1>3, <1>4, <1>5, Frame

\* The poller's Run returns, and gives up the lock and its connection first.
LEMMA StopPollingStep ==
    ASSUME IInv, NEW r \in Replicas, StopPolling(r) \/ FailLoop(r)
    PROVE  IInv'
<1>1. /\ UNCHANGED <<applied, migrating, topics, registered, pc, at, open, listener, starts>>
      /\ pc[r] = "running" /\ loop[r]["outbox"] \in {"idle", "standby", "elected"}
      /\ elected' = Free(elected, r) /\ Release(r, "election")
      /\ Move(r, "outbox", "done")
  BY DEF StopPolling, FailLoop, Unelect, At
<1>2. /\ cancelled'[r] /\ cancelled' \in [Replicas -> BOOLEAN]
      /\ failure' \in [Replicas -> BOOLEAN] /\ faults' \in 0 .. MaxFaults
      /\ \A s \in Replicas \ {r} : cancelled'[s] = cancelled[s]
  <2>1. CASE StopPolling(r)
    BY <2>1 DEF StopPolling, IInv, TypeOK
  <2>2. CASE FailLoop(r)
    BY <2>2, ReplicaAssumption DEF FailLoop, IInv, TypeOK
  <2>3. QED
    BY <2>1, <2>2
<1>3. /\ "outbox" \in Loops /\ "election" \in Users /\ "done" \in Labels
      /\ {"commands", "events", "timers", "listen", "drain"} \subseteq Users \ {"election"}
  BY DEF Loops, Users, Labels
<1>4. /\ loop' \in [Replicas -> [Loops -> Labels]] /\ loop'[r]["outbox"] = "done"
      /\ \A k \in Loops \ {"outbox"} : loop'[r][k] = loop[r][k]
      /\ \A s \in Replicas \ {r} : loop'[s] = loop[s]
  BY <1>1, <1>3, MoveOK
<1>5. /\ conns' \in [Replicas -> SUBSET Users] /\ "election" \notin conns'[r]
      /\ \A v \in Users \ {"election"} : v \in conns'[r] <=> v \in conns[r]
      /\ \A s \in Replicas \ {r} : conns'[s] = conns[s]
  BY <1>1, <1>3, ConnsOK
<1>6. RunStep(r)
  <2>1. /\ elected' \in {elected, r} \/ (elected = r /\ elected' = Nobody)
        /\ elected' = r => elected \in {r, Nobody}
    BY <1>1 DEF Free
  <2>2. QED
    BY <1>1, <1>2, <1>4, <1>5, <2>1 DEF RunStep, IInv, TypeOK
<1>7. Holds(r, "done")
  BY <1>1, <1>3, <1>5, ReplicaAssumption DEF Holds, Free, Reigns, IInv, LoopsOK
<1>8. QED
  BY <1>2, <1>3, <1>4, <1>6, <1>7, PollerFrame

-----------------------------------------------------------------------------
(* Run returns, Close, exit.                                               *)

\* Run returns when every loop has, so nothing is in use any more.
LEMMA RunReturnsStep ==
    ASSUME IInv, NEW r \in Replicas, RunReturns(r)
    PROVE  IInv'
<1>1. /\ UNCHANGED <<applied, migrating, topics, registered, elected, at, open, cancelled>>
      /\ UNCHANGED <<loop, conns, listener, failure, starts, faults>>
      /\ pc[r] = "running" /\ pc' = [pc EXCEPT ![r] = "closing"]
      /\ \A l \in Loops : loop[r][l] = "done"
  BY DEF RunReturns, Goto, shared
<1>2. pc'[r] = "closing" /\ OthersUnchanged(r)
  BY <1>1 DEF IInv, TypeOK, OthersUnchanged
<1>3. TypeOK' /\ AppliedOK'
  BY <1>1 DEF IInv, TypeOK, AppliedOK
<1>4. SharedGrows(r)
  BY <1>1, ReplicaAssumption DEF IInv, TypeOK, SharedGrows
<1>5. LocksOK(r)' /\ ReadyOK(r)' /\ LoopsOK(r)'
  BY <1>1, <1>2 DEF IInv, LocksOK, ReadyOK, LoopsOK
<1>6. QED
  BY <1>2, <1>3, <1>4, <1>5, Frame

\* Close takes something from open, and nothing else changes.
LEMMA CloseStep ==
    ASSUME IInv, NEW r \in Replicas, Close(r)
    PROVE  IInv'
<1>1. /\ UNCHANGED <<applied, migrating, topics, registered, elected, pc, at, cancelled>>
      /\ UNCHANGED <<loop, conns, listener, failure, starts, faults>>
      /\ pc[r] = "closing"
  BY DEF Close, shared
<1>2. PICK i \in DOMAIN CloseOrder : open' = [open EXCEPT ![r] = @ \ {CloseOrder[i]}]
  BY DEF Close
<1>3. OthersUnchanged(r)
  BY <1>1, <1>2 DEF IInv, TypeOK, OthersUnchanged
<1>4. TypeOK' /\ AppliedOK'
  BY <1>1, <1>2 DEF IInv, TypeOK, AppliedOK
<1>5. SharedGrows(r)
  BY <1>1, ReplicaAssumption DEF IInv, TypeOK, SharedGrows
<1>6. LocksOK(r)' /\ ReadyOK(r)' /\ LoopsOK(r)'
  BY <1>1 DEF IInv, LocksOK, ReadyOK, LoopsOK
<1>7. QED
  BY <1>3, <1>4, <1>5, <1>6, Frame

\* main returns once Close has nothing left to close.
LEMMA ExitStep ==
    ASSUME IInv, NEW r \in Replicas, Exit(r)
    PROVE  IInv'
<1>1. /\ UNCHANGED <<applied, migrating, topics, registered, elected, open, conns, listener>>
      /\ UNCHANGED <<starts, faults>>
      /\ pc[r] = "closing" /\ open[r] = {} /\ Gone(r)
  BY DEF Exit, shared
<1>2. TypeOK' /\ AppliedOK'
  BY <1>1, GoneOK DEF IInv, TypeOK, AppliedOK
<1>3. OthersUnchanged(r)
  BY <1>1, GoneOK DEF OthersUnchanged
<1>4. SharedGrows(r)
  BY <1>1, ReplicaAssumption DEF IInv, TypeOK, SharedGrows
<1>5. "outbox" \in Loops /\ \A l \in Loops : loop[r][l] \in {"off", "done"}
  BY <1>1 DEF IInv, LoopsOK, Loops
<1>6. LocksOK(r)'
  BY <1>1, <1>5, GoneOK DEF IInv, LocksOK, Reigns
<1>7. ReadyOK(r)'
  BY <1>1, GoneOK DEF ReadyOK
<1>8. LoopsOK(r)'
  BY <1>1, <1>5, GoneOK DEF IInv, LoopsOK, Reigns
<1>9. QED
  BY <1>2, <1>3, <1>4, <1>6, <1>7, <1>8, Frame

-----------------------------------------------------------------------------
(* The theorems.                                                           *)

\* A fresh database, a fresh broker, and no process.
LEMMA InitOK == Init => IInv
<1> SUFFICES ASSUME Init PROVE IInv
  OBVIOUS
<1>1. \A l \in Loops : Off[l] = "off"
  BY DEF Off
<1>2. Off \in [Loops -> {"off", "idle", "busy", "standby", "elected",
                         "polling", "draining", "done"}]
  BY DEF Off
<1>3. TypeOK
  <2>1. /\ applied \in Seq(1 .. Migrations)
        /\ starts \in 0 .. MaxStarts /\ faults \in 0 .. MaxFaults
    BY ReplicaAssumption DEF Init
  <2>2. /\ pc \in [Replicas -> Starting \cup {"down", "running", "closing"}]
        /\ at \in [Replicas -> 0 .. Migrations]
        /\ open \in [Replicas -> SUBSET {"pool", "producer", "commands", "events"}]
        /\ cancelled \in [Replicas -> BOOLEAN] /\ failure \in [Replicas -> BOOLEAN]
        /\ conns \in [Replicas -> SUBSET {"commands", "events", "timers",
                                          "election", "listen", "drain"}]
        /\ listener \in [Replicas -> BOOLEAN]
    BY ReplicaAssumption DEF Init
  <2>3. QED
    BY <1>2, <2>1, <2>2 DEF Init, TypeOK
<1>4. AppliedOK
  BY ReplicaAssumption DEF Init, AppliedOK
<1>5. \A r \in Replicas : LocksOK(r) /\ ReadyOK(r) /\ LoopsOK(r)
  BY <1>1, ReplicaAssumption DEF Init, LocksOK, ReadyOK, LoopsOK, Reigns, Loops
<1>6. QED
  BY <1>3, <1>4, <1>5 DEF IInv

\* Every step, of a process, an operator or a fault, preserves the invariant.
LEMMA NextOK == IInv /\ [Next]_vars => IInv'
<1> SUFFICES ASSUME IInv, [Next]_vars PROVE IInv'
  OBVIOUS
<1>1. CASE UNCHANGED vars
  <2>1. /\ UNCHANGED <<applied, migrating, topics, registered, elected, pc, at, open>>
        /\ UNCHANGED <<cancelled, loop, conns, listener, failure, starts, faults>>
    BY <1>1 DEF vars, shared, local
  <2>2. TypeOK' /\ AppliedOK'
    BY <2>1 DEF IInv, TypeOK, AppliedOK
  <2>3. \A r \in Replicas : LocksOK(r)' /\ ReadyOK(r)' /\ LoopsOK(r)'
    BY <2>1 DEF IInv, LocksOK, ReadyOK, LoopsOK
  <2>4. QED
    BY <2>2, <2>3 DEF IInv
<1>2. CASE RegisterSchemas
  BY <1>2, RegisterStep
<1>3. ASSUME NEW r \in Replicas, Start(r) \/ Signal(r) \/ Kill(r)
      PROVE  IInv'
  BY <1>3, StartStep, SignalStep, KillStep
<1>4. ASSUME NEW r \in Replicas, NewStep(r)
      PROVE  IInv'
  BY <1>4, MigrateStep, ApplyStep, MigrateDoneStep, OpensStep, NewEventsStep, FailStartStep
     DEF NewStep
<1>5. ASSUME NEW r \in Replicas, RunReturns(r) \/ Close(r) \/ Exit(r)
      PROVE  IInv'
  BY <1>5, RunReturnsStep, CloseStep, ExitStep
<1>6. ASSUME NEW r \in Replicas, NEW l \in Loops \ {"outbox"}, LoopStep(r, l)
      PROVE  IInv'
  BY <1>6, LoopStepOK
<1>7. ASSUME NEW r \in Replicas, PollerStep(r)
      PROVE  IInv'
  BY <1>7, TryElectStep, ListenStep, ListenerStep, StopPollingStep DEF PollerStep
<1>8. ASSUME NEW r \in Replicas, Unreachable(r) \/ ListenerDrops(r) \/ FailLoop(r)
      PROVE  IInv'
  BY <1>8, FailStartStep, ListenerStep, StopPollingStep
<1>9. QED
  BY <1>1, <1>2, <1>3, <1>4, <1>5, <1>6, <1>7, <1>8 DEF Next, Step

\* What a process holds, and what it may rely on, is told by where its code is:
\* the invariant the other theorems rest on.
THEOREM Inductive == Spec => []IInv
<1>1. QED
  BY InitOK, NextOK, PTL DEF Spec

\* Every reachable state has the shape of the process and of what it shares.
THEOREM TypeCorrect == Spec => []TypeOK
<1>1. IInv => TypeOK
  BY DEF IInv
<1>2. QED
  BY <1>1, Inductive, PTL

\* wire.go New and migrate.go Migrate: however many replicas start, fail and die
\* beside each other, each migration runs once and in order, and no loop runs
\* before migrations, topics, schemas and clients are all there.
THEOREM Ready == Spec => []ServesWhenReady
<1>1. IInv => ServesWhenReady
  BY DEF IInv, AppliedOK, ReadyOK, ServesWhenReady
<1>2. QED
  BY <1>1, Inductive, PTL

\* Outside Run nothing of the process is in use.
LEMMA AtRest ==
    ASSUME IInv, NEW r \in Replicas, pc[r] # "running"
    PROVE  /\ conns[r] = {} /\ ~listener[r] /\ elected # r
           /\ \A l \in Loops : loop[r][l] \in {"off", "done"}
<1>1. \A l \in Loops : loop[r][l] \in {"off", "done"}
  BY DEF IInv, LoopsOK
<1>2. \A u \in Users : u \notin conns[r]
  BY <1>1 DEF IInv, LoopsOK, Users, Loops, Consumers, Reigns
<1>3. conns[r] = {}
  BY <1>2 DEF IInv, TypeOK, Users
<1>4. elected # r
  BY <1>1 DEF IInv, LocksOK, Loops, Reigns
<1>5. QED
  BY <1>1, <1>3, <1>4 DEF IInv, LoopsOK

\* wire.go Close and poller.go stopListening: nothing is closed under a goroutine
\* that uses it, and a connection is not returned while one reads from it.
THEOREM InUseIsOpen == Spec => []NoUseAfterClose
<1>1. ASSUME IInv, NEW r \in Replicas, pc[r] = "running"
      PROVE  /\ open[r] = {"pool", "producer", "commands", "events"}
             /\ listener[r] => "listen" \in conns[r]
  BY <1>1 DEF IInv, ReadyOK, LoopsOK
<1>2. IInv => NoUseAfterClose
  <2> SUFFICES ASSUME IInv, NEW r \in Replicas
               PROVE  /\ conns[r] # {} => "pool" \in open[r]
                      /\ \A l \in Consumers :
                            loop[r][l] = "busy" => {"producer", l} \subseteq open[r]
                      /\ loop[r]["outbox"] = "draining" => "producer" \in open[r]
                      /\ listener[r] => "listen" \in conns[r]
    BY DEF NoUseAfterClose
  <2>1. CASE pc[r] = "running"
    BY <1>1, <2>1 DEF Consumers
  <2>2. CASE pc[r] # "running"
    BY <2>2, AtRest DEF Loops, Consumers
  <2>3. QED
    BY <2>1, <2>2
<1>3. QED
  BY <1>2, Inductive, PTL

\* cmd/inventory main: a process that is down, however it ended, holds no client,
\* no connection and neither session lock.
THEOREM NothingLeft == Spec => []NothingLeftOpen
<1>1. ASSUME IInv, NEW r \in Replicas, pc[r] = "down"
      PROVE  /\ open[r] = {} /\ conns[r] = {} /\ ~listener[r]
             /\ migrating # r /\ elected # r
  BY <1>1, AtRest DEF IInv, LocksOK, ReadyOK
<1>2. IInv => NothingLeftOpen
  BY <1>1 DEF NothingLeftOpen
<1>3. QED
  BY <1>2, Inductive, PTL

\* wire.go Run: no service runs three of its four loops for good; when one has
\* ended the context of the others is cancelled.
THEOREM LoopsTogether == Spec => []AllLoopsOrNone
<1>1. IInv => AllLoopsOrNone
  BY DEF IInv, LoopsOK, AllLoopsOrNone
<1>2. QED
  BY <1>1, Inductive, PTL
=============================================================================
