--------------------------- MODULE WorkersProofs ----------------------------
(***************************************************************************)
(* Proofs about the background work of MCWorkers: the KPI worker, alone    *)
(* and shared, and the manager that starts and stops the workers, each for *)
(* every value of its constants.                                           *)
(***************************************************************************)
EXTENDS MCWorkers, Sequences, FiniteSetTheorems, TLAPS

-----------------------------------------------------------------------------
(* The parts of MCWorkers share no state, so that a behaviour of it is a   *)
(* behaviour of the manager, and the part it starts with is the one it has.*)
THEOREM WorkersAreParts ==
    WorkersSpec =>
        /\ Manager!Init /\ [][Manager!Next]_managerVars
        /\ [][part' = part]_part
<1> DEFINE all == <<part, kpiVars, managerVars, callVars>>
<1>1. WorkersInit => Manager!Init
  BY DEF WorkersInit
<1>2. [WorkersNext]_all => [Manager!Next]_managerVars
  BY DEF WorkersNext, AloneNext, SharedNext, ManagerNext, ToolNext, managerVars
<1>3. [WorkersNext]_all => [part' = part]_part
  BY DEF WorkersNext, AloneNext, SharedNext, ManagerNext, ToolNext
<1> QED
  BY <1>1, <1>2, <1>3, PTL DEF WorkersSpec

-----------------------------------------------------------------------------
(***************************************************************************)
(* Several KPI workers.  The status of a run can change at any time and    *)
(* more than once, but what a run has been it has been for ever: what an   *)
(* aggregate counted is still among the runs that once settled when its    *)
(* snapshot is written, by whichever worker and however late.              *)
(***************************************************************************)

(* A snapshot counts no more than what has settled.                        *)
NotAhead(snap) ==
    /\ snap.completed <= snap.sample
    /\ snap.sample <= Cardinality(Shared!EverSettled)
    /\ snap.completed <= Cardinality(Shared!EverCompleted)

NoneAhead ==
    /\ \A w \in KpiWorkers : worker[w].pc = "write" => NotAhead(worker[w].snap)
    /\ kpi_config.kind = "dict" => NotAhead(kpi_config)

(* The instances count with operators of their own.                        *)
LEMMA SharedCounts ==
    /\ \A S : Shared!Cardinality(S) = Cardinality(S)
    /\ \A S : Alone!Cardinality(S) = Cardinality(S)
    /\ \A S : Shared!IsFiniteSet(S) = IsFiniteSet(S)
    /\ \A S : Alone!IsFiniteSet(S) = IsFiniteSet(S)
  BY DEF Shared!Cardinality, Alone!Cardinality, Cardinality,
         Shared!IsFiniteSet, Alone!IsFiniteSet, IsFiniteSet

(* A part of the runs is finite, and its size is at most theirs.           *)
LEMMA PartsOfRuns ==
    ASSUME NEW S \in SUBSET SharedRuns, NEW T \in SUBSET S
    PROVE  /\ Cardinality(S) \in 0..Cardinality(SharedRuns)
           /\ Cardinality(T) \in Nat /\ Cardinality(T) <= Cardinality(S)
  <1>1. IsFiniteSet(SharedRuns)
    BY WorkersAssumption, SharedCounts DEF Shared!KpiAssumption
  <1>2. IsFiniteSet(S) /\ Cardinality(S) <= Cardinality(SharedRuns)
    BY <1>1, FS_Subset
  <1>3. IsFiniteSet(T) /\ Cardinality(T) <= Cardinality(S)
    BY <1>2, FS_Subset
  <1> QED
    BY <1>1, <1>2, <1>3, FS_CardinalityType

(* What is settled has been settled.                                       *)
LEMMA SettledWasSettled ==
    ASSUME Shared!TypeOK
    PROVE  /\ Shared!EverSettled \in SUBSET SharedRuns
           /\ Shared!EverCompleted \in SUBSET SharedRuns
           /\ Shared!SettledRuns \in SUBSET Shared!EverSettled
           /\ Shared!CompletedRuns \in SUBSET Shared!EverCompleted
           /\ Shared!CompletedRuns \in SUBSET Shared!SettledRuns
  BY DEF Shared!EverSettled, Shared!EverCompleted, Shared!SettledRuns,
         Shared!CompletedRuns, Shared!Settled, Shared!TypeOK

(* An aggregate is a snapshot, and counts what has settled.                *)
LEMMA AggregateCounts ==
    ASSUME Shared!TypeOK
    PROVE  Shared!Aggregate \in Shared!Snapshots /\ NotAhead(Shared!Aggregate)
  <1>1. /\ Shared!SettledRuns \in SUBSET SharedRuns
        /\ Shared!CompletedRuns \in SUBSET SharedRuns
    BY DEF Shared!SettledRuns, Shared!CompletedRuns
  <1>2. /\ Cardinality(Shared!SettledRuns) \in 0..Cardinality(SharedRuns)
        /\ Cardinality(Shared!CompletedRuns) \in 0..Cardinality(SharedRuns)
    BY <1>1, PartsOfRuns
  <1>3. Cardinality(Shared!SettledRuns) <= Cardinality(Shared!EverSettled)
    BY SettledWasSettled, PartsOfRuns
  <1>4. Cardinality(Shared!CompletedRuns) <= Cardinality(Shared!EverCompleted)
    BY SettledWasSettled, PartsOfRuns
  <1>5. Cardinality(Shared!CompletedRuns) <= Cardinality(Shared!SettledRuns)
    BY <1>1, SettledWasSettled, PartsOfRuns
  <1> QED
    BY <1>2, <1>3, <1>4, <1>5, SharedCounts
       DEF Shared!Aggregate, Shared!Snapshot, Shared!Snapshots, NotAhead

(* What was not ahead of the runs that settled stays so when they grow.    *)
LEMMA StaysNotAhead ==
    ASSUME NEW snap \in Shared!Snapshots, NotAhead(snap),
           Shared!EverSettled \subseteq Shared!EverSettled',
           Shared!EverCompleted \subseteq Shared!EverCompleted'
    PROVE  NotAhead(snap)'
  <1>1. /\ Shared!EverSettled' \in SUBSET SharedRuns
        /\ Shared!EverCompleted' \in SUBSET SharedRuns
        /\ Shared!EverSettled \in SUBSET SharedRuns
        /\ Shared!EverCompleted \in SUBSET SharedRuns
    BY DEF Shared!EverSettled, Shared!EverCompleted
  <1>2. Cardinality(Shared!EverSettled) <= Cardinality(Shared!EverSettled')
    BY <1>1, PartsOfRuns
  <1>3. Cardinality(Shared!EverCompleted) <= Cardinality(Shared!EverCompleted')
    BY <1>1, PartsOfRuns
  <1>4. /\ Cardinality(Shared!EverSettled) \in Int
        /\ Cardinality(Shared!EverSettled') \in Int
        /\ Cardinality(Shared!EverCompleted) \in Int
        /\ Cardinality(Shared!EverCompleted') \in Int
    BY <1>1, PartsOfRuns
  <1>5. snap.sample \in Int /\ snap.completed \in Int
    <2>1. \A n \in 0..Shared!Cardinality(SharedRuns) : n \in Int
      BY SMT
    <2> QED
      BY <2>1 DEF Shared!Snapshots
  <1> QED
    BY <1>2, <1>3, <1>4, <1>5 DEF NotAhead

(* A status that is written over leaves what the run has been.             *)
LEMMA EverGrows ==
    ASSUME Shared!TypeOK, Shared!Next
    PROVE  /\ Shared!EverSettled \subseteq Shared!EverSettled'
           /\ Shared!EverCompleted \subseteq Shared!EverCompleted'
  <1> SUFFICES \A r \in SharedRuns : ever[r] \subseteq ever'[r]
    BY DEF Shared!EverSettled, Shared!EverCompleted
  <1>1. ASSUME NEW r \in SharedRuns, NEW s, Shared!Change(r, s)
        PROVE  \A q \in SharedRuns : ever[q] \subseteq ever'[q]
    BY <1>1 DEF Shared!Change, Shared!TypeOK
  <1>2. CASE UNCHANGED ever
    BY <1>2
  <1> QED
    BY <1>1, <1>2
       DEF Shared!Next, Shared!Settle, Shared!Overwrite, Shared!Publish,
           Shared!AckTimeout, Shared!Fetch, Shared!Take, Shared!Compute,
           Shared!Persist, Shared!Ack, Shared!Nak, Shared!Define

(* An event that waits to be delivered has a delivery left, and a worker   *)
(* handles what was published.                                             *)
DeliveryLeft ==
    /\ \A e \in Shared!Events :
         /\ e > Len(stream) => msg[e] = "none"
         /\ msg[e] = "none" => delivered[e] = 0
         /\ msg[e] = "pending" => delivered[e] < MaxDeliver
    /\ \A w \in KpiWorkers :
         worker[w].pc # "idle" => worker[w].event <= Len(stream)

(* Every step of the shared worker leaves a delivery to a message pending. *)
LEMMA DeliveryLeftStep ==
    ASSUME Shared!TypeOK, DeliveryLeft, Shared!Next
    PROVE  DeliveryLeft'
  <1>1. /\ MaxDeliver \in Nat \ {0} /\ MaxEvents \in Nat /\ Len(stream) \in Nat
        /\ \A e \in Shared!Events : delivered[e] \in Nat
    BY WorkersAssumption DEF Shared!KpiAssumption, Shared!TypeOK
  <1>2. CASE UNCHANGED <<stream, msg, delivered, worker>>
    BY <1>2 DEF DeliveryLeft
  <1>3. ASSUME NEW r \in SharedRuns, Shared!Publish(r)
        PROVE  DeliveryLeft'
    <2>1. Len(stream') = Len(stream) + 1
      BY <1>3 DEF Shared!Publish, Shared!TypeOK
    <2>2. \A e \in Shared!Events : e \in Int
      BY <1>1 DEF Shared!Events
    <2>3. /\ \A e \in Shared!Events :
               msg'[e] = IF e = Len(stream) + 1 THEN "pending" ELSE msg[e]
          /\ UNCHANGED <<delivered, worker>>
      BY <1>3 DEF Shared!Publish, Shared!TypeOK
    <2>4. ASSUME NEW e \in Shared!Events
          PROVE  /\ e > Len(stream') => msg'[e] = "none"
                 /\ msg'[e] = "none" => delivered'[e] = 0
                 /\ msg'[e] = "pending" => delivered'[e] < MaxDeliver
      BY <1>1, <2>1, <2>2, <2>3 DEF DeliveryLeft
    <2>5. ASSUME NEW w \in KpiWorkers, worker'[w].pc # "idle"
          PROVE  worker'[w].event <= Len(stream')
      <3>1. worker[w].event \in Shared!Events
        BY <2>3, <2>5 DEF Shared!TypeOK, Shared!Idle
      <3> QED
        BY <1>1, <2>1, <2>2, <2>3, <2>5, <3>1 DEF DeliveryLeft
    <2> QED
      BY <2>4, <2>5 DEF DeliveryLeft
  <1>4. ASSUME NEW e \in Shared!Events, Shared!AckTimeout(e)
        PROVE  DeliveryLeft'
    BY <1>1, <1>4
       DEF Shared!AckTimeout, Shared!Again, Shared!TypeOK, DeliveryLeft
  <1>5. ASSUME NEW w \in KpiWorkers, NEW e \in Shared!Events, Shared!Fetch(w, e)
        PROVE  DeliveryLeft'
    <2>1. e <= Len(stream)
      BY <1>1, <1>5 DEF Shared!Fetch, Shared!Take, DeliveryLeft, Shared!Events
    <2> QED
      BY <1>1, <1>5, <2>1 DEF Shared!Fetch, Shared!Take, Shared!TypeOK, DeliveryLeft
  <1>6. ASSUME NEW w \in KpiWorkers,
               Shared!Compute(w) \/ Shared!Persist(w) \/ Shared!Ack(w) \/ Shared!Nak(w)
        PROVE  DeliveryLeft'
    <2>1. worker[w].pc # "idle" /\ UNCHANGED <<stream, delivered>>
      BY <1>6 DEF Shared!Compute, Shared!Persist, Shared!Ack, Shared!Nak
    <2>2. worker[w].event \in Shared!Events /\ worker[w].event <= Len(stream)
      BY <2>1 DEF Shared!TypeOK, Shared!Idle, DeliveryLeft
    <2>3. /\ \A v \in KpiWorkers : v # w => worker'[v] = worker[v]
          /\ worker'[w].pc # "idle" => worker'[w].event = worker[w].event
      BY <1>6, <2>1
         DEF Shared!Compute, Shared!Persist, Shared!Ack, Shared!Nak,
             Shared!TypeOK, Shared!Idle
    <2>4. \/ UNCHANGED msg
          \/ msg' = [msg EXCEPT ![worker[w].event] = "acked"]
          \/ /\ msg[worker[w].event] = "delivered"
             /\ msg' = Shared!Again(worker[w].event)
      BY <1>6 DEF Shared!Compute, Shared!Persist, Shared!Ack, Shared!Nak
    <2>5. ASSUME NEW e \in Shared!Events
          PROVE  /\ e > Len(stream) => msg'[e] = "none"
                 /\ msg'[e] = "none" => delivered[e] = 0
                 /\ msg'[e] = "pending" => delivered[e] < MaxDeliver
      BY SMTT(30), <1>1, <2>2, <2>4 DEF Shared!Again, Shared!TypeOK, DeliveryLeft,
                              Shared!Events
    <2> QED
      BY <2>1, <2>2, <2>3, <2>5 DEF DeliveryLeft
  <1> QED
    BY <1>2, <1>3, <1>4, <1>5, <1>6
       DEF Shared!Next, Shared!Settle, Shared!Overwrite, Shared!Change,
           Shared!Define

(* A status written over keeps the types.                                  *)
LEMMA ChangeTyped ==
    ASSUME Shared!TypeOK, NEW r \in SharedRuns,
           NEW s \in {"running"} \cup Shared!Final, Shared!Change(r, s),
           faults' \in 0..SharedFaults
    PROVE  Shared!TypeOK'
  <1>1. status' \in [SharedRuns -> {"running"} \cup Shared!Final]
    BY DEF Shared!Change, Shared!TypeOK
  <1>2. ever' \in [SharedRuns -> SUBSET Shared!Settled]
    BY DEF Shared!Change, Shared!TypeOK
  <1>3. \A q \in SharedRuns : status'[q] \in Shared!Settled => status'[q] \in ever'[q]
    BY DEF Shared!Change, Shared!TypeOK
  <1>4. told' \subseteq DOMAIN stream'
    BY DEF Shared!Change, Shared!TypeOK
  <1> QED
    BY <1>1, <1>2, <1>3, <1>4 DEF Shared!Change, Shared!TypeOK

(* The type invariant: no event is delivered more than max_deliver times.  *)
LEMMA SharedTypeStep ==
    ASSUME Shared!TypeOK, DeliveryLeft, Shared!Next
    PROVE  Shared!TypeOK'
  <1>0. /\ MaxDeliver \in Nat \ {0} /\ SharedFaults \in Nat /\ MaxEvents \in Nat
        /\ Shared!Aggregate \in Shared!Snapshots
    BY WorkersAssumption, AggregateCounts DEF Shared!KpiAssumption
  <1>1. ASSUME NEW r \in SharedRuns, Shared!Settle(r)
        PROVE  Shared!TypeOK'
    BY <1>1, ChangeTyped DEF Shared!Settle, Shared!TypeOK
  <1>2. ASSUME NEW r \in SharedRuns, Shared!Overwrite(r)
        PROVE  Shared!TypeOK'
    <2>1. faults' \in 0..SharedFaults
      BY <1>0, <1>2 DEF Shared!Overwrite, Shared!TypeOK
    <2> QED
      BY <1>2, <2>1, ChangeTyped DEF Shared!Overwrite
  <1>3. ASSUME NEW r \in SharedRuns, Shared!Publish(r)
        PROVE  Shared!TypeOK'
    <2>1. /\ stream' \in Seq(SharedRuns) /\ Len(stream') = Len(stream) + 1
          /\ Len(stream) \in Nat /\ Len(stream') <= MaxEvents
      BY <1>0, <1>3 DEF Shared!Publish, Shared!TypeOK
    <2>2. told' \subseteq DOMAIN stream'
      BY <1>3, <2>1 DEF Shared!Publish, Shared!TypeOK
    <2>3. msg' \in [Shared!Events ->
                     {"none", "pending", "delivered", "acked", "dropped"}]
      BY <1>3 DEF Shared!Publish, Shared!TypeOK
    <2> QED
      BY <1>3, <2>1, <2>2, <2>3 DEF Shared!Publish, Shared!TypeOK
  <1> USE DEF Shared!TypeOK
  <1>4. ASSUME NEW e \in Shared!Events, Shared!AckTimeout(e)
        PROVE  Shared!TypeOK'
    BY <1>0, <1>4 DEF Shared!AckTimeout, Shared!Again
  <1>5. ASSUME NEW w \in KpiWorkers, NEW e \in Shared!Events, Shared!Fetch(w, e)
        PROVE  Shared!TypeOK'
    BY <1>0, <1>5 DEF Shared!Fetch, Shared!Take, DeliveryLeft
  <1>6. ASSUME NEW w \in KpiWorkers, Shared!Compute(w)
        PROVE  Shared!TypeOK'
    BY <1>0, <1>6 DEF Shared!Compute, Shared!Idle
  <1>7. ASSUME NEW w \in KpiWorkers, Shared!Persist(w)
        PROVE  Shared!TypeOK'
    BY <1>0, <1>7 DEF Shared!Persist, Shared!Idle
  <1>8. ASSUME NEW w \in KpiWorkers, Shared!Ack(w)
        PROVE  Shared!TypeOK'
    BY <1>0, <1>8 DEF Shared!Ack, Shared!Idle
  <1>9. ASSUME NEW w \in KpiWorkers, Shared!Nak(w)
        PROVE  Shared!TypeOK'
    BY <1>0, <1>9 DEF Shared!Nak, Shared!Again, Shared!Idle
  <1>10. CASE Shared!Define
    BY <1>10 DEF Shared!Define
  <1> QED
    BY <1>1, <1>2, <1>3, <1>4, <1>5, <1>6, <1>7, <1>8, <1>9, <1>10
       DEF Shared!Next

(* And no snapshot ever counts more than what has settled.                 *)
LEMMA NoneAheadStep ==
    ASSUME Shared!TypeOK, DeliveryLeft, NoneAhead, Shared!Next
    PROVE  NoneAhead'
  <1>0. Shared!TypeOK'
    BY SharedTypeStep
  <1>1. ASSUME NEW snap \in Shared!Snapshots, NotAhead(snap)
        PROVE  NotAhead(snap)'
    BY <1>1, EverGrows, StaysNotAhead
  <1>2. ASSUME NEW w \in KpiWorkers, worker'[w].pc = "write"
        PROVE  NotAhead(worker[w].snap)'
    <2>1. PICK snap \in Shared!Snapshots : worker'[w].snap = snap
      <3>1. worker'[w] \in {Shared!Idle}
                \cup [pc : {"aggregate", "ack"}, event : Shared!Events]
                \cup [pc : {"write"}, event : Shared!Events,
                      snap : Shared!Snapshots]
        BY <1>0 DEF Shared!TypeOK
      <3> QED
        BY <1>2, <3>1 DEF Shared!Idle
    <2>2. CASE worker[w].pc = "write" /\ worker'[w].snap = worker[w].snap
      <3>1. NotAhead(snap)
        BY <2>1, <2>2 DEF NoneAhead
      <3> QED
        BY <1>1, <2>1, <3>1 DEF NotAhead
    <2>3. CASE Shared!Compute(w)
      <3>1. snap = Shared!Aggregate
        BY <2>1, <2>3 DEF Shared!Compute, Shared!TypeOK
      <3>2. NotAhead(snap)
        BY <3>1, AggregateCounts
      <3> QED
        BY <1>1, <2>1, <3>2 DEF NotAhead
    <2> QED
      BY <1>2, <2>2, <2>3
         DEF Shared!Next, Shared!Settle, Shared!Overwrite, Shared!Change,
             Shared!Publish, Shared!AckTimeout, Shared!Fetch, Shared!Take,
             Shared!Compute, Shared!Persist, Shared!Ack, Shared!Nak,
             Shared!Define, Shared!TypeOK, Shared!Idle
  <1>3. ASSUME kpi_config'.kind = "dict"
        PROVE  NotAhead(kpi_config)'
    <2>1. PICK snap \in Shared!Snapshots : kpi_config' = snap
      BY <1>0, <1>3 DEF Shared!TypeOK, Shared!Null, Shared!Definitions, Shared!Settings
    <2>2. CASE UNCHANGED kpi_config
      <3>1. NotAhead(snap)
        BY <2>1, <2>2, <1>3 DEF NoneAhead
      <3> QED
        BY <1>1, <2>1, <3>1 DEF NotAhead
    <2>3. CASE \E w \in KpiWorkers : Shared!Persist(w)
      <3>1. NotAhead(snap)
        BY <2>1, <2>3 DEF Shared!Persist, NoneAhead
      <3> QED
        BY <1>1, <2>1, <3>1 DEF NotAhead
    <2> QED
      BY <1>3, <2>2, <2>3
         DEF Shared!Next, Shared!Settle, Shared!Overwrite, Shared!Change,
             Shared!Publish, Shared!AckTimeout, Shared!Fetch, Shared!Take,
             Shared!Compute, Shared!Ack, Shared!Nak, Shared!Define,
             Shared!Definitions
  <1> QED
    BY <1>2, <1>3 DEF NoneAhead, NotAhead

SharedInv == part = "shared" => Shared!TypeOK /\ DeliveryLeft /\ NoneAhead

(* However often a run is announced, its status written over, its event    *)
(* delivered, and by whichever of several KPI workers it is handled, no    *)
(* run is counted twice or before it settled, for every number of runs,    *)
(* events, workers, deliveries and faults.                                 *)
THEOREM CountsStayTrue == WorkersSpec => []NothingCountedTwice
<1>1. WorkersInit => SharedInv
  <2> SUFFICES ASSUME WorkersInit, part = "shared"
               PROVE  Shared!TypeOK /\ DeliveryLeft /\ NoneAhead
    BY DEF SharedInv
  <2>1. /\ Shared!Init /\ MaxDeliver \in Nat \ {0} /\ SharedFaults \in Nat
        /\ MaxEvents \in Nat
    BY WorkersAssumption DEF WorkersInit, Shared!KpiAssumption
  <2>2. Shared!TypeOK
    BY <2>1 DEF Shared!Init, Shared!TypeOK, Shared!Idle, Shared!Settled
  <2> QED
    BY <2>1, <2>2
       DEF Shared!Init, DeliveryLeft, NoneAhead, Shared!Idle, Shared!Null,
           Shared!Definitions, Shared!Settings
<1> DEFINE all == <<part, kpiVars, managerVars, callVars>>
<1>2. SharedInv /\ [WorkersNext]_all => SharedInv'
  <2> SUFFICES ASSUME SharedInv, [WorkersNext]_all, part' = "shared"
               PROVE  (Shared!TypeOK /\ DeliveryLeft /\ NoneAhead)'
    BY DEF SharedInv
  <2>1. CASE UNCHANGED <<part, kpiVars>>
    BY <2>1
       DEF SharedInv, kpiVars, Shared!TypeOK, DeliveryLeft, NoneAhead, NotAhead,
           Shared!EverSettled, Shared!EverCompleted
  <2>2. CASE SharedNext
    BY <2>2, DeliveryLeftStep, SharedTypeStep, NoneAheadStep
       DEF SharedNext, SharedInv
  <2> QED
    BY <2>1, <2>2 DEF WorkersNext, AloneNext, ManagerNext, ToolNext
<1>3. SharedInv => NothingCountedTwice
  BY SharedCounts
     DEF SharedInv, NothingCountedTwice, Shared!NothingCountedTwice, NoneAhead,
         NotAhead
<1> QED
  BY <1>1, <1>2, <1>3, PTL DEF WorkersSpec

-----------------------------------------------------------------------------
(***************************************************************************)
(* A single KPI worker.  What it acknowledges is counted by the snapshot   *)
(* it wrote just before, unless the run has changed since the aggregate    *)
(* was read, and then nobody has announced the change, or its message is   *)
(* another one and waits.  So a snapshot is the aggregate, or some run     *)
(* that settled is still open.                                             *)
(***************************************************************************)

(* Nothing published since its last change has been acknowledged.          *)
Open(r) == \A e \in told : stream[e] = r => msg[e] # "acked"

(* Open also after the worker's acknowledgement of the event it handles.   *)
Late(r) ==
    \A e \in told : stream[e] = r => msg[e] # "acked" /\ e # worker[TheWorker].event

CurrentOrOpen(snap) ==
    snap = Alone!Aggregate \/ \E r \in Alone!EverSettled : Open(r)

CurrentOrLate(snap) ==
    snap = Alone!Aggregate \/ \E r \in Alone!EverSettled : Late(r)

Shaped ==
    /\ status \in [AloneRuns -> {"running"} \cup Alone!Final]
    /\ ever \in [AloneRuns -> SUBSET Alone!Settled]
    /\ \A r \in AloneRuns : status[r] \in Alone!Settled => status[r] \in ever[r]
    /\ stream \in Seq(AloneRuns) /\ Len(stream) <= MaxEvents
    /\ msg \in [Alone!Events ->
                   {"none", "pending", "delivered", "acked", "dropped"}]
    /\ DOMAIN worker = {TheWorker} /\ worker = [w \in {TheWorker} |-> worker[w]]
    /\ worker[TheWorker].pc \in {"idle", "aggregate", "write", "ack"}
    /\ worker[TheWorker].pc # "idle" => worker[TheWorker].event \in Alone!Events
    /\ worker[TheWorker].pc = "idle" => worker[TheWorker] = Alone!Idle

(* The events that tell of a run, and the one the worker handles, were     *)
(* published.                                                              *)
Announced ==
    /\ told \subseteq 1..Len(stream)
    /\ \A e \in Alone!Events : e > Len(stream) => msg[e] = "none"
    /\ worker[TheWorker].pc # "idle" => msg[worker[TheWorker].event] # "none"

SnapshotInv ==
    /\ worker[TheWorker].pc = "write" => CurrentOrLate(worker[TheWorker].snap)
    /\ kpi_config.kind = "dict" =>
         IF worker[TheWorker].pc = "ack" THEN CurrentOrLate(kpi_config)
         ELSE CurrentOrOpen(kpi_config)

(* A change of status keeps the shape of the worker alone.                 *)
LEMMA ChangeShaped ==
    ASSUME Shaped, Announced, NEW r \in AloneRuns,
           NEW s \in {"running"} \cup Alone!Final, Alone!Change(r, s)
    PROVE  Shaped' /\ Announced'
  <1>1. /\ status' \in [AloneRuns -> {"running"} \cup Alone!Final]
        /\ ever' \in [AloneRuns -> SUBSET Alone!Settled]
    BY DEF Alone!Change, Shaped
  <1>2. \A q \in AloneRuns : status'[q] \in Alone!Settled => status'[q] \in ever'[q]
    BY DEF Alone!Change, Shaped
  <1>3. told' \subseteq told
    BY DEF Alone!Change
  <1>4. UNCHANGED <<stream, msg, worker>>
    BY DEF Alone!Change
  <1> QED
    BY <1>1, <1>2, <1>3, <1>4 DEF Shaped, Announced

(* A message published keeps the shape.                                    *)
LEMMA PublishShaped ==
    ASSUME Shaped, Announced, NEW r \in AloneRuns, Alone!Publish(r)
    PROVE  /\ Shaped' /\ Announced'
           /\ Len(stream) + 1 \in Alone!Events /\ Len(stream') = Len(stream) + 1
           /\ \A e \in 1..Len(stream) : stream'[e] = stream[e] /\ msg'[e] = msg[e]
           /\ msg'[Len(stream) + 1] = "pending" /\ msg[Len(stream) + 1] = "none"
  <1>1. MaxEvents \in Nat
    BY WorkersAssumption DEF Alone!KpiAssumption
  <1>2. /\ stream' \in Seq(AloneRuns) /\ Len(stream) \in Nat
        /\ Len(stream') = Len(stream) + 1 /\ Len(stream') <= MaxEvents
        /\ \A e \in 1..Len(stream) : stream'[e] = stream[e]
    BY <1>1 DEF Alone!Publish, Shaped
  <1>3. Len(stream) + 1 \in Alone!Events
    BY <1>1, <1>2 DEF Alone!Events
  <1>4. /\ msg' \in [Alone!Events ->
                        {"none", "pending", "delivered", "acked", "dropped"}]
        /\ msg'[Len(stream) + 1] = "pending"
        /\ \A e \in Alone!Events : e # Len(stream) + 1 => msg'[e] = msg[e]
    BY <1>3 DEF Alone!Publish, Shaped
  <1>5. /\ told' = told \cup {Len(stream) + 1}
        /\ UNCHANGED <<status, ever, worker>>
    BY DEF Alone!Publish
  <1>6. Shaped'
    BY <1>2, <1>4, <1>5 DEF Shaped
  <1>7. \A e \in 1..Len(stream) : e \in Alone!Events /\ e # Len(stream) + 1
    BY <1>1, <1>2 DEF Alone!Events
  <1>8. msg[Len(stream) + 1] = "none"
    BY <1>2, <1>3 DEF Announced
  <1>9. told' \subseteq 1..Len(stream')
    <2>1. \A e \in 1..(Len(stream) + 1) : e \in 1..Len(stream')
      BY <1>2
    <2>2. /\ \A e \in 1..Len(stream) : e \in 1..(Len(stream) + 1)
          /\ Len(stream) + 1 \in 1..(Len(stream) + 1)
      BY <1>2
    <2> QED
      BY <1>5, <2>1, <2>2 DEF Announced
  <1>10. ASSUME NEW e \in Alone!Events, e > Len(stream')
         PROVE  msg'[e] = "none"
    BY <1>1, <1>2, <1>4, <1>10 DEF Announced, Alone!Events
  <1>11. worker'[TheWorker].pc # "idle" => msg'[worker'[TheWorker].event] # "none"
    BY <1>4, <1>5, <1>8 DEF Shaped, Announced
  <1> QED
    BY <1>2, <1>3, <1>4, <1>6, <1>7, <1>8, <1>9, <1>10, <1>11 DEF Announced

(* Every step of the worker alone keeps its shape.                         *)
LEMMA ShapedStep ==
    ASSUME Shaped, Announced, Alone!Next
    PROVE  Shaped' /\ Announced'
  <1>1. ASSUME NEW r \in AloneRuns, Alone!Settle(r) \/ Alone!Overwrite(r)
        PROVE  Shaped' /\ Announced'
    BY <1>1, ChangeShaped DEF Alone!Settle, Alone!Overwrite
  <1>2. ASSUME NEW r \in AloneRuns, Alone!Publish(r)
        PROVE  Shaped' /\ Announced'
    BY <1>2, PublishShaped
  <1> USE DEF Shaped, Announced
  <1>4. CASE \E e \in Alone!Events : Alone!AckTimeout(e)
    BY <1>4 DEF Alone!AckTimeout, Alone!Again
  <1>5. ASSUME NEW e \in Alone!Events, Alone!Fetch(TheWorker, e)
        PROVE  Shaped' /\ Announced'
    <2>1. /\ worker' = [w \in {TheWorker} |-> [pc |-> "aggregate", event |-> e]]
          /\ msg' = [msg EXCEPT ![e] = "delivered"] /\ msg[e] = "pending"
          /\ UNCHANGED <<status, ever, stream, told>>
      BY <1>5 DEF Alone!Fetch, Alone!Take
    <2>2. worker'[TheWorker] = [pc |-> "aggregate", event |-> e]
      BY <2>1
    <2>3. worker'[TheWorker].pc = "aggregate" /\ worker'[TheWorker].event = e
      BY <2>2
    <2>4. Shaped'
      BY <2>1, <2>2, <2>3
    <2> QED
      BY <2>1, <2>3, <2>4
  <1>6. CASE Alone!Compute(TheWorker)
    BY <1>6 DEF Alone!Compute
  <1>7. CASE Alone!Persist(TheWorker)
    BY <1>7 DEF Alone!Persist
  <1>8. CASE Alone!Ack(TheWorker)
    BY <1>8 DEF Alone!Ack, Alone!Idle
  <1>9. CASE Alone!Nak(TheWorker)
    BY <1>9 DEF Alone!Nak, Alone!Again, Alone!Idle
  <1>10. CASE Alone!Define
    BY <1>10 DEF Alone!Define
  <1> QED
    BY <1>1, <1>2, <1>4, <1>5, <1>6, <1>7, <1>8, <1>9, <1>10
       DEF Alone!Next

(* A run that has settled and changes is open, whatever the worker is      *)
(* about to acknowledge; the change of one that never did is not counted.  *)
LEMMA ChangeSnapshot ==
    ASSUME Shaped, Announced, SnapshotInv, NEW r \in AloneRuns, NEW s,
           Alone!Change(r, s)
    PROVE  SnapshotInv'
  <1>1. CASE r \in Alone!EverSettled'
    <2>1. Late(r)' /\ Open(r)'
      BY DEF Alone!Change, Late, Open
    <2> QED
      BY <1>1, <2>1 DEF SnapshotInv, CurrentOrLate, CurrentOrOpen
  <1>2. CASE r \notin Alone!EverSettled'
    <2>1. ever[r] = {} /\ s \notin Alone!Settled /\ status[r] \notin Alone!Settled
      BY <1>2 DEF Alone!EverSettled, Alone!Change, Shaped
    <2>2. /\ Alone!SettledRuns' = Alone!SettledRuns
          /\ Alone!CompletedRuns' = Alone!CompletedRuns
      BY <2>1 DEF Alone!SettledRuns, Alone!CompletedRuns, Alone!Change, Shaped,
                  Alone!Settled
    <2>3. Alone!Aggregate' = Alone!Aggregate
      BY <2>2 DEF Alone!Aggregate
    <2>4. \A q \in Alone!EverSettled : q \in Alone!EverSettled'
      BY DEF Alone!EverSettled, Alone!Change, Shaped
    <2>5. \A q : (Open(q) => Open(q)') /\ (Late(q) => Late(q)')
      BY DEF Open, Late, Alone!Change
    <2> QED
      BY <2>3, <2>4, <2>5
         DEF SnapshotInv, CurrentOrLate, CurrentOrOpen, Alone!Change
  <1> QED
    BY <1>1, <1>2

(* A new message is not yet acknowledged, and not the one in hand.         *)
LEMMA PublishSnapshot ==
    ASSUME Shaped, Announced, SnapshotInv, NEW r \in AloneRuns, Alone!Publish(r)
    PROVE  SnapshotInv'
  <1>1. /\ told' = told \cup {Len(stream) + 1} /\ told \subseteq 1..Len(stream)
        /\ UNCHANGED <<status, ever, worker, kpi_config>>
    BY DEF Alone!Publish, Announced
  <1>2. /\ \A e \in told : stream'[e] = stream[e] /\ msg'[e] = msg[e]
        /\ msg'[Len(stream) + 1] # "acked"
    BY <1>1, PublishShaped
  <1>3. worker[TheWorker].pc # "idle" => worker[TheWorker].event # Len(stream) + 1
    BY PublishShaped DEF Announced
  <1>4. \A q : Open(q) => Open(q)'
    BY <1>1, <1>2 DEF Open
  <1>5. worker[TheWorker].pc # "idle" => \A q : Late(q) => Late(q)'
    BY <1>1, <1>2, <1>3 DEF Late
  <1>6. /\ Alone!EverSettled' = Alone!EverSettled
        /\ Alone!Aggregate' = Alone!Aggregate
    BY <1>1 DEF Alone!EverSettled, Alone!Aggregate, Alone!SettledRuns,
                Alone!CompletedRuns
  <1> QED
    BY <1>1, <1>4, <1>5, <1>6 DEF SnapshotInv, CurrentOrLate, CurrentOrOpen

(* Every step of the worker alone keeps its snapshots current or late.     *)
LEMMA SnapshotStep ==
    ASSUME Shaped, Announced, SnapshotInv, Alone!Next
    PROVE  SnapshotInv'
  <1>1. ASSUME NEW r \in AloneRuns,
               Alone!Settle(r) \/ Alone!Overwrite(r) \/ Alone!Publish(r)
        PROVE  SnapshotInv'
    BY <1>1, ChangeSnapshot, PublishSnapshot DEF Alone!Settle, Alone!Overwrite
  <1> USE DEF Shaped, Announced, SnapshotInv, CurrentOrOpen, CurrentOrLate, Open,
              Late
  <1>2. ASSUME UNCHANGED <<status, ever>>
        PROVE  /\ Alone!EverSettled' = Alone!EverSettled
               /\ Alone!Aggregate' = Alone!Aggregate
    BY <1>2 DEF Alone!EverSettled, Alone!Aggregate, Alone!SettledRuns,
                Alone!CompletedRuns
  <1>3. \A e \in told : e \in Alone!Events
    BY WorkersAssumption DEF Alone!KpiAssumption, Alone!Events
  <1>5. ASSUME NEW e \in Alone!Events, Alone!AckTimeout(e)
        PROVE  SnapshotInv'
    BY <1>2, <1>3, <1>5 DEF Alone!AckTimeout, Alone!Again
  <1>6. ASSUME NEW e \in Alone!Events, Alone!Fetch(TheWorker, e)
        PROVE  SnapshotInv'
    BY <1>2, <1>3, <1>6 DEF Alone!Fetch, Alone!Take
  <1>7. CASE Alone!Compute(TheWorker)
    BY <1>2, <1>7 DEF Alone!Compute
  <1>8. CASE Alone!Persist(TheWorker)
    BY <1>2, <1>8 DEF Alone!Persist
  <1>9. CASE Alone!Ack(TheWorker)
    BY <1>2, <1>3, <1>9 DEF Alone!Ack, Alone!Idle
  <1>10. CASE Alone!Nak(TheWorker)
    BY <1>2, <1>3, <1>10 DEF Alone!Nak, Alone!Again, Alone!Idle
  <1>11. CASE Alone!Define
    BY <1>2, <1>11 DEF Alone!Define, Alone!Definitions
  <1> QED
    BY <1>1, <1>5, <1>6, <1>7, <1>8, <1>9, <1>10, <1>11
       DEF Alone!Next

AloneInv == part = "alone" => Shaped /\ Announced /\ SnapshotInv

(* With one KPI worker, when each run that ever settled was announced      *)
(* after the last change of its status, by an event that is acknowledged,  *)
(* the snapshot in the workflow's row is the aggregate of the runs as they *)
(* are, for every number of runs, events, deliveries, faults and stale     *)
(* writes.                                                                 *)
THEOREM SnapshotStaysCurrent == WorkersSpec => []SnapshotIsCurrent
<1>1. WorkersInit => AloneInv
  <2> SUFFICES ASSUME WorkersInit, part = "alone"
               PROVE  Shaped /\ Announced /\ SnapshotInv
    BY DEF AloneInv
  <2>1. Alone!Init /\ MaxEvents \in Nat
    BY WorkersAssumption DEF WorkersInit, Alone!KpiAssumption
  <2> QED
    BY <2>1
       DEF Alone!Init, Shaped, Announced, SnapshotInv, Alone!Idle, Alone!Null,
           Alone!Definitions, Alone!Settings, Alone!Settled
<1> DEFINE all == <<part, kpiVars, managerVars, callVars>>
<1>2. AloneInv /\ [WorkersNext]_all => AloneInv'
  <2> SUFFICES ASSUME AloneInv, [WorkersNext]_all, part' = "alone"
               PROVE  (Shaped /\ Announced /\ SnapshotInv)'
    BY DEF AloneInv
  <2>1. CASE UNCHANGED <<part, kpiVars>>
    BY <2>1
       DEF AloneInv, kpiVars, Shaped, Announced, SnapshotInv, CurrentOrOpen,
           CurrentOrLate, Open, Late, Alone!EverSettled, Alone!SettledRuns,
           Alone!Aggregate, Alone!CompletedRuns
  <2>2. CASE AloneNext
    BY <2>2, ShapedStep, SnapshotStep DEF AloneNext, AloneInv
  <2> QED
    BY <2>1, <2>2 DEF WorkersNext, SharedNext, ManagerNext, ToolNext
<1>3. AloneInv => SnapshotIsCurrent
  BY DEF AloneInv, SnapshotIsCurrent, Alone!SnapshotIsCurrent, SnapshotInv,
         CurrentOrOpen, Open, Shaped, Alone!Idle
<1> QED
  BY <1>1, <1>2, <1>3, PTL DEF WorkersSpec

-----------------------------------------------------------------------------
(***************************************************************************)
(* start and stop of the manager.  The event is set before the first await *)
(* of stop and never cleared, so while it is not set no stop has taken a   *)
(* subscription away; and start makes the loops after both subscriptions.  *)
(***************************************************************************)
ManagerInv ==
    /\ starter \in [n : 0..MaxStarts,
                    pc : {"streams", "run", "kpi", "started", "raised"}]
    /\ starter.pc # "raised" => starter.n # 0
    /\ sub \in [1..MaxStarts -> [{"run", "kpi"} -> BOOLEAN]]
    /\ loop \in [1..MaxStarts -> [{"run", "kpi", "health"} ->
                     {"none", "looping", "cancelled", "ended"}]]
    /\ ~shutdown =>
         /\ \A s \in Stoppers : stopper[s].pc = "idle"
         /\ starter.pc = "kpi" => sub[starter.n]["run"]
         /\ \A n \in 1..MaxStarts, k \in {"run", "kpi"} :
              loop[n][k] = "looping" => sub[n][k]

(* Every step of the manager keeps its invariant.                          *)
LEMMA ManagerStep ==
    ASSUME ManagerInv, Manager!Next
    PROVE  ManagerInv'
  <1>0. MaxStarts \in Nat \ {0}
    BY WorkersAssumption DEF Manager!ManagerAssumption
  <1> USE <1>0 DEF ManagerInv, Manager!Starts, Manager!Pullers, Manager!Loops,
                   Manager!StartAt, Manager!Goto, Manager!MayStart, Manager!At,
                   Manager!Move
  <1>1. CASE Manager!Connect
    BY <1>1 DEF Manager!Connect
  <1>2. CASE Manager!ConnectFails
    BY <1>2 DEF Manager!ConnectFails
  <1>3. CASE Manager!Instantiate
    BY <1>3 DEF Manager!Instantiate
  <1>4. CASE Manager!SubscribeRun
    <2>1. CASE conn[starter.n] = "up"
      <3>1. /\ sub' = [sub EXCEPT ![starter.n]["run"] = TRUE]
            /\ starter' = [starter EXCEPT !.pc = "kpi"]
            /\ UNCHANGED <<shutdown, loop, stopper>>
        BY <1>4, <2>1 DEF Manager!SubscribeRun
      <3>2. starter.n \in 1..MaxStarts /\ starter'.n = starter.n
        BY <1>4, <3>1 DEF Manager!SubscribeRun
      <3>3. /\ sub' \in [1..MaxStarts -> [{"run", "kpi"} -> BOOLEAN]]
            /\ sub'[starter'.n]["run"]
            /\ \A n \in 1..MaxStarts, k \in {"run", "kpi"} :
                 sub[n][k] => sub'[n][k]
        BY <3>1, <3>2
      <3>4. /\ starter' \in [n : 0..MaxStarts,
                             pc : {"streams", "run", "kpi", "started", "raised"}]
            /\ starter'.pc = "kpi" /\ starter'.n # 0
        BY <3>1, <3>2
      <3> QED
        BY <3>1, <3>3, <3>4
    <2>2. CASE conn[starter.n] # "up"
      BY <1>4, <2>2 DEF Manager!SubscribeRun
    <2> QED
      BY <2>1, <2>2
  <1>5. CASE Manager!SubscribeKpi
    <2>1. CASE conn[starter.n] = "up"
      <3>1. /\ sub' = [sub EXCEPT ![starter.n]["kpi"] = TRUE]
            /\ starter' = [starter EXCEPT !.pc = "started"]
            /\ loop' = [loop EXCEPT ![starter.n] =
                          [k \in {"run", "kpi", "health"} |-> "looping"]]
            /\ UNCHANGED <<shutdown, stopper>>
        BY <1>5, <2>1 DEF Manager!SubscribeKpi
      <3>2. starter.n \in 1..MaxStarts
        BY <1>5 DEF Manager!SubscribeKpi
      <3>3. /\ sub' \in [1..MaxStarts -> [{"run", "kpi"} -> BOOLEAN]]
            /\ loop' \in [1..MaxStarts -> [{"run", "kpi", "health"} ->
                               {"none", "looping", "cancelled", "ended"}]]
        BY <3>1, <3>2
      <3>4. ASSUME ~shutdown, NEW n \in 1..MaxStarts, NEW k \in {"run", "kpi"},
                   loop'[n][k] = "looping"
            PROVE  sub'[n][k]
        BY <1>5, <3>1, <3>2, <3>4 DEF Manager!SubscribeKpi
      <3> QED
        BY <3>1, <3>2, <3>3, <3>4
    <2>2. CASE conn[starter.n] # "up"
      BY <1>5, <2>2 DEF Manager!SubscribeKpi
    <2> QED
      BY <2>1, <2>2
  <1>6. CASE \E n \in Manager!Starts, k \in Manager!Loops : Manager!LoopExits(n, k)
    BY SMTT(30), <1>6 DEF Manager!LoopExits
  <1>7. ASSUME NEW s \in Stoppers, Manager!StopStep(s)
        PROVE  ManagerInv'
    <2>1. CASE Manager!StopAgain(s)
      BY <2>1 DEF Manager!StopAgain
    <2>2. CASE Manager!Stop(s)
      BY <2>2 DEF Manager!Stop
    <2>3. ASSUME NEW k \in Manager!Pullers, Manager!StopWorker(s, k)
          PROVE  ManagerInv'
      BY <2>3 DEF Manager!StopWorker
    <2>4. CASE Manager!Cancel(s)
      BY <2>4 DEF Manager!Cancel
    <2>5. CASE Manager!Gather(s) \/ Manager!Drain(s) \/ Manager!Close(s)
      BY <2>5 DEF Manager!Gather, Manager!Drain, Manager!Close
    <2> QED
      BY <1>7, <2>1, <2>2, <2>3, <2>4, <2>5 DEF Manager!StopStep
  <1>8. CASE \E n \in Manager!Starts : Manager!Outage(n) \/ Manager!Reconnect(n)
    BY <1>8 DEF Manager!Outage, Manager!Reconnect
  <1> QED
    BY <1>1, <1>2, <1>3, <1>4, <1>5, <1>6, <1>7, <1>8 DEF Manager!Next

(* However start, its failures, calls of stop, signals and outages follow  *)
(* each other, a loop that is to go on has its subscription, for every     *)
(* number of starts and stops.                                             *)
THEOREM LoopsHaveSubscriptions == WorkersSpec => []NoBusyLoop
<1>1. Manager!Init => ManagerInv
  BY WorkersAssumption
     DEF Manager!ManagerAssumption, Manager!Init, ManagerInv, Manager!Starts,
         Manager!Pullers, Manager!Loops
<1>2. ManagerInv /\ [Manager!Next]_managerVars => ManagerInv'
  <2>1. ManagerInv /\ UNCHANGED managerVars => ManagerInv'
    BY DEF ManagerInv, managerVars
  <2> QED
    BY <2>1, ManagerStep
<1>3. ManagerInv => NoBusyLoop
  BY DEF ManagerInv, NoBusyLoop, Manager!NoBusyLoop, Manager!Starts,
         Manager!Pullers
<1> QED
  BY <1>1, <1>2, <1>3, WorkersAreParts, PTL

=============================================================================
