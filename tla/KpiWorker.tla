------------------------------ MODULE KpiWorker ------------------------------
(***************************************************************************)
(* The KPI worker (services/workers.py): a JetStream consumer of           *)
(* "runs.completed" that recomputes the indicators of a workflow from its  *)
(* settled runs and stores them in the kpi_config column of its row, the   *)
(* column in which clients keep the workflow's own KPI definitions.        *)
(*                                                                         *)
(* A worker handles one message at a time and is cut at its awaits: the    *)
(* aggregate is read in one statement and the row written in another.      *)
(* JetStream delivers a message again after a nak, or when its ack did not *)
(* arrive in time, and gives up after max_deliver deliveries.              *)
(*                                                                         *)
(* The events are not tied to what they announce: a run worker publishes   *)
(* one whenever execute_run has returned, and the status of a run can be   *)
(* written again after it settled, by a cancel that had read it as running *)
(* or by a second executor (RunLifecycle), with or without another event.  *)
(*                                                                         *)
(* Abstracted: one workflow; a snapshot is the sample size and the number  *)
(* of completed runs, which stand for the ratios, percentiles and sums;    *)
(* "running" is every status before a run settles, "cancelled" every other *)
(* one that the aggregate does not count.                                  *)
(***************************************************************************)
EXTENDS Naturals, FiniteSets, Sequences

CONSTANTS Runs,        \* the runs of the workflow
          Workers,     \* KPI workers sharing the durable consumer
          MaxEvents,   \* bound on the events published
          MaxDeliver,  \* max_deliver of the consumer
          Window,      \* "the last 100 runs"
          MaxFaults    \* bound on database errors, lost acks and stale writes

KpiAssumption ==
    /\ MaxDeliver \in Nat \ {0} /\ MaxFaults \in Nat /\ MaxEvents \in Nat
    /\ IsFiniteSet(Runs)

VARIABLES status,      \* agent_runs.status
          ever,        \* history: the counted statuses each run has had
          stream,      \* the messages of runs.completed: their runs, in order
          msg,         \* what became of each message
          told,        \* history: messages published since the last change of
                       \* the status of their run
          delivered,   \* times each message was delivered
          worker,      \* what each worker is doing
          kpi_config,  \* the column of the workflow's row
          faults

vars == <<status, ever, stream, msg, told, delivered, worker, kpi_config, faults>>

Events == 1..MaxEvents

Settled == {"completed", "failed"}
Final == Settled \cup {"cancelled"}
Idle == [pc |-> "idle"]

(* The column: NULL, the list of definitions a client wrote, the settings  *)
(* the seeded workflow is created with, a snapshot.                        *)
Null == [kind |-> "null"]
Definitions == [kind |-> "list"]
Settings == [kind |-> "settings"]
Snapshot(n, ok) == [kind |-> "dict", sample |-> n, completed |-> ok]

Init ==
    /\ status = [r \in Runs |-> "running"]
    /\ ever = [r \in Runs |-> {}]
    /\ stream = <<>>
    /\ msg = [e \in Events |-> "none"]
    /\ told = {}
    /\ delivered = [e \in Events |-> 0]
    /\ worker = [w \in Workers |-> Idle]
    /\ kpi_config \in {Null, Definitions, Settings}
    /\ faults = 0

---------------------------------------------------------------------------
(* The runs *)

(* The messages about r tell of a status it no longer has.                 *)
Change(r, s) ==
    /\ status[r] # s
    /\ status' = [status EXCEPT ![r] = s]
    /\ ever' = [ever EXCEPT ![r] = @ \cup ({s} \cap Settled)]
    /\ told' = {e \in told : stream[e] # r}
    /\ UNCHANGED <<stream, msg, delivered, worker, kpi_config>>

(* A run completes, fails or is cancelled.                                 *)
Settle(r) ==
    /\ status[r] = "running"
    /\ \E s \in Final : Change(r, s)
    /\ UNCHANGED faults

(* cancel_run and execute_run write the status by the ID of the run,       *)
(* whatever became of it since they read it.                               *)
Overwrite(r) ==
    /\ status[r] # "running" /\ faults < MaxFaults
    /\ \E s \in {"running"} \cup Final : Change(r, s)
    /\ faults' = faults + 1

(* The run worker, once execute_run has returned: with the run settled, or *)
(* awaiting approval, or left to another executor.  A run that is resumed  *)
(* settles in the process that resumed it, which publishes nothing; nor    *)
(* does a cancel, or a run worker that stops first.                        *)
Publish(r) ==
    /\ Len(stream) < MaxEvents
    /\ stream' = Append(stream, r)
    /\ msg' = [msg EXCEPT ![Len(stream) + 1] = "pending"]
    /\ told' = told \cup {Len(stream) + 1}
    /\ UNCHANGED <<status, ever, delivered, worker, kpi_config, faults>>

---------------------------------------------------------------------------
(* The KPI worker *)

Take(w, e) ==
    /\ worker[w].pc = "idle" /\ msg[e] = "pending"
    /\ delivered' = [delivered EXCEPT ![e] = @ + 1]
    /\ worker' = [worker EXCEPT ![w] = [pc |-> "aggregate", event |-> e]]
    /\ UNCHANGED <<status, ever, stream, told, kpi_config, faults>>

(* Seeded fault: the event is acknowledged when it is fetched.             *)
FetchAndAck(w, e) ==
    /\ Take(w, e)
    /\ msg' = [msg EXCEPT ![e] = "acked"]

Fetch(w, e) ==
    /\ Take(w, e)
    /\ msg' = [msg EXCEPT ![e] = "delivered"]

(* The aggregate: the LIMIT applies to its one row, not to the runs.       *)
SettledRuns == {r \in Runs : status[r] \in Settled}
CompletedRuns == {r \in Runs : status[r] = "completed"}

(* Seeded fault: the sample is the previous one and this run.              *)
AggregateByIncrement ==
    LET n == IF kpi_config.kind = "dict" THEN kpi_config.sample ELSE 0 IN
    Snapshot(n + 1, Cardinality(CompletedRuns))

Aggregate == Snapshot(Cardinality(SettledRuns), Cardinality(CompletedRuns))

Compute(w) ==
    /\ worker[w].pc = "aggregate"
    /\ worker' = [worker EXCEPT ![w] =
                    [pc |-> "write", event |-> @.event, snap |-> Aggregate]]
    /\ UNCHANGED <<status, ever, stream, msg, told, delivered, kpi_config, faults>>

Persist(w) ==
    /\ worker[w].pc = "write"
    /\ kpi_config' = worker[w].snap
    /\ worker' = [worker EXCEPT ![w] = [pc |-> "ack", event |-> @.event]]
    /\ UNCHANGED <<status, ever, stream, msg, told, delivered, faults>>

(* Seeded fault: the consumer has no max_deliver.                          *)
AgainWithoutEnd(e) == [msg EXCEPT ![e] = "pending"]

(* JetStream delivers the event again, or gives it up.                     *)
Again(e) == [msg EXCEPT ![e] =
                IF delivered[e] < MaxDeliver THEN "pending" ELSE "dropped"]

(* The acknowledgement of an event that was delivered again meanwhile ends *)
(* it all the same.                                                        *)
Ack(w) ==
    /\ worker[w].pc = "ack"
    /\ msg' = [msg EXCEPT ![worker[w].event] = "acked"]
    /\ worker' = [worker EXCEPT ![w] = Idle]
    /\ UNCHANGED <<status, ever, stream, told, delivered, kpi_config, faults>>

(* Any exception: the transaction is rolled back and the event nak'ed.     *)
Nak(w) ==
    /\ worker[w].pc \in {"aggregate", "write"} /\ faults < MaxFaults
    /\ faults' = faults + 1
    /\ msg' = IF msg[worker[w].event] = "delivered"
              THEN Again(worker[w].event) ELSE msg
    /\ worker' = [worker EXCEPT ![w] = Idle]
    /\ UNCHANGED <<status, ever, stream, told, delivered, kpi_config>>

(* ack_wait is over while the worker is still busy, or its ack is lost.    *)
AckTimeout(e) ==
    /\ msg[e] = "delivered" /\ faults < MaxFaults
    /\ faults' = faults + 1
    /\ msg' = Again(e)
    /\ UNCHANGED <<status, ever, stream, told, delivered, worker, kpi_config>>

---------------------------------------------------------------------------
(* update_workflow: a client writes the column of a draft.                 *)
Define ==
    /\ kpi_config # Definitions
    /\ kpi_config' = Definitions
    /\ UNCHANGED <<status, ever, stream, msg, told, delivered, worker, faults>>

Next ==
    \/ \E r \in Runs : Settle(r) \/ Overwrite(r) \/ Publish(r)
    \/ \E w \in Workers :
         \/ \E e \in Events : Fetch(w, e)
         \/ Compute(w) \/ Persist(w) \/ Ack(w) \/ Nak(w)
    \/ \E e \in Events : AckTimeout(e)
    \/ Define

Spec == Init /\ [][Next]_vars

---------------------------------------------------------------------------
(* Properties *)

(* The counts an aggregation may find.                                     *)
Snapshots == [kind : {"dict"}, sample : 0..Cardinality(Runs),
              completed : 0..Cardinality(Runs)]

(* Type invariant: an event is delivered at most max_deliver times, the    *)
(* column holds one of its kinds of value, and a run has been what it is.  *)
TypeOK ==
    /\ status \in [Runs -> {"running"} \cup Final]
    /\ ever \in [Runs -> SUBSET Settled]
    /\ \A r \in Runs : status[r] \in Settled => status[r] \in ever[r]
    /\ stream \in Seq(Runs) /\ Len(stream) <= MaxEvents
    /\ msg \in [Events -> {"none", "pending", "delivered", "acked", "dropped"}]
    /\ told \subseteq DOMAIN stream
    /\ delivered \in [Events -> 0..MaxDeliver]
    /\ worker \in [Workers -> {Idle} \cup [pc : {"aggregate", "ack"}, event : Events]
                               \cup [pc : {"write"}, event : Events, snap : Snapshots]]
    /\ kpi_config \in {Null, Definitions, Settings} \cup Snapshots
    /\ faults \in 0..MaxFaults

EverSettled == {r \in Runs : ever[r] # {}}
EverCompleted == {r \in Runs : "completed" \in ever[r]}

(* However often a run is announced, its event delivered, and by whichever *)
(* worker it is handled, no run is counted twice, or before it settled; one*)
(* that was overwritten since may still be counted.                        *)
NothingCountedTwice ==
    kpi_config.kind = "dict" =>
        /\ kpi_config.completed <= kpi_config.sample
        /\ kpi_config.sample <= Cardinality(EverSettled)
        /\ kpi_config.completed <= Cardinality(EverCompleted)

(* One KPI worker: when each run that ever settled was announced after the *)
(* last change of its status, and that event is acknowledged, the snapshot *)
(* is the aggregate of the runs as they are, whatever became of the events *)
(* before.  A change that is not announced, as by a late cancel, is not in *)
(* the snapshot.                                                           *)
SnapshotIsCurrent ==
    /\ \A w \in Workers : worker[w] = Idle
    /\ \A r \in EverSettled : \E e \in told : stream[e] = r /\ msg[e] = "acked"
    /\ kpi_config.kind = "dict"
    => kpi_config = Aggregate

-----------------------------------------------------------------------------
(* What the code's comments and docs say and the code does not do.         *)

(* "Aggregate over the last 100 runs for this workflow" (workers.py:243):  *)
(* the sample is at most the window.                                       *)
SampleWithinWindow ==
    kpi_config.kind = "dict" => kpi_config.sample <= Window

(* The response of every workflow route declares kpi_config a list of      *)
(* definitions or null (routers/workflows.py:66): the row of a workflow    *)
(* can be returned by them.                                                *)
WorkflowIsReadable == kpi_config.kind \in {"null", "list"}

=============================================================================
