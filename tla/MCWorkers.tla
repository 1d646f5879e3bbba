----------------------------- MODULE MCWorkers ------------------------------
(***************************************************************************)
(* Background work for TLC: the KPI worker alone and shared by two         *)
(* processes (KpiWorker), start and stop of a manager (WorkerManager), and *)
(* the calls of the tool registry (ToolCalls).  They share no state, so a  *)
(* behaviour is one of them while the others stay at their start.          *)
(***************************************************************************)
EXTENDS Naturals

CONSTANTS
    AloneRuns, SharedRuns, TheWorker, KpiWorkers,
    MaxEvents, MaxDeliver, SampleSize, MaxFaults,
    SharedFaults,  \* MaxFaults of the shared worker
    MaxStarts, Stoppers,
    Calls, Connectors, Shell, Delay, None, Seconds, MaxTime

VARIABLES
    part,
    status, ever, stream, msg, told, delivered, worker, kpi_config, faults,
    shutdown, nc, workers, tasks, conn, sub, loop, starter, stopper,
    handlers, asked,
    now, call, remote

kpiVars == <<status, ever, stream, msg, told, delivered, worker, kpi_config,
             faults>>

managerVars == <<shutdown, nc, workers, tasks, conn, sub, loop, starter,
                 stopper, handlers, asked>>

callVars == <<now, call, remote>>

Alone == INSTANCE KpiWorker WITH
             Runs <- AloneRuns, Workers <- {TheWorker}, Window <- SampleSize

Shared == INSTANCE KpiWorker WITH
              Runs <- SharedRuns, Workers <- KpiWorkers, Window <- SampleSize,
              MaxFaults <- SharedFaults

Manager == INSTANCE WorkerManager WITH Outages <- TRUE

Tool == INSTANCE ToolCalls

ASSUME WorkersAssumption ==
    /\ Alone!KpiAssumption /\ Shared!KpiAssumption
    /\ Manager!ManagerAssumption
    /\ Tool!CallsAssumption

-----------------------------------------------------------------------------
WorkersInit ==
    /\ part \in {"alone", "shared", "manager", "tools"}
    /\ IF part = "shared" THEN Shared!Init ELSE Alone!Init
    /\ part \notin {"alone", "shared"} => kpi_config.kind = "null"
    /\ Manager!Init
    /\ Tool!Init

AloneNext ==
    part = "alone" /\ Alone!Next /\ UNCHANGED <<part, managerVars, callVars>>

SharedNext ==
    part = "shared" /\ Shared!Next /\ UNCHANGED <<part, managerVars, callVars>>

ManagerNext ==
    part = "manager" /\ Manager!Next /\ UNCHANGED <<part, kpiVars, callVars>>

ToolNext ==
    part = "tools" /\ Tool!Next /\ UNCHANGED <<part, kpiVars, managerVars>>

WorkersNext == AloneNext \/ SharedNext \/ ManagerNext \/ ToolNext

WorkersSpec ==
    /\ WorkersInit
    /\ [][WorkersNext]_<<part, kpiVars, managerVars, callVars>>
    /\ Manager!Fairness

-----------------------------------------------------------------------------
(* The type invariants of the components.                                  *)
TypeOK ==
    /\ IF part = "shared" THEN Shared!TypeOK ELSE Alone!TypeOK
    /\ Manager!TypeOK
    /\ Tool!TypeOK

(* The safety and liveness of the components; a snapshot is current only   *)
(* with a single KPI worker.                                               *)
NothingCountedTwice == part = "shared" => Shared!NothingCountedTwice

SnapshotIsCurrent == part = "alone" => Alone!SnapshotIsCurrent

NoBusyLoop == Manager!NoBusyLoop

StopReturns == Manager!StopReturns
=============================================================================
