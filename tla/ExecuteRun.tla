----------------------------- MODULE ExecuteRun -----------------------------
(***************************************************************************)
(* Orchestrator.execute_run once the run is RUNNING: a workflow with steps *)
(* is executed as defined (StepEngine), one without is planned by a model  *)
(* (AutoPlan).  Both work on the same limits and the same row.             *)
(***************************************************************************)
EXTENDS StepEngine

CONSTANTS
    Actions,       \* the steps a planner may write
    PlanKind,      \* PlanKind[x]: what step x is
    MaxPlan,       \* bound on the length of a plan
    CallCounts,    \* tool calls an LLM answer may carry
    Window,        \* window_size of LoopDetector
    Threshold      \* threshold of LoopDetector

VARIABLES
    mode,          \* what is executed: a definition with steps, or none
    plan,          \* run.plan
    next,          \* index of the plan's step to execute
    hashes         \* loop_detector._hashes

workflowVars == <<queue, visited, results, started, finished>>

planVars == <<plan, next, hashes>>

runVars == <<vars, planVars, mode>>

Planned == INSTANCE AutoPlan WITH Kind <- PlanKind

ASSUME AutoAssumption == Planned!PlanAssumption /\ Planned!DetectorAssumption

-----------------------------------------------------------------------------
(* What the mode not taken would use stays at its start.                   *)
WorkflowInit ==
    /\ mode = "workflow"
    /\ Init
    /\ plan = <<>> /\ next = 1 /\ hashes = <<>>

AutoInit ==
    /\ mode = "auto"
    /\ Planned!Init
    /\ queue = EntryPoints /\ visited = {} /\ results = <<>>
    /\ started = {} /\ finished = {}

WorkflowNext == mode = "workflow" /\ Next /\ UNCHANGED <<mode, planVars>>

AutoNext == mode = "auto" /\ Planned!Next /\ UNCHANGED <<mode, workflowVars>>

RunInit == WorkflowInit \/ AutoInit

RunNext == WorkflowNext \/ AutoNext

(* Every call a step or the planner makes has a timeout: the loops go on.  *)
RunSpec == RunInit /\ [][RunNext]_runVars /\ WF_runVars(RunNext)

-----------------------------------------------------------------------------
(***************************************************************************)
(* Properties.                                                             *)
(***************************************************************************)
TypeOK ==
    /\ mode = "workflow" => StepsTyped
    /\ mode = "auto" => Planned!PlanTyped

(* Every limit stops the run after at most one more step: of a definition, *)
(* where a step is one step and at most one tool call, those counters      *)
(* never pass their limit; tokens, wall time and the tool calls of an LLM  *)
(* answer pass it by what one step can add.  Planning counts as a step.    *)
LimitsHold ==
    /\ mode = "workflow" => usage.calls <= MaxToolCalls
    /\ mode \in {"workflow", "auto"} /\ completed > 0 =>
          /\ usage.steps <= MaxSteps
          /\ \E t \in TokenCosts \cup {0} : usage.tokens < MaxTokens + t
          /\ \E c \in CallCounts \cup {1} : usage.calls < MaxToolCalls + c
          /\ \E d \in Durations : clock < MaxWallTime + d

(* The engine implements the walk of the graph: what the queue holds and   *)
(* has not been visited is ready, and what the code drops was never due.   *)
RoutesOf(s) ==
    IF Kind[s] = "branch"
    THEN {Range(Labelled[s][l]) \cap Steps : l \in Labels}
    ELSE {Range(Adjacency[s]) \cap Steps}

Outcome ==
    CASE mode # "workflow" -> "running"
      [] mode = "workflow" /\ status \in {"awaiting", "failed"} -> "stopped"
      [] OTHER -> status

Graph == INSTANCE GraphWalk WITH
             Nodes <- Steps,
             Entries <- Range(EntryPoints),
             Routes <- RoutesOf,
             done <- IF mode = "workflow" THEN Executed ELSE {},
             ready <- IF mode = "workflow" THEN (Range(queue) \cap Steps) \ visited
                      ELSE Range(EntryPoints),
             outcome <- Outcome

ImplementsWalk == Graph!Walk

(* Cycles and dangling edges, plans that repeat themselves and answers     *)
(* that are no plans included, every execution ends.                       *)
Terminates == <>(status \notin {"planning", "running"})

(* Although the detector forgets, no step of a plan is ever executed       *)
(* Threshold times among Window consecutive ones.                          *)
NoRepetition == mode = "auto" => Planned!NoRepetition
=============================================================================
