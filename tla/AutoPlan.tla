------------------------------ MODULE AutoPlan ------------------------------
(***************************************************************************)
(* Orchestrator._execute_auto_plan: a planner model returns a list of      *)
(* steps, which are executed in order under the run's limits and the loop  *)
(* detector.  One action is one iteration of the loop.                     *)
(***************************************************************************)
EXTENDS RunConstraints, LoopDetector

CONSTANTS
    Actions,       \* the steps a planner may write
    Kind,          \* Kind[x]: what step x is
    MaxPlan,       \* bound on the length of a plan
    TokenCosts,    \* tokens an LLM call may report
    CallCounts,    \* tool calls an LLM answer may carry
    Durations      \* seconds a call may take

(***************************************************************************)
(* "llm" reports tokens and tool calls, "tool" asks the governance proxy,  *)
(* "other" is branch, transform, delay and every unknown type.  The JSON   *)
(* array may also hold things that are no objects: "malformed".            *)
(***************************************************************************)
StepKinds == {"llm", "tool", "other", "malformed"}

PlanAssumption ==
    /\ Kind \in [Actions -> StepKinds]
    /\ MaxPlan \in Nat
    /\ TokenCosts \subseteq Nat
    /\ CallCounts \subseteq Nat
    /\ Durations \subseteq Nat

VARIABLES
    plan,        \* run.plan
    next,        \* index of the step to execute (1 is the code's 0)
    hashes,      \* loop_detector._hashes
    usage,       \* constraints: steps, tokens and tool calls recorded
    clock,       \* time since the constraints were created
    completed,   \* the run's committed steps_completed
    status       \* where the run stands

vars == <<plan, next, hashes, usage, clock, completed, status>>

Init ==
    /\ plan = <<>>
    /\ next = 0
    /\ hashes = <<>>
    /\ usage = NoUsage
    /\ clock = 0
    /\ completed = 0
    /\ status = "planning"

Plans == UNION {[1..n -> Actions] : n \in 0..MaxPlan}

Elapse == \E d \in Durations : clock' = clock + d

(* The answer is parsed: a list is the plan as it is, anything else one    *)
(* llm step.  Planning is recorded as a step of the run.                   *)
PlanMade ==
    /\ status = "planning"
    /\ plan' \in Plans
    /\ next' = 1
    /\ \E t \in TokenCosts : usage' = RecordStep(usage, t, 0)
    /\ Elapse
    /\ status' = "running"
    /\ UNCHANGED <<hashes, completed>>

(* router.generate raised: nothing in _execute_auto_plan catches it.       *)
PlannerRaises ==
    /\ status = "planning"
    /\ status' = "raised"
    /\ UNCHANGED <<plan, next, hashes, usage, clock, completed>>

AtStep == status = "running" /\ next <= Len(plan)

Step == plan[next]

OverLimit ==
    /\ AtStep
    /\ Exhausted(usage, clock)
    /\ status' = "failed"
    /\ UNCHANGED <<plan, next, hashes, usage, clock, completed>>

(* The detector looks at every step, before it is known to be one.         *)
Look ==
    /\ AtStep
    /\ ~Exhausted(usage, clock)
    /\ hashes' = Remember(hashes, Step)

LoopFound ==
    /\ Look
    /\ Loops(hashes', Step)
    /\ status' = "failed"
    /\ UNCHANGED <<plan, next, usage, clock, completed>>

Proceed ==
    /\ Look
    /\ ~Loops(hashes', Step)

(* step.get(...) on something that is no object raises outside the try.    *)
MalformedStep ==
    /\ Proceed
    /\ Kind[Step] = "malformed"
    /\ status' = "raised"
    /\ UNCHANGED <<plan, next, usage, clock, completed>>

(* The step returned: its usage is recorded, steps_completed is committed. *)
FinishStep(tokens, calls) ==
    /\ usage' = RecordStep(usage, tokens, calls)
    /\ completed' = next
    /\ next' = next + 1
    /\ Elapse
    /\ UNCHANGED <<plan, status>>

LlmStep ==
    /\ Proceed
    /\ Kind[Step] = "llm"
    /\ \E t \in TokenCosts, c \in CallCounts : FinishStep(t, c)

ToolStep ==
    /\ Proceed
    /\ Kind[Step] = "tool"
    /\ FinishStep(0, 1)

OtherStep ==
    /\ Proceed
    /\ Kind[Step] = "other"
    /\ FinishStep(0, 0)

(* The proxy escalated: an approval request, AWAITING_APPROVAL.            *)
GateStep ==
    /\ Proceed
    /\ Kind[Step] = "tool"
    /\ Elapse
    /\ status' = "awaiting"
    /\ UNCHANGED <<plan, next, usage, completed>>

StepRaises ==
    /\ Proceed
    /\ Kind[Step] # "malformed"
    /\ Elapse
    /\ status' = "failed"
    /\ UNCHANGED <<plan, next, usage, completed>>

Complete ==
    /\ status = "running"
    /\ next > Len(plan)
    /\ status' = "completed"
    /\ UNCHANGED <<plan, next, hashes, usage, clock, completed>>

Next ==
    \/ PlanMade
    \/ PlannerRaises
    \/ OverLimit
    \/ LoopFound
    \/ MalformedStep
    \/ LlmStep
    \/ ToolStep
    \/ OtherStep
    \/ GateStep
    \/ StepRaises
    \/ Complete

Spec == Init /\ [][Next]_vars

-----------------------------------------------------------------------------
(***************************************************************************)
(* Properties.                                                             *)
(***************************************************************************)
(* Planning takes one step of the budget: the recorded steps are those     *)
(* executed and the plan.                                                  *)
PlanTyped ==
    /\ plan \in Seq(Actions) /\ Len(plan) <= MaxPlan
    /\ next \in 0..(MaxPlan + 1)
    /\ Len(hashes) <= 2 * Window
    /\ usage \in Usage
    /\ clock \in Nat
    /\ completed \in Nat
    /\ status \in {"planning", "running", "awaiting", "completed",
                   "failed", "raised"}
    /\ status \notin {"planning", "raised"} =>
          usage.steps = completed + 1 /\ next = completed + 1
    /\ status = "completed" => completed = Len(plan)

(* The steps of the plan that have been executed.                          *)
Done == SubSeq(plan, 1, completed)

(* Although the detector forgets, no step is ever executed Threshold times *)
(* among Window consecutive ones.                                          *)
NoRepetition ==
    \A k \in 0..Len(Done) :
        LET recent == Latest(SubSeq(Done, 1, k), Window)
        IN  \A x \in Actions : Occurrences(recent, x) < Threshold

-----------------------------------------------------------------------------
(* What the code's comments say and the code does not do.                  *)

(* RunWorker acknowledges a message after the orchestrator "completes (or  *)
(* fails) the run": no exception leaves the run in RUNNING.                *)
RunIsSettled == status # "raised"
=============================================================================
