----------------------------- MODULE StepEngine -----------------------------
(***************************************************************************)
(* Orchestrator._execute_defined_workflow: the steps of one run of a       *)
(* workflow definition, taken breadth first from its entry points.  One    *)
(* action is one iteration of the loop.  What other actors may do to the   *)
(* run's row between two commits is the subject of RunLifecycle.           *)
(***************************************************************************)
EXTENDS RunConstraints, SequencesExt

CONSTANTS
    StepIds,       \* the ids of definition.steps, in order
    Kind,          \* Kind[s]: what the type of step s makes the engine do
    Adjacency,     \* Adjacency[s]: the targets of the edges from s, in order
    Labelled,      \* Labelled[s][l]: those of its edges that carry label l
    Labels,        \* what a branch step may select
    TokenCosts,    \* tokens an llm step may report
    Durations      \* seconds a step may take (a delay is capped at 300)

(***************************************************************************)
(* "llm" reports its tokens; "tool" asks the governance proxy; "branch"    *)
(* and "approval" are themselves; "other" is transform, delay, notify and  *)
(* every unknown type: run or skipped, without usage.                      *)
(***************************************************************************)
StepKinds == {"llm", "tool", "branch", "approval", "other"}

Steps == Range(StepIds)

ASSUME GraphAssumption ==
    /\ StepIds \in Seq(Steps) \ {<<>>}
    /\ Kind \in [Steps -> StepKinds]
    /\ DOMAIN Adjacency = Steps
    /\ \A s \in Steps : Adjacency[s] \in Seq(Range(Adjacency[s]))
    /\ \A s \in Steps : Kind[s] = "branch" =>
          \A l \in Labels : Labelled[s][l] \in Seq(Range(Adjacency[s]))
    /\ TokenCosts \subseteq Nat
    /\ Durations \subseteq Nat

VARIABLES
    queue,       \* ids still to look at
    visited,     \* ids already looked at
    results,     \* step_results: the steps that returned a result, in order
    completed,   \* the run's committed steps_completed
    usage,       \* constraints: steps, tokens and tool calls recorded
    clock,       \* time since the constraints were created
    status,      \* where the run stands
    started,     \* history: steps a step_started event was emitted for
    finished     \* history: steps a step_completed event was emitted for

vars == <<queue, visited, results, completed, usage, clock, status,
          started, finished>>

Targets == UNION {Range(Adjacency[s]) : s \in Steps}

(* [x for x in q if x not in seen]                                         *)
Without(q, seen) ==
    LET kept[n \in 0..Len(q)] ==
            IF n = 0 THEN <<>>
            ELSE IF q[n] \in seen THEN kept[n - 1]
            ELSE Append(kept[n - 1], q[n])
    IN  kept[Len(q)]

EntryPoints ==
    LET entries == Without(StepIds, Targets)
    IN  IF entries = <<>> THEN <<StepIds[1]>> ELSE entries

Init ==
    /\ queue = EntryPoints
    /\ visited = {}
    /\ results = <<>>
    /\ completed = 0
    /\ usage = NoUsage
    /\ clock = 0
    /\ status = "running"
    /\ started = {}
    /\ finished = {}

-----------------------------------------------------------------------------
(* queue.pop(0) and visited.add                                            *)
Pop(s) ==
    /\ status = "running"
    /\ queue # <<>>
    /\ s = Head(queue)
    /\ visited' = visited \cup {s}

(* Seeded fault: an id seen before stays in the queue.                     *)
SkipStuck(s) ==
    /\ Pop(s)
    /\ s \in visited \/ s \notin Steps
    /\ UNCHANGED <<queue, results, completed, usage, clock, status,
                   started, finished>>

(* An id seen before, or an edge to a step the definition does not have.   *)
SkipStep(s) ==
    /\ Pop(s)
    /\ s \in visited \/ s \notin Steps
    /\ queue' = Tail(queue)
    /\ UNCHANGED <<results, completed, usage, clock, status,
                   started, finished>>

Fresh(s) == Pop(s) /\ s \notin visited /\ s \in Steps

OverLimit(s) ==
    /\ Fresh(s)
    /\ Exhausted(usage, clock)
    /\ status' = "failed"
    /\ queue' = Tail(queue)
    /\ UNCHANGED <<results, completed, usage, clock,
                   started, finished>>

(* A step is executed: its step_started event, and the time it takes.      *)
Start(s) ==
    /\ Fresh(s)
    /\ ~Exhausted(usage, clock)
    /\ started' = started \cup {s}
    /\ \E d \in Durations : clock' = clock + d

(* Seeded fault: the successors are looked at before what waits.           *)
FollowDeep(s) ==
    queue' = Without(Adjacency[s], visited') \o Tail(queue)

(* The successors not visited yet go to the end of the queue.              *)
Follow(s) ==
    queue' = Tail(queue) \o Without(Adjacency[s], visited')

(* The result is stored and counted, and steps_completed is committed.     *)
FinishStep(s, tokens, calls) ==
    /\ results' = Append(results, s)
    /\ usage' = RecordStep(usage, tokens, calls)
    /\ completed' = Len(results) + 1
    /\ finished' = finished \cup {s}
    /\ Follow(s)

LlmStep(s) ==
    /\ Start(s)
    /\ Kind[s] = "llm"
    /\ \E tokens \in TokenCosts : FinishStep(s, tokens, 0)
    /\ UNCHANGED status

OtherStep(s) ==
    /\ Start(s)
    /\ Kind[s] = "other"
    /\ FinishStep(s, 0, 0)
    /\ UNCHANGED status

(* The proxy allowed or blocked the call; a blocked one is a result too.   *)
ToolStep(s) ==
    /\ Start(s)
    /\ Kind[s] = "tool"
    /\ FinishStep(s, 0, 1)
    /\ UNCHANGED status

(* An approval step, or a tool call the proxy escalated.                   *)
GateStep(s) ==
    /\ Start(s)
    /\ Kind[s] \in {"approval", "tool"}
    /\ status' = "awaiting"
    /\ queue' = Tail(queue)
    /\ UNCHANGED <<results, completed, usage, finished>>

(* Seeded fault: every edge of a branch step is followed.                  *)
BranchEverywhere(s, l) ==
    /\ Start(s)
    /\ Kind[s] = "branch"
    /\ results' = Append(results, s)
    /\ Follow(s)
    /\ UNCHANGED <<completed, usage, status, finished>>

(* The edges with the selected label are followed, visited targets too; no *)
(* usage is recorded, nothing is committed and no event tells of the end.  *)
BranchStep(s, l) ==
    /\ Start(s)
    /\ Kind[s] = "branch"
    /\ results' = Append(results, s)
    /\ queue' = Tail(queue) \o Labelled[s][l]
    /\ UNCHANGED <<completed, usage, status, finished>>

(* The step raised: _fail_run.                                             *)
StepRaises(s) ==
    /\ Start(s)
    /\ status' = "failed"
    /\ queue' = Tail(queue)
    /\ UNCHANGED <<results, completed, usage, finished>>

Complete ==
    /\ status = "running"
    /\ queue = <<>>
    /\ status' = "completed"
    /\ UNCHANGED <<queue, visited, results, completed, usage, clock,
                   started, finished>>

Next ==
    \/ \E s \in Steps \cup Targets : SkipStep(s)
    \/ \E s \in Steps : OverLimit(s)
    \/ \E s \in Steps : LlmStep(s)
    \/ \E s \in Steps : OtherStep(s)
    \/ \E s \in Steps : ToolStep(s)
    \/ \E s \in Steps : GateStep(s)
    \/ \E s \in Steps, l \in Labels : BranchStep(s, l)
    \/ \E s \in Steps : StepRaises(s)
    \/ Complete

Spec == Init /\ [][Next]_vars

-----------------------------------------------------------------------------
(***************************************************************************)
(* Properties.                                                             *)
(***************************************************************************)
Executed == Range(results)

(* A join, a cycle or a target queued twice never runs a step twice, and   *)
(* steps_completed of the row falls behind the results only by branch      *)
(* steps executed since the last commit.                                   *)
StepsTyped ==
    /\ Executed \subseteq Steps
    /\ IsInjective(results)
    /\ completed \in 0..Len(results)
    /\ \A k \in (completed + 1)..Len(results) : Kind[results[k]] = "branch"
    /\ usage \in Usage
    /\ clock \in Nat
    /\ status \in {"running", "awaiting", "completed", "failed"}
    /\ finished \subseteq started /\ started \subseteq Steps

-----------------------------------------------------------------------------
(* What the documentation says and the code does not do.                   *)

(* README: Enrich Metrics and Enrich Logs both lead to Diagnose.  A step   *)
(* with several predecessors waits for those that will run.                *)
JoinsWait ==
    \A i, j \in 1..Len(results) :
        (i < j /\ results[i] \in Range(Adjacency[results[j]]))
            => results[j] \in Range(Adjacency[results[i]])

(* RunConstraints: "Enforces per-run resource limits."                     *)
StepsWithinBudget == Len(results) <= MaxSteps

(* README: "SSE RunEvent emission at every step boundary".                 *)
BoundariesEmitted == status = "completed" => started = finished
=============================================================================
