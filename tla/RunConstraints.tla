--------------------------- MODULE RunConstraints ---------------------------
(***************************************************************************)
(* The per-run limits of the orchestrator (class RunConstraints): what a   *)
(* run has used so far, and the check made before each step.               *)
(***************************************************************************)
EXTENDS Integers

CONSTANTS
    MaxSteps,        \* budget_config max_steps
    MaxTokens,       \* max_tokens of RunConstraints
    MaxToolCalls,    \* budget_config max_tool_calls
    MaxWallTime      \* budget_config max_wall_time, in seconds

ASSUME LimitsAssumption ==
    /\ MaxSteps \in Nat
    /\ MaxTokens \in Nat
    /\ MaxToolCalls \in Nat
    /\ MaxWallTime \in Nat

Usage == [steps : Nat, tokens : Nat, calls : Nat]

NoUsage == [steps |-> 0, tokens |-> 0, calls |-> 0]

(* Seeded fault: a limit counts as exceeded only once it is passed.        *)
ExhaustedLate(u, elapsed) ==
    \/ u.steps > MaxSteps
    \/ u.tokens > MaxTokens
    \/ u.calls > MaxToolCalls
    \/ elapsed > MaxWallTime

(* RunConstraints.check, elapsed being the time since start_time.          *)
Exhausted(u, elapsed) ==
    \/ u.steps >= MaxSteps
    \/ u.tokens >= MaxTokens
    \/ u.calls >= MaxToolCalls
    \/ elapsed >= MaxWallTime

RecordStep(u, tokens, calls) ==
    [steps |-> u.steps + 1, tokens |-> u.tokens + tokens,
     calls |-> u.calls + calls]
=============================================================================
