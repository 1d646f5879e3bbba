----------------------------- MODULE GraphWalk ------------------------------
(***************************************************************************)
(* What executing a workflow graph promises, whatever order the engine     *)
(* picks: a step runs only when a step that routes to it has run (or it is *)
(* an entry point), no step runs twice, and the execution completes only   *)
(* when nothing it was routed to is left.                                  *)
(***************************************************************************)
EXTENDS FiniteSets

CONSTANTS
    Nodes,       \* the steps of the definition
    Entries,     \* the steps that need no other
    Routes(_)    \* Routes(s): the sets of steps s may lead to

VARIABLES
    done,        \* the steps that have run
    ready,       \* the steps some step led to and that have not run
    outcome      \* "running", "completed", or "stopped"

walkVars == <<done, ready, outcome>>

WalkInit ==
    /\ done = {}
    /\ ready = Entries
    /\ outcome = "running"

RunNode(s) ==
    /\ outcome = "running"
    /\ s \in ready
    /\ done' = done \cup {s}
    /\ \E next \in Routes(s) : ready' = (ready \cup next) \ done'
    /\ UNCHANGED outcome

Stop ==
    /\ outcome = "running"
    /\ outcome' = "stopped"
    /\ ready' \subseteq ready
    /\ UNCHANGED done

Finish ==
    /\ outcome = "running"
    /\ ready = {}
    /\ outcome' = "completed"
    /\ UNCHANGED <<done, ready>>

WalkNext == (\E s \in Nodes : RunNode(s)) \/ Stop \/ Finish

Walk == WalkInit /\ [][WalkNext]_walkVars
=============================================================================
