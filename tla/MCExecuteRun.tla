---------------------------- MODULE MCExecuteRun ----------------------------
(* An instance of TriageWorkflow: the triage, one definition with all that *)
(* makes graphs hard, and every plan of up to MaxPlan steps of four kinds. *)
EXTENDS TriageWorkflow

(* Joins at d and b, a cycle back to a, a dangling edge, and three tool    *)
(* steps, of which the branch c leads to two.                              *)
LoopIds == <<"a", "b", "c", "d", "e", "f", "g">>

LoopKind == [a |-> "llm", b |-> "tool", c |-> "branch", d |-> "other",
             e |-> "llm", f |-> "tool", g |-> "tool"]

LoopAdjacency == [a |-> <<"b", "c">>, b |-> <<"d">>,
                  c |-> <<"d", "ghost", "f", "a", "e">>, d |-> <<"b">>,
                  e |-> <<>>, f |-> <<"g", "d">>, g |-> <<>>]

LoopLabelled == [c |-> [yes |-> <<"d", "ghost", "f">>, no |-> <<"a", "e">>]]

LoopLabels == {"yes", "no"}

PlanKinds == [x |-> "llm", y |-> "tool", z |-> "other", bad |-> "malformed"]
=============================================================================
