--------------------------- MODULE MCRunLifecycle ---------------------------
(* Small instances of RunLifecycle for TLC.                                *)
EXTENDS RunLifecycle, TLC

CONSTANTS r1, r2

(* The proxy may escalate the last step of r1; r2 has an approval step     *)
(* between two others.                                                     *)
MixedPlan == (r1 :> <<"act", "tool">>) @@ (r2 :> <<"act", "approval", "act">>)

ToolPlan == [r \in Runs |-> <<"act", "tool">>]

GatedPlan == [r \in Runs |-> <<"act", "approval", "act">>]

(* A host that booted a day ago and a run started on 2024-01-01: whole     *)
(* seconds, so that TLC's 32-bit integers hold them.                       *)
HostUptime == 86400
EpochSeconds == 1704067200

Symmetry == Permutations(Workers) \cup Permutations(Clients)
              \cup Permutations(Msgs) \cup Permutations(Approvals)
=============================================================================
