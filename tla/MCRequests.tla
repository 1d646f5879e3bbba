----------------------------- MODULE MCRequests -----------------------------
(***************************************************************************)
(* What requests of the API commit, for TLC: versions of a workflow edited *)
(* by several clients (WorkflowVersions), runs made by webhooks with one   *)
(* editor beside them (WebhookIntake), and records of tools (ToolRecords). *)
(* A behaviour is one of these while the others stay at their start.       *)
(***************************************************************************)
EXTENDS WebhookIntake, TLC

CONSTANTS
    Editor,     \* the client at work beside the senders
    Latest,     \* bound on the versions it makes
    Names, SystemTools, Connectors, Orgs, Fields, Nullable, Bodies, MaxChanges,
    f1, f2      \* fields of a tool

VARIABLES
    part,
    tools, audit, request, prober

recordVars == <<tools, audit, request, prober>>

Record == INSTANCE ToolRecords

ASSUME RequestsAssumption == Record!RecordsAssumption

(* One post an endpoint takes, and what can be wrong with one.             *)
Taken == [to |-> "pagerduty", signature |-> "right", parses |-> TRUE,
          org |-> "event", slug |-> "another"]

SomePosts ==
    {Taken,
     [Taken EXCEPT !.signature = "none"],
     [Taken EXCEPT !.signature = "wrong", !.org = "body"],
     [Taken EXCEPT !.signature = "odd"],
     [Taken EXCEPT !.parses = FALSE],
     [Taken EXCEPT !.org = "nowhere"],
     [Taken EXCEPT !.to = "jira"],
     [Taken EXCEPT !.to = "github", !.org = "body"],
     [Taken EXCEPT !.to = "generic", !.org = "body"],
     [Taken EXCEPT !.to = "generic", !.org = "body", !.slug = Lineage]}

(* The changes clients send.                                               *)
SomeBodies == {f1 :> "changed", f2 :> "changed", f2 :> "null"}

-----------------------------------------------------------------------------
RequestsInit ==
    /\ part \in {"versions", "webhooks", "tools"}
    /\ Init
    /\ IntakeInit
    /\ part # "webhooks" => \A e \in Events : post[e] = Taken
    /\ part = "tools" => seeded = {}
    /\ Record!RecordsInit

VersionsNext ==
    part = "versions" /\ Next /\ UNCHANGED <<part, intakeVars, recordVars>>

WebhooksNext ==
    /\ part = "webhooks" /\ IntakeNext
    /\ \A c \in Clients \ {Editor} : client'[c] = Idle
    /\ \A v \in Versions : v > Latest => status'[v] = None
    /\ UNCHANGED <<part, recordVars>>

(* The HealthWorker and the requests read nothing of each other's writes,  *)
(* so it is enough to let it run between them.                             *)
ToolsNext ==
    /\ part = "tools" /\ Record!RecordsNext
    /\ prober' # prober => \A c \in Clients : request[c] = Record!NoRequest
    /\ UNCHANGED <<part, vars, intakeVars>>

RequestsNext == VersionsNext \/ WebhooksNext \/ ToolsNext

RequestsSpec ==
    RequestsInit /\ [][RequestsNext]_<<part, vars, intakeVars, recordVars>>

-----------------------------------------------------------------------------
ChangesAreAudited == Record!ChangesAreAudited
=============================================================================
