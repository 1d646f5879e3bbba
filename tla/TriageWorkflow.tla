--------------------------- MODULE TriageWorkflow ---------------------------
(***************************************************************************)
(* The seeded workflow "IT Incident Triage" (create_it_triage_workflow),   *)
(* executed by the engine of StepEngine beside the executions of           *)
(* ExecuteRun: its steps, its edges, and which results each step's         *)
(* templates name.                                                         *)
(***************************************************************************)
EXTENDS ExecuteRun

CONSTANT StepTimes      \* seconds one of its steps may take

TriageIds ==
    <<"receive_alert", "acknowledge_pd", "enrich_metrics", "enrich_pods",
      "enrich_logs", "diagnose", "branch_decision", "approval_gate",
      "execute_resolution", "verify_resolution", "close_incident",
      "notify_resolution", "create_jira", "notify_engineer", "kpi_update">>

TriageSteps == Range(TriageIds)

TriageKind ==
    [s \in TriageSteps |->
        CASE s \in {"diagnose", "close_incident"} -> "llm"
          [] s \in {"receive_alert", "kpi_update"} -> "other"
          [] s = "branch_decision" -> "branch"
          [] s = "approval_gate" -> "approval"
          [] OTHER -> "tool"]

TriageEdges ==
    [receive_alert      |-> <<"acknowledge_pd">>,
     acknowledge_pd     |-> <<"enrich_metrics", "enrich_pods">>,
     enrich_pods        |-> <<"enrich_logs">>,
     enrich_metrics     |-> <<"diagnose">>,
     enrich_logs        |-> <<"diagnose">>,
     diagnose           |-> <<"branch_decision">>,
     branch_decision    |-> <<"approval_gate", "create_jira", "notify_engineer">>,
     approval_gate      |-> <<"execute_resolution">>,
     execute_resolution |-> <<"verify_resolution">>,
     verify_resolution  |-> <<"close_incident">>,
     close_incident     |-> <<"notify_resolution">>,
     notify_resolution  |-> <<"kpi_update">>,
     create_jira        |-> <<"kpi_update">>,
     notify_engineer    |-> <<"kpi_update">>,
     kpi_update         |-> <<>>]

TriageBranches ==
    [branch_decision |-> [auto_resolve |-> <<"approval_gate">>,
                          escalate |-> <<"create_jira", "notify_engineer">>]]

(* The steps whose results the prompt or the parameters of s name, and for *)
(* the decision the diagnosis it is made on.                               *)
Names(s) ==
    CASE s \in {"acknowledge_pd", "enrich_metrics", "enrich_pods",
                "execute_resolution", "verify_resolution"} -> {"receive_alert"}
      [] s = "enrich_logs" -> {"receive_alert", "enrich_pods"}
      [] s = "diagnose" ->
            {"receive_alert", "enrich_metrics", "enrich_pods", "enrich_logs"}
      [] s = "branch_decision" -> {"diagnose"}
      [] s = "close_incident" ->
            {"receive_alert", "diagnose", "execute_resolution", "verify_resolution"}
      [] s = "notify_resolution" -> {"receive_alert", "diagnose", "close_incident"}
      [] s = "create_jira" -> {"receive_alert", "diagnose"}
      [] s = "notify_engineer" -> {"receive_alert", "diagnose", "create_jira"}
      [] OTHER -> {}

(* Its budget_config, and the tokens RunConstraints has by default.        *)
Triage == INSTANCE StepEngine WITH
              StepIds <- TriageIds, Kind <- TriageKind,
              Adjacency <- TriageEdges, Labelled <- TriageBranches,
              Labels <- {"auto_resolve", "escalate"},
              TokenCosts <- {4000}, Durations <- StepTimes,
              MaxSteps <- 15, MaxToolCalls <- 20, MaxWallTime <- 300,
              MaxTokens <- 500000

ASSUME TriageAssumption == Triage!GraphAssumption

-----------------------------------------------------------------------------
TriageInit ==
    /\ mode = "triage"
    /\ Triage!Init
    /\ plan = <<>> /\ next = 1 /\ hashes = <<>>

TriageNext == mode = "triage" /\ Triage!Next /\ UNCHANGED <<mode, planVars>>

EngineInit == RunInit \/ TriageInit

EngineNext == RunNext \/ TriageNext

(* Every call a step or the planner makes has a timeout: the loops go on.  *)
EngineSpec == EngineInit /\ [][EngineNext]_runVars /\ WF_runVars(EngineNext)

-----------------------------------------------------------------------------
(***************************************************************************)
(* Properties.                                                             *)
(***************************************************************************)
RanBefore(s, i) == \E j \in 1..(i - 1) : results[j] = s

(* Whatever the calls return and whichever way the decision goes, a step   *)
(* that runs finds the results its templates name, the diagnosis excepted, *)
(* which does not wait for the logs (JoinsWait), and the incident is       *)
(* counted after all that is done about it.                                *)
TriageInOrder ==
    mode = "triage" =>
        \A i \in 1..Len(results) :
            /\ \A s \in Names(results[i]) :
                  RanBefore(s, i) \/ (results[i] = "diagnose" /\ s = "enrich_logs")
            /\ ~RanBefore("kpi_update", i)

-----------------------------------------------------------------------------
(* What the workflow's description says and does not come about.           *)

(* "diagnoses root cause via LLM" from "Recent Logs: {{enrich_logs.result}}" *)
DiagnosisSeesLogs ==
    mode = "triage" =>
        \A i \in 1..Len(results) : results[i] = "diagnose" => RanBefore("enrich_logs", i)
=============================================================================
