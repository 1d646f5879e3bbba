---------------------------- MODULE MCGovernance ----------------------------
(***************************************************************************)
(* The governance proxy for TLC: a behaviour is one of the evaluation      *)
(* pipeline (GovernanceProxy, with its limiter and audit writer), or of    *)
(* the limiter alone over a longer time, or of a single call of the PII    *)
(* detector's Redact (Redaction), which shares no state with the others:   *)
(* the text of a call is local to its handler.                             *)
(***************************************************************************)
EXTENDS GovernanceProxy, TLC

CONSTANTS
    h1, h2, a1, w1, o1, read,
    LimiterTime,                                   \* MaxTime of the limiter alone
    Size, MarkerLength, MaxMatches

VARIABLES
    part,                                          \* which of the three
    found, detections, result, place, outcome      \* of Redaction

piiVars == <<found, detections, result, place, outcome>>

proxyVars == <<policies, session, inbox, answered, auditVars>>

Limiter == INSTANCE RateLimiter WITH MaxTime <- LimiterTime

Pii == INSTANCE Redaction WITH i <- place, status <- outcome

ASSUME DetectorAssumption == Pii!RedactionAssumption

-----------------------------------------------------------------------------
Body(a, s) == [agent |-> a, workflow |-> w1, scopes |-> s, nested |-> TRUE,
               injected |-> FALSE, pii |-> "none", approval |-> FALSE]

(* A request that needs a scope.                                           *)
ScopedRequests == {Body(a1, {read})}

(* One with personal data, one the redaction panics on, one taken for an   *)
(* injection, and one as execute_tool_step sends it: its fields are not in *)
(* "request".                                                              *)
MixedRequests == {
    [Body(a1, {read}) EXCEPT !.pii = "redacted"],
    [Body(a1, {}) EXCEPT !.pii = "panics"],
    [Body(a1, {}) EXCEPT !.injected = TRUE],
    [Body(a1, {}) EXCEPT !.nested = FALSE]}

HandlerSymmetry == Permutations(Handlers)

(* Two patterns whose markers are longer than some matches and shorter     *)
(* than others, as [REDACTED-SSN] is longer than an SSN and                *)
(* [REDACTED-EMAIL] shorter than most addresses.                           *)
Markers == <<3, 2>>

-----------------------------------------------------------------------------
NoText ==
    /\ found = [p \in Pii!Patterns |-> {}]
    /\ detections = <<>> /\ result = <<>> /\ place = 0 /\ outcome = "running"

ProxyInit == part = "proxy" /\ Init /\ NoText

LimiterAloneInit == part = "limiter" /\ Init /\ NoText

DetectorInit == part = "detector" /\ Init /\ Pii!Init

ProxyNext == part = "proxy" /\ Next /\ UNCHANGED <<part, piiVars>>

LimiterAloneNext ==
    part = "limiter" /\ Limiter!LimiterNext /\ UNCHANGED <<part, piiVars, proxyVars>>

DetectorNext == part = "detector" /\ Pii!Next /\ UNCHANGED <<part, vars>>

PartsInit == ProxyInit \/ LimiterAloneInit \/ DetectorInit

PartsNext == ProxyNext \/ LimiterAloneNext \/ DetectorNext

PartsSpec == PartsInit /\ [][PartsNext]_<<part, vars, piiVars>>

(* The pipeline alone, with its handlers scheduled fairly.                 *)
FairProxySpec == ProxyInit /\ [][ProxyNext]_<<part, vars, piiVars>> /\ Fairness

(* What Redaction states of a text whose matches come in order.            *)
OrderedIsExact == part = "detector" => Pii!OrderedIsExact
=============================================================================
