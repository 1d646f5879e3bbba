--------------------------- MODULE GovernanceProxy ---------------------------
(***************************************************************************)
(* The governance proxy: HTTP handlers of one process evaluate tool calls. *)
(* Evaluate asks the rate limiter, the scope policies and the detectors,   *)
(* has the decision written to the audit log and answers.  The limiter is  *)
(* RateLimiter, the log AuditChain; the handlers share both and the        *)
(* policies.  An audit event stands for all its columns: the evaluation it *)
(* belongs to and the decision taken.  Event IDs are places in the log.    *)
(***************************************************************************)
EXTENDS RateLimiter, AuditChain

CONSTANTS
    Agents,
    Workflows,
    Scopes,
    Requests,      \* bodies of POST /v1/evaluate
    MaxReceived    \* bound on the requests received

(* What RedactMap makes of the parameters of a call: nothing to redact,    *)
(* redacted, or a text whose matches make Redact slice out of range, as    *)
(* Redaction's Panic does.                                                 *)
Findings == {"none", "redacted", "panics"}

(* What a body says; nested tells whether the tool call is in the field    *)
(* "request", where the server looks for it.                               *)
Bodies ==
    [agent : Agents, workflow : Workflows, scopes : SUBSET Scopes,
     nested : BOOLEAN, injected : BOOLEAN, pii : Findings, approval : BOOLEAN]

ASSUME ProxyAssumption ==
    /\ Requests \subseteq Bodies
    /\ None \notin Agents
    /\ MaxReceived \in Nat

VARIABLES
    policies,      \* Enforcer.policies: the scopes a workflow may use
    session,       \* session[h]: the evaluation handler h is at
    inbox,         \* history: the bodies received, in order
    answered       \* history: the responses that were sent

vars == <<policies, session, inbox, answered, limiterVars, auditVars>>

Decision == {"allowed", "blocked", "redacted", "escalated"}

(* The events of the audit log.                                            *)
Evaluations == [id : 1..MaxReceived, decision : Decision]

(* Fields absent from a body decode to zero values; None is the empty      *)
(* agent id.                                                               *)
AgentIds == Agents \cup {None}

(* The limiter counts per agent, the log holds evaluations.                *)
ASSUME PartsAssumption ==
    /\ Keys = AgentIds
    /\ Payloads = Evaluations
    /\ MaxReceived <= MaxEvents

-----------------------------------------------------------------------------
NoPolicy == {None}

Closed == [pc |-> "idle", id |-> 0, decision |-> None, seen |-> {}, receipt |-> 0]

Init ==
    /\ policies = [w \in Workflows |-> NoPolicy]
    /\ session = [h \in Handlers |-> Closed]
    /\ inbox = <<>>
    /\ answered = {}
    /\ LimiterInit
    /\ AuditInit

(* POST /v1/policies.  seen is history: the policies of its workflow that  *)
(* were in force during an evaluation.                                     *)
LoadPolicy(w, allowed) ==
    /\ policies' = [policies EXCEPT ![w] = allowed]
    /\ session' = [h \in Handlers |->
          IF session[h].pc # "idle" /\ inbox[session[h].id].workflow = w
          THEN [session[h] EXCEPT !.seen = @ \cup {allowed}]
          ELSE session[h]]
    /\ UNCHANGED <<inbox, answered, limiterVars, auditVars>>

(* json.Decode of the body: whatever is not in "request" is left out of    *)
(* the tool call.                                                          *)
Decode(q) ==
    IF q.nested
    THEN q
    ELSE [q EXCEPT !.agent = None, !.scopes = {}, !.injected = FALSE,
                   !.pii = "none", !.approval = FALSE]

Receive(h, q) ==
    /\ session[h].pc = "idle"
    /\ Len(inbox) < MaxReceived
    /\ inbox' = Append(inbox, q)
    /\ session' = [session EXCEPT ![h] =
          [Closed EXCEPT !.pc = "rate", !.id = Len(inbox'),
                         !.seen = {policies[q.workflow]}]]
    /\ UNCHANGED <<policies, answered, limiterVars, auditVars>>

-----------------------------------------------------------------------------
Request(h) == Decode(inbox[session[h].id])

Decided(h, d) == [session EXCEPT ![h].pc = "audit", ![h].decision = d]

(* 1. Rate limit.                                                          *)
WithinLimit(h) ==
    /\ session[h].pc = "rate"
    /\ Admit(Request(h).agent)
    /\ session' = [session EXCEPT ![h].pc = "scope"]
    /\ UNCHANGED <<policies, inbox, answered, auditVars>>

RateLimited(h) ==
    /\ session[h].pc = "rate"
    /\ Refuse(Request(h).agent)
    /\ session' = Decided(h, "blocked")
    /\ UNCHANGED <<policies, inbox, answered, auditVars>>

(* Seeded fault: a workflow without a policy is not restricted.            *)
InScopeByDefault(h) ==
    \/ policies[Request(h).workflow] = NoPolicy
    \/ Request(h).scopes \subseteq policies[Request(h).workflow]

(* Enforcer.Check; the policy is read under the enforcer's lock.           *)
InScope(h) ==
    /\ policies[Request(h).workflow] # NoPolicy
    /\ Request(h).scopes \subseteq policies[Request(h).workflow]

Blocked(h) == ~InScope(h) \/ Request(h).injected

(* 2. to 5.: scope, injection, PII and approval; all but the policy is     *)
(* local to the handler.                                                   *)
Judge(h) ==
    /\ session[h].pc = "scope"
    /\ Blocked(h) \/ Request(h).pii # "panics"
    /\ session' = Decided(h,
          CASE Blocked(h) -> "blocked"
            [] OTHER -> IF Request(h).approval THEN "escalated"
                        ELSE IF Request(h).pii = "redacted" THEN "redacted"
                        ELSE "allowed")
    /\ UNCHANGED <<policies, inbox, answered, limiterVars, auditVars>>

(* RedactMap panics; net/http recovers and closes the connection, with     *)
(* neither an event nor an answer.                                         *)
Panicked(h) ==
    /\ session[h].pc = "scope"
    /\ ~Blocked(h) /\ Request(h).pii = "panics"
    /\ session' = [session EXCEPT ![h] = Closed]
    /\ UNCHANGED <<policies, inbox, answered, limiterVars, auditVars>>

(* 6. emitAudit calls Writer.Write, ...                                    *)
WriteEvent(h) ==
    /\ session[h].pc = "audit"
    /\ \E o \in Orgs :
          Enter(h, o, [id |-> session[h].id, decision |-> session[h].decision])
    /\ session' = [session EXCEPT ![h].pc = "writing"]
    /\ UNCHANGED <<policies, inbox, answered, limiterVars>>

EventStored(h) ==
    /\ Stored(h)
    /\ UNCHANGED <<policies, session, inbox, answered, limiterVars>>

(* Seeded fault: a failed write is tried again.                            *)
EmitFailedRetrying(h) ==
    /\ Refused(h) \/ StoredUnseen(h)
    /\ session' = [session EXCEPT ![h].pc = "audit"]
    /\ UNCHANGED <<policies, inbox, answered, limiterVars>>

(* ... logs its error and returns "", ...                                  *)
EmitFailed(h) ==
    /\ Refused(h) \/ StoredUnseen(h)
    /\ session' = [session EXCEPT ![h].pc = "answer"]
    /\ UNCHANGED <<policies, inbox, answered, limiterVars>>

(* ... or returns the ID of the event.                                     *)
EventWritten(h) ==
    /\ Advance(h)
    /\ session' = [session EXCEPT ![h].pc = "answer",
                                  ![h].receipt = Len(rows) + Len(log)]
    /\ UNCHANGED <<policies, inbox, answered, limiterVars>>

Allowed(d) == d \in {"allowed", "redacted"}

(* The response; only an allowed one names its audit event.                *)
Answer(h) ==
    /\ session[h].pc = "answer"
    /\ answered' = answered \cup
          {[id |-> session[h].id, decision |-> session[h].decision,
            receipt |-> IF Allowed(session[h].decision) THEN session[h].receipt ELSE 0]}
    /\ session' = [session EXCEPT ![h] = Closed]
    /\ UNCHANGED <<policies, inbox, limiterVars, auditVars>>

ClockTicks ==
    /\ Tick
    /\ UNCHANGED <<policies, session, inbox, answered, auditVars>>

(* A new process: policies, counters and evaluations lived in memory.      *)
Restart ==
    /\ NewWriter
    /\ NewStore
    /\ policies' = [w \in Workflows |-> NoPolicy]
    /\ session' = [h \in Handlers |-> Closed]
    /\ UNCHANGED <<inbox, answered>>

Evaluate(h) ==
    \/ WithinLimit(h)
    \/ RateLimited(h)
    \/ Judge(h)
    \/ Panicked(h)
    \/ EventStored(h)
    \/ EmitFailed(h)
    \/ EventWritten(h)
    \/ Answer(h)

Next ==
    \/ \E w \in Workflows, s \in SUBSET Scopes : LoadPolicy(w, s)
    \/ \E h \in Handlers, q \in Requests : Receive(h, q)
    \/ \E h \in Handlers : WriteEvent(h)
    \/ \E h \in Handlers : Evaluate(h)
    \/ ClockTicks
    \/ Restart

Spec == Init /\ [][Next]_vars

(* Goroutines are scheduled fairly and an insert returns when the client's *)
(* timeout ends the context, if not before.  A sync.Mutex hands itself to  *)
(* a waiter that has starved for a millisecond.                            *)
Fairness ==
    \A h \in Handlers : WF_vars(Evaluate(h)) /\ SF_vars(WriteEvent(h))

-----------------------------------------------------------------------------
(***************************************************************************)
(* Properties.                                                             *)
(***************************************************************************)
Table == rows \o log

(* A handler is inside Writer.Write exactly while it waits for its event.  *)
TypeOK ==
    /\ policies \in [Workflows -> (SUBSET Scopes) \cup {NoPolicy}]
    /\ inbox \in Seq(Requests)
    /\ LimiterTypeOK
    /\ AuditTypeOK
    /\ \A h \in Handlers : session[h] # Closed =>
          /\ session[h].pc \in {"rate", "scope", "audit", "writing", "answer"}
          /\ session[h].id \in DOMAIN inbox
          /\ session[h].pc \in {"audit", "writing", "answer"} =>
                session[h].decision \in Decision
    /\ \A h \in Handlers : session[h].pc = "writing" <=> writer[h] # Idle
    /\ \A a \in answered : a.id \in DOMAIN inbox /\ a.decision \in Decision

(* No evaluation leaves two events behind, and none an event that          *)
(* contradicts the answer it got; the audit event an answer names is that  *)
(* of the answered request, with its decision, across restarts.            *)
AuditedOnce ==
    /\ \A i, j \in DOMAIN Table :
          Table[i].payload.id = Table[j].payload.id => i = j
    /\ \A i \in DOMAIN Table, a \in answered :
          Table[i].payload.id = a.id => Table[i].payload.decision = a.decision
    /\ \A a \in answered : a.receipt # 0 =>
          /\ a.receipt \in DOMAIN Table
          /\ Table[a.receipt].payload = [id |-> a.id, decision |-> a.decision]

(* What is let through or escalated was within a policy that was loaded    *)
(* for its workflow, and in force at some time during its evaluation.      *)
LetThroughInScope ==
    \A h \in Handlers :
        session[h].pc \in {"audit", "writing", "answer"}
        /\ session[h].decision # "blocked" =>
            \E p \in session[h].seen \ {NoPolicy} : Request(h).scopes \subseteq p

(* What may become of the n-th request: it is answered, or the process or  *)
(* the handler went down over it, the latter only over what RedactMap      *)
(* cannot take.                                                            *)
Disposed(n) ==
    \/ \E a \in answered : a.id = n
    \/ restarts > 0
    \/ n \in DOMAIN inbox /\ Decode(inbox[n]).pii = "panics"

(* Every request is answered, whatever becomes of its audit event and of   *)
(* the panics of other handlers, unless its own text makes the redaction   *)
(* panic or the process goes down; and every handler is free again.        *)
EveryRequestAnswered ==
    /\ \A n \in 1..MaxReceived : n \in DOMAIN inbox ~> Disposed(n)
    /\ \A h \in Handlers : session[h].pc # "idle" ~> session[h].pc = "idle"

-----------------------------------------------------------------------------
(* What the code's comments say and the code does not do.                  *)

(* proxy.go: it "writes immutable audit events for every decision".        *)
EveryDecisionAudited ==
    \A a \in answered : \E i \in DOMAIN Table :
        Table[i].payload = [id |-> a.id, decision |-> a.decision]

(* limiter.go: "per-agent" rate limiting.  An agent is refused only when   *)
(* it has made more than MaxRequests requests itself.                      *)
LimitedPerAgent ==
    [][\A h \in Handlers : RateLimited(h) =>
          Cardinality({i \in DOMAIN inbox :
              inbox[i].agent = inbox[session[h].id].agent}) > MaxRequests]_vars
=============================================================================
