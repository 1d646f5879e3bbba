------------------------ MODULE GovernanceProxyProofs ------------------------
(***************************************************************************)
(* Proofs about GovernanceProxy for every set of handlers, agents,         *)
(* workflows, scopes and bodies, and every limit.  What is proved of the   *)
(* limiter and of the audit writer by themselves holds of the pipeline,    *)
(* whose steps are steps of theirs; what an evaluation carries from one    *)
(* stage to the next gives the rest.  The last part is about Redaction, for*)
(* every text, every number of patterns and every length of their markers. *)
(***************************************************************************)
EXTENDS MCGovernance, GovernancePartsProofs, SequenceTheorems, FiniteSetTheorems

(* What a handler may hold.                                                *)
Policy == (SUBSET Scopes) \cup {NoPolicy}

Session ==
    [pc : {"idle", "rate", "scope", "audit", "writing", "answer"},
     id : Nat, decision : Decision \cup {None}, seen : SUBSET Policy,
     receipt : Nat]

(* What s says of a handler whose place in Write is w fits together, n     *)
(* being the number of requests received.                                  *)
Fits(s, w, n) ==
    /\ s.pc = "idle" => s = Closed
    /\ s.pc # "idle" => s.id \in 1..n
    /\ s.pc \in {"audit", "writing", "answer"} => s.decision \in Decision
    /\ s.pc = "writing" <=> w # Idle

Answers(n) == [id : 1..n, decision : Decision, receipt : Nat]

PipelineInv ==
    /\ policies \in [Workflows -> Policy]
    /\ inbox \in Seq(Requests)
    /\ Len(inbox) <= MaxReceived
    /\ session \in [Handlers -> Session]
    /\ \A h \in Handlers : Fits(session[h], writer[h], Len(inbox))
    /\ answered \subseteq Answers(Len(inbox))

TypeInv == PipelineInv /\ LimiterTypeOK /\ AuditTypeOK

-----------------------------------------------------------------------------
(* The steps of the pipeline are steps of its parts.                       *)

(* What a handler at work has received.                                    *)
LEMMA RequestTyped ==
  ASSUME TypeInv, NEW h \in Handlers, session[h].pc # "idle"
  PROVE  /\ session[h].id \in 1..Len(inbox)
         /\ session[h].id \in 1..MaxReceived
         /\ inbox[session[h].id] \in Bodies
         /\ Request(h).workflow = inbox[session[h].id].workflow
         /\ Request(h).workflow \in Workflows
         /\ Request(h).agent \in Keys
         /\ Request(h).scopes \in SUBSET Scopes
<1>1. session[h].id \in 1..Len(inbox) /\ inbox \in Seq(Requests) /\ Len(inbox) <= MaxReceived
  BY DEF TypeInv, PipelineInv, Fits
<1>2. Len(inbox) \in Nat /\ MaxReceived \in Nat
  BY <1>1, ProxyAssumption
<1>3. session[h].id \in 1..MaxReceived
  BY <1>1, <1>2
<1> DEFINE q == inbox[session[h].id]
<1>4. q \in Bodies
  BY <1>1, ProxyAssumption
<1>5. /\ Decode(q).workflow = q.workflow
      /\ Decode(q).agent \in AgentIds
      /\ Decode(q).scopes \in SUBSET Scopes
  BY <1>4 DEF Decode, Bodies, AgentIds
<1>6. q.workflow \in Workflows
  BY <1>4 DEF Bodies
<1> QED
  BY <1>1, <1>3, <1>4, <1>5, <1>6, PartsAssumption DEF Request

(* The limiter sees its own steps; a new process has a new store.          *)
LEMMA LimiterPart ==
  ASSUME TypeInv, [Next]_vars
  PROVE  [LimiterNext]_limiterVars
<1>1. ASSUME NEW h \in Handlers, WithinLimit(h) \/ RateLimited(h)
      PROVE  LimiterNext
  <2>1. session[h].pc # "idle"
    BY <1>1 DEF WithinLimit, RateLimited
  <2>2. Request(h).agent \in Keys
    BY <2>1, RequestTyped
  <2> QED
    BY <1>1, <2>2 DEF WithinLimit, RateLimited, LimiterNext
<1>2. ASSUME NEW h \in Handlers, Evaluate(h)
      PROVE  LimiterNext \/ UNCHANGED limiterVars
  BY <1>1, <1>2 DEF Evaluate, Judge, Panicked, EventStored, EmitFailed, EventWritten,
     Answer
<1>3. ASSUME Restart
      PROVE  LimiterNext
  BY <1>3 DEF Restart, LimiterNext
<1> QED
  BY <1>2, <1>3 DEF Next, LoadPolicy, Receive, WriteEvent, ClockTicks, LimiterNext, vars,
     limiterVars

(* The writer sees its own steps: a handler hands it an evaluation.        *)
LEMMA AuditPart ==
  ASSUME TypeInv, [Next]_vars
  PROVE  [AuditNext]_auditVars
<1>1. ASSUME NEW h \in Handlers, WriteEvent(h)
      PROVE  AuditNext
  <2>1. session[h].pc = "audit"
    BY <1>1 DEF WriteEvent
  <2>2. session[h].id \in 1..MaxReceived
    BY <2>1, RequestTyped
  <2>3. session[h].decision \in Decision
    BY <2>1 DEF TypeInv, PipelineInv, Fits
  <2>4. [id |-> session[h].id, decision |-> session[h].decision] \in Payloads
    BY <2>2, <2>3, PartsAssumption DEF Evaluations
  <2> QED
    BY <1>1, <2>4 DEF WriteEvent, AuditNext
<1>2. ASSUME NEW h \in Handlers, Evaluate(h)
      PROVE  AuditNext \/ UNCHANGED auditVars
  BY <1>2 DEF Evaluate, WithinLimit, RateLimited, Judge, Panicked, EventStored,
     EmitFailed, EventWritten, Answer, AuditNext
<1> QED
  BY <1>1, <1>2 DEF Next, LoadPolicy, Receive, ClockTicks, Restart, AuditNext, vars, auditVars

-----------------------------------------------------------------------------
(* A step of one handler that leaves what the others hold as it is.        *)
LEMMA OneMoves ==
  ASSUME PipelineInv, NEW h \in Handlers, NEW s \in Session,
         session' = [session EXCEPT ![h] = s],
         Fits(s, writer'[h], Len(inbox')),
         Len(inbox') \in Nat, Len(inbox) \in Nat, Len(inbox') >= Len(inbox),
         \A g \in Handlers : g # h => writer'[g] = writer[g]
  PROVE  /\ session' \in [Handlers -> Session]
         /\ session'[h] = s
         /\ \A g \in Handlers : g # h => session'[g] = session[g]
         /\ \A g \in Handlers : Fits(session'[g], writer'[g], Len(inbox'))
<1>1. /\ session' \in [Handlers -> Session]
      /\ session'[h] = s
      /\ \A g \in Handlers : g # h => session'[g] = session[g]
  BY DEF PipelineInv
<1>2. ASSUME NEW g \in Handlers, g # h
      PROVE  Fits(session'[g], writer'[g], Len(inbox'))
  <2>1. Fits(session[g], writer[g], Len(inbox))
    BY DEF PipelineInv
  <2> QED
    BY <1>1, <1>2, <2>1 DEF Fits
<1> QED
  BY <1>1, <1>2

(* What the steps of Write do to the places of the handlers in it.         *)
Enters(h) == writer[h] = Idle /\ writer'[h] # Idle
Stays(h) == writer[h] # Idle /\ writer'[h] # Idle
Leaves(h) == writer[h] # Idle /\ writer'[h] = Idle

(* A step of Write concerns one handler, which enters, stays or leaves.    *)
LEMMA WriterMoves ==
  ASSUME AuditTypeOK, NEW h \in Handlers
  PROVE  /\ \A o, p : Enter(h, o, p) => Enters(h)
         /\ Stored(h) => Stays(h)
         /\ Refused(h) \/ StoredUnseen(h) \/ Advance(h) => Leaves(h)
         /\ \/ \E o, p : Enter(h, o, p)
            \/ Stored(h) \/ Refused(h) \/ StoredUnseen(h) \/ Advance(h)
            => \A g \in Handlers : g # h => writer'[g] = writer[g]
<1> USE DEF AuditTypeOK, Idle
<1>1. ASSUME NEW o, NEW p, Enter(h, o, p)
      PROVE  Enters(h)
  BY <1>1 DEF Enter, Enters
<1>2. Stored(h) => Stays(h)
  BY DEF Stored, Stays
<1>3. Refused(h) \/ StoredUnseen(h) \/ Advance(h) => Leaves(h)
  BY DEF Refused, StoredUnseen, Advance, Leave, Leaves
<1>4. ASSUME NEW g \in Handlers, g # h,
             \/ \E o, p : Enter(h, o, p)
             \/ Stored(h) \/ Refused(h) \/ StoredUnseen(h) \/ Advance(h)
      PROVE  writer'[g] = writer[g]
  BY <1>4 DEF Enter, Stored, Refused, StoredUnseen, Advance, Leave
<1> QED
  BY <1>1, <1>2, <1>3, <1>4

(* A stage of an evaluation that the handler does alone, or with a step of *)
(* Write: it goes on to another stage, or is done.                         *)
LEMMA StageKept ==
  ASSUME PipelineInv, NEW h \in Handlers, NEW s \in Session,
         session' = [session EXCEPT ![h] = s],
         Fits(s, writer'[h], Len(inbox)),
         \A g \in Handlers : g # h => writer'[g] = writer[g],
         answered' \subseteq Answers(Len(inbox)),
         UNCHANGED <<policies, inbox>>
  PROVE  PipelineInv'
<1>1. Len(inbox) \in Nat
  BY DEF PipelineInv
<1>2. Len(inbox') = Len(inbox) /\ inbox' = inbox /\ policies' = policies
  OBVIOUS
<1>3. Fits(s, writer'[h], Len(inbox'))
  BY <1>2
<1>4. Len(inbox') \in Nat /\ Len(inbox') >= Len(inbox)
  BY <1>1, <1>2
<1>5. /\ session' \in [Handlers -> Session]
      /\ \A g \in Handlers : Fits(session'[g], writer'[g], Len(inbox'))
  BY <1>1, <1>3, <1>4, OneMoves
<1> QED
  BY <1>2, <1>5 DEF PipelineInv

(* Every step leaves each handler with what its stage needs.               *)
LEMMA PipelineStep == TypeInv /\ [Next]_vars => PipelineInv'
<1> SUFFICES ASSUME TypeInv, [Next]_vars
             PROVE  PipelineInv'
    OBVIOUS
<1>a. PipelineInv /\ AuditTypeOK
  BY DEF TypeInv
<1>b. Len(inbox) \in Nat
  BY <1>a DEF PipelineInv
<1>c. \A h \in Handlers : session[h] \in Session /\ Fits(session[h], writer[h], Len(inbox))
  BY <1>a DEF PipelineInv
<1>1. ASSUME NEW w \in Workflows, NEW allowed \in SUBSET Scopes, LoadPolicy(w, allowed)
      PROVE  PipelineInv'
  <2>1. ASSUME NEW h \in Handlers
        PROVE  session'[h] \in Session /\ Fits(session'[h], writer[h], Len(inbox))
    <3>1. session'[h] \in {session[h],
                           [session[h] EXCEPT !.seen = session[h].seen \cup {allowed}]}
      BY <1>1 DEF LoadPolicy
    <3>2. allowed \in Policy
      BY DEF Policy
    <3>3. CASE session'[h] = session[h]
      BY <1>c, <3>3
    <3>4. CASE /\ session'[h] = [session[h] EXCEPT !.seen = session[h].seen \cup {allowed}]
               /\ session[h].pc # "idle"
      BY <1>c, <3>2, <3>4 DEF Session, Fits
    <3> QED
      BY <1>1, <3>3, <3>4 DEF LoadPolicy
  <2>2. policies' \in [Workflows -> Policy]
    BY <1>1, <1>a DEF LoadPolicy, PipelineInv, Policy
  <2>3. session' \in [Handlers -> Session]
    BY <1>1, <2>1 DEF LoadPolicy
  <2>4. writer' = writer /\ inbox' = inbox /\ answered' = answered
    BY <1>1 DEF LoadPolicy, auditVars
  <2> QED
    BY <1>a, <2>1, <2>2, <2>3, <2>4 DEF PipelineInv
<1>2. ASSUME NEW h \in Handlers, NEW q \in Requests, Receive(h, q)
      PROVE  PipelineInv'
  <2> DEFINE s == [Closed EXCEPT !.pc = "rate", !.id = Len(inbox'),
                                 !.seen = {policies[q.workflow]}]
  <2>1. inbox' \in Seq(Requests) /\ Len(inbox') = Len(inbox) + 1 /\ Len(inbox') <= MaxReceived
    BY <1>2, <1>a, ProxyAssumption DEF Receive, PipelineInv
  <2>2. q.workflow \in Workflows
    BY ProxyAssumption DEF Bodies
  <2>3. policies[q.workflow] \in Policy
    BY <2>2, <1>a DEF PipelineInv
  <2>4. s \in Session
    <3>1. Len(inbox') \in Nat /\ {policies[q.workflow]} \in SUBSET Policy
      BY <1>b, <2>1, <2>3
    <3>2. Closed \in Session
      BY DEF Session, Closed
    <3> HIDE DEF Closed
    <3> QED
      BY <3>1, <3>2 DEF Session
  <2>5. session[h] = Closed /\ writer[h] = Idle /\ writer' = writer
    BY <1>2, <1>c DEF Receive, Fits, auditVars
  <2>6. Fits(s, writer'[h], Len(inbox'))
    BY <1>b, <2>1, <2>5 DEF Fits, Closed
  <2>7. session' = [session EXCEPT ![h] = s]
    BY <1>2 DEF Receive
  <2>8. Len(inbox') \in Nat /\ Len(inbox') >= Len(inbox)
    BY <1>b, <2>1
  <2> HIDE DEF s
  <2>9. /\ session' \in [Handlers -> Session]
        /\ \A g \in Handlers : Fits(session'[g], writer'[g], Len(inbox'))
    BY <1>a, <1>b, <2>4, <2>5, <2>6, <2>7, <2>8, OneMoves
  <2>10. answered' \subseteq Answers(Len(inbox'))
    BY <1>2, <1>a, <1>b, <2>1 DEF Receive, PipelineInv, Answers
  <2> QED
    BY <1>2, <1>a, <2>1, <2>9, <2>10 DEF Receive, PipelineInv
<1>3. ASSUME NEW h \in Handlers, WithinLimit(h)
      PROVE  PipelineInv'
  <2> DEFINE s == [session[h] EXCEPT !.pc = "scope"]
  <2>1. s \in Session /\ Fits(s, writer[h], Len(inbox))
    BY <1>3, <1>c DEF WithinLimit, Session, Fits
  <2>2. session' = [session EXCEPT ![h] = s]
    BY <1>3 DEF WithinLimit
  <2> QED
    BY <1>3, <1>a, <2>1, <2>2, StageKept DEF WithinLimit, auditVars, PipelineInv
<1>4. ASSUME NEW h \in Handlers, NEW d \in Decision, session' = Decided(h, d),
             session[h].pc \in {"rate", "scope"},
             UNCHANGED <<policies, inbox, answered, auditVars>>
      PROVE  PipelineInv'
  <2> DEFINE s == [session[h] EXCEPT !.pc = "audit", !.decision = d]
  <2>1. s \in Session /\ Fits(s, writer[h], Len(inbox))
    BY <1>4, <1>c DEF Session, Fits
  <2>2. session' = [session EXCEPT ![h] = s]
    BY <1>4 DEF Decided
  <2> QED
    BY <1>4, <1>a, <2>1, <2>2, StageKept DEF auditVars, PipelineInv
<1>5. ASSUME NEW h \in Handlers, RateLimited(h)
      PROVE  PipelineInv'
  BY <1>4, <1>5 DEF RateLimited, Decision
<1>6. ASSUME NEW h \in Handlers, Judge(h)
      PROVE  PipelineInv'
  BY <1>4, <1>6 DEF Judge, Decision
<1>7. ASSUME NEW h \in Handlers, WriteEvent(h)
      PROVE  PipelineInv'
  <2> DEFINE s == [session[h] EXCEPT !.pc = "writing"]
  <2>1. Enters(h) /\ \A g \in Handlers : g # h => writer'[g] = writer[g]
    BY <1>7, <1>a, WriterMoves DEF WriteEvent
  <2>2. s \in Session /\ Fits(s, writer'[h], Len(inbox))
    BY <1>7, <1>c, <2>1 DEF WriteEvent, Session, Fits, Enters
  <2>3. session' = [session EXCEPT ![h] = s]
    BY <1>7 DEF WriteEvent
  <2> QED
    BY <1>7, <1>a, <2>1, <2>2, <2>3, StageKept DEF WriteEvent, PipelineInv
<1>8. ASSUME NEW h \in Handlers, EventStored(h)
      PROVE  PipelineInv'
  <2>1. Stays(h) /\ \A g \in Handlers : g # h => writer'[g] = writer[g]
    BY <1>8, <1>a, WriterMoves DEF EventStored
  <2>2. \A g \in Handlers : Fits(session[g], writer'[g], Len(inbox))
    BY <1>c, <2>1 DEF Stays, Fits
  <2> QED
    BY <1>8, <1>a, <2>2 DEF EventStored, PipelineInv
<1>9. ASSUME NEW h \in Handlers, EmitFailed(h)
      PROVE  PipelineInv'
  <2> DEFINE s == [session[h] EXCEPT !.pc = "answer"]
  <2>1. Leaves(h) /\ \A g \in Handlers : g # h => writer'[g] = writer[g]
    BY <1>9, <1>a, WriterMoves DEF EmitFailed
  <2>2. s \in Session /\ Fits(s, writer'[h], Len(inbox))
    BY <1>c, <2>1 DEF Session, Fits, Leaves
  <2>3. session' = [session EXCEPT ![h] = s]
    BY <1>9 DEF EmitFailed
  <2> QED
    BY <1>9, <1>a, <2>1, <2>2, <2>3, StageKept DEF EmitFailed, PipelineInv
<1>10. ASSUME NEW h \in Handlers, EventWritten(h)
       PROVE  PipelineInv'
  <2> DEFINE s == [session[h] EXCEPT !.pc = "answer", !.receipt = Len(rows) + Len(log)]
  <2>1. Leaves(h) /\ \A g \in Handlers : g # h => writer'[g] = writer[g]
    BY <1>10, <1>a, WriterMoves DEF EventWritten
  <2>2. Len(rows) + Len(log) \in Nat
    BY <1>a DEF AuditTypeOK
  <2>3. s \in Session /\ Fits(s, writer'[h], Len(inbox))
    BY <1>c, <2>1, <2>2 DEF Session, Fits, Leaves
  <2>4. session' = [session EXCEPT ![h] = s]
    BY <1>10 DEF EventWritten
  <2> QED
    BY <1>10, <1>a, <2>1, <2>3, <2>4, StageKept DEF EventWritten, PipelineInv
<1>11. ASSUME NEW h \in Handlers, Answer(h)
       PROVE  PipelineInv'
  <2>1. Closed \in Session /\ Fits(Closed, writer[h], Len(inbox))
    BY <1>11, <1>c DEF Answer, Session, Fits, Closed
  <2>2. answered' \subseteq Answers(Len(inbox))
    BY <1>11, <1>a, <1>c DEF Answer, PipelineInv, Answers, Session, Fits
  <2> QED
    BY <1>11, <1>a, <2>1, <2>2, StageKept DEF Answer, auditVars
<1>12. CASE ClockTicks
  BY <1>12, <1>a DEF ClockTicks, auditVars, PipelineInv
<1>15. ASSUME NEW h \in Handlers, Panicked(h)
       PROVE  PipelineInv'
  <2>1. Closed \in Session /\ Fits(Closed, writer[h], Len(inbox))
    BY <1>15, <1>c DEF Panicked, Session, Fits, Closed
  <2> QED
    BY <1>15, <1>a, <2>1, StageKept DEF Panicked, auditVars, PipelineInv
<1>13. CASE Restart
  <2>1. Closed \in Session /\ Fits(Closed, Idle, Len(inbox))
    BY DEF Session, Fits, Closed
  <2>2. session' = [h \in Handlers |-> Closed] /\ writer' = [h \in Handlers |-> Idle]
    BY <1>13 DEF Restart, NewWriter
  <2>3. NoPolicy \in Policy
    BY DEF Policy
  <2>4. policies' \in [Workflows -> Policy]
    BY <1>13, <2>3 DEF Restart
  <2> QED
    BY <1>13, <1>a, <2>1, <2>2, <2>4 DEF Restart, PipelineInv
<1>14. CASE UNCHANGED vars
  BY <1>14, <1>a DEF vars, auditVars, PipelineInv
<1> QED
  BY <1>1, <1>2, <1>3, <1>5, <1>6, <1>7, <1>8, <1>9, <1>10, <1>11, <1>12, <1>13, <1>14,
     <1>15 DEF Next, Evaluate

(* The pipeline starts with nothing received, counted or stored.           *)
LEMMA TypeInit == Init => TypeInv
<1> SUFFICES ASSUME Init
             PROVE  TypeInv
    OBVIOUS
<1>1. PipelineInv
  <2>1. Closed \in Session
    BY DEF Session, Closed
  <2>2. Fits(Closed, Idle, Len(inbox))
    BY DEF Fits, Closed
  <2>3. NoPolicy \in Policy
    BY DEF Policy
  <2>4. writer = [h \in Handlers |-> Idle] /\ session = [h \in Handlers |-> Closed]
    BY DEF Init, AuditInit
  <2>5. policies \in [Workflows -> Policy] /\ session \in [Handlers -> Session]
    BY <2>1, <2>3 DEF Init
  <2>6. inbox \in Seq(Requests) /\ Len(inbox) <= MaxReceived
    BY ProxyAssumption DEF Init
  <2> QED
    BY <2>2, <2>4, <2>5, <2>6 DEF Init, PipelineInv
<1>2. LimiterTypeOK
  BY WindowInit DEF Init, WindowInv
<1>3. AuditTypeOK
  BY ChainInit DEF Init, ChainInv
<1> QED
  BY <1>1, <1>2, <1>3 DEF TypeInv

(* Every step keeps the types, of the pipeline and of its parts.           *)
LEMMA TypeStep == TypeInv /\ [Next]_vars => TypeInv'
<1> SUFFICES ASSUME TypeInv, [Next]_vars
             PROVE  TypeInv'
    OBVIOUS
<1>1. PipelineInv'
  BY PipelineStep
<1>2. LimiterTypeOK'
  BY LimiterPart, LimiterTypeStep DEF TypeInv
<1>3. AuditTypeOK'
  BY AuditPart, WriterTypeStep DEF TypeInv
<1> QED
  BY <1>1, <1>2, <1>3 DEF TypeInv

(* The types hold throughout.                                              *)
LEMMA TypeInvariant == Spec => []TypeInv
  BY TypeInit, TypeStep, PTL DEF Spec

(* What a handler holds is of the form its stage needs, and a handler is   *)
(* inside Write exactly while its evaluation waits for its event.          *)
THEOREM ProxyTyped == Spec => []TypeOK
<1>1. TypeInv => TypeOK
  <2> SUFFICES ASSUME TypeInv
               PROVE  TypeOK
      OBVIOUS
  <2>1. policies \in [Workflows -> (SUBSET Scopes) \cup {NoPolicy}]
    BY DEF TypeInv, PipelineInv, Policy
  <2>2. inbox \in Seq(Requests) /\ DOMAIN inbox = 1..Len(inbox)
    BY DEF TypeInv, PipelineInv
  <2>3. ASSUME NEW h \in Handlers, session[h] # Closed
        PROVE  /\ session[h].pc \in {"rate", "scope", "audit", "writing", "answer"}
               /\ session[h].id \in DOMAIN inbox
               /\ session[h].pc \in {"audit", "writing", "answer"} =>
                     session[h].decision \in Decision
    <3>1. session[h] \in Session /\ Fits(session[h], writer[h], Len(inbox))
      BY DEF TypeInv, PipelineInv
    <3> QED
      BY <2>2, <2>3, <3>1 DEF Session, Fits
  <2>4. \A h \in Handlers : session[h].pc = "writing" <=> writer[h] # Idle
    BY DEF TypeInv, PipelineInv, Fits
  <2>5. \A a \in answered : a.id \in DOMAIN inbox /\ a.decision \in Decision
    BY <2>2 DEF TypeInv, PipelineInv, Answers
  <2> QED
    BY <2>1, <2>2, <2>3, <2>4, <2>5 DEF TypeInv, TypeOK
<1> QED
  BY <1>1, TypeInvariant, PTL

-----------------------------------------------------------------------------
(* Rate limit and chain.                                                   *)

(* The limiter's invariant holds in the pipeline.                          *)
LEMMA PipelineWindows == Spec => []WindowInv
<1>1. Init => WindowInv
  BY WindowInit DEF Init
<1>2. TypeInv /\ WindowInv /\ [Next]_vars => WindowInv'
  BY LimiterPart, WindowStep
<1> QED
  BY <1>1, <1>2, TypeInvariant, PTL DEF Spec

(* An agent's calls are let through at most 2 * MaxRequests times within a *)
(* window, whatever else its handlers are at, and MaxRequests times more   *)
(* for each restart of the proxy in between.                               *)
THEOREM PipelineRateBound == Spec => []TwiceAtMost
  BY PipelineWindows, WindowsBound, PTL

(* A handler blocks a call for its rate only if MaxRequests calls of the   *)
(* same key were let through within the last Window by the same process.   *)
THEOREM PipelineRefusals == Spec => RefusedOnlyWhenBusy
<1> DEFINE A == \A k \in Keys : Refuse(k) => FullWindow(k)
<1>1. WindowInv => A
  BY WindowsJustify
<1>2. []WindowInv => [][A]_limiterVars
  BY <1>1, PTL
<1> QED
  BY <1>2, PipelineWindows, PTL DEF RefusedOnlyWhenBusy, FullWindow

(* The writer's invariant holds in the pipeline.                           *)
LEMMA PipelineLinks == Spec => []ChainInv
<1>1. Init => ChainInv
  BY ChainInit DEF Init
<1>2. TypeInv /\ ChainInv /\ [Next]_vars => ChainInv'
  BY AuditPart, ChainStep
<1> QED
  BY <1>1, <1>2, TypeInvariant, PTL DEF Spec

(* The events a process stored for its evaluations pass ValidateChain,     *)
(* unless an insert failed after it took effect.                           *)
THEOREM PipelineChains == Spec => []ChainValid
<1>1. ChainInv => ChainValid
  BY DEF ChainInv, ChainValid
<1> QED
  BY <1>1, PipelineLinks, PTL

-----------------------------------------------------------------------------
(* Scopes.                                                                 *)

(* A policy that was in force during the evaluation allows what it asks.   *)
Permitted(h) ==
    \E p \in session[h].seen \ {NoPolicy} : Request(h).scopes \subseteq p

Judged(h) ==
    session[h].pc \in {"audit", "writing", "answer"} /\ session[h].decision # "blocked"

(***************************************************************************)
(* The policy in force is one of those that a handler at work has seen, so *)
(* that the one it is judged by will be.                                   *)
(***************************************************************************)
ScopeKnown(h) ==
    session[h].pc # "idle" =>
        /\ policies[inbox[session[h].id].workflow] \in session[h].seen
        /\ Judged(h) => Permitted(h)

ScopeInv == \A h \in Handlers : ScopeKnown(h)

(* What a handler knows stays known while the policies stay, its request   *)
(* is the same, and it is judged no later than before.                     *)
LEMMA KnownKept ==
  ASSUME TypeInv, NEW h \in Handlers, ScopeKnown(h),
         session[h].pc # "idle",
         session'[h].id = session[h].id,
         session'[h].seen = session[h].seen,
         Judged(h)' => Judged(h),
         UNCHANGED <<policies, inbox>>
  PROVE  ScopeKnown(h)'
<1>1. Request(h)' = Request(h)
  BY DEF Request, Decode
<1> QED
  BY <1>1 DEF ScopeKnown, Permitted

(* Every step keeps the invariant: a loaded policy is seen at once.        *)
LEMMA ScopeStep == TypeInv /\ ScopeInv /\ [Next]_vars => ScopeInv'
<1> SUFFICES ASSUME TypeInv, ScopeInv, [Next]_vars
             PROVE  ScopeInv'
    OBVIOUS
<1>a. \A h \in Handlers : session[h] \in Session /\ Fits(session[h], writer[h], Len(inbox))
  BY DEF TypeInv, PipelineInv
<1>b. /\ DOMAIN session = Handlers /\ policies \in [Workflows -> Policy]
      /\ inbox \in Seq(Requests) /\ Len(inbox) \in Nat
  BY DEF TypeInv, PipelineInv
(* A handler whose session stays as it is.                                 *)
<1>c. ASSUME NEW h \in Handlers, session'[h] = session[h], UNCHANGED <<policies, inbox>>
      PROVE  ScopeKnown(h)'
  BY <1>c, KnownKept DEF ScopeInv, ScopeKnown, Judged
<1>1. ASSUME NEW w \in Workflows, NEW allowed \in SUBSET Scopes, LoadPolicy(w, allowed),
             NEW h \in Handlers, session[h].pc # "idle"
      PROVE  ScopeKnown(h)'
  <2> DEFINE v == inbox[session[h].id].workflow
  <2>1. session'[h] \in {session[h],
                         [session[h] EXCEPT !.seen = session[h].seen \cup {allowed}]}
    BY <1>1 DEF LoadPolicy
  <2>2. /\ session'[h].id = session[h].id /\ session'[h].pc = session[h].pc
        /\ session'[h].decision = session[h].decision
        /\ session[h].seen \subseteq session'[h].seen
    BY <2>1, <1>a DEF Session
  <2>3. inbox' = inbox /\ v \in Workflows
    BY <1>1, RequestTyped DEF LoadPolicy
  <2>4. policies'[v] \in session'[h].seen
    <3>1. CASE v = w
      BY <1>1, <1>a, <1>b, <2>3, <3>1 DEF LoadPolicy, Session
    <3>2. CASE v # w
      <4>1. policies'[v] = policies[v]
        BY <1>1, <1>b, <2>3, <3>2 DEF LoadPolicy
      <4> QED
        BY <1>1, <2>2, <4>1 DEF ScopeInv, ScopeKnown
    <3> QED
      BY <3>1, <3>2
  <2>5. Request(h)' = Request(h)
    BY <2>2, <2>3 DEF Request, Decode
  <2>6. Judged(h) => Permitted(h)
    BY <1>1 DEF ScopeInv, ScopeKnown
  <2>7. Judged(h)' => Permitted(h)'
    BY <2>2, <2>5, <2>6 DEF Judged, Permitted
  <2> QED
    BY <2>2, <2>3, <2>4, <2>7 DEF ScopeKnown
<1>2. ASSUME NEW h \in Handlers, NEW q \in Requests, Receive(h, q),
             NEW g \in Handlers
      PROVE  ScopeKnown(g)'
  <2>1. inbox' = Append(inbox, q) /\ Len(inbox') = Len(inbox) + 1
    BY <1>2, <1>b DEF Receive
  <2>2. CASE g = h
    <3>1. /\ session'[h].seen = {policies[q.workflow]}
          /\ session'[h].id = Len(inbox) + 1 /\ session'[h].pc = "rate"
      BY <1>2, <1>b, <2>1 DEF Receive, Closed
    <3>2. inbox'[Len(inbox) + 1] = q
      BY <1>b, <2>1
    <3> QED
      BY <1>2, <2>2, <3>1, <3>2 DEF Receive, ScopeKnown, Judged
  <2>3. CASE g # h /\ session[g].pc # "idle"
    <3>1. session'[g] = session[g]
      BY <1>2, <2>3 DEF Receive
    <3>2. session[g].id \in 1..Len(inbox)
      BY <2>3, RequestTyped
    <3>3. inbox'[session[g].id] = inbox[session[g].id]
      BY <1>b, <2>1, <3>2
    <3>4. Request(g)' = Request(g)
      BY <3>1, <3>3 DEF Request, Decode
    <3> QED
      BY <1>2, <3>1, <3>3, <3>4 DEF Receive, ScopeInv, ScopeKnown, Judged, Permitted
  <2>4. CASE g # h /\ session[g].pc = "idle"
    BY <1>2, <2>4 DEF Receive, ScopeKnown
  <2> QED
    BY <2>2, <2>3, <2>4
<1>3. ASSUME NEW h \in Handlers, Judge(h)
      PROVE  ScopeKnown(h)'
  <2>1. session[h].pc = "scope" /\ policies' = policies /\ inbox' = inbox
    BY <1>3 DEF Judge
  <2>2. /\ session'[h].pc = "audit" /\ session'[h].id = session[h].id
        /\ session'[h].seen = session[h].seen
        /\ session'[h].decision # "blocked" => InScope(h)
    BY <1>3, <1>a, <1>b DEF Judge, Decided, Session, Blocked
  <2>3. Request(h)' = Request(h)
    BY <2>1, <2>2 DEF Request, Decode
  <2>4. policies[Request(h).workflow] \in session[h].seen
    BY <2>1, RequestTyped DEF ScopeInv, ScopeKnown
  <2>5. InScope(h) => Permitted(h)
    BY <2>4 DEF InScope, Permitted
  <2> QED
    BY <2>1, <2>2, <2>3, <2>4, <2>5, RequestTyped DEF ScopeInv, ScopeKnown, Judged, Permitted
<1>4. ASSUME NEW h \in Handlers,
             \/ WithinLimit(h) \/ RateLimited(h) \/ WriteEvent(h)
             \/ EmitFailed(h) \/ EventWritten(h)
      PROVE  ScopeKnown(h)'
  <2>1. session[h].pc # "idle"
    <3>1. EmitFailed(h) \/ EventWritten(h) => Leaves(h)
      BY WriterMoves DEF EmitFailed, EventWritten, TypeInv
    <3> QED
      BY <1>4, <1>a, <3>1 DEF WithinLimit, RateLimited, WriteEvent, Leaves, Fits
  <2>2. /\ session'[h].id = session[h].id
        /\ session'[h].seen = session[h].seen
        /\ UNCHANGED <<policies, inbox>>
    BY <1>4, <1>a, <1>b DEF Session, WithinLimit, RateLimited, Decided, WriteEvent,
       EmitFailed, EventWritten
  <2>3. Judged(h)' => Judged(h)
    <3>1. CASE WithinLimit(h)
      BY <1>a, <1>b, <3>1 DEF Session, WithinLimit, Judged
    <3>2. CASE RateLimited(h)
      BY <1>a, <1>b, <3>2 DEF Session, RateLimited, Decided, Judged
    <3>3. CASE WriteEvent(h)
      BY <1>a, <1>b, <3>3 DEF Session, WriteEvent, Judged
    <3>4. CASE EmitFailed(h) \/ EventWritten(h)
      <4>1. session[h].pc = "writing"
        BY <1>a, <3>4, WriterMoves DEF EmitFailed, EventWritten, Leaves, Fits, TypeInv
      <4>2. session'[h].decision = session[h].decision
        BY <1>a, <1>b, <3>4 DEF Session, EmitFailed, EventWritten
      <4> QED
        BY <4>1, <4>2 DEF Judged
    <3> QED
      BY <1>4, <3>1, <3>2, <3>3, <3>4
  <2> QED
    BY <2>1, <2>2, <2>3, KnownKept DEF ScopeInv
<1>5. ASSUME NEW h \in Handlers, Answer(h) \/ Panicked(h)
      PROVE  ScopeKnown(h)'
  BY <1>5, <1>b DEF Answer, Panicked, ScopeKnown, Closed
(* The steps of a handler leave the sessions of the others alone.          *)
<1>6. ASSUME NEW h \in Handlers, Evaluate(h) \/ WriteEvent(h),
             NEW g \in Handlers, g # h
      PROVE  session'[g] = session[g] /\ UNCHANGED <<policies, inbox>>
  <2>1. UNCHANGED <<policies, inbox>>
    BY <1>6 DEF Evaluate, WithinLimit, RateLimited, Judge, Panicked, WriteEvent,
       EventStored, EmitFailed, EventWritten, Answer
  <2>2. CASE \/ WithinLimit(h) \/ WriteEvent(h) \/ EventStored(h)
             \/ Answer(h) \/ Panicked(h)
    BY <1>6, <1>b, <2>2 DEF WithinLimit, WriteEvent, EventStored, Answer, Panicked
  <2>3. CASE EmitFailed(h) \/ EventWritten(h)
    BY <1>6, <1>b, <2>3 DEF EmitFailed, EventWritten
  <2>4. ASSUME NEW d, session' = Decided(h, d)
        PROVE  session'[g] = session[g]
    BY <1>6, <1>b, <2>4 DEF Decided
  <2>5. CASE RateLimited(h) \/ Judge(h)
    BY <2>4, <2>5 DEF RateLimited, Judge
  <2> QED
    BY <1>6, <2>1, <2>2, <2>3, <2>5 DEF Evaluate
<1>7. ASSUME NEW h \in Handlers, Evaluate(h) \/ WriteEvent(h)
      PROVE  ScopeInv'
  <2>1. ScopeKnown(h)'
    BY <1>3, <1>4, <1>5, <1>7, <1>c DEF Evaluate, EventStored
  <2>2. \A g \in Handlers : g # h => ScopeKnown(g)'
    BY <1>6, <1>7, <1>c
  <2> QED
    BY <2>1, <2>2 DEF ScopeInv
<1>8. ASSUME NEW w \in Workflows, NEW allowed \in SUBSET Scopes, LoadPolicy(w, allowed)
      PROVE  ScopeInv'
  <2>1. \A h \in Handlers : session[h].pc = "idle" => session'[h] = session[h]
    BY <1>8 DEF LoadPolicy
  <2>2. \A h \in Handlers : session[h].pc = "idle" => ScopeKnown(h)'
    BY <2>1 DEF ScopeKnown
  <2> QED
    BY <1>1, <1>8, <2>2 DEF ScopeInv
<1>9. ASSUME Restart
      PROVE  ScopeInv'
  BY <1>9 DEF Restart, ScopeInv, ScopeKnown, Closed
<1>10. ASSUME ClockTicks \/ UNCHANGED vars
       PROVE  ScopeInv'
  BY <1>10, <1>c DEF ClockTicks, vars, ScopeInv
<1> QED
  BY <1>2, <1>7, <1>8, <1>9, <1>10 DEF Next, ScopeInv

(* Whatever a handler lets through or escalates asked for scopes of a      *)
(* policy that was loaded for its workflow and in force when it was        *)
(* judged, or at another time of its evaluation.                           *)
THEOREM PipelineInScope == Spec => []LetThroughInScope
<1>1. Init => ScopeInv
  BY DEF Init, ScopeInv, ScopeKnown, Closed
<1>2. TypeInv /\ ScopeInv => LetThroughInScope
  BY DEF LetThroughInScope, ScopeInv, ScopeKnown, Judged, Permitted
<1> QED
  BY <1>1, <1>2, ScopeStep, TypeInvariant, PTL DEF Spec

-----------------------------------------------------------------------------
(* The audit log.                                                          *)

Evaluation(h) == [id |-> session[h].id, decision |-> session[h].decision]

Unrecorded(n) == \A i \in 1..Len(Table) : Table[i].payload.id # n

(* The events of evaluation n carry decision d, and its receipt r, if it   *)
(* has one, is the place of its event.                                     *)
Recorded(n, d, r) ==
    /\ \A i \in 1..Len(Table) :
          Table[i].payload.id = n => Table[i].payload.decision = d
    /\ r # 0 => /\ r \in 1..Len(Table)
                /\ Table[r].payload = [id |-> n, decision |-> d]

(***************************************************************************)
(* No event of an evaluation is stored before its handler stores it, which *)
(* then leaves Write for good.  The event that a handler is about to       *)
(* advance to is the last one stored.                                      *)
(***************************************************************************)
HandlerRecord(h) ==
    /\ session[h].pc # "idle" => \A a \in answered : a.id # session[h].id
    /\ session[h].pc # "answer" => session[h].receipt = 0
    /\ session[h].pc \in {"rate", "scope", "audit"} => Unrecorded(session[h].id)
    /\ writer[h].pc = "append" => /\ Unrecorded(session[h].id)
                                  /\ writer[h].event.payload = Evaluation(h)
    /\ writer[h].pc = "advance" => /\ Len(Table) > 0
                                   /\ Table[Len(Table)].payload = Evaluation(h)
                                   /\ Recorded(session[h].id, session[h].decision, 0)
    /\ session[h].pc = "answer" =>
          Recorded(session[h].id, session[h].decision, session[h].receipt)

RowsKnown == \A i \in 1..Len(Table) : Table[i].payload.id \in 1..Len(inbox)

RowsDistinct ==
    \A i, j \in 1..Len(Table) : Table[i].payload.id = Table[j].payload.id => i = j

SessionsDistinct ==
    \A g, h \in Handlers :
        session[g].pc # "idle" /\ session[h].pc # "idle"
        /\ session[g].id = session[h].id => g = h

RecordInv ==
    /\ RowsKnown
    /\ RowsDistinct
    /\ SessionsDistinct
    /\ \A h \in Handlers : HandlerRecord(h)
    /\ \A a \in answered : Recorded(a.id, a.decision, a.receipt)

-----------------------------------------------------------------------------
(* The table is a sequence of events.                                      *)
LEMMA TableTyped ==
  ASSUME TypeInv
  PROVE  /\ Table \in Seq(Events)
         /\ DOMAIN Table = 1..Len(Table)
         /\ Len(Table) \in Nat
         /\ Len(Table) = Len(rows) + Len(log)
  BY DEF Table, TypeInv, AuditTypeOK

(* The table gets one more row, e.                                         *)
Grown(e) ==
    /\ Len(Table') = Len(Table) + 1
    /\ Table'[Len(Table) + 1] = e
    /\ \A i \in 1..Len(Table) : Table'[i] = Table[i]

(* The two steps that insert a row insert the event of their handler.      *)
LEMMA TableGrows ==
  ASSUME TypeInv, NEW h \in Handlers, Stored(h) \/ StoredUnseen(h)
  PROVE  Grown(writer[h].event)
<1>1. rows \in Seq(Events) /\ log \in Seq(Events)
  BY DEF TypeInv, AuditTypeOK
<1>2. writer[h].event \in Events
  BY DEF TypeInv, AuditTypeOK, Stored, StoredUnseen, Idle
<1>3. rows' = rows /\ log' = Append(log, writer[h].event)
  BY DEF Stored, StoredUnseen
<1> QED
  BY <1>1, <1>2, <1>3 DEF Grown, Table

(* A restart leaves the table as it was, and so does every step but the    *)
(* two that insert.                                                        *)
LEMMA TableStays ==
  ASSUME TypeInv, NewWriter \/ UNCHANGED <<rows, log>>
  PROVE  Table' = Table
<1>1. rows \in Seq(Events) /\ log \in Seq(Events)
  BY DEF TypeInv, AuditTypeOK
<1> QED
  BY <1>1 DEF Table, NewWriter

(* What the table says of a handler that does nothing stays as it is.      *)
LEMMA HandlerSame ==
  ASSUME NEW h \in Handlers, HandlerRecord(h),
         session'[h].pc = session[h].pc, session'[h].id = session[h].id,
         session'[h].decision = session[h].decision,
         session'[h].receipt = session[h].receipt,
         writer'[h] = writer[h], Table' = Table, answered' = answered
  PROVE  HandlerRecord(h)'
<1>1. Evaluation(h)' = Evaluation(h)
  BY DEF Evaluation
<1>2. \A n : Unrecorded(n)' = Unrecorded(n)
  BY DEF Unrecorded
<1>3. \A n, d, r : Recorded(n, d, r)' = Recorded(n, d, r)
  BY DEF Recorded
<1> QED
  BY <1>1, <1>2, <1>3 DEF HandlerRecord

(* A stage of one handler that inserts no row.                             *)
LEMMA StageRecorded ==
  ASSUME RecordInv, NEW h \in Handlers,
         session[h].pc # "idle", session'[h].id = session[h].id,
         \A g \in Handlers : g # h => session'[g] = session[g] /\ writer'[g] = writer[g],
         Table' = Table, UNCHANGED <<inbox, answered>>,
         HandlerRecord(h)'
  PROVE  RecordInv'
<1>1. \A g \in Handlers : HandlerRecord(g)'
  BY HandlerSame DEF RecordInv
<1>2. SessionsDistinct'
  BY DEF RecordInv, SessionsDistinct
<1>3. RowsKnown' /\ RowsDistinct'
  BY DEF RecordInv, RowsKnown, RowsDistinct
<1>4. \A a \in answered' : Recorded(a.id, a.decision, a.receipt)'
  BY DEF RecordInv, Recorded
<1> QED
  BY <1>1, <1>2, <1>3, <1>4 DEF RecordInv

(* The event of an evaluation is inserted.                                 *)
LEMMA InsertRecorded ==
  ASSUME TypeInv, RecordInv, NEW h \in Handlers,
         writer[h].pc = "append", Grown(writer[h].event),
         session'[h].id = session[h].id,
         session'[h].decision = session[h].decision,
         session'[h].receipt = session[h].receipt,
         \/ session'[h].pc = "writing" /\ writer'[h].pc = "advance"
         \/ session'[h].pc = "answer" /\ writer'[h].pc = "idle",
         \A g \in Handlers : g # h => session'[g] = session[g] /\ writer'[g] = writer[g],
         UNCHANGED <<inbox, answered>>
  PROVE  RecordInv'
<1> DEFINE n == session[h].id
           d == session[h].decision
           k == Len(Table)
<1>1. k \in Nat /\ Len(Table') = k + 1
  BY TableTyped DEF Grown
<1>2. /\ session[h].pc = "writing" /\ n \in 1..Len(inbox)
      /\ writer[h] # Idle
  BY DEF TypeInv, PipelineInv, Fits, Idle
<1>3. /\ Unrecorded(n) /\ session[h].receipt = 0
      /\ writer[h].event.payload = [id |-> n, decision |-> d]
      /\ \A a \in answered : a.id # n
  BY <1>2 DEF RecordInv, HandlerRecord, Evaluation
<1>4. /\ Table'[k + 1].payload.id = n /\ Table'[k + 1].payload.decision = d
      /\ Table'[k + 1].payload = [id |-> n, decision |-> d]
  BY <1>3 DEF Grown
<1>5. \A i \in 1..k : Table'[i] = Table[i]
  BY DEF Grown
<1>6. \A i \in 1..(k + 1) : i \in 1..k \/ i = k + 1
  BY <1>1
<1> HIDE DEF n, d, k
<1>7. ASSUME NEW m, m # n, NEW c, NEW r
      PROVE  /\ Unrecorded(m) => Unrecorded(m)'
             /\ Recorded(m, c, r) => Recorded(m, c, r)'
  <2>1. Unrecorded(m) => Unrecorded(m)'
    BY <1>1, <1>4, <1>5, <1>6, <1>7 DEF Unrecorded, k
  <2>2. ASSUME Recorded(m, c, r)
        PROVE  Recorded(m, c, r)'
    <3>1. \A i \in 1..Len(Table') :
              Table'[i].payload.id = m => Table'[i].payload.decision = c
      BY <1>1, <1>4, <1>5, <1>6, <1>7, <2>2 DEF Recorded, k
    <3>2. r # 0 => r \in 1..Len(Table') /\ Table'[r] = Table[r]
      BY <1>1, <1>5, <2>2 DEF Recorded, k
    <3> QED
      BY <2>2, <3>1, <3>2 DEF Recorded
  <2> QED
    BY <2>1, <2>2
<1>8. Recorded(n, d, 0)'
  <2>1. ASSUME NEW i \in 1..(k + 1), Table'[i].payload.id = n
        PROVE  Table'[i].payload.decision = d
    <3>1. CASE i \in 1..k
      BY <1>3, <1>5, <2>1, <3>1 DEF Unrecorded, k
    <3> QED
      BY <1>4, <1>6, <3>1
  <2>2. \A i \in 1..Len(Table') :
            Table'[i].payload.id = n => Table'[i].payload.decision = d
    BY <1>1, <2>1
  <2>3. n' = n /\ d' = d
    BY DEF n, d
  <2> QED
    BY <2>2, <2>3 DEF Recorded
<1>9. HandlerRecord(h)'
  <2>1. Evaluation(h)' = [id |-> n, decision |-> d]
    BY DEF Evaluation, n, d
  <2>2. session'[h].receipt = 0 /\ \A a \in answered' : a.id # session'[h].id
    BY <1>3 DEF n
  <2>3. Recorded(session[h].id, session[h].decision, 0)'
    BY <1>8 DEF n, d
  <2>4. Len(Table') > 0 /\ Table'[Len(Table')].payload = Evaluation(h)'
    BY <1>1, <1>4, <2>1
  <2> QED
    BY <2>2, <2>3, <2>4, <1>8 DEF HandlerRecord, n, d
<1>10. ASSUME NEW g \in Handlers, g # h
       PROVE  HandlerRecord(g)'
  <2>1. session'[g] = session[g] /\ writer'[g] = writer[g] /\ answered' = answered
    BY <1>10
  <2>2. HandlerRecord(g) /\ writer[g] = Idle
    BY <1>2, <1>10 DEF RecordInv, TypeInv, AuditTypeOK
  <2>3. session[g].pc # "idle" => session[g].id # n
    BY <1>2, <1>10 DEF RecordInv, SessionsDistinct, n
  <2>4. session[g].pc # "idle" =>
          /\ Unrecorded(session[g].id) => Unrecorded(session[g].id)'
          /\ Recorded(session[g].id, session[g].decision, session[g].receipt) =>
                Recorded(session[g].id, session[g].decision, session[g].receipt)'
    <3>1. CASE session[g].pc # "idle"
      <4> DEFINE m == session[g].id
      <4>1. m # n
        BY <2>3, <3>1
      <4> HIDE DEF m
      <4>2. /\ Unrecorded(m) => Unrecorded(m)'
            /\ Recorded(m, session[g].decision, session[g].receipt) =>
                  Recorded(m, session[g].decision, session[g].receipt)'
        BY <1>7, <4>1, <2>1 DEF m
      <4> QED
        BY <4>2, <2>1 DEF m
    <3> QED
      BY <3>1
  <2>5. writer[g].pc = "idle" /\ writer'[g].pc = "idle"
    BY <2>1, <2>2 DEF Idle
  <2> QED
    BY <2>1, <2>2, <2>4, <2>5 DEF HandlerRecord
<1>11. RowsKnown' /\ RowsDistinct'
  <2>1. \A i \in 1..k : Table[i].payload.id \in 1..Len(inbox) /\ Table[i].payload.id # n
    BY <1>3 DEF RecordInv, RowsKnown, Unrecorded, k
  <2>2. RowsKnown'
    BY <1>1, <1>2, <1>4, <1>5, <1>6, <2>1 DEF RowsKnown, n
  <2>3. \A i, j \in 1..k : Table[i].payload.id = Table[j].payload.id => i = j
    BY DEF RecordInv, RowsDistinct, k
  <2>4. RowsDistinct'
    BY <1>1, <1>4, <1>5, <1>6, <2>1, <2>3 DEF RowsDistinct
  <2> QED
    BY <2>2, <2>4
<1>12. SessionsDistinct'
  BY <1>2 DEF RecordInv, SessionsDistinct
<1>13. \A a \in answered' : Recorded(a.id, a.decision, a.receipt)'
  BY <1>3, <1>7 DEF RecordInv
<1> QED
  BY <1>9, <1>10, <1>11, <1>12, <1>13 DEF RecordInv

(* A step that no handler takes.                                           *)
LEMMA NothingRecorded ==
  ASSUME RecordInv,
         \A h \in Handlers : /\ session'[h].pc = session[h].pc
                             /\ session'[h].id = session[h].id
                             /\ session'[h].decision = session[h].decision
                             /\ session'[h].receipt = session[h].receipt,
         writer' = writer, Table' = Table, UNCHANGED <<inbox, answered>>
  PROVE  RecordInv'
<1>1. \A g \in Handlers : HandlerRecord(g)'
  BY HandlerSame DEF RecordInv
<1>2. SessionsDistinct'
  BY DEF RecordInv, SessionsDistinct
<1>3. RowsKnown' /\ RowsDistinct'
  BY DEF RecordInv, RowsKnown, RowsDistinct
<1>4. \A a \in answered' : Recorded(a.id, a.decision, a.receipt)'
  BY DEF RecordInv, Recorded
<1> QED
  BY <1>1, <1>2, <1>3, <1>4 DEF RecordInv

(* Every step keeps the invariant: the mutex and the stages of a handler   *)
(* let one event of an evaluation into the table, whichever fails.         *)
LEMMA RecordStep == TypeInv /\ RecordInv /\ [Next]_vars => RecordInv'
<1> SUFFICES ASSUME TypeInv, RecordInv, [Next]_vars
             PROVE  RecordInv'
    OBVIOUS
<1>a. \A h \in Handlers : session[h] \in Session /\ Fits(session[h], writer[h], Len(inbox))
  BY DEF TypeInv, PipelineInv
<1>b. DOMAIN session = Handlers /\ inbox \in Seq(Requests) /\ Len(inbox) \in Nat
  BY DEF TypeInv, PipelineInv
<1>c. \A h \in Handlers : HandlerRecord(h)
  BY DEF RecordInv
(* A stage at which the handler does not enter Write.                      *)
<1>1. ASSUME NEW h \in Handlers, WithinLimit(h) \/ RateLimited(h) \/ Judge(h)
      PROVE  RecordInv'
  <2>1. /\ session[h].pc \in {"rate", "scope"}
        /\ \A g \in Handlers : g # h => session'[g] = session[g]
        /\ session'[h].pc \in {"scope", "audit"}
        /\ session'[h].id = session[h].id /\ session'[h].receipt = session[h].receipt
        /\ UNCHANGED <<inbox, answered, auditVars>>
    <3>1. CASE WithinLimit(h)
      BY <1>a, <1>b, <3>1 DEF WithinLimit, Session
    <3>2. ASSUME NEW d, session' = Decided(h, d)
          PROVE  /\ \A g \in Handlers : g # h => session'[g] = session[g]
                 /\ session'[h].pc = "audit" /\ session'[h].id = session[h].id
                 /\ session'[h].receipt = session[h].receipt
      BY <1>a, <1>b, <3>2 DEF Decided, Session
    <3>3. CASE RateLimited(h)
      BY <3>2, <3>3 DEF RateLimited
    <3>4. CASE Judge(h)
      BY <3>2, <3>4 DEF Judge
    <3> QED
      BY <1>1, <3>1, <3>3, <3>4
  <2>2. writer' = writer /\ Table' = Table /\ answered' = answered
    BY <2>1, TableStays DEF auditVars
  <2>3. writer[h] = Idle
    BY <1>a, <2>1 DEF Fits
  <2>4. Unrecorded(session[h].id)'
    BY <1>c, <2>1, <2>2 DEF HandlerRecord, Unrecorded
  <2>5. HandlerRecord(h)'
    BY <1>c, <2>1, <2>2, <2>3, <2>4 DEF HandlerRecord, Idle
  <2> QED
    BY <2>1, <2>2, <2>5, StageRecorded
<1>2. ASSUME NEW h \in Handlers, WriteEvent(h)
      PROVE  RecordInv'
  <2>1. /\ session[h].pc = "audit"
        /\ \A g \in Handlers : g # h => session'[g] = session[g]
        /\ session'[h] = [session[h] EXCEPT !.pc = "writing"]
        /\ UNCHANGED <<inbox, answered>>
    BY <1>2, <1>b DEF WriteEvent
  <2>2. /\ session'[h].pc = "writing" /\ session'[h].id = session[h].id
        /\ session'[h].decision = session[h].decision
        /\ session'[h].receipt = session[h].receipt
    BY <1>a, <2>1 DEF Session
  <2>3. PICK o \in Orgs :
            Enter(h, o, [id |-> session[h].id, decision |-> session[h].decision])
    BY <1>2 DEF WriteEvent
  <2>4. /\ \A g \in Handlers : g # h => writer'[g] = writer[g]
        /\ writer'[h].pc = "append" /\ writer'[h].event.payload = Evaluation(h)
    BY <2>3 DEF Enter, Evaluation, TypeInv, AuditTypeOK
  <2>5. Table' = Table
    BY <2>3, TableStays DEF Enter
  <2>6. Unrecorded(session[h].id)' /\ Evaluation(h)' = Evaluation(h)
    <3>1. Unrecorded(session[h].id)
      BY <1>c, <2>1 DEF HandlerRecord
    <3>2. Unrecorded(session[h].id)'
      BY <2>2, <2>5, <3>1 DEF Unrecorded
    <3> QED
      BY <2>2, <3>2 DEF Evaluation
  <2>7. HandlerRecord(h)'
    BY <1>c, <2>1, <2>2, <2>4, <2>6 DEF HandlerRecord
  <2> QED
    BY <2>1, <2>2, <2>4, <2>5, <2>7, StageRecorded
<1>3. ASSUME NEW h \in Handlers, EventStored(h)
      PROVE  RecordInv'
  <2>1. writer[h].pc = "append" /\ Grown(writer[h].event)
    BY <1>3, TableGrows DEF EventStored, Stored
  <2>2. /\ \A g \in Handlers : g # h => writer'[g] = writer[g]
        /\ writer'[h].pc = "advance" /\ writer[h] # Idle
    BY <1>3, <2>1 DEF EventStored, Stored, TypeInv, AuditTypeOK, Idle
  <2>3. session' = session /\ UNCHANGED <<inbox, answered>>
    BY <1>3 DEF EventStored
  <2>4. session'[h].pc = "writing"
    BY <1>a, <2>2, <2>3 DEF Fits
  <2> QED
    BY <2>1, <2>2, <2>3, <2>4, InsertRecorded
<1>4. ASSUME NEW h \in Handlers, EmitFailed(h)
      PROVE  RecordInv'
  <2>1. /\ writer[h].pc = "append" /\ writer'[h] = Idle
        /\ \A g \in Handlers : g # h => writer'[g] = writer[g]
    BY <1>4 DEF EmitFailed, Refused, StoredUnseen, Leave, TypeInv, AuditTypeOK
  <2>2. session[h].pc = "writing"
    BY <1>a, <2>1 DEF Fits, Idle
  <2>3. /\ \A g \in Handlers : g # h => session'[g] = session[g]
        /\ session'[h] = [session[h] EXCEPT !.pc = "answer"]
        /\ UNCHANGED <<inbox, answered>>
    BY <1>4, <1>b DEF EmitFailed
  <2>4. /\ session'[h].pc = "answer" /\ session'[h].id = session[h].id
        /\ session'[h].decision = session[h].decision
        /\ session'[h].receipt = session[h].receipt
    BY <1>a, <2>3 DEF Session
  <2>5. CASE StoredUnseen(h)
    <3>1. Grown(writer[h].event) /\ writer'[h].pc = "idle"
      BY <2>1, <2>5, TableGrows DEF Idle
    <3> QED
      BY <2>1, <2>3, <2>4, <3>1, InsertRecorded
  <2>6. CASE Refused(h)
    <3>1. Table' = Table
      BY <2>6, TableStays DEF Refused
    <3>2. Unrecorded(session[h].id) /\ session[h].receipt = 0
          /\ \A a \in answered : a.id # session[h].id
      BY <1>c, <2>1, <2>2 DEF HandlerRecord
    <3>3. Recorded(session[h].id, session[h].decision, session[h].receipt)'
      BY <2>4, <3>1, <3>2 DEF Recorded, Unrecorded
    <3>4. HandlerRecord(h)'
      BY <2>1, <2>3, <2>4, <3>2, <3>3 DEF HandlerRecord, Idle
    <3> QED
      BY <2>1, <2>2, <2>3, <2>4, <3>1, <3>4, StageRecorded
  <2> QED
    BY <1>4, <2>5, <2>6 DEF EmitFailed
<1>5. ASSUME NEW h \in Handlers, EventWritten(h)
      PROVE  RecordInv'
  <2>1. /\ writer[h].pc = "advance" /\ writer'[h] = Idle
        /\ \A g \in Handlers : g # h => writer'[g] = writer[g]
    BY <1>5 DEF EventWritten, Advance, Leave, TypeInv, AuditTypeOK
  <2>2. session[h].pc = "writing"
    BY <1>a, <2>1 DEF Fits, Idle
  <2>3. /\ \A g \in Handlers : g # h => session'[g] = session[g]
        /\ session'[h] = [session[h] EXCEPT !.pc = "answer",
                                            !.receipt = Len(rows) + Len(log)]
        /\ UNCHANGED <<inbox, answered>>
    BY <1>5, <1>b DEF EventWritten
  <2>4. /\ session'[h].pc = "answer" /\ session'[h].id = session[h].id
        /\ session'[h].decision = session[h].decision
        /\ session'[h].receipt = Len(Table)
    BY <1>a, <2>3, TableTyped DEF Session
  <2>5. Table' = Table
    BY <1>5, TableStays DEF EventWritten, Advance
  <2>6. /\ Len(Table) > 0 /\ Table[Len(Table)].payload = Evaluation(h)
        /\ Recorded(session[h].id, session[h].decision, 0)
        /\ \A a \in answered : a.id # session[h].id
    BY <1>c, <2>1, <2>2 DEF HandlerRecord
  <2>7. Recorded(session[h].id, session[h].decision, session[h].receipt)'
    <3>1. Len(Table) \in 1..Len(Table)
      BY <2>6, TableTyped
    <3> QED
      BY <2>4, <2>5, <2>6, <3>1 DEF Recorded, Evaluation
  <2>8. HandlerRecord(h)'
    BY <2>1, <2>3, <2>4, <2>6, <2>7 DEF HandlerRecord, Idle
  <2> QED
    BY <2>1, <2>2, <2>3, <2>4, <2>5, <2>8, StageRecorded
<1>6. ASSUME NEW h \in Handlers, NEW q \in Requests, Receive(h, q)
      PROVE  RecordInv'
  <2> DEFINE n == Len(inbox)
  <2>1. /\ session[h].pc = "idle" /\ Len(inbox') = n + 1 /\ n \in Nat
        /\ \A g \in Handlers : g # h => session'[g] = session[g]
        /\ UNCHANGED <<answered, auditVars>>
    BY <1>6, <1>b DEF Receive
  <2>2. session'[h].id = n + 1 /\ session'[h].pc = "rate" /\ session'[h].receipt = 0
    BY <1>6, <1>b, <2>1 DEF Receive, Closed
  <2>3. writer' = writer /\ Table' = Table /\ answered' = answered
    BY <2>1, TableStays DEF auditVars
  <2>4. \A g \in Handlers : session[g].pc # "idle" => session[g].id \in 1..n
    BY <1>a DEF Fits
  <2>5. \A a \in answered : a.id \in 1..n
    BY DEF TypeInv, PipelineInv, Answers
  <2>6. \A i \in 1..Len(Table) : Table[i].payload.id \in 1..n
    BY DEF RecordInv, RowsKnown
  <2> HIDE DEF n
  <2>7. HandlerRecord(h)'
    <3>1. writer'[h].pc = "idle"
      BY <1>a, <2>1, <2>3 DEF Fits, Idle
    <3>2. Unrecorded(session[h].id)'
      BY <2>1, <2>2, <2>3, <2>6 DEF Unrecorded
    <3>3. \A a \in answered' : a.id # session'[h].id
      BY <2>1, <2>2, <2>3, <2>5
    <3> QED
      BY <2>2, <3>1, <3>2, <3>3 DEF HandlerRecord
  <2>8. \A g \in Handlers : g # h => HandlerRecord(g)'
    BY <1>c, <2>1, <2>3, HandlerSame
  <2>9. SessionsDistinct'
    <3>1. ASSUME NEW f \in Handlers, NEW g \in Handlers,
                 session'[f].pc # "idle", session'[g].pc # "idle",
                 session'[f].id = session'[g].id
          PROVE  f = g
      <4>1. CASE f # h /\ g # h
        BY <2>1, <3>1, <4>1 DEF RecordInv, SessionsDistinct
      <4>2. \A e \in Handlers : e # h /\ session'[e].pc # "idle" => session'[e].id # session'[h].id
        BY <2>1, <2>2, <2>4
      <4> QED
        BY <3>1, <4>1, <4>2
    <3> QED
      BY <3>1 DEF SessionsDistinct
  <2>10. RowsKnown' /\ RowsDistinct'
    BY <2>1, <2>3, <2>6 DEF RecordInv, RowsKnown, RowsDistinct
  <2>11. \A a \in answered' : Recorded(a.id, a.decision, a.receipt)'
    BY <2>3 DEF RecordInv, Recorded
  <2> QED
    BY <2>7, <2>8, <2>9, <2>10, <2>11 DEF RecordInv
<1>7. ASSUME NEW h \in Handlers, Answer(h)
      PROVE  RecordInv'
  <2>1. /\ session[h].pc = "answer"
        /\ \A g \in Handlers : g # h => session'[g] = session[g]
        /\ session'[h] = Closed
        /\ UNCHANGED <<inbox, auditVars>>
    BY <1>7, <1>b DEF Answer
  <2>2. writer' = writer /\ Table' = Table /\ inbox' = inbox
    BY <2>1, TableStays DEF auditVars
  <2> DEFINE r == IF Allowed(session[h].decision) THEN session[h].receipt ELSE 0
             new == [id |-> session[h].id, decision |-> session[h].decision, receipt |-> r]
  <2>3. answered' = answered \cup {new}
    BY <1>7 DEF Answer
  <2>4. Recorded(session[h].id, session[h].decision, session[h].receipt)
    BY <1>c, <2>1 DEF HandlerRecord
  <2>5. Recorded(new.id, new.decision, new.receipt)
    BY <2>4 DEF Recorded
  <2>6. new.id = session[h].id
    OBVIOUS
  <2> HIDE DEF new
  <2>7. \A a \in answered' : Recorded(a.id, a.decision, a.receipt)'
    BY ZenonT(60), <2>2, <2>3, <2>5 DEF RecordInv, Recorded
  <2>8. HandlerRecord(h)'
    <3>1. writer'[h].pc = "idle"
      BY <1>a, <2>1, <2>2 DEF Fits, Idle
    <3> QED
      BY <2>1, <3>1 DEF HandlerRecord, Closed
  <2>9. ASSUME NEW g \in Handlers, g # h
        PROVE  HandlerRecord(g)'
    <3>1. session'[g] = session[g] /\ writer'[g] = writer[g] /\ Evaluation(g)' = Evaluation(g)
      BY <2>1, <2>2, <2>9 DEF Evaluation
    <3>2. session[g].pc # "idle" => \A a \in answered' : a.id # session[g].id
      BY <1>c, <2>1, <2>3, <2>6, <2>9 DEF HandlerRecord, RecordInv, SessionsDistinct
    <3>3. /\ \A n : Unrecorded(n)' = Unrecorded(n)
          /\ \A n, d, k : Recorded(n, d, k)' = Recorded(n, d, k)
      BY <2>2 DEF Unrecorded, Recorded
    <3> QED
      BY <1>c, <2>2, <3>1, <3>2, <3>3 DEF HandlerRecord
  <2>10. SessionsDistinct'
    BY <2>1 DEF RecordInv, SessionsDistinct, Closed
  <2>11. RowsKnown' /\ RowsDistinct'
    BY <2>2 DEF RecordInv, RowsKnown, RowsDistinct
  <2> QED
    BY <2>7, <2>8, <2>9, <2>10, <2>11 DEF RecordInv
<1>8. ASSUME NEW w \in Workflows, NEW allowed \in SUBSET Scopes, LoadPolicy(w, allowed)
      PROVE  RecordInv'
  <2>1. UNCHANGED <<inbox, answered, auditVars>>
    BY <1>8 DEF LoadPolicy
  <2>2. writer' = writer /\ Table' = Table
    BY <2>1, TableStays DEF auditVars
  <2>3. ASSUME NEW h \in Handlers
        PROVE  /\ session'[h].pc = session[h].pc
               /\ session'[h].id = session[h].id
               /\ session'[h].decision = session[h].decision
               /\ session'[h].receipt = session[h].receipt
    <3>1. session'[h] \in {session[h],
                           [session[h] EXCEPT !.seen = session[h].seen \cup {allowed}]}
      BY <1>8 DEF LoadPolicy
    <3> QED
      BY <1>a, <3>1 DEF Session
  <2> QED
    BY <2>1, <2>2, <2>3, NothingRecorded
<1>9. ASSUME ClockTicks \/ UNCHANGED vars
      PROVE  RecordInv'
  <2>1. session' = session /\ UNCHANGED <<inbox, answered, auditVars>>
    BY <1>9 DEF ClockTicks, vars
  <2>2. writer' = writer /\ Table' = Table
    BY <2>1, TableStays DEF auditVars
  <2> QED
    BY <2>1, <2>2, NothingRecorded
<1>10. ASSUME Restart
       PROVE  RecordInv'
  <2>1. Table' = Table /\ UNCHANGED <<inbox, answered>>
    BY <1>10, TableStays DEF Restart
  <2>2. \A h \in Handlers : session'[h] = Closed /\ writer'[h] = Idle
    BY <1>10 DEF Restart, NewWriter
  <2>3. \A h \in Handlers : HandlerRecord(h)'
    BY <2>2 DEF HandlerRecord, Closed, Idle
  <2>4. SessionsDistinct'
    BY <2>2 DEF SessionsDistinct, Closed
  <2>5. RowsKnown' /\ RowsDistinct'
    BY <2>1 DEF RecordInv, RowsKnown, RowsDistinct
  <2>6. \A a \in answered' : Recorded(a.id, a.decision, a.receipt)'
    BY <2>1 DEF RecordInv, Recorded
  <2> QED
    BY <2>3, <2>4, <2>5, <2>6 DEF RecordInv
<1>11. ASSUME NEW h \in Handlers, Panicked(h)
       PROVE  RecordInv'
  <2>1. /\ session[h].pc = "scope"
        /\ \A g \in Handlers : g # h => session'[g] = session[g]
        /\ session'[h] = Closed
        /\ UNCHANGED <<inbox, answered, auditVars>>
    BY <1>11, <1>b DEF Panicked
  <2>2. writer' = writer /\ Table' = Table
    BY <2>1, TableStays DEF auditVars
  <2>3. HandlerRecord(h)'
    <3>1. writer'[h].pc = "idle"
      BY <1>a, <2>1, <2>2 DEF Fits, Idle
    <3> QED
      BY <2>1, <3>1 DEF HandlerRecord, Closed
  <2>4. \A g \in Handlers : g # h => HandlerRecord(g)'
    BY <1>c, <2>1, <2>2, HandlerSame
  <2>5. SessionsDistinct'
    BY <2>1 DEF RecordInv, SessionsDistinct, Closed
  <2>6. RowsKnown' /\ RowsDistinct'
    BY <2>1, <2>2 DEF RecordInv, RowsKnown, RowsDistinct
  <2>7. \A a \in answered' : Recorded(a.id, a.decision, a.receipt)'
    BY <2>1, <2>2 DEF RecordInv, Recorded
  <2> QED
    BY <2>3, <2>4, <2>5, <2>6, <2>7 DEF RecordInv
<1> QED
  BY <1>1, <1>2, <1>3, <1>4, <1>5, <1>6, <1>7, <1>8, <1>9, <1>10, <1>11
     DEF Next, Evaluate

(* Nothing is recorded at the start.                                       *)
LEMMA RecordInit == Init => RecordInv
<1> SUFFICES ASSUME Init
             PROVE  RecordInv
    OBVIOUS
<1>1. Table = <<>> /\ Len(Table) = 0
  BY DEF Init, AuditInit, Table
<1>2. \A h \in Handlers : session[h] = Closed /\ writer[h] = Idle
  BY DEF Init, AuditInit
<1>3. answered = {}
  BY DEF Init
<1>4. \A h \in Handlers : HandlerRecord(h)
  BY <1>2 DEF HandlerRecord, Closed, Idle
<1> QED
  BY <1>1, <1>2, <1>3, <1>4 DEF RecordInv, RowsKnown, RowsDistinct, SessionsDistinct, Closed

(* No evaluation leaves two events, an event agrees with the answer its    *)
(* evaluation got, and an event ID that is answered is that of the event,  *)
(* however many inserts fail, handlers interleave and processes restart.   *)
THEOREM PipelineAudited == Spec => []AuditedOnce
<1>1. TypeInv /\ RecordInv => AuditedOnce
  <2> SUFFICES ASSUME TypeInv, RecordInv
               PROVE  AuditedOnce
      OBVIOUS
  <2>1. DOMAIN Table = 1..Len(Table)
    BY TableTyped
  <2>2. \A i, j \in DOMAIN Table : Table[i].payload.id = Table[j].payload.id => i = j
    BY <2>1 DEF RecordInv, RowsDistinct
  <2>3. \A a \in answered : Recorded(a.id, a.decision, a.receipt)
    BY DEF RecordInv
  <2> QED
    BY <2>1, <2>2, <2>3 DEF AuditedOnce, Recorded
<1> QED
  BY <1>1, RecordInit, RecordStep, TypeInvariant, PTL DEF Spec

-----------------------------------------------------------------------------
(* Redact: the detections are the matches, each once.                      *)

(* What the detector is given.                                             *)
PiiMatches ==
    /\ \A p \in Pii!Patterns : found[p] \subseteq Pii!Match
    /\ \A p \in Pii!Patterns : \A m, n \in found[p] : m = n \/ Pii!Apart(m, n)

Detection ==
    [pattern : Pii!Patterns, start : 0..Size - 1, end : 1..Size]

(* What the assumption says.                                               *)
LEMMA PiiConstants ==
  /\ Size \in Nat \ {0}
  /\ Pii!Patterns = 1..Len(MarkerLength) /\ Len(MarkerLength) \in Nat
  /\ \A p \in Pii!Patterns : MarkerLength[p] \in Nat \ {0}
BY DetectorAssumption DEF Pii!RedactionAssumption, Pii!Patterns

(* A detection lies within the text.                                       *)
LEMMA DetectionFacts ==
  ASSUME PiiMatches, NEW d \in Pii!Detections(found)
  PROVE  /\ d \in Detection
         /\ d.start < d.end
         /\ [start |-> d.start, end |-> d.end] \in found[d.pattern]
<1>1. PICK p \in Pii!Patterns : \E m \in found[p] :
         d = [pattern |-> p, start |-> m.start, end |-> m.end]
  BY DEF Pii!Detections
<1> PICK m \in found[p] : d = [pattern |-> p, start |-> m.start, end |-> m.end]
  BY <1>1
<1>2. m \in Pii!Match
  BY <1>1 DEF PiiMatches
<1>3. /\ m.start \in 0..Size - 1 /\ m.end \in 1..Size /\ m.start < m.end
      /\ m = [start |-> m.start, end |-> m.end]
  BY <1>2 DEF Pii!Match
<1> QED
  BY <1>1, <1>3 DEF Detection

(* There are finitely many of them.                                        *)
LEMMA DetectionsFinite ==
  ASSUME PiiMatches
  PROVE  IsFiniteSet(Pii!Detections(found))
<1> DEFINE P == 1..Len(MarkerLength)
           S == P \X (0..Size - 1) \X (1..Size)
           mk == [t \in S |-> [pattern |-> t[1], start |-> t[2], end |-> t[3]]]
<1>1. IsFiniteSet(P) /\ IsFiniteSet(0..Size - 1) /\ IsFiniteSet(1..Size)
  BY PiiConstants, FS_Interval
<1>2. IsFiniteSet(Detection)
  <2>1. IsFiniteSet(P \X ((0..Size - 1) \X (1..Size)))
    BY <1>1, FS_Product, Zenon
  <2> DEFINE Q == P \X ((0..Size - 1) \X (1..Size))
             g == [t \in Q |-> [pattern |-> t[1], start |-> t[2][1], end |-> t[2][2]]]
  <2>2. g \in [Q -> Detection]
    BY PiiConstants DEF Detection
  <2>3. \A d \in Detection : \E t \in Q : g[t] = d
    <3> TAKE d \in Detection
    <3>1. <<d.pattern, <<d.start, d.end>>>> \in Q
      BY PiiConstants DEF Detection
    <3>2. g[<<d.pattern, <<d.start, d.end>>>>] = d
      BY <3>1 DEF Detection
    <3> QED
      BY <3>1, <3>2
  <2>4. g \in Surjection(Q, Detection)
    BY <2>2, <2>3, Zenon DEF Surjection
  <2> QED
    BY <2>1, <2>4, FS_Surjection, Zenon
<1>3. Pii!Detections(found) \subseteq Detection
  BY DetectionFacts
<1> QED
  BY <1>2, <1>3, FS_Subset, Zenon

(* The detections before another one, and the place that gives it.         *)
Left(d) == {e \in Pii!Detections(found) : Pii!Before(e, d)}

Rank(d) == Cardinality(Left(d)) + 1

(* Two of them are never at the same place of the order.                   *)
LEMMA RankOrders ==
  ASSUME PiiMatches
  PROVE  /\ \A d \in Pii!Detections(found) :
               /\ Cardinality(Left(d)) \in Nat
               /\ Rank(d) \in 1..Cardinality(Pii!Detections(found))
         /\ \A d, e \in Pii!Detections(found) : Rank(d) = Rank(e) => d = e
<1> DEFINE D == Pii!Detections(found)
<1> HIDE DEF D
<1>1. IsFiniteSet(D) /\ Cardinality(D) \in Nat
  BY DetectionsFinite, FS_CardinalityType, Zenon DEF D
<1>2. \A d \in D : IsFiniteSet(Left(d)) /\ Cardinality(Left(d)) \in Nat
  <2> TAKE d \in D
  <2>1. Left(d) \in SUBSET D
    BY DEF Left, D
  <2> QED
    BY <1>1, <2>1, FS_Subset, FS_CardinalityType, Zenon
<1>3. \A d \in D : d.pattern \in Int /\ d.start \in Int
  <2> TAKE d \in D
  <2>1. d.pattern \in 1..Len(MarkerLength) /\ d.start \in 0..Size - 1
    BY DetectionFacts, PiiConstants DEF Detection, D
  <2> QED
    BY <2>1, PiiConstants
<1>4. ASSUME NEW d \in D PROVE Rank(d) \in 1..Cardinality(D)
  <2>1. d \notin Left(d)
    BY <1>3, <1>4 DEF Left, Pii!Before
  <2>2. Left(d) \in SUBSET (D \ {d})
    BY <2>1 DEF Left, D
  <2>3. IsFiniteSet(D \ {d}) /\ Cardinality(D \ {d}) = Cardinality(D) - 1
    BY <1>1, <1>4, FS_RemoveElement
  <2>4. Cardinality(Left(d)) <= Cardinality(D) - 1
    BY <2>2, <2>3, FS_Subset
  <2> QED
    BY <2>4, <1>1, <1>2, <1>4 DEF Rank
<1>5. ASSUME NEW d \in D, NEW e \in D, Pii!Before(d, e) PROVE Rank(d) < Rank(e)
  <2>1. d \notin Left(d)
    BY <1>3, <1>5 DEF Left, Pii!Before
  <2>2. Left(d) \cup {d} \in SUBSET Left(e)
    BY <1>3, <1>5 DEF Left, Pii!Before, D
  <2>3. Cardinality(Left(d) \cup {d}) = Cardinality(Left(d)) + 1
    BY <1>2, <1>5, <2>1, FS_AddElement
  <2>4. Cardinality(Left(d) \cup {d}) <= Cardinality(Left(e))
    BY <1>2, <1>5, <2>2, FS_Subset
  <2> QED
    BY <2>3, <2>4, <1>2, <1>5 DEF Rank
<1>6. ASSUME NEW d \in D, NEW e \in D, ~Pii!Before(d, e), ~Pii!Before(e, d)
      PROVE  d = e
  <2>1. d.pattern = e.pattern /\ d.start = e.start
    BY <1>3, <1>6 DEF Pii!Before
  <2>2. /\ [start |-> d.start, end |-> d.end] \in found[d.pattern]
        /\ [start |-> e.start, end |-> e.end] \in found[d.pattern]
        /\ d \in Detection /\ e \in Detection
        /\ d.start < d.end /\ e.start < e.end
    BY <2>1, <1>6, DetectionFacts DEF D
  <2>3. d.end = e.end
    <3> DEFINE a == [start |-> d.start, end |-> d.end]
               b == [start |-> e.start, end |-> e.end]
    <3>1. a = b \/ a.end <= b.start \/ b.end <= a.start
      BY <2>2 DEF PiiMatches, Pii!Apart, Detection
    <3>2. \A x \in 1..Size, y \in 1..Size, z \in 0..Size - 1 :
             z < x /\ z < y => ~(x <= z) /\ ~(y <= z)
      BY PiiConstants
    <3>3. d.end \in 1..Size /\ e.end \in 1..Size /\ d.start \in 0..Size - 1
      BY <2>2 DEF Detection
    <3> QED
      BY <2>1, <2>2, <3>1, <3>2, <3>3
  <2> QED
    BY <2>1, <2>2, <2>3 DEF Detection
<1>7. ASSUME NEW d \in D, NEW e \in D, Rank(d) = Rank(e) PROVE d = e
  <2>1. ~(Rank(d) < Rank(e)) /\ ~(Rank(e) < Rank(d))
    BY <1>4, <1>7, <1>1
  <2> QED
    BY <2>1, <1>5, <1>6, <1>7
<1> QED
  BY <1>2, <1>4, <1>7 DEF D

(* Every detection has its place, and every place its detection.           *)
LEMMA DetectIsExact ==
  ASSUME PiiMatches
  PROVE  LET ds == Pii!Detect(found)
         IN  /\ Len(ds) \in Nat /\ ds \in [1..Len(ds) -> Pii!Detections(found)]
             /\ \A d \in Pii!Detections(found) : \E k \in 1..Len(ds) : ds[k] = d
<1> DEFINE D == Pii!Detections(found)
           n == Cardinality(D)
           ds == Pii!Detect(found)
           rank == [d \in D |-> Rank(d)]
<1>1. IsFiniteSet(D) /\ n \in Nat
  BY DetectionsFinite, FS_CardinalityType, Zenon
<1>2. ds = [k \in 1..n |-> CHOOSE d \in D : Rank(d) = k]
  <2>1. ds = [k \in 1..n |-> CHOOSE d \in D : Cardinality(Left(d)) = k - 1]
    BY Zenon DEF Pii!Detect, Left, Pii!Cardinality, Cardinality, Pii!IsFiniteSet, IsFiniteSet
  <2>2. \A k \in 1..n, d \in D : Cardinality(Left(d)) = k - 1 <=> Rank(d) = k
    <3>1. \A d \in D : Cardinality(Left(d)) \in Nat
      BY RankOrders, Zenon
    <3>2. \A k \in 1..n, c \in Nat : c = k - 1 <=> c + 1 = k
      BY <1>1
    <3> QED
      BY <3>1, <3>2, Zenon DEF Rank
  <2>3. \A k \in 1..n : (CHOOSE d \in D : Cardinality(Left(d)) = k - 1)
                         = (CHOOSE d \in D : Rank(d) = k)
    <3> TAKE k \in 1..n
    <3>1. \A d : (d \in D /\ Cardinality(Left(d)) = k - 1) <=> (d \in D /\ Rank(d) = k)
      BY <2>2
    <3> QED
      BY <3>1, Zenon
  <2> QED
    BY <2>1, <2>3, Zenon
<1>3. rank \in Injection(D, 1..n)
  BY RankOrders DEF Injection, IsInjective
<1>4. IsFiniteSet(1..n) /\ Cardinality(1..n) = n
  BY <1>1, FS_Interval
<1>5. rank \in Surjection(D, 1..n)
  BY <1>1, <1>3, <1>4, FS_Injection
<1>6. \A k \in 1..n : \E d \in D : Rank(d) = k
  BY <1>5 DEF Surjection
<1>7. \A k \in 1..n : ds[k] \in D /\ Rank(ds[k]) = k
  BY <1>2, <1>6
<1>8. Len(ds) = n /\ ds \in [1..n -> D]
  BY <1>1, <1>2, <1>7
<1>9. \A d \in D : Rank(d) \in 1..n /\ ds[Rank(d)] = d
  BY <1>7, RankOrders
<1> QED
  BY <1>1, <1>8, <1>9

(* Every set of numbers that is not empty has a least one: the induction   *)
(* of the next lemmas.                                                     *)
LEMMA LeastNumber ==
  ASSUME NEW T, T \subseteq Nat, T # {}
  PROVE  \E m \in T : \A k \in T : m <= k
<1>1. PICK m \in T : \A k \in T : <<k, m>> \notin OpToRel(<, Nat)
  BY WFMin, NatLessThanWellFounded, Zenon
<1>2. \A k \in T : ~(k < m)
  BY <1>1, Zenon DEF OpToRel
<1> QED
  BY <1>2

(* What a replacement adds to the length, and the sums of the first ones.  *)
GrowthNext(ds, g, j) ==
    g + MarkerLength[ds[j].pattern] - (ds[j].end - ds[j].start)

Growing(ds, n, g) ==
    g = [j \in 0..n |-> IF j = 0 THEN 0 ELSE GrowthNext(ds, g[j - 1], j)]

(* The sums exist for every number of detections.                          *)
LEMMA GrowingExists ==
  ASSUME NEW ds, NEW n \in Nat
  PROVE  \E g : Growing(ds, n, g)
<1> DEFINE T == {k \in Nat : ~(\E g : Growing(ds, k, g))}
<1> SUFFICES ASSUME T # {} PROVE FALSE
  BY Zenon
<1>1. PICK m \in T : \A k \in T : m <= k
  <2>1. T \subseteq Nat
    OBVIOUS
  <2> QED
    BY <2>1, LeastNumber, Zenon
<1>2. m \in Nat /\ ~(\E g : Growing(ds, m, g))
  BY <1>1
<1>3. CASE m = 0
  <2>1. Growing(ds, 0, [j \in 0..0 |-> 0])
    BY DEF Growing
  <2> QED
    BY <2>1, <1>2, <1>3
<1>4. CASE m > 0
  <2>1. m - 1 \notin T /\ m - 1 \in Nat
    BY <1>1, <1>2, <1>4
  <2>2. PICK g : Growing(ds, m - 1, g)
    BY <2>1
  <2>3. \A j \in 0..(m - 1) : g[j] = IF j = 0 THEN 0 ELSE GrowthNext(ds, g[j - 1], j)
    BY <2>2, Zenon DEF Growing
  <2> DEFINE h == [j \in 0..m |-> IF j = 0 THEN 0 ELSE GrowthNext(ds, g[j - 1], j)]
  <2>4. \A j \in 0..(m - 1) : h[j] = g[j]
    BY <2>1, <2>3, <1>2
  <2>5. \A j \in 0..m : j # 0 => h[j - 1] = g[j - 1]
    <3>1. \A j \in 0..m : j # 0 => j - 1 \in 0..(m - 1)
      BY <1>2
    <3> QED
      BY <3>1, <2>4
  <2>6. h = [j \in 0..m |-> IF j = 0 THEN 0 ELSE GrowthNext(ds, h[j - 1], j)]
    <3> HIDE DEF h
    <3>1. h = [j \in 0..m |-> IF j = 0 THEN 0 ELSE GrowthNext(ds, g[j - 1], j)]
      BY DEF h
    <3> QED
      BY <3>1, <2>5
  <2> QED
    BY <2>6, <1>2, Zenon DEF Growing
<1> QED
  BY <1>2, <1>3, <1>4

(* So Growth adds what each marker has more than its match.                *)
LEMMA GrowthFacts ==
  ASSUME NEW ds, Len(ds) \in Nat
  PROVE  /\ Pii!Growth(ds, 0) = 0
         /\ \A k \in 1..Len(ds) :
               Pii!Growth(ds, k) = GrowthNext(ds, Pii!Growth(ds, k - 1), k)
<1>1. PICK g : Growing(ds, Len(ds), g)
  BY GrowingExists, Zenon
<1> DEFINE f == CHOOSE h : h = [j \in 0..Len(ds) |-> IF j = 0 THEN 0
                        ELSE h[j - 1] + MarkerLength[ds[j].pattern]
                                 - (ds[j].end - ds[j].start)]
<1>2. f = [j \in 0..Len(ds) |-> IF j = 0 THEN 0
                        ELSE f[j - 1] + MarkerLength[ds[j].pattern]
                                 - (ds[j].end - ds[j].start)]
  BY <1>1, Zenon DEF Growing, GrowthNext
<1>3. \A k : Pii!Growth(ds, k) = f[k]
  BY Zenon DEF Pii!Growth
<1> HIDE DEF f
<1>4. f[0] = 0 /\ \A k \in 1..Len(ds) : f[k] = GrowthNext(ds, f[k - 1], k)
  BY <1>2 DEF GrowthNext
<1> QED
  BY <1>3, <1>4

\* s is the text r of n cells with z empty ones for its cells a + 1 .. b.
Spliced(r, n, s, a, b, z) ==
    /\ \A c \in 1..a : s[c] = r[c]
    /\ \A c \in (a + 1)..(a + z) : s[c] = 0
    /\ \A c \in (a + z + 1)..(n + z - (b - a)) : s[c] = r[c - a - z + b]

Marker(z) == [c \in 1..z |-> 0]

SpliceOf(r, a, b, z) == SubSeq(r, 1, a) \o Marker(z) \o SubSeq(r, b + 1, Len(r))

SpliceIs(r, s, a, b, z) ==
    s \in Seq(Int) /\ Len(s) = Len(r) + z - (b - a) /\ Spliced(r, Len(r), s, a, b, z)

(* What one replacement leaves: the text before the match, the marker, and *)
(* the text behind the match.                                              *)
LEMMA SpliceFacts ==
  ASSUME NEW r \in Seq(Int), NEW a \in Nat, NEW b \in Nat, NEW n \in Nat,
         a < b, b <= Len(r)
  PROVE  SpliceIs(r, SpliceOf(r, a, b, n), a, b, n)
<1> DEFINE u == SubSeq(r, 1, a)
           v == [c \in 1..n |-> 0]
           w == SubSeq(r, b + 1, Len(r))
<1>1. u \in Seq(Int) /\ Len(u) = a /\ \A c \in 1..a : u[c] = r[c]
  OBVIOUS
<1>2. v \in Seq(Int) /\ Len(v) = n /\ \A c \in 1..n : v[c] = 0
  OBVIOUS
<1>3. /\ w \in Seq(Int) /\ Len(w) = Len(r) - b
      /\ \A c \in 1..(Len(r) - b) : w[c] = r[c + b]
  OBVIOUS
<1> HIDE DEF u, v, w
<1> DEFINE x == u \o v
<1>4. /\ x \in Seq(Int) /\ Len(x) = a + n
      /\ \A c \in 1..(a + n) : x[c] = IF c <= a THEN u[c] ELSE v[c - a]
  <2>1. /\ x \in Seq(Int) /\ Len(x) = Len(u) + Len(v)
        /\ \A c \in 1..(Len(u) + Len(v)) :
              x[c] = IF c <= Len(u) THEN u[c] ELSE v[c - Len(u)]
    BY <1>1, <1>2, ConcatProperties, Zenon
  <2> HIDE DEF x
  <2> QED
    BY <2>1, <1>1, <1>2
<1> HIDE DEF x
<1>0. SpliceOf(r, a, b, n) = x \o w
  BY Zenon DEF SpliceOf, Marker, x, u, v, w
<1> DEFINE t == x \o w
<1>5. /\ t \in Seq(Int) /\ Len(t) = a + n + (Len(r) - b)
      /\ \A c \in 1..(a + n + (Len(r) - b)) :
            t[c] = IF c <= a + n THEN x[c] ELSE w[c - (a + n)]
  <2>1. /\ t \in Seq(Int) /\ Len(t) = Len(x) + Len(w)
        /\ \A c \in 1..(Len(x) + Len(w)) :
              t[c] = IF c <= Len(x) THEN x[c] ELSE w[c - Len(x)]
    BY <1>3, <1>4, ConcatProperties, Zenon
  <2> HIDE DEF t
  <2> QED
    BY <2>1, <1>3, <1>4
<1> HIDE DEF t
<1>6. Len(r) \in Nat
  OBVIOUS
<1>7. ASSUME NEW c \in 1..a PROVE t[c] = r[c]
  <2>1. c \in 1..(a + n + (Len(r) - b)) /\ c <= a + n /\ c \in 1..(a + n) /\ c <= a
    BY <1>6
  <2> QED
    BY <2>1, <1>1, <1>4, <1>5
<1>8. ASSUME NEW c \in (a + 1)..(a + n) PROVE t[c] = 0
  <2>1. /\ c \in 1..(a + n + (Len(r) - b)) /\ c <= a + n /\ c \in 1..(a + n)
        /\ ~(c <= a) /\ c - a \in 1..n
    BY <1>6
  <2> QED
    BY <2>1, <1>2, <1>4, <1>5
<1>9. ASSUME NEW c \in (a + n + 1)..Len(t) PROVE t[c] = r[c - a - n + b]
  <2>1. /\ c \in 1..(a + n + (Len(r) - b)) /\ ~(c <= a + n)
        /\ c - (a + n) \in 1..(Len(r) - b) /\ c - (a + n) + b = c - a - n + b
    <3>1. \A q \in Nat : \A y \in (a + n + 1)..(a + n + (q - b)) :
             /\ y \in 1..(a + n + (q - b)) /\ ~(y <= a + n)
             /\ y - (a + n) \in 1..(q - b) /\ y - (a + n) + b = y - a - n + b
      OBVIOUS
    <3> QED
      BY <3>1, <1>5, <1>6, Zenon
  <2>2. t[c] = w[c - (a + n)]
    BY <2>1, <1>5, Zenon
  <2>3. w[c - (a + n)] = r[c - (a + n) + b]
    BY <2>1, <1>3, Zenon
  <2> QED
    BY <2>1, <2>2, <2>3, Zenon
<1>10. Len(t) = Len(r) + n - (b - a)
  BY <1>5, <1>6
<1> QED
  <2>1. \A c \in (a + n + 1)..(Len(r) + n - (b - a)) : t[c] = r[c - a - n + b]
    BY <1>9, <1>10
  <2>2. SpliceIs(r, t, a, b, n)
    BY <2>1, <1>5, <1>7, <1>8, <1>10, Zenon DEF SpliceIs, Spliced
  <2> QED
    BY <2>2, <1>0, Zenon DEF t


-----------------------------------------------------------------------------
\* What DetectIsExact says of what Detect returned.
Detected ==
    /\ Len(detections) \in Nat
    /\ detections \in [1..Len(detections) -> Pii!Detections(found)]
    /\ \A d \in Pii!Detections(found) :
          \E k \in 1..Len(detections) : detections[k] = d

(* The inductive invariant of Redact: the detections behind the k-th are   *)
(* replaced, and the text up to the first of them is as it was.            *)

Untouched(k) ==
    IF k = Len(detections) THEN Size ELSE detections[k + 1].start

\* The cells of the matches that have been replaced.
Hidden(k) ==
    {x \in 1..Size : \E l \in (k + 1)..Len(detections) :
        detections[l].start < x /\ x <= detections[l].end}

\* Of a text r of n cells: the first u are as they were, and behind them
\* everything of the rest that is not in H is left, in its order.
Exact(r, n, u, H) ==
    /\ \A c \in 1..u : r[c] = c
    /\ \A c \in (u + 1)..n : r[c] # 0 => r[c] \in (u + 1)..Size /\ r[c] \notin H
    /\ \A x \in (u + 1)..Size : x \in H \/ \E c \in (u + 1)..n : r[c] = x
    /\ \A c, d \in (u + 1)..n :
          (c < d /\ r[c] # 0 /\ r[d] # 0) => r[c] < r[d]

Rewritten(r, k) ==
    /\ r \in Seq(Int)
    /\ Len(r) = Size + Pii!Growth(detections, Len(detections))
                          - Pii!Growth(detections, k)
    /\ Untouched(k) <= Len(r)
    /\ Exact(r, Len(r), Untouched(k), Hidden(k))

PiiInv ==
    /\ PiiMatches
    /\ Detected
    /\ Pii!InOrder =>
          /\ place \in 0..Len(detections)
          /\ outcome = "running" \/ (outcome = "returned" /\ place = 0)
          /\ Rewritten(result, place)

(* The detections of an ordered text, and the numbers they are made of.    *)
LEMMA OrderedFacts ==
  ASSUME PiiMatches, Detected, Pii!InOrder
  PROVE  /\ Len(detections) \in Nat /\ DOMAIN detections = 1..Len(detections)
         /\ \A k \in 1..Len(detections) :
               /\ detections[k] \in Detection
               /\ detections[k].start \in Nat /\ detections[k].end \in Nat
               /\ detections[k].start < detections[k].end
               /\ detections[k].end <= Size
               /\ MarkerLength[detections[k].pattern] \in Nat
         /\ \A k, l \in 1..Len(detections) :
               k < l => detections[k].end <= detections[l].start
<1>1. /\ Len(detections) \in Nat
      /\ detections \in [1..Len(detections) -> Pii!Detections(found)]
  BY DEF Detected
<1>2. \A k \in 1..Len(detections) :
         /\ detections[k] \in Detection
         /\ detections[k].start < detections[k].end
  BY <1>1, DetectionFacts
<1>3. \A d \in Detection : /\ d.start \in Nat /\ d.end \in Nat /\ d.end <= Size
                           /\ MarkerLength[d.pattern] \in Nat
  BY PiiConstants DEF Detection
<1> QED
  BY <1>1, <1>2, <1>3 DEF Pii!InOrder

(* What is added up in Growth are numbers.                                 *)
LEMMA GrowthType ==
  ASSUME PiiMatches, Detected, Pii!InOrder
  PROVE  \A k \in 0..Len(detections) : Pii!Growth(detections, k) \in Int
<1> DEFINE N == Len(detections)
           G(k) == Pii!Growth(detections, k)
           T == {k \in 0..N : G(k) \notin Int}
<1>1. N \in Nat
  BY OrderedFacts
<1>2. G(0) = 0 /\ \A k \in 1..N : G(k) = GrowthNext(detections, G(k - 1), k)
  BY <1>1, GrowthFacts, Zenon
<1>3. \A k \in 1..N, g \in Int : GrowthNext(detections, g, k) \in Int
  <2> TAKE k \in 1..N, g \in Int
  <2>1. /\ detections[k].start \in Nat /\ detections[k].end \in Nat
        /\ MarkerLength[detections[k].pattern] \in Nat
    BY OrderedFacts
  <2> QED
    BY <2>1 DEF GrowthNext
<1> HIDE DEF N, G
<1> SUFFICES ASSUME T # {} PROVE FALSE
  BY DEF N, G
<1>4. PICK m \in T : \A k \in T : m <= k
  <2>1. T \subseteq Nat
    BY <1>1
  <2> QED
    BY <2>1, LeastNumber, Zenon
<1>5. m \in 1..N /\ m - 1 \in 0..N /\ m - 1 \notin T
  BY <1>1, <1>2, <1>4
<1>6. G(m - 1) \in Int
  BY <1>5
<1> QED
  BY <1>2, <1>3, <1>4, <1>5, <1>6

(* Where the rewritten part of the text begins after one replacement, and  *)
(* what is hidden then.                                                    *)
LEMMA HiddenNext ==
  ASSUME PiiMatches, Detected, Pii!InOrder,
         NEW k \in 1..Len(detections)
  PROVE  /\ Untouched(k - 1) = detections[k].start
         /\ detections[k].end <= Untouched(k) /\ Untouched(k) \in Nat
         /\ Untouched(k) <= Size
         /\ Hidden(k - 1) = Hidden(k) \cup ((detections[k].start + 1)..detections[k].end)
         /\ \A x \in Hidden(k) : Untouched(k) < x
<1> DEFINE N == Len(detections)
           S(l) == detections[l].start
           E(l) == detections[l].end
<1>1. N \in Nat /\ k \in 1..N /\ Size \in Nat
  BY OrderedFacts, PiiConstants
<1>2. \A l \in 1..N : S(l) \in Nat /\ E(l) \in Nat /\ S(l) < E(l) /\ E(l) <= Size
  BY OrderedFacts
<1>3. \A j, l \in 1..N : j < l => E(j) <= S(l)
  BY OrderedFacts
<1>4. Untouched(k - 1) = S(k)
  BY <1>1 DEF Untouched
<1>5. Untouched(k) = IF k = N THEN Size ELSE S(k + 1)
  BY DEF Untouched
<1>6. \A j : Hidden(j) = {x \in 1..Size : \E l \in (j + 1)..N : S(l) < x /\ x <= E(l)}
  BY DEF Hidden
<1> HIDE DEF N, S, E
<1>7. k # N => k + 1 \in 1..N /\ k < k + 1
  BY <1>1
<1>8. E(k) <= Untouched(k) /\ Untouched(k) \in Nat /\ Untouched(k) <= Size
  <2>1. CASE k = N
    BY <2>1, <1>1, <1>2, <1>5
  <2>2. CASE k # N
    <3>1. /\ E(k) <= S(k + 1) /\ S(k + 1) \in Nat /\ E(k + 1) \in Nat
          /\ S(k + 1) < E(k + 1) /\ E(k + 1) <= Size
      BY <2>2, <1>1, <1>2, <1>3, <1>7
    <3> QED
      BY <3>1, <2>2, <1>1, <1>5
  <2> QED
    BY <2>1, <2>2
<1>9. Hidden(k - 1) = Hidden(k) \cup ((S(k) + 1)..E(k))
  <2>1. (k - 1) + 1 = k /\ \A l : l \in k..N <=> l = k \/ l \in (k + 1)..N
    BY <1>1
  <2>2. \A x : x \in (S(k) + 1)..E(k) <=> x \in 1..Size /\ S(k) < x /\ x <= E(k)
    BY <1>1, <1>2
  <2> QED
    BY <2>1, <2>2, <1>6, Zenon
<1>10. ASSUME NEW x \in Hidden(k) PROVE Untouched(k) < x
  <2>1. PICK l \in (k + 1)..N : S(l) < x /\ x \in 1..Size
    BY <1>6, <1>10
  <2>2. l \in 1..N /\ k # N /\ k + 1 \in 1..N /\ (l = k + 1 \/ k + 1 < l)
    BY <1>1, <2>1
  <2>3. /\ S(k + 1) \in Nat /\ E(k + 1) \in Nat /\ S(l) \in Nat
        /\ S(k + 1) < E(k + 1) /\ (l = k + 1 \/ E(k + 1) <= S(l))
    BY <2>2, <1>2, <1>3
  <2>4. Untouched(k) = S(k + 1)
    BY <2>2, <1>5
  <2> QED
    BY <2>1, <2>3, <2>4, <1>1
<1> QED
  BY <1>4, <1>8, <1>9, <1>10 DEF S, E

(* One replacement keeps the text around the match.                        *)
LEMMA SplicedExact ==
  ASSUME NEW a \in Nat, NEW b \in Nat, NEW z \in Nat, NEW u \in Nat, NEW n \in Nat,
         a < b, b <= u, u <= Size, u <= n, NEW r, NEW s, NEW H, NEW m \in Nat,
         m = n + z - (b - a), \A x \in H : u < x,
         Exact(r, n, u, H), Spliced(r, n, s, a, b, z)
  PROVE  Exact(s, m, a, H \cup ((a + 1)..b))
<1> DEFINE e(c) == c - a - z + b
<1>1. Size \in Nat
  BY PiiConstants
<1>2. \A c \in 1..u : r[c] = c
  BY Zenon DEF Exact
<1>3. \A c \in (u + 1)..n : r[c] # 0 => r[c] \in (u + 1)..Size /\ r[c] \notin H
  BY Zenon DEF Exact
<1>4. \A x \in (u + 1)..Size : x \in H \/ \E c \in (u + 1)..n : r[c] = x
  BY Zenon DEF Exact
<1>5. \A c, d \in (u + 1)..n : (c < d /\ r[c] # 0 /\ r[d] # 0) => r[c] < r[d]
  BY Zenon DEF Exact
<1>6. \A c \in 1..a : s[c] = r[c]
  BY Zenon DEF Spliced
<1>7. \A c \in (a + 1)..(a + z) : s[c] = 0
  BY Zenon DEF Spliced
<1>8. \A c \in (a + z + 1)..m : s[c] = r[e(c)]
  BY Zenon DEF Spliced
<1>9. \A c \in (a + 1)..m : c \in (a + 1)..(a + z) \/ c \in (a + z + 1)..m
  OBVIOUS
<1>10. \A c \in (a + z + 1)..m : e(c) \in (b + 1)..n
  OBVIOUS
<1>11. \A c \in (b + 1)..n : c \in (b + 1)..u \/ c \in (u + 1)..n
  OBVIOUS
<1>12. \A c \in (b + 1)..u : c \in 1..u /\ c \in (b + 1)..Size
  BY <1>1
<1>13. \A c \in (u + 1)..Size : c \in (b + 1)..Size
  BY <1>1
<1>14. \A c \in (a + 1)..m, d \in (a + 1)..m : c < d => e(c) < e(d)
  OBVIOUS
<1>15. \A c \in (b + 1)..u : c \notin H
  OBVIOUS
<1>16. \A c \in (b + 1)..Size : c \in (a + 1)..Size /\ c \notin (a + 1)..b
  BY <1>1
<1>17. \A c \in 1..a : c \in 1..u
  OBVIOUS
<1>18. \A c \in (b + 1)..u, d \in (u + 1)..Size : c < d
  BY <1>1
<1>19. \A c \in (u + 1)..n, d \in (b + 1)..u : ~(c < d)
  OBVIOUS
<1>20. \A x \in (a + 1)..Size : x \in (a + 1)..b \/ x \in (b + 1)..u \/ x \in (u + 1)..Size
  BY <1>1
<1>21. \A c \in (b + 1)..n : \E d \in (a + z + 1)..m : e(d) = c /\ d \in (a + 1)..m
  <2> TAKE c \in (b + 1)..n
  <2> DEFINE d == c - b + z + a
  <2>1. d \in (a + z + 1)..m /\ e(d) = c /\ d \in (a + 1)..m
    OBVIOUS
  <2> QED
    BY <2>1
<1>22. \A c : c \in (b + 1)..u \/ c \in (u + 1)..n => c \in (b + 1)..n
  OBVIOUS
<1> HIDE DEF e
<1>23. ASSUME NEW c \in (a + 1)..m, s[c] # 0
       PROVE  /\ e(c) \in (b + 1)..n /\ s[c] = r[e(c)]
              /\ \/ e(c) \in (b + 1)..u /\ s[c] = e(c)
                 \/ e(c) \in (u + 1)..n /\ s[c] \in (u + 1)..Size /\ s[c] \notin H
  <2>1. c \in (a + z + 1)..m
    BY <1>7, <1>9, <1>23, Zenon
  <2>2. e(c) \in (b + 1)..n /\ s[c] = r[e(c)]
    BY <2>1, <1>8, <1>10, Zenon
  <2> QED
    BY <2>2, <1>2, <1>3, <1>11, <1>12, <1>23, Zenon
<1>24. \A c \in 1..a : s[c] = c
  BY <1>2, <1>6, <1>17, Zenon
<1>25. ASSUME NEW c \in (a + 1)..m, s[c] # 0
       PROVE  s[c] \in (a + 1)..Size /\ s[c] \notin H \cup ((a + 1)..b)
  BY <1>12, <1>13, <1>15, <1>16, <1>23, <1>25, Zenon
<1>26. ASSUME NEW x \in (a + 1)..Size, x \notin H \cup ((a + 1)..b)
       PROVE  \E c \in (a + 1)..m : s[c] = x
  <2>1. \E c \in (b + 1)..n : r[c] = x
    <3>1. CASE x \in (b + 1)..u
      BY <3>1, <1>2, <1>12, <1>22, Zenon
    <3>2. CASE x \in (u + 1)..Size
      BY <3>2, <1>4, <1>22, <1>26, Zenon
    <3> QED
      BY <3>1, <3>2, <1>20, <1>26, Zenon
  <2>2. PICK c \in (b + 1)..n : r[c] = x
    BY <2>1
  <2>3. PICK d \in (a + z + 1)..m : e(d) = c /\ d \in (a + 1)..m
    BY <1>21, Zenon
  <2>4. s[d] = x
    BY <2>2, <2>3, <1>8, Zenon
  <2> QED
    BY <2>3, <2>4, Zenon
<1>27. ASSUME NEW c \in (a + 1)..m, NEW d \in (a + 1)..m,
              c < d, s[c] # 0, s[d] # 0
       PROVE  s[c] < s[d]
  <2>1. e(c) < e(d) /\ s[c] = r[e(c)] /\ s[d] = r[e(d)]
    BY <1>14, <1>23, <1>27, Zenon
  <2>2. CASE e(c) \in (b + 1)..u /\ s[c] = e(c)
    BY <2>1, <2>2, <1>18, <1>23, <1>27, Zenon
  <2>3. CASE e(c) \in (u + 1)..n
    <3>1. e(d) \in (u + 1)..n
      BY <2>1, <2>3, <1>19, <1>23, <1>27, Zenon
    <3> QED
      BY <2>1, <2>3, <3>1, <1>5, <1>27, Zenon
  <2> QED
    BY <2>2, <2>3, <1>23, <1>27, Zenon
<1> QED
  BY <1>24, <1>25, <1>26, <1>27, Zenon DEF Exact

(* One turn of the loop.                                                   *)
LEMMA RewriteNext ==
  ASSUME PiiMatches, Detected, Pii!InOrder,
         NEW k \in 1..Len(detections), NEW r, Rewritten(r, k)
  PROVE  /\ detections[k].end <= Len(r)
         /\ Rewritten(SubSeq(r, 1, detections[k].start)
                \o [c \in 1..MarkerLength[detections[k].pattern] |-> 0]
                \o SubSeq(r, detections[k].end + 1, Len(r)), k - 1)
<1> DEFINE a == detections[k].start
           b == detections[k].end
           z == MarkerLength[detections[k].pattern]
           u == Untouched(k)
           G(j) == Pii!Growth(detections, j)
           N == Len(detections)
           n == Len(r)
           s == SpliceOf(r, a, b, z)
           m == Len(s)
<1>1. a \in Nat /\ b \in Nat /\ z \in Nat /\ a < b /\ N \in Nat
  BY OrderedFacts
<1>2. /\ Untouched(k - 1) = a /\ b <= u /\ u \in Nat /\ u <= Size
      /\ Hidden(k - 1) = Hidden(k) \cup ((a + 1)..b)
      /\ \A x \in Hidden(k) : u < x
  BY HiddenNext
<1>3. /\ r \in Seq(Int) /\ u <= n /\ Exact(r, n, u, Hidden(k))
      /\ n = Size + G(N) - G(k)
  BY Zenon DEF Rewritten
<1>4. Size \in Nat
  BY PiiConstants
<1>5. n \in Nat
  BY <1>3
<1>6. G(k) = G(k - 1) + z - (b - a)
  BY <1>1, GrowthFacts, Zenon DEF GrowthNext
<1>7. k - 1 \in 0..N /\ k \in 0..N /\ N \in 0..N
  BY <1>1
<1>8. G(k) \in Int /\ G(k - 1) \in Int /\ G(N) \in Int
  BY <1>7, GrowthType, Zenon
<1> HIDE DEF a, b, z, u, G, N
<1>9. b <= n
  BY <1>1, <1>2, <1>3, <1>5
<1>10. /\ s \in Seq(Int) /\ m = n + z - (b - a) /\ Spliced(r, n, s, a, b, z)
  BY <1>1, <1>3, <1>9, SpliceFacts, Zenon DEF SpliceIs
<1> HIDE DEF s, n, m
<1>11. m \in Nat /\ a <= m
  BY SMTT(30), <1>1, <1>2, <1>3, <1>5, <1>9, <1>10
<1>12. Exact(s, m, a, Hidden(k) \cup ((a + 1)..b))
  BY <1>1, <1>2, <1>3, <1>5, <1>10, <1>11, SplicedExact, Zenon
<1>13. m = Size + G(N) - G(k - 1)
  <2>1. n = Size + G(N) - G(k) /\ m = n + z - (b - a)
    BY <1>3, <1>10, Zenon
  <2>2. /\ n \in Int /\ Size \in Int /\ m \in Int /\ z \in Int
        /\ a \in Int /\ b \in Int
    BY <1>1, <1>4, <1>5, <1>11
  <2>3. Size + G(N) - G(k) + z - (b - a) = Size + G(N) - G(k - 1)
    BY <2>2, <1>6, <1>8
  <2> QED
    BY <2>1, <2>3, Zenon
<1>14. Rewritten(s, k - 1)
  <2>1. Len(s) = m
    BY Zenon DEF m
  <2> QED
    BY <2>1, <1>2, <1>10, <1>11, <1>12, <1>13, Zenon DEF Rewritten, G, N
<1> QED
  BY <1>9, <1>14, Zenon DEF s, a, b, z, n, SpliceOf, Marker

(* Every call starts with its text as it was.                              *)
LEMMA PiiStart ==
  Pii!Init => PiiInv
<1> SUFFICES ASSUME Pii!Init PROVE PiiInv
  OBVIOUS
<1>1. PiiMatches
  <2>1. found \in [Pii!Patterns -> Pii!FindAll]
    BY Zenon DEF Pii!Init
  <2>2. ASSUME NEW p \in Pii!Patterns
        PROVE  /\ found[p] \subseteq Pii!Match
               /\ \A m, n \in found[p] : m = n \/ Pii!Apart(m, n)
    <3>1. found[p] \in Pii!FindAll
      BY <2>1
    <3>2. /\ found[p] \in {{}} \cup {Pii!Range(f) : f \in [1..MaxMatches -> Pii!Match]}
          /\ \A m, n \in found[p] : m = n \/ Pii!Apart(m, n)
      BY <3>1, Zenon DEF Pii!FindAll
    <3>3. \A f \in [1..MaxMatches -> Pii!Match] : Pii!Range(f) \subseteq Pii!Match
      BY DEF Pii!Range
    <3> QED
      BY <3>2, <3>3, Zenon
  <2> QED
    BY <2>2, Zenon DEF PiiMatches
<1>2. result = Pii!Text /\ outcome = "running" /\ place = Len(detections)
  BY Zenon DEF Pii!Init
<1>d. Detected
  BY <1>1, DetectIsExact, Zenon DEF Detected, Pii!Init
<1>3. ASSUME Pii!InOrder
      PROVE  place \in 0..Len(detections) /\ Rewritten(result, place)
  <2>1. Len(detections) \in Nat /\ Size \in Nat
    BY <1>1, <1>d, <1>3, OrderedFacts, PiiConstants
  <2>2. place \in 0..Len(detections)
    BY <2>1, <1>2
  <2>3. result \in Seq(Int) /\ Len(result) = Size /\ \A c \in 1..Size : result[c] = c
    BY <2>1, <1>2 DEF Pii!Text
  <2>4. Untouched(place) = Size
    BY <1>2 DEF Untouched
  <2>5. Pii!Growth(detections, place) \in Int
    BY <2>2, <1>1, <1>d, <1>3, GrowthType
  <2>6. Exact(result, Size, Size, Hidden(place))
    <3>1. \A c : c \notin (Size + 1)..Size
      BY <2>1
    <3> QED
      BY <3>1, <2>3, Zenon DEF Exact
  <2>7. Len(result) = Size + Pii!Growth(detections, Len(detections))
                        - Pii!Growth(detections, place)
    BY <2>1, <2>3, <2>5, <1>2
  <2>8. Size <= Size
    BY <2>1
  <2> QED
    BY <2>2, <2>3, <2>4, <2>6, <2>7, <2>8, Zenon DEF Rewritten
<1> QED
  BY <1>1, <1>2, <1>d, <1>3, Zenon DEF PiiInv

(* A turn of the loop keeps the invariant, and none of an ordered text     *)
(* ends the call with a slice out of range.                                *)
LEMMA PiiStep ==
  ASSUME PiiInv, Pii!Next \/ UNCHANGED piiVars
  PROVE  PiiInv'
<1>1. detections' = detections /\ found' = found
  BY Zenon DEF Pii!Next, Pii!Replace, Pii!Panic, Pii!Return, piiVars
<1>2. PiiMatches /\ Detected
  BY Zenon DEF PiiInv
<1>3. PiiMatches' /\ Detected' /\ (Pii!InOrder' => Pii!InOrder)
  <2>1. PiiMatches'
    BY <1>1, <1>2, Zenon DEF PiiMatches
  <2>2. Detected'
    <3>1. Pii!Detections(found)' = Pii!Detections(found)
      BY <1>1 DEF Pii!Detections
    <3> QED
      BY <3>1, <1>1, <1>2 DEF Detected
  <2>3. Pii!InOrder' => Pii!InOrder
    BY <1>1, Zenon DEF Pii!InOrder
  <2> QED
    BY <2>1, <2>2, <2>3
<1>4. ASSUME Pii!InOrder
      PROVE  /\ place' \in 0..Len(detections)
             /\ outcome' = "running" \/ (outcome' = "returned" /\ place' = 0)
             /\ Rewritten(result', place')
  <2>1. /\ place \in 0..Len(detections) /\ Rewritten(result, place)
        /\ outcome = "running" \/ (outcome = "returned" /\ place = 0)
    BY <1>4, Zenon DEF PiiInv
  <2>2. Len(detections) \in Nat
    BY <1>2, <1>4, OrderedFacts
  <2>3. ASSUME outcome = "running", place > 0
        PROVE  /\ place \in 1..Len(detections) /\ place - 1 \in 0..Len(detections)
               /\ Pii!InRange(Pii!Current)
               /\ Rewritten(Pii!Splice(Pii!Current), place - 1)
    <3>1. place \in 1..Len(detections) /\ place - 1 \in 0..Len(detections)
      BY <2>1, <2>2, <2>3
    <3> QED
      BY <3>1, <2>1, <1>2, <1>4, RewriteNext, Zenon
         DEF Pii!Splice, Pii!Current, Pii!InRange
  <2>4. CASE Pii!Replace
    BY <2>3, <2>4, Zenon DEF Pii!Replace
  <2>5. CASE Pii!Panic
    BY <2>3, <2>5, Zenon DEF Pii!Panic
  <2>6. CASE Pii!Return
    BY <2>1, <2>6, Zenon DEF Pii!Return
  <2>7. CASE UNCHANGED piiVars
    BY <2>1, <2>7, Zenon DEF piiVars
  <2> QED
    BY <2>4, <2>5, <2>6, <2>7, Zenon DEF Pii!Next
<1>5. \A r, k : Rewritten(r, k) => Rewritten(r, k)'
  BY <1>1, ZenonT(60) DEF Rewritten, Untouched, Hidden, Pii!Growth
<1> QED
  BY <1>1, <1>3, <1>4, <1>5, Zenon DEF PiiInv

(* What is hidden at the end are the cells of the matches.                 *)
LEMMA HiddenIsCovered ==
  ASSUME PiiMatches, Detected
  PROVE  Hidden(0) = Pii!Covered
<1> DEFINE D == Pii!Detections(found)
           N == Len(detections)
<1>1. /\ N \in Nat /\ \A k \in 1..N : detections[k] \in D
      /\ \A d \in D : \E k \in 1..N : detections[k] = d
  BY DEF Detected
<1>2. \A p \in Pii!Patterns : \A m \in found[p] :
         [pattern |-> p, start |-> m.start, end |-> m.end] \in D
  BY DEF Pii!Detections
<1>c. \A x : x \in Pii!Covered <=>
         x \in 1..Size /\ \E p \in Pii!Patterns :
                             \E m \in found[p] : m.start < x /\ x <= m.end
  BY DEF Pii!Covered
<1>3. ASSUME NEW x \in Hidden(0) PROVE x \in Pii!Covered
  <2>1. PICK k \in 1..N : detections[k].start < x /\ x <= detections[k].end
    BY <1>3 DEF Hidden
  <2> DEFINE d == detections[k]
             m == [start |-> d.start, end |-> d.end]
  <2>2. d \in D
    BY <1>1
  <2>3. d.pattern \in Pii!Patterns /\ m \in found[d.pattern]
    BY <2>2, DetectionFacts DEF Detection
  <2>4. x \in 1..Size /\ m.start < x /\ x <= m.end
    BY <2>1, <1>3 DEF Hidden
  <2> HIDE DEF m, d
  <2> QED
    BY <2>3, <2>4, <1>c, Zenon
<1>4. ASSUME NEW x \in Pii!Covered PROVE x \in Hidden(0)
  <2>1. PICK p \in Pii!Patterns : \E m \in found[p] :
           x \in 1..Size /\ m.start < x /\ x <= m.end
    BY <1>4, Zenon DEF Pii!Covered
  <2>2. PICK m \in found[p] : x \in 1..Size /\ m.start < x /\ x <= m.end
    BY <2>1
  <2>3. PICK k \in 1..N :
           detections[k] = [pattern |-> p, start |-> m.start, end |-> m.end]
    BY <1>1, <1>2
  <2>4. detections[k].start = m.start /\ detections[k].end = m.end /\ k \in (0 + 1)..N
    BY <2>3
  <2> QED
    BY <2>2, <2>4, Zenon DEF Hidden
<1> QED
  BY <1>3, <1>4, Zenon

(* What the invariant says once every detection is replaced.               *)
LEMMA PiiEnd ==
  ASSUME PiiInv
  PROVE  Pii!OrderedIsExact
<1> SUFFICES ASSUME Pii!InOrder, outcome # "running" PROVE
       /\ outcome = "returned"
       /\ Pii!Range(result) \ {0} = 1..Size \ Pii!Covered
       /\ \A c, d \in DOMAIN result :
             (c < d /\ result[c] # 0 /\ result[d] # 0) => result[c] < result[d]
       /\ Len(result) = Size + Pii!Growth(detections, Len(detections))
  BY Zenon DEF Pii!OrderedIsExact
<1> DEFINE n == Len(result)
           u == Untouched(0)
           N == Len(detections)
<1>1. /\ outcome = "returned" /\ PiiMatches /\ Detected
      /\ Rewritten(result, 0)
  BY Zenon DEF PiiInv
<1>2. N \in Nat /\ Size \in Nat
  BY <1>1, OrderedFacts, PiiConstants
<1>3. /\ Pii!Growth(detections, 0) = 0 /\ Pii!Growth(detections, N) \in Int
  <2>1. N \in 0..N
    BY <1>2
  <2> QED
    BY <2>1, <1>1, <1>2, GrowthFacts, GrowthType, Zenon
<1>4. /\ result \in Seq(Int) /\ u <= n /\ Exact(result, n, u, Pii!Covered)
      /\ n = Size + Pii!Growth(detections, N) - Pii!Growth(detections, 0)
  BY <1>1, HiddenIsCovered, Zenon DEF Rewritten
<1>5. n = Size + Pii!Growth(detections, N)
  BY <1>2, <1>3, <1>4
<1>6. n \in Nat /\ DOMAIN result = 1..n
  BY <1>4
<1>7. u \in Nat /\ u <= Size /\ \A x \in Pii!Covered : u < x
  <2>1. CASE N = 0
    <3>1. u = Size
      BY <2>1 DEF Untouched
    <3>2. Hidden(0) = {}
      BY <2>1 DEF Hidden
    <3> QED
      BY <3>1, <3>2, <1>1, <1>2, HiddenIsCovered
  <2>2. CASE N # 0
    <3>1. u = detections[1].start /\ 1 \in 1..N
      BY <2>2, <1>2 DEF Untouched
    <3>2. detections[1].start \in Nat /\ detections[1].start < detections[1].end
          /\ detections[1].end <= Size /\ detections[1].end \in Nat
      BY <3>1, <1>1, OrderedFacts
    <3>3. /\ Hidden(0) = Hidden(1) \cup ((detections[1].start + 1)..detections[1].end)
          /\ detections[1].end <= Untouched(1) /\ Untouched(1) \in Nat
          /\ \A x \in Hidden(1) : Untouched(1) < x
      <4>1. 1 - 1 = 0
        OBVIOUS
      <4> QED
        BY <4>1, <3>1, <1>1, HiddenNext, Zenon
    <3>4. Hidden(1) \subseteq Int
      BY <1>2 DEF Hidden
    <3>5. \A x \in Hidden(0) : u < x
      BY <3>1, <3>2, <3>3, <3>4
    <3> QED
      BY <3>1, <3>2, <3>5, <1>1, <1>2, HiddenIsCovered
  <2> QED
    BY <2>1, <2>2
<1> HIDE DEF n, u, N
<1>8. \A c \in 1..n : c \in 1..u \/ c \in (u + 1)..n
  BY <1>6, <1>7
<1>9. \A x \in 1..Size : x \in 1..u \/ x \in (u + 1)..Size
  BY <1>2, <1>7
<1>10. \A c \in 1..u : c \in 1..n /\ c \in 1..Size /\ c \notin Pii!Covered /\ c # 0
  BY <1>2, <1>4, <1>6, <1>7
<1>11. \A c \in (u + 1)..n, d \in 1..u : ~(c < d)
  BY <1>6, <1>7
<1>12. \A c \in 1..u, x \in (u + 1)..Size : c < x
  BY <1>2, <1>7
<1>13. \A x \in (u + 1)..Size : x \in 1..Size /\ x # 0
  BY <1>2, <1>7
<1>14. \A c \in (u + 1)..n : c \in 1..n
  BY <1>6, <1>7
<1>15. /\ \A c \in 1..u : result[c] = c
       /\ \A c \in (u + 1)..n : result[c] # 0 =>
             result[c] \in (u + 1)..Size /\ result[c] \notin Pii!Covered
       /\ \A x \in (u + 1)..Size : x \in Pii!Covered \/ \E c \in (u + 1)..n : result[c] = x
       /\ \A c, d \in (u + 1)..n :
             (c < d /\ result[c] # 0 /\ result[d] # 0) => result[c] < result[d]
  BY <1>4, Zenon DEF Exact
<1>16. Pii!Range(result) \ {0} = 1..Size \ Pii!Covered
  <2>1. ASSUME NEW c \in 1..n, result[c] # 0
        PROVE  result[c] \in 1..Size \ Pii!Covered
    BY <2>1, <1>8, <1>10, <1>13, <1>15, Zenon
  <2>2. ASSUME NEW x \in 1..Size \ Pii!Covered
        PROVE  x # 0 /\ \E c \in 1..n : result[c] = x
    BY <2>2, <1>9, <1>10, <1>13, <1>14, <1>15, Zenon
  <2>3. Pii!Range(result) = {result[c] : c \in 1..n}
    BY <1>6, Zenon DEF Pii!Range
  <2> QED
    BY <2>1, <2>2, <2>3, Zenon
<1>17. ASSUME NEW c \in 1..n, NEW d \in 1..n, c < d, result[c] # 0, result[d] # 0
       PROVE  result[c] < result[d]
  <2>1. CASE c \in 1..u /\ d \in 1..u
    BY <2>1, <1>15, <1>17, Zenon
  <2>2. CASE c \in 1..u /\ d \in (u + 1)..n
    BY <2>2, <1>12, <1>15, <1>17, Zenon
  <2>3. CASE c \in (u + 1)..n
    BY <2>3, <1>8, <1>11, <1>15, <1>17, Zenon
  <2> QED
    BY <2>1, <2>2, <2>3, <1>8, Zenon
<1> QED
  BY <1>1, <1>5, <1>6, <1>16, <1>17, Zenon DEF n, N

(* Redact of a text whose matches come from left to right, apart from each *)
(* other, removes each of them and leaves one marker for it and the text   *)
(* around it as it was: whatever the patterns, their markers and the text. *)
THEOREM RedactionIsExact == PartsSpec => []OrderedIsExact
<1> DEFINE Inv == part = "detector" => PiiInv
<1>1. PartsInit => Inv
  BY PiiStart, Zenon DEF PartsInit, ProxyInit, LimiterAloneInit, DetectorInit
<1>2. Inv /\ [PartsNext]_<<part, vars, piiVars>> => Inv'
  <2> SUFFICES ASSUME Inv, [PartsNext]_<<part, vars, piiVars>> PROVE Inv'
    OBVIOUS
  <2>1. part' = part
    BY Zenon DEF PartsNext, ProxyNext, LimiterAloneNext, DetectorNext
  <2>2. ASSUME part = "detector" PROVE PiiInv'
    <3>1. PiiInv
      BY <2>2
    <3>2. Pii!Next \/ UNCHANGED piiVars
      BY <2>2, Zenon DEF PartsNext, ProxyNext, LimiterAloneNext, DetectorNext
    <3> QED
      BY <3>1, <3>2, PiiStep, Zenon
  <2> QED
    BY <2>1, <2>2
<1>3. Inv => OrderedIsExact
  BY PiiEnd, Zenon DEF OrderedIsExact
<1> HIDE DEF Inv
<1> QED
  BY <1>1, <1>2, <1>3, PTL DEF PartsSpec
=============================================================================
