---------------------------- MODULE RunLifecycle ----------------------------
(***************************************************************************)
(* The life of an agent run: the agent_runs row, the JetStream messages    *)
(* that ask for its execution, the executors (RunWorker processes and      *)
(* callers of resume_after_approval) that act on the row through sessions  *)
(* of their own, and the API requests that cancel runs and decide          *)
(* approvals.                                                              *)
(*                                                                         *)
(* Every commit is one action.  Between two commits of one actor any other *)
(* actor may run, and no actor re-reads a row it has already loaded: the   *)
(* sessions are created with expire_on_commit=False.                       *)
(***************************************************************************)
EXTENDS Integers, Sequences, FiniteSets

CONSTANTS
    Runs,        \* agent_runs primary keys
    Workers,     \* RunWorker processes (one _run_loop each, batch=1)
    Resumers,    \* callers of Orchestrator.resume_after_approval
    Clients,     \* API requests in flight (cancel, decide)
    Msgs,        \* stream sequence numbers of runs.execute
    Approvals,   \* approval_requests primary keys (bounds approvals created)
    Plan,        \* Plan[r]: the kinds of the steps of r, in execution order
    MaxDeliver,  \* max_deliver of the durable consumer
    MaxResumes,  \* bound on calls of resume_after_approval
    StartedAt,   \* started_at.timestamp(), seconds since the epoch
    Monotonic,   \* time.monotonic(), seconds since the host booted
    None

(***************************************************************************)
(* "act" is a step that always runs (llm, transform, delay), "tool" one    *)
(* the governance proxy may escalate, "approval" one that always waits for *)
(* a decision.                                                             *)
(***************************************************************************)
Kinds == {"act", "tool", "approval"}

Executors == Workers \cup Resumers

ASSUME RunsAssumption ==
    /\ Plan \in [Runs -> Seq(Kinds)]
    /\ MaxDeliver \in Nat \ {0}
    /\ MaxResumes \in Nat
    /\ StartedAt \in Int
    /\ Monotonic \in Int

ASSUME ActorsAssumption ==
    /\ Workers \cap Resumers = {}
    /\ None \notin Runs \cup Msgs \cup Approvals

ASSUME ClientsAssumption == Clients \cap Executors = {}

VARIABLES
    row,        \* row[r]: the committed columns status and steps_completed
    approval,   \* approval[a]: the committed approval_requests row
    msg,        \* msg[m]: the JetStream message and its delivery state
    exec,       \* exec[e]: where an executor stands in execute_run
    client,     \* client[c]: what an API request has read but not yet written
    resumes,    \* calls of resume_after_approval so far
    effects,    \* history: effects[r][i] times step i of r took effect
    decisions,  \* history: the approval_decided audit events of an approval
    announced,  \* history: runs with a message published on runs.completed
    abandoned   \* history: runs an executor died on or raised out of

vars == <<row, approval, msg, exec, client, resumes,
          effects, decisions, announced, abandoned>>

history == <<effects, decisions, announced, abandoned>>

-----------------------------------------------------------------------------
RunStatus == {"queued", "running", "awaiting_approval", "completed",
              "failed", "cancelled", "timed_out"}

Terminal == {"completed", "failed", "cancelled", "timed_out"}

Verdicts == {"approved", "rejected"}

Steps(r) == 1..Len(Plan[r])

NoRow == [status |-> "absent", steps |-> 0]

NoApproval == [run |-> None, step |-> 0, status |-> "absent"]

NoMsg == [run |-> None, state |-> "unsent", delivered |-> 0]

(* ref is the message a worker handles, the approval a resumer was given.  *)
IdleExec == [pc |-> "idle", run |-> None, ref |-> None, next |-> 0]

IdleClient == [op |-> "idle", target |-> None, verdict |-> None]

Init ==
    /\ row = [r \in Runs |-> NoRow]
    /\ approval = [a \in Approvals |-> NoApproval]
    /\ msg = [m \in Msgs |-> NoMsg]
    /\ exec = [e \in Executors |-> IdleExec]
    /\ client = [c \in Clients |-> IdleClient]
    /\ resumes = 0
    /\ effects = [r \in Runs |-> [i \in Steps(r) |-> 0]]
    /\ decisions = [a \in Approvals |-> <<>>]
    /\ announced = {}
    /\ abandoned = {}

-----------------------------------------------------------------------------
(* API requests: the session commits when the handler returns.            *)

TriggerRun(r) ==
    /\ row[r] = NoRow
    /\ row' = [row EXCEPT ![r].status = "queued"]
    /\ UNCHANGED <<approval, msg, exec, client, resumes, history>>

(* WorkerManager.enqueue_run, called after the row was persisted.          *)
EnqueueRun(m, r) ==
    /\ msg[m] = NoMsg
    /\ row[r] # NoRow
    /\ msg' = [msg EXCEPT ![m] =
                 [run |-> r, state |-> "ready", delivered |-> 0]]
    /\ UNCHANGED <<row, approval, exec, client, resumes, history>>

Cancellable == {"queued", "running", "awaiting_approval"}

(* cancel_run reads the row and checks its status ...                      *)
CancelRead(c, r) ==
    /\ client[c] = IdleClient
    /\ row[r].status \in Cancellable
    /\ client' = [client EXCEPT ![c].op = "cancel", ![c].target = r]
    /\ UNCHANGED <<row, approval, msg, exec, resumes, history>>

(* ... and then updates it by primary key, whatever it has become.         *)
CancelWrite(c) ==
    /\ client[c].op = "cancel"
    /\ row' = [row EXCEPT ![client[c].target].status = "cancelled"]
    /\ client' = [client EXCEPT ![c] = IdleClient]
    /\ UNCHANGED <<approval, msg, exec, resumes, history>>

(* decide_approval: the PENDING check, then an update by primary key with  *)
(* its approval_decided audit event in the same transaction.               *)
DecideRead(c, a, v) ==
    /\ client[c] = IdleClient
    /\ approval[a].status = "pending"
    /\ client' = [client EXCEPT ![c] =
                    [op |-> "decide", target |-> a, verdict |-> v]]
    /\ UNCHANGED <<row, approval, msg, exec, resumes, history>>

DecideWrite(c) ==
    LET a == client[c].target
        v == client[c].verdict
    IN  /\ client[c].op = "decide"
        /\ approval' = [approval EXCEPT ![a].status = v]
        /\ decisions' = [decisions EXCEPT ![a] = Append(@, v)]
        /\ client' = [client EXCEPT ![c] = IdleClient]
        /\ UNCHANGED <<row, msg, exec, resumes, effects, announced, abandoned>>

-----------------------------------------------------------------------------
(* JetStream: explicit acknowledgement, redelivery after nak or ack_wait   *)
(* until a message has been delivered MaxDeliver times.                    *)

Requeued(m) ==
    [msg EXCEPT ![m].state =
        IF msg[m].delivered < MaxDeliver THEN "ready" ELSE "exhausted"]

AckWaitExpires(m) ==
    /\ msg[m].state = "pending"
    /\ msg' = Requeued(m)
    /\ UNCHANGED <<row, approval, exec, client, resumes, history>>

(* Seeded fault: the consumer acknowledges on delivery.                    *)
FetchAutoAck(w, m) ==
    /\ exec[w] = IdleExec
    /\ msg[m].state = "ready"
    /\ msg' = [msg EXCEPT ![m].state = "acked", ![m].delivered = @ + 1]
    /\ exec' = [exec EXCEPT ![w] =
                  [pc |-> "load", run |-> msg[m].run, ref |-> m, next |-> 0]]
    /\ UNCHANGED <<row, approval, client, resumes, history>>

(* RunWorker.poll: fetch(batch=1) and the start of _handle_message.        *)
Fetch(w, m) ==
    /\ exec[w] = IdleExec
    /\ msg[m].state = "ready"
    /\ msg' = [msg EXCEPT ![m].state = "pending", ![m].delivered = @ + 1]
    /\ exec' = [exec EXCEPT ![w] =
                  [pc |-> "load", run |-> msg[m].run, ref |-> m, next |-> 0]]
    /\ UNCHANGED <<row, approval, client, resumes, history>>

(* execute_run returned: the worker acknowledges, then announces.          *)
Ack(w) ==
    /\ exec[w].pc = "ack"
    /\ msg' = [msg EXCEPT ![exec[w].ref].state = "acked"]
    /\ exec' = [exec EXCEPT ![w].pc = "publish"]
    /\ UNCHANGED <<row, approval, client, resumes, history>>

Publish(w) ==
    /\ exec[w].pc = "publish"
    /\ announced' = announced \cup {exec[w].run}
    /\ exec' = [exec EXCEPT ![w] = IdleExec]
    /\ UNCHANGED <<row, approval, msg, client, resumes,
                   effects, decisions, abandoned>>

(* An exception reached _handle_message.  A nak of a message that is no    *)
(* longer pending changes nothing.                                         *)
Nak(w) ==
    LET m == exec[w].ref
    IN  /\ exec[w].pc = "nak"
        /\ msg' = IF msg[m].state = "pending" THEN Requeued(m) ELSE msg
        /\ exec' = [exec EXCEPT ![w] = IdleExec]
        /\ UNCHANGED <<row, approval, client, resumes, history>>

-----------------------------------------------------------------------------
(* Orchestrator.execute_run, run by workers and resumers alike.            *)

Return(e) == [exec EXCEPT ![e] =
                IF e \in Workers THEN [@ EXCEPT !.pc = "ack"] ELSE IdleExec]

Raise(e) == [exec EXCEPT ![e] =
                IF e \in Workers THEN [@ EXCEPT !.pc = "nak"] ELSE IdleExec]

(* History: e leaves a run it has claimed, or re-queued, to nobody.        *)
Abandon(e) ==
    abandoned' =
        IF \/ exec[e].pc \in {"run", "await"}
           \/ exec[e].pc \in {"load", "claim"} /\ e \in Resumers
        THEN abandoned \cup {exec[e].run}
        ELSE abandoned

(* Seeded fault: a redelivered run is executed whatever its status.        *)
LoadUnchecked(e) ==
    /\ exec[e].pc = "load"
    /\ exec' = [exec EXCEPT ![e].pc = "claim"]
    /\ UNCHANGED <<row, approval, msg, client, resumes, history>>

(* db.get(AgentRun) and the early return unless the run is QUEUED.         *)
Load(e) ==
    /\ exec[e].pc = "load"
    /\ exec' = IF row[exec[e].run].status = "queued"
               THEN [exec EXCEPT ![e].pc = "claim"]
               ELSE Return(e)
    /\ UNCHANGED <<row, approval, msg, client, resumes, history>>

(* status = RUNNING is committed from the loaded object: no second check.  *)
Claim(e) ==
    /\ exec[e].pc = "claim"
    /\ row' = [row EXCEPT ![exec[e].run].status = "running"]
    /\ exec' = [exec EXCEPT ![e].pc = "run", ![e].next = 1]
    /\ UNCHANGED <<approval, msg, client, resumes, history>>

CurrentKind(e) == Plan[exec[e].run][exec[e].next]

(* Seeded fault: the loop over the plan stops one step early.              *)
InPlanShort(e) == exec[e].next \in 1..(Len(Plan[exec[e].run]) - 1)

InPlan(e) == exec[e].next \in Steps(exec[e].run)

(* Seeded fault: steps_completed is one ahead.                             *)
StepDoneAhead(e) ==
    LET r == exec[e].run
        i == exec[e].next
    IN  /\ exec[e].pc = "run"
        /\ InPlan(e)
        /\ CurrentKind(e) # "approval"
        /\ row' = [row EXCEPT ![r].steps = i + 1]
        /\ effects' = [effects EXCEPT ![r][i] = @ + 1]
        /\ exec' = [exec EXCEPT ![e].next = i + 1]
        /\ UNCHANGED <<approval, msg, client, resumes,
                       decisions, announced, abandoned>>

(* A step that is not gated takes effect; steps_completed is committed.    *)
StepDone(e) ==
    LET r == exec[e].run
        i == exec[e].next
    IN  /\ exec[e].pc = "run"
        /\ InPlan(e)
        /\ CurrentKind(e) # "approval"
        /\ row' = [row EXCEPT ![r].steps = i]
        /\ effects' = [effects EXCEPT ![r][i] = @ + 1]
        /\ exec' = [exec EXCEPT ![e].next = i + 1]
        /\ UNCHANGED <<approval, msg, client, resumes,
                       decisions, announced, abandoned>>

(* _create_approval commits the request before the run's status changes.   *)
Gate(e, a) ==
    /\ exec[e].pc = "run"
    /\ InPlan(e)
    /\ CurrentKind(e) \in {"approval", "tool"}
    /\ approval[a] = NoApproval
    /\ approval' = [approval EXCEPT ![a] =
          [run |-> exec[e].run, step |-> exec[e].next, status |-> "pending"]]
    /\ exec' = [exec EXCEPT ![e].pc = "await"]
    /\ UNCHANGED <<row, msg, client, resumes, history>>

(* Seeded faults: the status is not committed; the executor goes on.       *)
AwaitUncommitted(e) ==
    /\ exec[e].pc = "await"
    /\ exec' = Return(e)
    /\ UNCHANGED <<row, approval, msg, client, resumes, history>>

AwaitAndContinue(e) ==
    /\ exec[e].pc = "await"
    /\ row' = [row EXCEPT ![exec[e].run].status = "awaiting_approval"]
    /\ exec' = [exec EXCEPT ![e].pc = "run", ![e].next = @ + 1]
    /\ UNCHANGED <<approval, msg, client, resumes, history>>

Await(e) ==
    /\ exec[e].pc = "await"
    /\ row' = [row EXCEPT ![exec[e].run].status = "awaiting_approval"]
    /\ exec' = Return(e)
    /\ UNCHANGED <<approval, msg, client, resumes, history>>

Complete(e) ==
    /\ exec[e].pc = "run"
    /\ ~InPlan(e)
    /\ row' = [row EXCEPT ![exec[e].run].status = "completed"]
    /\ exec' = Return(e)
    /\ UNCHANGED <<approval, msg, client, resumes, history>>

(* _fail_run stores int((time.monotonic() - started_at.timestamp()) * 1000)*)
(* in wall_time_ms, an int4 column; its commit raises when the value does  *)
(* not fit and the session is rolled back.  Compared in whole seconds.     *)
WallTimeFits == Monotonic - StartedAt \in -2147483..2147483

FailRun(e) ==
    IF WallTimeFits
    THEN /\ row' = [row EXCEPT ![exec[e].run].status = "failed"]
         /\ exec' = Return(e)
         /\ UNCHANGED abandoned
    ELSE /\ exec' = Raise(e)
         /\ Abandon(e)
         /\ UNCHANGED row

(* A step raised, a budget was exhausted or a loop was detected.           *)
StepFails(e) ==
    /\ exec[e].pc = "run"
    /\ InPlan(e)
    /\ FailRun(e)
    /\ UNCHANGED <<approval, msg, client, resumes,
                   effects, decisions, announced>>

(* An exception nobody catches inside execute_run: the planner call of     *)
(* auto-plan mode, or any statement or commit of the session.              *)
Escape(e) ==
    /\ exec[e].pc \in {"load", "claim", "run", "await"}
    /\ exec' = Raise(e)
    /\ Abandon(e)
    /\ UNCHANGED <<row, approval, msg, client, resumes,
                   effects, decisions, announced>>

(* The process dies, or WorkerManager.stop cancels the task: no ack or nak.*)
Crash(e) ==
    /\ exec[e].pc # "idle"
    /\ exec' = [exec EXCEPT ![e] = IdleExec]
    /\ Abandon(e)
    /\ UNCHANGED <<row, approval, msg, client, resumes,
                   effects, decisions, announced>>

-----------------------------------------------------------------------------
(* Orchestrator.resume_after_approval(run_id, approval_id).                *)

ResumeRead(e, a) ==
    /\ resumes < MaxResumes
    /\ exec[e] = IdleExec
    /\ approval[a] # NoApproval
    /\ row[approval[a].run].status = "awaiting_approval"
    /\ resumes' = resumes + 1
    /\ exec' = [exec EXCEPT ![e] =
          [pc |-> "resume", run |-> approval[a].run, ref |-> a, next |-> 0]]
    /\ UNCHANGED <<row, approval, msg, client, history>>

(* Seeded fault: the run is re-queued and nobody is asked to execute it.   *)
ResumeRequeueOnly(e) ==
    /\ exec[e].pc = "resume"
    /\ approval[exec[e].ref].status = "approved"
    /\ row' = [row EXCEPT ![exec[e].run].status = "queued"]
    /\ exec' = [exec EXCEPT ![e] = IdleExec]
    /\ UNCHANGED <<approval, msg, client, resumes, history>>

ResumeRequeue(e) ==
    /\ exec[e].pc = "resume"
    /\ approval[exec[e].ref].status = "approved"
    /\ row' = [row EXCEPT ![exec[e].run].status = "queued"]
    /\ exec' = [exec EXCEPT ![e].pc = "load"]
    /\ UNCHANGED <<approval, msg, client, resumes, history>>

ResumeReject(e) ==
    /\ exec[e].pc = "resume"
    /\ approval[exec[e].ref].status = "rejected"
    /\ FailRun(e)
    /\ UNCHANGED <<approval, msg, client, resumes,
                   effects, decisions, announced>>

ResumeIgnored(e) ==
    /\ exec[e].pc = "resume"
    /\ approval[exec[e].ref].status = "pending"
    /\ exec' = [exec EXCEPT ![e] = IdleExec]
    /\ UNCHANGED <<row, approval, msg, client, resumes, history>>

-----------------------------------------------------------------------------
(* What an executor does about the step it has reached.                    *)
Advance(e) ==
    \/ StepDone(e)
    \/ \E a \in Approvals : Gate(e, a)
    \/ Complete(e)
    \/ StepFails(e)

ExecuteRun(e) ==
    \/ Load(e)
    \/ Claim(e)
    \/ Advance(e)
    \/ Await(e)
    \/ Escape(e)
    \/ Crash(e)

Next ==
    \/ \E r \in Runs : TriggerRun(r)
    \/ \E m \in Msgs, r \in Runs : EnqueueRun(m, r)
    \/ \E c \in Clients, r \in Runs : CancelRead(c, r)
    \/ \E c \in Clients : CancelWrite(c)
    \/ \E c \in Clients, a \in Approvals, v \in Verdicts : DecideRead(c, a, v)
    \/ \E c \in Clients : DecideWrite(c)
    \/ \E m \in Msgs : AckWaitExpires(m)
    \/ \E w \in Workers, m \in Msgs : Fetch(w, m)
    \/ \E w \in Workers : Ack(w) \/ Publish(w) \/ Nak(w)
    \/ \E e \in Executors : ExecuteRun(e)
    \/ \E e \in Resumers, a \in Approvals : ResumeRead(e, a)
    \/ \E e \in Resumers : ResumeRequeue(e) \/ ResumeReject(e) \/ ResumeIgnored(e)

Spec == Init /\ [][Next]_vars

(***************************************************************************)
(* The worker loop keeps polling and every call it awaits has a timeout,   *)
(* so an executor that does not die takes its next step; JetStream         *)
(* redelivers on its own.  Nobody owes the system a trigger, a cancel, a   *)
(* decision, a resume, a crash or an exception.                            *)
(***************************************************************************)
Fairness ==
    /\ \A w \in Workers :
         /\ WF_vars(\E m \in Msgs : Fetch(w, m))
         /\ WF_vars(Ack(w))
         /\ WF_vars(Publish(w))
         /\ WF_vars(Nak(w))
    /\ \A e \in Executors :
         /\ WF_vars(Load(e))
         /\ WF_vars(Claim(e))
         /\ WF_vars(Advance(e))
         /\ WF_vars(Await(e))
    /\ \A e \in Resumers :
         WF_vars(ResumeRequeue(e) \/ ResumeReject(e) \/ ResumeIgnored(e))
    /\ \A c \in Clients : WF_vars(CancelWrite(c) \/ DecideWrite(c))
    /\ \A m \in Msgs : WF_vars(AckWaitExpires(m))

FairSpec == Spec /\ Fairness

-----------------------------------------------------------------------------
(***************************************************************************)
(* Properties.                                                             *)
(***************************************************************************)
ExecPc == {"idle", "load", "claim", "run", "await",
           "ack", "publish", "nak", "resume"}

RowOK ==
    /\ row \in [Runs -> [status : RunStatus \cup {"absent"}, steps : Nat]]
    /\ \A r \in Runs : row[r].steps <= Len(Plan[r])

ApprovalOK ==
    /\ approval \in [Approvals ->
          [run : Runs \cup {None}, step : Nat,
           status : Verdicts \cup {"pending", "absent"}]]
    /\ \A a \in Approvals : approval[a] # NoApproval =>
          /\ approval[a].run \in Runs
          /\ approval[a].step \in Steps(approval[a].run)
          /\ approval[a].status # "absent"

MsgOK ==
    /\ msg \in [Msgs ->
          [run : Runs \cup {None}, delivered : 0..MaxDeliver,
           state : {"unsent", "ready", "pending", "acked", "exhausted"}]]
    /\ \A m \in Msgs : msg[m] # NoMsg =>
          /\ msg[m].run \in Runs
          /\ msg[m].state # "unsent"
          /\ msg[m].state = "ready" => msg[m].delivered < MaxDeliver

ExecOK ==
    /\ exec \in [Executors ->
          [pc : ExecPc, run : Runs \cup {None},
           ref : Msgs \cup Approvals \cup {None}, next : Nat]]
    /\ \A e \in Executors :
          /\ exec[e].pc # "idle" => exec[e].run \in Runs
          /\ exec[e].pc = "run" =>
                exec[e].next \in 1..(Len(Plan[exec[e].run]) + 1)
          /\ exec[e].pc \in {"ack", "publish", "nak"} => e \in Workers
          /\ exec[e].pc = "resume" => e \in Resumers

ClientOK ==
    /\ client \in [Clients ->
          [op : {"idle", "cancel", "decide"},
           target : Runs \cup Approvals \cup {None},
           verdict : Verdicts \cup {None}]]
    /\ \A c \in Clients :
          /\ client[c].op = "cancel" => client[c].target \in Runs
          /\ client[c].op = "decide" => /\ client[c].target \in Approvals
                                        /\ client[c].verdict \in Verdicts

HistoryOK ==
    /\ resumes \in 0..MaxResumes
    /\ effects = [r \in Runs |-> effects[r]]
    /\ \A r \in Runs : effects[r] \in [Steps(r) -> Nat]
    /\ decisions \in [Approvals -> Seq(Verdicts)]
    /\ announced \subseteq Runs
    /\ abandoned \subseteq Runs

(* Every variable stays within its columns and states and its fields go    *)
(* together; in particular steps_completed never passes the end of a plan. *)
TypeOK ==
    /\ RowOK
    /\ ApprovalOK
    /\ MsgOK
    /\ ExecOK
    /\ ClientOK
    /\ HistoryOK

(* A run shown as awaiting approval has a request somebody can decide or   *)
(* has decided, even if its executor died between the two commits.         *)
AwaitingHasRequest ==
    \A r \in Runs : row[r].status = "awaiting_approval" =>
        \E a \in Approvals : approval[a].run = r

(* No step behind an approval step takes effect unless a request for that  *)
(* very step was approved, whatever restarts and races there were.         *)
ApprovedStep(r, i) ==
    \E a \in Approvals :
        /\ approval[a].run = r
        /\ approval[a].step = i
        /\ "approved" \in {decisions[a][k] : k \in DOMAIN decisions[a]}

GateHolds ==
    \A r \in Runs : \A i, j \in Steps(r) :
        (i < j /\ Plan[r][i] = "approval" /\ effects[r][j] > 0)
            => ApprovedStep(r, i)

(* A run shown as completed has run every step of its plan, although       *)
(* several executors may have worked on it and overwritten its row.        *)
CompletedRanAllSteps ==
    \A r \in Runs : row[r].status = "completed" =>
        \A i \in Steps(r) : effects[r][i] > 0

(* A run shown as running is being executed, unless its executor died or   *)
(* an exception escaped it: there is no third way to be stuck in RUNNING.  *)
RunningIsOwned ==
    \A r \in Runs : row[r].status = "running" =>
        \/ r \in abandoned
        \/ \E e \in Executors : exec[e].run = r /\ exec[e].pc \in {"run", "await"}

(* A queued run whose execution was requested is not forgotten: its        *)
(* message can still come back (or has used up its deliveries), or an      *)
(* executor has it in hand, or a resumer died on it.                       *)
QueuedIsReachable ==
    \A r \in Runs :
        (row[r].status = "queued" /\ \E m \in Msgs : msg[m].run = r) =>
            \/ r \in abandoned
            \/ \E m \in Msgs : msg[m].run = r /\ msg[m].state # "acked"
            \/ \E e \in Executors :
                 exec[e].run = r /\ exec[e].pc \in {"load", "claim"}

(* runs.completed, which feeds the KPI aggregation, is published only for  *)
(* a run whose own message has been acknowledged.                          *)
AnnouncedAfterAck ==
    \A r \in announced : \E m \in Msgs : msg[m].run = r /\ msg[m].state = "acked"

(* A run that is terminal while nobody holds an older read of it stays as  *)
(* it is: no redelivery, resume or cancel request starts or changes it.    *)
Settled(r) ==
    /\ row[r].status \in Terminal
    /\ \A e \in Executors : exec[e].run = r =>
          exec[e].pc \notin {"claim", "run", "await", "resume"}
    /\ \A c \in Clients : ~(client[c].op = "cancel" /\ client[c].target = r)

SettledIsFinal ==
    [][\A r \in Runs : Settled(r) => Settled(r)' /\ row'[r] = row[r]]_vars

(* What an actor has read and not used up yet, as RunRow sees it.          *)
ActOf == [claim |-> "execute", run |-> "finish", await |-> "finish",
          resume |-> "resume"]

ExecutorPermit(s) ==
    IF s.pc \in DOMAIN ActOf THEN <<s.run, ActOf[s.pc]>> ELSE <<>>

ClientPermit(s) == IF s.op = "cancel" THEN <<s.target, "cancel">> ELSE <<>>

RowStatus == [r \in Runs |-> row[r].status]

Actors == Executors \cup Clients

Permits == [x \in Actors |-> IF x \in Clients THEN ClientPermit(client[x])
                                             ELSE ExecutorPermit(exec[x])]

Row == INSTANCE RunRow WITH status <- RowStatus, permit <- Permits

(* Workers, resumers and requests, however they interleave, die and are    *)
(* given the same run again, change a run only as RunRow permits: each     *)
(* change rests on a read of its own, and each execution that began has    *)
(* one end at most.                                                        *)
ImplementsRow == Row!RunRow

(* With one worker and no resumer, crashes, redelivery and duplicate       *)
(* messages never make a step take effect twice.                           *)
StepsAtMostOnce ==
    \A r \in Runs : \A i \in Steps(r) : effects[r][i] <= 1

(* A message in the stream gets its run out of QUEUED, or is given up by   *)
(* the consumer after MaxDeliver deliveries.  (A worker that acknowledges  *)
(* late can take the message from under a run that a resumer re-queued; if *)
(* that resumer then dies, the run stays queued.)                          *)
EnqueuedRunStarts ==
    \A m \in Msgs, r \in Runs :
        (msg[m].state = "ready" /\ msg[m].run = r) ~>
            \/ msg[m].state = "exhausted"
            \/ row[r].status # "queued"
            \/ r \in abandoned

-----------------------------------------------------------------------------
(* What the code's comments and docstrings say and the code does not do.   *)

(* RunWorker: messages are acknowledged after the orchestrator completes   *)
(* (or fails) the run "so that NATS can redeliver on crash".               *)
AckedRunIsSettled ==
    \A m \in Msgs : msg[m].state = "acked" =>
        \/ row[msg[m].run].status \notin {"queued", "running"}
        \/ \E e \in Executors : exec[e].run = msg[m].run

(* cancel_run: "Cancel a queued, running, or approval-blocked run."        *)
CancelIsFinal ==
    [][\A r \in Runs : row[r].status = "cancelled" =>
          row'[r].status = "cancelled"]_vars

(* decide_approval refuses a second decision with ALREADY_DECIDED.         *)
DecidedOnce == \A a \in Approvals : Len(decisions[a]) <= 1

(* resume_after_approval: "Re-queue the run to continue": an approved step *)
(* is not put up for approval again.                                       *)
ResumeContinues ==
    \A a, b \in Approvals :
        (a # b /\ approval[a].run = approval[b].run /\ approval[a] # NoApproval
         /\ approval[a].status = "approved" /\ Plan[approval[a].run][approval[a].step] = "approval")
            => approval[b].step # approval[a].step

(* _fail_run: a run whose step failed is FAILED.                           *)
FailureIsRecorded ==
    [][\A e \in Executors : StepFails(e) =>
          row'[exec[e].run].status = "failed"]_vars
=============================================================================
