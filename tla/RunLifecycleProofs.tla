------------------------- MODULE RunLifecycleProofs -------------------------
(* Proofs about RunLifecycle for every set of runs, workers, resumers,     *)
(* clients, messages and approvals, and every plan: its invariants, and    *)
(* that it implements RunRow.                                              *)
EXTENDS RunLifecycle, TLAPS

(***************************************************************************)
(* What an actor holds refers to rows that exist: the message or approval  *)
(* of an executor is about the run it executes, and a decision about to be *)
(* written is about an approval that was requested.                        *)
(***************************************************************************)
WorkerLinked ==
    \A w \in Workers : exec[w].pc # "idle" =>
        /\ exec[w].ref \in Msgs
        /\ msg[exec[w].ref].run = exec[w].run

ResumerLinked ==
    \A e \in Resumers : exec[e].pc # "idle" =>
        /\ exec[e].ref \in Approvals
        /\ approval[exec[e].ref].run = exec[e].run

ClientLinked ==
    \A c \in Clients : client[c].op = "decide" =>
        approval[client[c].target] # NoApproval

Linked == WorkerLinked /\ ResumerLinked /\ ClientLinked

TypeInv == TypeOK /\ Linked
-----------------------------------------------------------------------------
(* What one assignment of the model keeps of the type of its variable.     *)

(* A plan has a length.                                                    *)
LEMMA PlanLength == \A r \in Runs : Len(Plan[r]) \in Nat
  BY RunsAssumption

(* A status written to the row of a run keeps the type of the table.       *)
LEMMA RowStatusKept ==
  ASSUME RowOK, NEW r \in Runs, NEW s \in RunStatus,
         row' = [row EXCEPT ![r].status = s]
  PROVE  RowOK'
  BY DEF RowOK

(* A message that changes its state only keeps the type of the stream.     *)
LEMMA MsgStateKept ==
  ASSUME MsgOK, NEW m \in Msgs, msg[m] # NoMsg,
         NEW s \in {"ready", "pending", "acked", "exhausted"},
         s = "ready" => msg[m].delivered < MaxDeliver,
         msg' = [msg EXCEPT ![m].state = s]
  PROVE  MsgOK'
  BY DEF MsgOK

(* So does a delivery of a message, ...                                    *)
LEMMA DeliveryKept ==
  ASSUME MsgOK, NEW m \in Msgs, msg[m].state = "ready", msg[m] # NoMsg,
         msg' = [msg EXCEPT ![m].state = "pending", ![m].delivered = @ + 1]
  PROVE  MsgOK'
  BY SMTT(30), RunsAssumption DEF MsgOK

(* ... and a redelivery, which stops after MaxDeliver deliveries.          *)
LEMMA RequeuedKept ==
  ASSUME MsgOK, NEW m \in Msgs, msg[m] # NoMsg, msg' = Requeued(m)
  PROVE  MsgOK'
  BY MsgStateKept DEF Requeued

(* A busy executor that moves to a step of its run keeps its type, ...     *)
LEMMA ExecStepKept ==
  ASSUME ExecOK, NEW e \in Executors, NEW p \in ExecPc \ {"idle"}, NEW n \in Nat,
         exec[e].pc # "idle",
         p = "run" => n \in 1..(Len(Plan[exec[e].run]) + 1),
         p \in {"ack", "publish", "nak"} => e \in Workers,
         p = "resume" => e \in Resumers,
         exec' = [exec EXCEPT ![e].pc = p, ![e].next = n]
  PROVE  ExecOK'
  BY ZenonT(60) DEF ExecOK

(* ... as it does when it goes on in the plan, ...                         *)
LEMMA NextStepKept ==
  ASSUME ExecOK, NEW e \in Executors, exec[e].pc = "run",
         NEW n \in 1..(Len(Plan[exec[e].run]) + 1),
         exec' = [exec EXCEPT ![e].next = n]
  PROVE  ExecOK'
  BY PlanLength DEF ExecOK

(* ... and when execute_run returns or raises.                             *)
LEMMA ReturnKept ==
  ASSUME ExecOK, NEW e \in Executors, exec[e].pc # "idle",
         exec' = Return(e) \/ exec' = Raise(e)
  PROVE  ExecOK'
<1>1. CASE e \in Workers
  <2>1. PICK p \in {"ack", "nak"} : exec' = [exec EXCEPT ![e].pc = p]
    BY <1>1 DEF ExecOK, Return, Raise
  <2> QED
    BY <1>1, <2>1 DEF ExecOK, ExecPc
<1>2. CASE e \notin Workers
  <2>1. exec' = [exec EXCEPT ![e] = IdleExec]
    BY <1>2 DEF ExecOK, Return, Raise
  <2> QED
    BY <2>1 DEF ExecOK, IdleExec, ExecPc
<1> QED
  BY <1>1, <1>2

(* An executor that returns or raises leaves the links of the others       *)
(* alone.                                                                  *)
LEMMA ReturnLinked ==
  ASSUME ExecOK, WorkerLinked, ResumerLinked, UNCHANGED <<msg, approval>>,
         NEW e \in Executors, exec[e].pc # "idle",
         exec' = Return(e) \/ exec' = Raise(e)
  PROVE  WorkerLinked' /\ ResumerLinked'
  BY ActorsAssumption DEF ExecOK, WorkerLinked, ResumerLinked, Return, Raise,
      IdleExec, Executors

(* _fail_run keeps the types, whether its commit is accepted or raises.    *)
LEMMA FailRunKept ==
  ASSUME RowOK, ExecOK, HistoryOK, NEW e \in Executors, exec[e].pc # "idle",
         FailRun(e)
  PROVE  /\ RowOK'
         /\ ExecOK'
         /\ abandoned' \subseteq Runs
  <1>1. exec[e].run \in Runs
    BY DEF ExecOK
  <1>2. CASE WallTimeFits
    BY <1>1, <1>2, RowStatusKept, ReturnKept DEF FailRun, RunStatus, HistoryOK
  <1>3. CASE ~WallTimeFits
    <2>1. ExecOK'
      BY <1>3, ReturnKept DEF FailRun
    <2>2. RowOK'
      BY <1>3 DEF FailRun, RowOK
    <2>3. abandoned' \subseteq Runs
      BY <1>1, <1>3 DEF FailRun, Abandon, HistoryOK
    <2> QED
      BY <2>1, <2>2, <2>3
  <1> QED
    BY <1>2, <1>3

-----------------------------------------------------------------------------
(* Every step keeps the types and the links between actors and rows.       *)
LEMMA TypeStep == TypeInv /\ [Next]_vars => TypeInv'
<1> SUFFICES ASSUME TypeInv, [Next]_vars
             PROVE  TypeInv'
    OBVIOUS
<1> USE ActorsAssumption DEF TypeInv, TypeOK, Linked, history
<1>1. ASSUME NEW r \in Runs, TriggerRun(r)
       PROVE  TypeInv'
  <2>1. RowOK'
    BY <1>1, RowStatusKept DEF TriggerRun, RunStatus
  <2> QED
    BY <1>1, <2>1 DEF TriggerRun, ApprovalOK, MsgOK, ExecOK, ClientOK,
        HistoryOK, WorkerLinked, ResumerLinked, ClientLinked
<1>2. ASSUME NEW m \in Msgs, NEW r \in Runs, EnqueueRun(m, r)
       PROVE  TypeInv'
  <2>1. MsgOK'
    <3> DEFINE x == [run |-> r, state |-> "ready", delivered |-> 0]
    <3>1. msg' = [msg EXCEPT ![m] = x]
      BY <1>2 DEF EnqueueRun
    <3>2. 0 \in 0..MaxDeliver /\ 0 < MaxDeliver
      BY RunsAssumption
    <3> QED
      BY <1>2, <3>1, <3>2 DEF MsgOK
  <2>2. WorkerLinked'
    BY <1>2 DEF EnqueueRun, WorkerLinked, ExecOK, Executors, NoMsg
  <2> QED
    BY <1>2, <2>1, <2>2 DEF EnqueueRun, RowOK, ApprovalOK, ExecOK, ClientOK,
        HistoryOK, ResumerLinked, ClientLinked
<1>3. ASSUME NEW c \in Clients, NEW r \in Runs, CancelRead(c, r)
       PROVE  TypeInv'
  <2>1. ClientOK'
    BY <1>3 DEF CancelRead, ClientOK, IdleClient
  <2>2. ClientLinked'
    BY <1>3 DEF CancelRead, ClientLinked, ClientOK
  <2> QED
    BY <1>3, <2>1, <2>2 DEF CancelRead, RowOK, ApprovalOK, MsgOK, ExecOK,
        HistoryOK, WorkerLinked, ResumerLinked
<1>4. ASSUME NEW c \in Clients, CancelWrite(c)
       PROVE  TypeInv'
  <2>1. RowOK'
    BY <1>4, RowStatusKept DEF CancelWrite, RunStatus, ClientOK
  <2>2. ClientOK'
    BY <1>4 DEF CancelWrite, ClientOK, IdleClient
  <2>3. ClientLinked'
    BY <1>4 DEF CancelWrite, ClientLinked, IdleClient
  <2> QED
    BY <1>4, <2>1, <2>2, <2>3 DEF CancelWrite, ApprovalOK, MsgOK, ExecOK,
        HistoryOK, WorkerLinked, ResumerLinked
<1>5. ASSUME NEW c \in Clients, NEW a \in Approvals, NEW v \in Verdicts, DecideRead(c, a, v)
       PROVE  TypeInv'
  <2>1. ClientOK'
    BY <1>5 DEF DecideRead, ClientOK
  <2>2. ClientLinked'
    BY <1>5 DEF DecideRead, ClientLinked, NoApproval
  <2> QED
    BY <1>5, <2>1, <2>2 DEF DecideRead, RowOK, ApprovalOK, MsgOK, ExecOK,
        HistoryOK, WorkerLinked, ResumerLinked
<1>6. ASSUME NEW c \in Clients, DecideWrite(c)
       PROVE  TypeInv'
  <2>1. ApprovalOK'
    BY SMTT(30), <1>6, RunsAssumption DEF DecideWrite, ApprovalOK, ClientOK,
        ClientLinked, NoApproval, Verdicts
  <2>2. ClientOK'
    BY <1>6 DEF DecideWrite, ClientOK, IdleClient
  <2>3. HistoryOK'
    BY <1>6 DEF DecideWrite, HistoryOK, ClientOK
  <2>4. ResumerLinked'
    BY <1>6 DEF DecideWrite, ResumerLinked
  <2>5. ClientLinked'
    BY <1>6 DEF DecideWrite, ClientLinked, ApprovalOK, ClientOK, Verdicts,
        NoApproval, IdleClient
  <2> QED
    BY <1>6, <2>1, <2>2, <2>3, <2>4, <2>5 DEF DecideWrite, RowOK, MsgOK,
        ExecOK, WorkerLinked
<1>7. ASSUME NEW m \in Msgs, AckWaitExpires(m)
       PROVE  TypeInv'
  <2>1. MsgOK'
    BY <1>7, RequeuedKept DEF AckWaitExpires, NoMsg
  <2>2. WorkerLinked'
    BY <1>7 DEF AckWaitExpires, Requeued, WorkerLinked
  <2> QED
    BY <1>7, <2>1, <2>2 DEF AckWaitExpires, RowOK, ApprovalOK, ExecOK,
        ClientOK, HistoryOK, ResumerLinked, ClientLinked
<1>8. ASSUME NEW w \in Workers, NEW m \in Msgs, Fetch(w, m)
       PROVE  TypeInv'
  <2>1. MsgOK'
    <3>1. msg[m].state = "ready" /\ msg[m] # NoMsg
      BY <1>8 DEF Fetch, NoMsg
    <3>2. msg' = [msg EXCEPT ![m].state = "pending", ![m].delivered = @ + 1]
      BY <1>8 DEF Fetch
    <3> QED
      BY <1>8, <3>1, <3>2, DeliveryKept
  <2>2. ExecOK'
    BY <1>8 DEF Fetch, MsgOK
  <2>3. WorkerLinked'
    BY <1>8 DEF Fetch, MsgOK
  <2>4. ResumerLinked'
    BY <1>8 DEF Fetch, ResumerLinked
  <2> QED
    BY <1>8, <2>1, <2>2, <2>3, <2>4 DEF Fetch, ApprovalOK, MsgOK, ClientOK,
        ClientLinked
<1>9. ASSUME NEW w \in Workers, Ack(w)
       PROVE  TypeInv'
  <2>1. MsgOK'
    <3>1. PICK m : m = exec[w].ref
      OBVIOUS
    <3>2. exec[w].pc # "idle" /\ w \in Executors
      BY <1>9 DEF Ack, Executors
    <3>4. m \in Msgs /\ msg[m].run = exec[w].run
      BY <1>9, <3>1, <3>2 DEF WorkerLinked
    <3>5. exec[w].run \in Runs
      BY <3>2 DEF ExecOK
    <3>6. msg[m] # NoMsg
      BY <3>4, <3>5 DEF NoMsg
    <3>3. msg' = [msg EXCEPT ![m].state = "acked"]
      BY <1>9, <3>1 DEF Ack
    <3> QED
      BY <3>3, <3>4, <3>6, MsgStateKept
  <2>2. ExecOK'
    BY ZenonT(60), <1>9 DEF Ack, ExecOK, ExecPc
  <2>3. WorkerLinked'
    BY <1>9 DEF Ack, WorkerLinked
  <2>4. ResumerLinked'
    BY <1>9 DEF Ack, ResumerLinked
  <2> QED
    BY <1>9, <2>1, <2>2, <2>3, <2>4 DEF Ack, RowOK, ApprovalOK, ClientOK,
        HistoryOK, ClientLinked
<1>10. ASSUME NEW w \in Workers, Publish(w)
       PROVE  TypeInv'
  <2>1. ExecOK'
    BY <1>10 DEF Publish, ExecOK, ExecPc, IdleExec
  <2>2. HistoryOK'
    BY <1>10 DEF Publish, HistoryOK, Executors, ExecOK
  <2>3. WorkerLinked'
    BY <1>10 DEF Publish, WorkerLinked, IdleExec
  <2>4. ResumerLinked'
    BY <1>10 DEF Publish, ResumerLinked
  <2> QED
    BY <1>10, <2>1, <2>2, <2>3, <2>4 DEF Publish, RowOK, ApprovalOK, MsgOK,
        ClientOK, ClientLinked
<1>11. ASSUME NEW w \in Workers, Nak(w)
       PROVE  TypeInv'
  <2>1. MsgOK'
    BY <1>11, RequeuedKept DEF Nak, MsgOK, WorkerLinked, NoMsg
  <2>2. ExecOK'
    BY <1>11 DEF Nak, ExecOK, ExecPc, IdleExec
  <2>3. WorkerLinked'
    BY <1>11 DEF Nak, Requeued, WorkerLinked, IdleExec
  <2>4. ResumerLinked'
    BY <1>11 DEF Nak, ResumerLinked
  <2> QED
    BY <1>11, <2>1, <2>2, <2>3, <2>4 DEF Nak, RowOK, ApprovalOK, ClientOK,
        HistoryOK, ClientLinked
<1>12. ASSUME NEW e \in Executors, Load(e)
       PROVE  TypeInv'
  <2>1. ExecOK'
    BY <1>12 DEF Load, Return, ExecOK, ExecPc, IdleExec
  <2>2. WorkerLinked'
    BY <1>12 DEF Load, Return, WorkerLinked
  <2>3. ResumerLinked'
    BY <1>12 DEF Load, Return, ResumerLinked, IdleExec
  <2> QED
    BY <1>12, <2>1, <2>2, <2>3 DEF Load, RowOK, ApprovalOK, MsgOK, ClientOK,
        HistoryOK, ClientLinked
<1>13. ASSUME NEW e \in Executors, Claim(e)
       PROVE  TypeInv'
  <2>1. RowOK'
    BY <1>13, RowStatusKept DEF Claim, RunStatus, ExecOK
  <2>2. ExecOK'
    <3>1. exec[e].pc # "idle" /\ exec[e].run \in Runs
      BY <1>13 DEF Claim, ExecOK
    <3>2. 1 \in 1..(Len(Plan[exec[e].run]) + 1)
      BY <3>1, PlanLength
    <3>3. "run" \in ExecPc \ {"idle"}
      BY DEF ExecPc
    <3>4. exec' = [exec EXCEPT ![e].pc = "run", ![e].next = 1]
      BY <1>13 DEF Claim
    <3> QED
      BY <3>1, <3>2, <3>3, <3>4, ExecStepKept
  <2>3. WorkerLinked'
    BY <1>13 DEF Claim, WorkerLinked, ExecOK, Executors
  <2>4. ResumerLinked'
    BY <1>13 DEF Claim, ResumerLinked, ExecOK, Executors
  <2> QED
    BY <1>13, <2>1, <2>2, <2>3, <2>4 DEF Claim, ApprovalOK, MsgOK, ClientOK,
        HistoryOK, ClientLinked
<1>14. ASSUME NEW e \in Executors, StepDone(e)
       PROVE  TypeInv'
  <2>1. RowOK'
    <3>1. /\ exec[e].run \in Runs
          /\ exec[e].next \in 1..Len(Plan[exec[e].run])
          /\ row' = [row EXCEPT ![exec[e].run].steps = exec[e].next]
      BY <1>14 DEF StepDone, InPlan, Steps, ExecOK
    <3> QED
      BY SMTT(30), <3>1, PlanLength DEF RowOK
  <2>2. ExecOK'
    <3>1. exec[e].run \in Runs /\ exec[e].next \in 1..Len(Plan[exec[e].run])
      BY <1>14 DEF StepDone, InPlan, Steps, ExecOK
    <3>2. exec[e].next + 1 \in 1..(Len(Plan[exec[e].run]) + 1)
      BY <3>1, PlanLength
    <3> QED
      BY <1>14, <3>2, NextStepKept DEF StepDone
  <2>3. HistoryOK'
    <3> DEFINE r == exec[e].run
               i == exec[e].next
    <3>1. r \in Runs /\ i \in Steps(r)
      BY <1>14 DEF StepDone, InPlan, ExecOK
    <3>2. effects' = [effects EXCEPT ![r] = [effects[r] EXCEPT ![i] = @ + 1]]
      BY <1>14 DEF StepDone
    <3>3. [effects[r] EXCEPT ![i] = @ + 1] \in [Steps(r) -> Nat]
      BY <3>1 DEF HistoryOK
    <3> HIDE DEF r, i
    <3>4. effects' = [x \in Runs |-> effects'[x]]
      BY <3>1, <3>2 DEF HistoryOK
    <3>5. \A x \in Runs : effects'[x] \in [Steps(x) -> Nat]
      BY <3>1, <3>2, <3>3 DEF HistoryOK
    <3> QED
      BY <1>14, <3>4, <3>5 DEF StepDone, HistoryOK
  <2>4. WorkerLinked'
    BY <1>14 DEF StepDone, WorkerLinked
  <2>5. ResumerLinked'
    BY <1>14 DEF StepDone, ResumerLinked
  <2> QED
    BY <1>14, <2>1, <2>2, <2>3, <2>4, <2>5 DEF StepDone, ApprovalOK, MsgOK,
        ClientOK, ClientLinked
<1>15. ASSUME NEW e \in Executors, NEW a \in Approvals, Gate(e, a)
       PROVE  TypeInv'
  <2>1. ApprovalOK'
    BY <1>15 DEF Gate, InPlan, ApprovalOK, ExecOK
  <2>2. ExecOK'
    BY SMTT(30), <1>15 DEF Gate, ExecOK, ExecPc
  <2>3. WorkerLinked'
    BY <1>15 DEF Gate, WorkerLinked
  <2>4. ResumerLinked'
    BY <1>15 DEF Gate, ResumerLinked, ExecOK, Executors, NoApproval
  <2>5. ClientLinked'
    BY <1>15 DEF Gate, ClientLinked
  <2> QED
    BY <1>15, <2>1, <2>2, <2>3, <2>4, <2>5 DEF Gate, RowOK, MsgOK, ClientOK,
        HistoryOK
<1>16. ASSUME NEW e \in Executors, Complete(e)
       PROVE  TypeInv'
  <2>1. RowOK'
    BY <1>16, RowStatusKept DEF Complete, RunStatus, ExecOK
  <2>2. ExecOK'
    BY <1>16, ReturnKept DEF Complete
  <2>3. WorkerLinked'
    BY <1>16 DEF Complete, Return, WorkerLinked
  <2>4. ResumerLinked'
    BY <1>16 DEF Complete, Return, ResumerLinked, IdleExec
  <2> QED
    BY <1>16, <2>1, <2>2, <2>3, <2>4 DEF Complete, ApprovalOK, MsgOK,
        ClientOK, HistoryOK, ClientLinked
<1>17. ASSUME NEW e \in Executors, StepFails(e)
       PROVE  TypeInv'
  <2>1. RowOK'
    BY <1>17, FailRunKept DEF StepFails
  <2>2. ExecOK'
    BY <1>17, FailRunKept DEF StepFails
  <2>3. HistoryOK'
    BY <1>17, FailRunKept DEF StepFails, HistoryOK
  <2>4. WorkerLinked'
    BY <1>17, ReturnLinked DEF StepFails, FailRun
  <2>5. ResumerLinked'
    BY <1>17, ReturnLinked DEF StepFails, FailRun
  <2> QED
    BY <1>17, <2>1, <2>2, <2>3, <2>4, <2>5 DEF StepFails, ApprovalOK, MsgOK,
        ClientOK, ClientLinked
<1>18. ASSUME NEW e \in Executors, Await(e)
       PROVE  TypeInv'
  <2>1. RowOK'
    BY <1>18, RowStatusKept DEF Await, RunStatus, ExecOK
  <2>2. ExecOK'
    BY <1>18, ReturnKept DEF Await
  <2>3. WorkerLinked'
    BY <1>18 DEF Await, Return, WorkerLinked
  <2>4. ResumerLinked'
    BY <1>18 DEF Await, Return, ResumerLinked, IdleExec
  <2> QED
    BY <1>18, <2>1, <2>2, <2>3, <2>4 DEF Await, ApprovalOK, MsgOK, ClientOK,
        HistoryOK, ClientLinked
<1>19. ASSUME NEW e \in Executors, Escape(e)
       PROVE  TypeInv'
  <2>1. ExecOK'
    BY <1>19, ReturnKept DEF Escape
  <2>2. HistoryOK'
    BY <1>19 DEF Escape, Abandon, HistoryOK, ExecOK
  <2>3. WorkerLinked'
    BY <1>19 DEF Escape, Raise, WorkerLinked
  <2>4. ResumerLinked'
    BY <1>19 DEF Escape, Raise, ResumerLinked, IdleExec
  <2> QED
    BY <1>19, <2>1, <2>2, <2>3, <2>4 DEF Escape, RowOK, ApprovalOK, MsgOK,
        ClientOK, ClientLinked
<1>20. ASSUME NEW e \in Executors, Crash(e)
       PROVE  TypeInv'
  <2>1. ExecOK'
    BY <1>20 DEF Crash, ExecOK, ExecPc, IdleExec
  <2>2. HistoryOK'
    BY <1>20 DEF Crash, Abandon, HistoryOK, ExecOK
  <2>3. WorkerLinked'
    BY <1>20 DEF Crash, WorkerLinked, IdleExec
  <2>4. ResumerLinked'
    BY <1>20 DEF Crash, ResumerLinked, IdleExec
  <2> QED
    BY <1>20, <2>1, <2>2, <2>3, <2>4 DEF Crash, RowOK, ApprovalOK, MsgOK,
        ClientOK, ClientLinked
<1>21. ASSUME NEW e \in Resumers, NEW a \in Approvals, ResumeRead(e, a)
       PROVE  TypeInv'
  <2>1. ExecOK'
    BY <1>21 DEF ResumeRead, ExecOK, ExecPc, ApprovalOK
  <2>2. HistoryOK'
    BY <1>21, RunsAssumption DEF ResumeRead, HistoryOK
  <2>3. WorkerLinked'
    BY <1>21 DEF ResumeRead, WorkerLinked
  <2>4. ResumerLinked'
    BY <1>21 DEF ResumeRead, ResumerLinked
  <2> QED
    BY <1>21, <2>1, <2>2, <2>3, <2>4 DEF ResumeRead, RowOK, ApprovalOK, MsgOK,
        ClientOK, ClientLinked
<1>22. ASSUME NEW e \in Resumers, ResumeRequeue(e)
       PROVE  TypeInv'
  <2>1. RowOK'
    BY <1>22, RowStatusKept DEF ResumeRequeue, RunStatus, ExecOK, Executors
  <2>2. ExecOK'
    BY <1>22 DEF ResumeRequeue, ExecOK, Executors, ExecPc
  <2>3. WorkerLinked'
    BY <1>22 DEF ResumeRequeue, WorkerLinked
  <2>4. ResumerLinked'
    BY <1>22 DEF ResumeRequeue, ResumerLinked
  <2> QED
    BY <1>22, <2>1, <2>2, <2>3, <2>4 DEF ResumeRequeue, ApprovalOK, MsgOK,
        ClientOK, HistoryOK, ClientLinked
<1>23. ASSUME NEW e \in Resumers, ResumeReject(e)
       PROVE  TypeInv'
  <2>1. RowOK'
    BY <1>23, FailRunKept DEF ResumeReject, Executors
  <2>2. ExecOK'
    BY <1>23, FailRunKept DEF ResumeReject, Executors
  <2>3. HistoryOK'
    BY <1>23, FailRunKept DEF ResumeReject, HistoryOK, Executors
  <2>4. WorkerLinked'
    BY <1>23, ReturnLinked DEF ResumeReject, FailRun, Executors
  <2>5. ResumerLinked'
    BY <1>23, ReturnLinked DEF ResumeReject, FailRun, Executors
  <2> QED
    BY <1>23, <2>1, <2>2, <2>3, <2>4, <2>5 DEF ResumeReject, ApprovalOK,
        MsgOK, ClientOK, ClientLinked
<1>24. ASSUME NEW e \in Resumers, ResumeIgnored(e)
       PROVE  TypeInv'
  <2>1. ExecOK'
    BY <1>24 DEF ResumeIgnored, ExecOK, ExecPc, IdleExec
  <2>2. WorkerLinked'
    BY <1>24 DEF ResumeIgnored, WorkerLinked
  <2>3. ResumerLinked'
    BY <1>24 DEF ResumeIgnored, ResumerLinked, IdleExec
  <2> QED
    BY <1>24, <2>1, <2>2, <2>3 DEF ResumeIgnored, RowOK, ApprovalOK, MsgOK,
        ClientOK, HistoryOK, ClientLinked
<1>25. CASE UNCHANGED vars
    BY <1>25 DEF vars, RowOK, ApprovalOK, MsgOK, ExecOK, ClientOK, HistoryOK,
        WorkerLinked, ResumerLinked, ClientLinked
<1>26. QED
    BY <1>1, <1>2, <1>3, <1>4, <1>5, <1>6, <1>7, <1>8, <1>9, <1>10, <1>11,
        <1>12, <1>13, <1>14, <1>15, <1>16, <1>17, <1>18, <1>19, <1>20, <1>21,
        <1>22, <1>23, <1>24, <1>25 DEF Next, ExecuteRun, Advance

(* Every reachable state is well typed and its references are live.        *)
LEMMA TypeInvariant == Spec => []TypeInv
<1>1. Init => TypeInv
  <2> SUFFICES ASSUME Init
               PROVE  TypeInv
      OBVIOUS
  <2> USE RunsAssumption, ActorsAssumption
          DEF Init, NoRow, NoApproval, NoMsg, IdleExec, IdleClient
  <2>1. RowOK
    BY PlanLength DEF RowOK
  <2>2. ApprovalOK /\ MsgOK /\ ClientOK
    BY DEF ApprovalOK, MsgOK, ClientOK
  <2>3. ExecOK
    BY DEF ExecOK, ExecPc
  <2>4. HistoryOK
    BY DEF HistoryOK
  <2>5. Linked
    BY DEF Linked, WorkerLinked, ResumerLinked, ClientLinked, Executors
  <2> QED
    BY <2>1, <2>2, <2>3, <2>4, <2>5 DEF TypeInv, TypeOK
<1> QED
    BY <1>1, TypeStep, PTL DEF Spec

(* The columns of a run, an approval and a message, the place of every     *)
(* executor and every request in flight stay within their types.           *)
THEOREM TypeCorrect == Spec => []TypeOK
<1>1. TypeInv => TypeOK
    BY DEF TypeInv
<1> QED
    BY <1>1, TypeInvariant, PTL

-----------------------------------------------------------------------------
(***************************************************************************)
(* The safety properties of RunLifecycle.  Each is a conjunct of an        *)
(* inductive invariant that adds what the executors in flight know.        *)
(***************************************************************************)

(* What the commit of status = RUNNING changes, row by row and executor by *)
(* executor.                                                               *)
ClaimEffect(e) ==
    /\ exec[e].run \in Runs
    /\ row'[exec[e].run].status = "running"
    /\ \A r \in Runs : r # exec[e].run => row'[r] = row[r]
    /\ exec'[e].pc = "run" /\ exec'[e].next = 1
    /\ exec'[e].run = exec[e].run /\ exec'[e].ref = exec[e].ref
    /\ \A x \in Executors : x # e => exec'[x] = exec[x]

(* Claim changes the row of the run and the place of its executor, no      *)
(* other.                                                                  *)
LEMMA ClaimChanges ==
  ASSUME RowOK, ExecOK, NEW e \in Executors, Claim(e)
  PROVE  ClaimEffect(e)
  <1>1. exec[e].run \in Runs
    BY DEF Claim, ExecOK
  <1>2. /\ exec'[e].pc = "run" /\ exec'[e].next = 1
        /\ exec'[e].run = exec[e].run /\ exec'[e].ref = exec[e].ref
        /\ \A x \in Executors : x # e => exec'[x] = exec[x]
    BY DEF Claim, ExecOK
  <1>3. /\ row'[exec[e].run].status = "running"
        /\ \A r \in Runs : r # exec[e].run => row'[r] = row[r]
    BY <1>1 DEF Claim, RowOK
  <1> QED
    BY <1>1, <1>2, <1>3 DEF ClaimEffect

(* What _fail_run changes: the row is FAILED and the executor returns, or  *)
(* the commit raises and the row is as it was.                             *)
FailRunEffect(e) ==
    /\ exec[e].run \in Runs
    /\ \A x \in Executors : x # e => exec'[x] = exec[x]
    /\ exec'[e].pc \in {"ack", "nak", "idle"}
    /\ exec'[e].pc # "idle" => e \in Workers /\ exec'[e].run = exec[e].run
    /\ e \in Workers => exec'[e].ref = exec[e].ref
    /\ \A r \in Runs : r # exec[e].run => row'[r] = row[r]
    /\ \/ row'[exec[e].run].status = "failed" /\ exec'[e].pc # "nak"
       \/ row' = row /\ exec'[e].pc # "ack"
    /\ abandoned \subseteq abandoned'
    /\ exec[e].pc = "run" => \/ row'[exec[e].run].status = "failed"
                             \/ exec[e].run \in abandoned'

(* FailRun does that in both of its cases.                                 *)
LEMMA FailRunChanges ==
  ASSUME RowOK, ExecOK, NEW e \in Executors, exec[e].pc \in {"run", "resume"},
         FailRun(e)
  PROVE  FailRunEffect(e)
  <1>1. exec[e].run \in Runs
    BY DEF ExecOK
  <1>2. CASE WallTimeFits
    <2>1. /\ \A x \in Executors : x # e => exec'[x] = exec[x]
          /\ exec'[e].pc \in {"ack", "idle"}
          /\ exec'[e].pc # "idle" => e \in Workers /\ exec'[e].run = exec[e].run
          /\ e \in Workers => exec'[e].ref = exec[e].ref
      BY <1>2 DEF FailRun, Return, ExecOK, IdleExec
    <2>2. /\ \A r \in Runs : r # exec[e].run => row'[r] = row[r]
          /\ row'[exec[e].run].status = "failed"
          /\ abandoned' = abandoned
      BY <1>1, <1>2 DEF FailRun, RowOK
    <2> QED
      BY <1>1, <2>1, <2>2 DEF FailRunEffect
  <1>3. CASE ~WallTimeFits
    <2>1. /\ \A x \in Executors : x # e => exec'[x] = exec[x]
          /\ exec'[e].pc \in {"nak", "idle"}
          /\ exec'[e].pc # "idle" => e \in Workers /\ exec'[e].run = exec[e].run
          /\ e \in Workers => exec'[e].ref = exec[e].ref
      BY <1>3 DEF FailRun, Raise, ExecOK, IdleExec
    <2>2. /\ row' = row
          /\ abandoned \subseteq abandoned'
          /\ exec[e].pc = "run" => exec[e].run \in abandoned'
      BY <1>1, <1>3 DEF FailRun, Abandon
    <2> QED
      BY <1>1, <2>1, <2>2 DEF FailRunEffect
  <1> QED
    BY <1>2, <1>3

-----------------------------------------------------------------------------
(* Every step keeps a running run owned.                                   *)
LEMMA OwnedStep == TypeInv /\ RunningIsOwned /\ [Next]_vars => RunningIsOwned'
<1> SUFFICES ASSUME TypeInv, RunningIsOwned, [Next]_vars
             PROVE  RunningIsOwned'
    OBVIOUS
<1> USE ActorsAssumption DEF TypeInv, TypeOK, Linked, history, RowOK, ExecOK,
    HistoryOK, RunningIsOwned
<1>1. CASE UNCHANGED <<abandoned, exec, row>>
    BY <1>1
<1>2. ASSUME NEW r \in Runs, TriggerRun(r)
       PROVE  RunningIsOwned'
    BY <1>2 DEF TriggerRun
<1>3. ASSUME NEW c \in Clients, CancelWrite(c)
       PROVE  RunningIsOwned'
    BY <1>3 DEF CancelWrite
<1>4. ASSUME NEW w \in Workers, NEW m \in Msgs, Fetch(w, m)
       PROVE  RunningIsOwned'
    BY <1>4 DEF Fetch, IdleExec
<1>5. ASSUME NEW w \in Workers, Ack(w)
       PROVE  RunningIsOwned'
    BY ZenonT(60), <1>5 DEF Ack
<1>6. ASSUME NEW w \in Workers, Publish(w)
       PROVE  RunningIsOwned'
    BY <1>6 DEF Publish
<1>7. ASSUME NEW w \in Workers, Nak(w)
       PROVE  RunningIsOwned'
    BY <1>7 DEF Nak
<1>8. ASSUME NEW e \in Executors, Load(e)
       PROVE  RunningIsOwned'
    BY ZenonT(60), <1>8 DEF Load, Return
<1>9. ASSUME NEW e \in Executors, Claim(e)
       PROVE  RunningIsOwned'
  <2>1. ClaimEffect(e)
    BY <1>9, ClaimChanges
  <2>2. e \in Executors /\ abandoned' = abandoned
    BY <1>9 DEF Claim
  <2> HIDE DEF TypeInv, TypeOK, RowOK, ExecOK, HistoryOK, ApprovalOK, MsgOK, Linked, WorkerLinked
  <2>3. SUFFICES ASSUME NEW r \in Runs, row'[r].status = "running"
               PROVE  r \in abandoned' \/ \E x \in Executors : exec'[x].run = r /\ exec'[x].pc \in {"run", "await"}
    OBVIOUS
  <2>4. CASE r = exec[e].run
    BY <2>1, <2>2, <2>3, <2>4 DEF ClaimEffect
  <2>5. CASE r # exec[e].run
    <3>1. row[r].status = "running"
      BY <2>1, <2>3, <2>5 DEF ClaimEffect
    <3>2. CASE r \in abandoned
      BY <2>1, <2>2, <3>2
    <3>3. CASE \E x \in Executors : exec[x].run = r /\ exec[x].pc \in {"run", "await"}
      BY <2>1, <2>2, <2>5, <3>3 DEF ClaimEffect
    <3> QED
      BY <3>1, <3>2, <3>3
  <2> QED
    BY <2>4, <2>5
<1>10. ASSUME NEW e \in Executors, StepDone(e)
       PROVE  RunningIsOwned'
    BY <1>10 DEF StepDone
<1>11. ASSUME NEW e \in Executors, NEW a \in Approvals, Gate(e, a)
       PROVE  RunningIsOwned'
    BY <1>11 DEF Gate
<1>12. ASSUME NEW e \in Executors, Complete(e)
       PROVE  RunningIsOwned'
    BY <1>12 DEF Complete, Return
<1>13. ASSUME NEW e \in Executors, StepFails(e)
       PROVE  RunningIsOwned'
  <2>1. FailRunEffect(e)
    BY <1>13, FailRunChanges DEF StepFails
  <2>2. e \in Executors /\ exec[e].pc = "run"
    BY <1>13 DEF StepFails
  <2> HIDE DEF TypeInv, TypeOK, RowOK, ExecOK, HistoryOK, ApprovalOK, MsgOK, Linked, WorkerLinked
  <2>3. SUFFICES ASSUME NEW r \in Runs, row'[r].status = "running"
               PROVE  r \in abandoned' \/ \E x \in Executors : exec'[x].run = r /\ exec'[x].pc \in {"run", "await"}
    OBVIOUS
  <2>4. CASE r = exec[e].run
    BY <2>1, <2>2, <2>3, <2>4 DEF FailRunEffect
  <2>5. CASE r # exec[e].run
    <3>1. row[r].status = "running"
      BY <2>1, <2>3, <2>5 DEF FailRunEffect
    <3>2. CASE r \in abandoned
      BY <2>1, <2>2, <3>2 DEF FailRunEffect
    <3>3. CASE \E x \in Executors : exec[x].run = r /\ exec[x].pc \in {"run", "await"}
      BY <2>1, <2>2, <2>5, <3>3 DEF FailRunEffect
    <3> QED
      BY <3>1, <3>2, <3>3
  <2> QED
    BY <2>4, <2>5
<1>14. ASSUME NEW e \in Executors, Await(e)
       PROVE  RunningIsOwned'
    BY <1>14 DEF Await, Return
<1>15. ASSUME NEW e \in Executors, Escape(e)
       PROVE  RunningIsOwned'
    BY <1>15 DEF Escape, Raise, Abandon
<1>16. ASSUME NEW e \in Executors, Crash(e)
       PROVE  RunningIsOwned'
    BY <1>16 DEF Crash, Abandon
<1>17. ASSUME NEW e \in Resumers, NEW a \in Approvals, ResumeRead(e, a)
       PROVE  RunningIsOwned'
    BY <1>17 DEF ResumeRead, IdleExec
<1>18. ASSUME NEW e \in Resumers, ResumeRequeue(e)
       PROVE  RunningIsOwned'
    BY <1>18 DEF ResumeRequeue
<1>19. ASSUME NEW e \in Resumers, ResumeReject(e)
       PROVE  RunningIsOwned'
  <2>1. FailRunEffect(e)
    BY <1>19, FailRunChanges DEF ResumeReject, Executors
  <2>2. e \in Executors /\ exec[e].pc = "resume"
    BY <1>19 DEF ResumeReject, Executors
  <2> HIDE DEF TypeInv, TypeOK, RowOK, ExecOK, HistoryOK, ApprovalOK, MsgOK, Linked, WorkerLinked
  <2>3. SUFFICES ASSUME NEW r \in Runs, row'[r].status = "running"
               PROVE  r \in abandoned' \/ \E x \in Executors : exec'[x].run = r /\ exec'[x].pc \in {"run", "await"}
    OBVIOUS
  <2>4. CASE r = exec[e].run
    BY <2>1, <2>2, <2>3, <2>4 DEF FailRunEffect
  <2>5. CASE r # exec[e].run
    <3>1. row[r].status = "running"
      BY <2>1, <2>3, <2>5 DEF FailRunEffect
    <3>2. CASE r \in abandoned
      BY <2>1, <2>2, <3>2 DEF FailRunEffect
    <3>3. CASE \E x \in Executors : exec[x].run = r /\ exec[x].pc \in {"run", "await"}
      BY <2>1, <2>2, <2>5, <3>3 DEF FailRunEffect
    <3> QED
      BY <3>1, <3>2, <3>3
  <2> QED
    BY <2>4, <2>5
<1>20. ASSUME NEW e \in Resumers, ResumeIgnored(e)
       PROVE  RunningIsOwned'
    BY <1>20 DEF ResumeIgnored
<1> QED
    BY <1>1, <1>2, <1>3, <1>4, <1>5, <1>6, <1>7, <1>8, <1>9, <1>10, <1>11,
        <1>12, <1>13, <1>14, <1>15, <1>16, <1>17, <1>18, <1>19, <1>20 DEF
        Next, ExecuteRun, Advance, vars, EnqueueRun, CancelRead, DecideRead,
        DecideWrite, AckWaitExpires

(* A run shown as running is being executed, or its executor died or       *)
(* raised out of it: proof by induction on RunningIsOwned itself.          *)
THEOREM RunningOwned == Spec => []RunningIsOwned
<1>1. Init => RunningIsOwned
    BY DEF Init, NoRow, RunningIsOwned
<1> QED
    BY <1>1, OwnedStep, TypeInvariant, PTL DEF Spec

-----------------------------------------------------------------------------
(* Between the two commits of a gate the request is already there.         *)
AwaitInv ==
    /\ AwaitingHasRequest
    /\ \A e \in Executors : exec[e].pc = "await" =>
          \E a \in Approvals : approval[a].run = exec[e].run

(* Every step keeps AwaitInv.                                              *)
LEMMA AwaitStep == TypeInv /\ AwaitInv /\ [Next]_vars => AwaitInv'
<1> SUFFICES ASSUME TypeInv, AwaitInv, [Next]_vars
             PROVE  AwaitInv'
    OBVIOUS
<1> USE ActorsAssumption DEF TypeInv, TypeOK, Linked, history, RowOK, ExecOK,
    ApprovalOK, AwaitInv, AwaitingHasRequest
<1>1. CASE UNCHANGED <<approval, exec, row>>
    BY <1>1
<1>2. ASSUME NEW r \in Runs, TriggerRun(r)
       PROVE  AwaitInv'
    BY <1>2 DEF TriggerRun
<1>3. ASSUME NEW c \in Clients, CancelWrite(c)
       PROVE  AwaitInv'
    BY <1>3 DEF CancelWrite
<1>4. ASSUME NEW c \in Clients, DecideWrite(c)
       PROVE  AwaitInv'
    BY <1>4 DEF DecideWrite
<1>5. ASSUME NEW w \in Workers, NEW m \in Msgs, Fetch(w, m)
       PROVE  AwaitInv'
    BY <1>5 DEF Fetch
<1>6. ASSUME NEW w \in Workers, Ack(w)
       PROVE  AwaitInv'
    BY <1>6 DEF Ack
<1>7. ASSUME NEW w \in Workers, Publish(w)
       PROVE  AwaitInv'
    BY <1>7 DEF Publish, IdleExec
<1>8. ASSUME NEW w \in Workers, Nak(w)
       PROVE  AwaitInv'
    BY <1>8 DEF Nak, IdleExec
<1>9. ASSUME NEW e \in Executors, Load(e)
       PROVE  AwaitInv'
    BY <1>9 DEF Load, Return, IdleExec
<1>10. ASSUME NEW e \in Executors, Claim(e)
       PROVE  AwaitInv'
  <2>1. ClaimEffect(e)
    BY <1>10, ClaimChanges
  <2>2. e \in Executors /\ exec[e].pc = "claim" /\ UNCHANGED <<approval>>
    BY <1>10 DEF Claim
  <2> HIDE DEF TypeInv, TypeOK, RowOK, ExecOK, HistoryOK, ApprovalOK, MsgOK, Linked, WorkerLinked
  <2>3. ASSUME NEW r \in Runs, row'[r].status = "awaiting_approval"
        PROVE  \E a \in Approvals : approval'[a].run = r
    <3>1. row[r].status = "awaiting_approval"
      BY <2>1, <2>3 DEF ClaimEffect
    <3> QED
      BY <2>2, <3>1
  <2>4. ASSUME NEW x \in Executors, exec'[x].pc = "await"
        PROVE  \E a \in Approvals : approval'[a].run = exec'[x].run
    <3>1. x # e /\ exec'[x] = exec[x]
      BY <2>1, <2>4 DEF ClaimEffect
    <3> QED
      BY <2>2, <2>4, <3>1
  <2> QED
    BY <2>3, <2>4
<1>11. ASSUME NEW e \in Executors, StepDone(e)
       PROVE  AwaitInv'
    BY <1>11 DEF StepDone
<1>12. ASSUME NEW e \in Executors, NEW a \in Approvals, Gate(e, a)
       PROVE  AwaitInv'
    BY <1>12 DEF Gate, NoApproval
<1>13. ASSUME NEW e \in Executors, Complete(e)
       PROVE  AwaitInv'
    BY <1>13 DEF Complete, Return, IdleExec
<1>14. ASSUME NEW e \in Executors, StepFails(e)
       PROVE  AwaitInv'
  <2>1. FailRunEffect(e)
    BY <1>14, FailRunChanges DEF StepFails
  <2>2. e \in Executors /\ exec[e].pc = "run" /\ UNCHANGED <<approval>>
    BY <1>14 DEF StepFails
  <2> HIDE DEF TypeInv, TypeOK, RowOK, ExecOK, HistoryOK, ApprovalOK, MsgOK, Linked, WorkerLinked
  <2>3. ASSUME NEW r \in Runs, row'[r].status = "awaiting_approval"
        PROVE  \E a \in Approvals : approval'[a].run = r
    <3>1. row[r].status = "awaiting_approval"
      BY <2>1, <2>3 DEF FailRunEffect
    <3> QED
      BY <2>2, <3>1
  <2>4. ASSUME NEW x \in Executors, exec'[x].pc = "await"
        PROVE  \E a \in Approvals : approval'[a].run = exec'[x].run
    <3>1. x # e /\ exec'[x] = exec[x]
      BY <2>1, <2>4 DEF FailRunEffect
    <3> QED
      BY <2>2, <2>4, <3>1
  <2> QED
    BY <2>3, <2>4
<1>15. ASSUME NEW e \in Executors, Await(e)
       PROVE  AwaitInv'
    BY <1>15 DEF Await, Return, IdleExec
<1>16. ASSUME NEW e \in Executors, Escape(e)
       PROVE  AwaitInv'
    BY <1>16 DEF Escape, Raise, IdleExec
<1>17. ASSUME NEW e \in Executors, Crash(e)
       PROVE  AwaitInv'
    BY <1>17 DEF Crash, IdleExec
<1>18. ASSUME NEW e \in Resumers, NEW a \in Approvals, ResumeRead(e, a)
       PROVE  AwaitInv'
    BY <1>18 DEF ResumeRead
<1>19. ASSUME NEW e \in Resumers, ResumeRequeue(e)
       PROVE  AwaitInv'
    BY <1>19 DEF ResumeRequeue
<1>20. ASSUME NEW e \in Resumers, ResumeReject(e)
       PROVE  AwaitInv'
  <2>1. FailRunEffect(e)
    BY <1>20, FailRunChanges DEF ResumeReject, Executors
  <2>2. e \in Executors /\ exec[e].pc = "resume" /\ UNCHANGED <<approval>>
    BY <1>20 DEF ResumeReject, Executors
  <2> HIDE DEF TypeInv, TypeOK, RowOK, ExecOK, HistoryOK, ApprovalOK, MsgOK, Linked, WorkerLinked
  <2>3. ASSUME NEW r \in Runs, row'[r].status = "awaiting_approval"
        PROVE  \E a \in Approvals : approval'[a].run = r
    <3>1. row[r].status = "awaiting_approval"
      BY <2>1, <2>3 DEF FailRunEffect
    <3> QED
      BY <2>2, <3>1
  <2>4. ASSUME NEW x \in Executors, exec'[x].pc = "await"
        PROVE  \E a \in Approvals : approval'[a].run = exec'[x].run
    <3>1. x # e /\ exec'[x] = exec[x]
      BY <2>1, <2>4 DEF FailRunEffect
    <3> QED
      BY <2>2, <2>4, <3>1
  <2> QED
    BY <2>3, <2>4
<1>21. ASSUME NEW e \in Resumers, ResumeIgnored(e)
       PROVE  AwaitInv'
    BY <1>21 DEF ResumeIgnored, IdleExec
<1> QED
    BY <1>1, <1>2, <1>3, <1>4, <1>5, <1>6, <1>7, <1>8, <1>9, <1>10, <1>11,
        <1>12, <1>13, <1>14, <1>15, <1>16, <1>17, <1>18, <1>19, <1>20, <1>21
        DEF Next, ExecuteRun, Advance, vars, EnqueueRun, CancelRead,
        DecideRead, AckWaitExpires

(* A run shown as awaiting approval has an approval request, whatever      *)
(* crashed between the commit of the request and that of the status.       *)
THEOREM AwaitingRequested == Spec => []AwaitingHasRequest
<1>1. Init => AwaitInv
    BY ActorsAssumption, PlanLength DEF Init, NoRow, IdleExec, AwaitInv,
        AwaitingHasRequest
<1>2. AwaitInv => AwaitingHasRequest
    BY DEF AwaitInv
<1> QED
    BY <1>1, AwaitStep, <1>2, TypeInvariant, PTL DEF Spec

-----------------------------------------------------------------------------
(* A worker about to publish has acknowledged its message, and an          *)
(* acknowledged message is never delivered again.                          *)
AnnounceInv ==
    /\ AnnouncedAfterAck
    /\ \A w \in Workers : exec[w].pc = "publish" =>
          msg[exec[w].ref].state = "acked"

(* Every step keeps AnnounceInv.                                           *)
LEMMA AnnounceStep == TypeInv /\ AnnounceInv /\ [Next]_vars => AnnounceInv'
<1> SUFFICES ASSUME TypeInv, AnnounceInv, [Next]_vars
             PROVE  AnnounceInv'
    OBVIOUS
<1> USE ActorsAssumption DEF TypeInv, TypeOK, Linked, history, MsgOK, ExecOK,
    WorkerLinked, AnnounceInv, AnnouncedAfterAck
<1>1. CASE UNCHANGED <<announced, exec, msg>>
    BY <1>1
<1>2. ASSUME NEW m \in Msgs, NEW r \in Runs, EnqueueRun(m, r)
       PROVE  AnnounceInv'
    BY <1>2 DEF EnqueueRun, NoMsg
<1>3. ASSUME NEW m \in Msgs, AckWaitExpires(m)
       PROVE  AnnounceInv'
    BY <1>3 DEF AckWaitExpires, Requeued
<1>4. ASSUME NEW w \in Workers, NEW m \in Msgs, Fetch(w, m)
       PROVE  AnnounceInv'
    BY <1>4 DEF Fetch
<1>5. ASSUME NEW w \in Workers, Ack(w)
       PROVE  AnnounceInv'
    BY <1>5 DEF Ack
<1>6. ASSUME NEW w \in Workers, Publish(w)
       PROVE  AnnounceInv'
    BY <1>6 DEF Publish, IdleExec
<1>7. ASSUME NEW w \in Workers, Nak(w)
       PROVE  AnnounceInv'
    BY <1>7 DEF Nak, Requeued, IdleExec
<1>8. ASSUME NEW e \in Executors, Load(e)
       PROVE  AnnounceInv'
    BY <1>8 DEF Load, Return
<1>9. ASSUME NEW e \in Executors, Claim(e)
       PROVE  AnnounceInv'
  <2>1. ClaimEffect(e)
    BY <1>9, ClaimChanges
  <2>2. e \in Executors /\ exec[e].pc = "claim" /\ UNCHANGED <<announced, msg>>
    BY <1>9 DEF Claim
  <2> HIDE DEF TypeInv, TypeOK, RowOK, ExecOK, HistoryOK, ApprovalOK, MsgOK, Linked, WorkerLinked
  <2>3. AnnouncedAfterAck'
    BY <2>2
  <2>4. ASSUME NEW w \in Workers, exec'[w].pc = "publish"
        PROVE  msg'[exec'[w].ref].state = "acked"
    <3>1. exec'[w] = exec[w]
      BY <2>1, <2>4 DEF ClaimEffect, Executors
    <3> QED
      BY <2>2, <2>4, <3>1
  <2> QED
    BY <2>3, <2>4
<1>10. ASSUME NEW e \in Executors, StepDone(e)
       PROVE  AnnounceInv'
    BY <1>10 DEF StepDone
<1>11. ASSUME NEW e \in Executors, NEW a \in Approvals, Gate(e, a)
       PROVE  AnnounceInv'
    BY <1>11 DEF Gate
<1>12. ASSUME NEW e \in Executors, Complete(e)
       PROVE  AnnounceInv'
    BY <1>12 DEF Complete, Return
<1>13. ASSUME NEW e \in Executors, StepFails(e)
       PROVE  AnnounceInv'
  <2>1. FailRunEffect(e)
    BY <1>13, FailRunChanges DEF StepFails
  <2>2. e \in Executors /\ exec[e].pc = "run" /\ UNCHANGED <<announced, msg>>
    BY <1>13 DEF StepFails
  <2> HIDE DEF TypeInv, TypeOK, RowOK, ExecOK, HistoryOK, ApprovalOK, MsgOK, Linked, WorkerLinked
  <2>3. AnnouncedAfterAck'
    BY <2>2
  <2>4. ASSUME NEW w \in Workers, exec'[w].pc = "publish"
        PROVE  msg'[exec'[w].ref].state = "acked"
    <3>1. exec'[w] = exec[w]
      BY <2>1, <2>4 DEF FailRunEffect, Executors
    <3> QED
      BY <2>2, <2>4, <3>1
  <2> QED
    BY <2>3, <2>4
<1>14. ASSUME NEW e \in Executors, Await(e)
       PROVE  AnnounceInv'
    BY <1>14 DEF Await, Return
<1>15. ASSUME NEW e \in Executors, Escape(e)
       PROVE  AnnounceInv'
    BY <1>15 DEF Escape, Raise
<1>16. ASSUME NEW e \in Executors, Crash(e)
       PROVE  AnnounceInv'
    BY <1>16 DEF Crash, IdleExec
<1>17. ASSUME NEW e \in Resumers, NEW a \in Approvals, ResumeRead(e, a)
       PROVE  AnnounceInv'
    BY <1>17 DEF ResumeRead
<1>18. ASSUME NEW e \in Resumers, ResumeRequeue(e)
       PROVE  AnnounceInv'
    BY <1>18 DEF ResumeRequeue
<1>19. ASSUME NEW e \in Resumers, ResumeReject(e)
       PROVE  AnnounceInv'
  <2>1. FailRunEffect(e)
    BY <1>19, FailRunChanges DEF ResumeReject, Executors
  <2>2. e \in Executors /\ exec[e].pc = "resume" /\ UNCHANGED <<announced, msg>>
    BY <1>19 DEF ResumeReject, Executors
  <2> HIDE DEF TypeInv, TypeOK, RowOK, ExecOK, HistoryOK, ApprovalOK, MsgOK, Linked, WorkerLinked
  <2>3. AnnouncedAfterAck'
    BY <2>2
  <2>4. ASSUME NEW w \in Workers, exec'[w].pc = "publish"
        PROVE  msg'[exec'[w].ref].state = "acked"
    <3>1. exec'[w] = exec[w]
      BY <2>1, <2>4 DEF FailRunEffect, Executors
    <3> QED
      BY <2>2, <2>4, <3>1
  <2> QED
    BY <2>3, <2>4
<1>20. ASSUME NEW e \in Resumers, ResumeIgnored(e)
       PROVE  AnnounceInv'
    BY <1>20 DEF ResumeIgnored
<1> QED
    BY <1>1, <1>2, <1>3, <1>4, <1>5, <1>6, <1>7, <1>8, <1>9, <1>10, <1>11,
        <1>12, <1>13, <1>14, <1>15, <1>16, <1>17, <1>18, <1>19, <1>20 DEF
        Next, ExecuteRun, Advance, vars, TriggerRun, CancelRead, CancelWrite,
        DecideRead, DecideWrite

(* runs.completed is published only for a run with an acknowledged         *)
(* message.                                                                *)
THEOREM AnnouncedAcked == Spec => []AnnouncedAfterAck
<1>1. Init => AnnounceInv
    BY ActorsAssumption, PlanLength DEF Init, IdleExec, AnnounceInv,
        AnnouncedAfterAck, Executors
<1>2. AnnounceInv => AnnouncedAfterAck
    BY DEF AnnounceInv
<1> QED
    BY <1>1, AnnounceStep, <1>2, TypeInvariant, PTL DEF Spec

-----------------------------------------------------------------------------
(* enqueue_run is called for persisted runs only, and rows are not         *)
(* deleted.                                                                *)
KnownRuns ==
    \A m \in Msgs : msg[m].run \in Runs => row[msg[m].run] # NoRow

(* Every step keeps KnownRuns.                                             *)
LEMMA KnownStep == TypeInv /\ KnownRuns /\ [Next]_vars => KnownRuns'
<1> SUFFICES ASSUME TypeInv, KnownRuns, [Next]_vars
             PROVE  KnownRuns'
    OBVIOUS
<1> USE ActorsAssumption DEF TypeInv, TypeOK, Linked, history, RowOK, MsgOK,
    ExecOK, KnownRuns
<1>1. CASE UNCHANGED <<msg, row>>
    BY <1>1
<1>2. ASSUME NEW r \in Runs, TriggerRun(r)
       PROVE  KnownRuns'
    BY <1>2 DEF TriggerRun
<1>3. ASSUME NEW m \in Msgs, NEW r \in Runs, EnqueueRun(m, r)
       PROVE  KnownRuns'
    BY <1>3 DEF EnqueueRun
<1>4. ASSUME NEW c \in Clients, CancelWrite(c)
       PROVE  KnownRuns'
    BY <1>4 DEF CancelWrite, NoRow
<1>5. ASSUME NEW m \in Msgs, AckWaitExpires(m)
       PROVE  KnownRuns'
    BY <1>5 DEF AckWaitExpires, Requeued
<1>6. ASSUME NEW w \in Workers, NEW m \in Msgs, Fetch(w, m)
       PROVE  KnownRuns'
    BY <1>6 DEF Fetch
<1>7. ASSUME NEW w \in Workers, Ack(w)
       PROVE  KnownRuns'
    BY <1>7 DEF Ack
<1>8. ASSUME NEW w \in Workers, Nak(w)
       PROVE  KnownRuns'
    BY <1>8 DEF Nak, Requeued
<1>9. ASSUME NEW e \in Executors, Claim(e)
       PROVE  KnownRuns'
  <2>1. ClaimEffect(e)
    BY <1>9, ClaimChanges
  <2>2. e \in Executors /\ exec[e].pc = "claim" /\ UNCHANGED <<msg>>
    BY <1>9 DEF Claim
  <2> HIDE DEF TypeInv, TypeOK, RowOK, ExecOK, HistoryOK, ApprovalOK, MsgOK, Linked, WorkerLinked
  <2>3. \A r \in Runs : row'[r] = NoRow => row[r] = NoRow
    BY <2>1 DEF ClaimEffect, NoRow
  <2> QED
    BY <2>2, <2>3
<1>10. ASSUME NEW e \in Executors, StepDone(e)
       PROVE  KnownRuns'
    BY <1>10 DEF StepDone, NoRow
<1>11. ASSUME NEW e \in Executors, Complete(e)
       PROVE  KnownRuns'
    BY <1>11 DEF Complete, NoRow
<1>12. ASSUME NEW e \in Executors, StepFails(e)
       PROVE  KnownRuns'
  <2>1. FailRunEffect(e)
    BY <1>12, FailRunChanges DEF StepFails
  <2>2. e \in Executors /\ exec[e].pc = "run" /\ UNCHANGED <<msg>>
    BY <1>12 DEF StepFails
  <2> HIDE DEF TypeInv, TypeOK, RowOK, ExecOK, HistoryOK, ApprovalOK, MsgOK, Linked, WorkerLinked
  <2>3. \A r \in Runs : row'[r] = NoRow => row[r] = NoRow
    BY <2>1 DEF FailRunEffect, NoRow
  <2> QED
    BY <2>2, <2>3
<1>13. ASSUME NEW e \in Executors, Await(e)
       PROVE  KnownRuns'
    BY <1>13 DEF Await, NoRow
<1>14. ASSUME NEW e \in Resumers, ResumeRequeue(e)
       PROVE  KnownRuns'
    BY <1>14 DEF ResumeRequeue, NoRow
<1>15. ASSUME NEW e \in Resumers, ResumeReject(e)
       PROVE  KnownRuns'
  <2>1. FailRunEffect(e)
    BY <1>15, FailRunChanges DEF ResumeReject, Executors
  <2>2. e \in Executors /\ exec[e].pc = "resume" /\ UNCHANGED <<msg>>
    BY <1>15 DEF ResumeReject, Executors
  <2> HIDE DEF TypeInv, TypeOK, RowOK, ExecOK, HistoryOK, ApprovalOK, MsgOK, Linked, WorkerLinked
  <2>3. \A r \in Runs : row'[r] = NoRow => row[r] = NoRow
    BY <2>1 DEF FailRunEffect, NoRow
  <2> QED
    BY <2>2, <2>3
<1> QED
    BY <1>1, <1>2, <1>3, <1>4, <1>5, <1>6, <1>7, <1>8, <1>9, <1>10, <1>11,
        <1>12, <1>13, <1>14, <1>15 DEF Next, ExecuteRun, Advance, vars,
        CancelRead, DecideRead, DecideWrite, Publish, Load, Gate, Escape,
        Crash, ResumeRead, ResumeIgnored



-----------------------------------------------------------------------------
(* A queued run with an acknowledged message, or one about to be           *)
(* acknowledged, was re-queued by a resumer that still has it in hand or   *)
(* died on it.                                                             *)
HandedOver(r) ==
    \/ r \in abandoned
    \/ \E e \in Resumers :
         exec[e].run = r /\ exec[e].pc \in {"load", "claim"}

QueuedInv ==
    \A r \in Runs : row[r].status = "queued" =>
        /\ \A m \in Msgs :
             msg[m].run = r /\ msg[m].state = "acked" => HandedOver(r)
        /\ \A w \in Workers :
             exec[w].run = r /\ exec[w].pc = "ack" => HandedOver(r)

(* Every step keeps QueuedInv.                                             *)
LEMMA QueuedStep == TypeInv /\ KnownRuns /\ QueuedInv /\ [Next]_vars => QueuedInv'
<1> SUFFICES ASSUME TypeInv, KnownRuns, QueuedInv, [Next]_vars
             PROVE  QueuedInv'
    OBVIOUS
<1> USE ActorsAssumption DEF TypeInv, TypeOK, Linked, history, RowOK, MsgOK,
    ExecOK, WorkerLinked, QueuedInv, HandedOver
<1>1. CASE UNCHANGED <<abandoned, exec, msg, row>>
    BY <1>1
<1>2. ASSUME NEW r \in Runs, TriggerRun(r)
       PROVE  QueuedInv'
  <2>1. row'[r].status = "queued" /\ \A q \in Runs : q # r => row'[q] = row[q]
    BY <1>2 DEF TriggerRun
  <2>2. UNCHANGED <<msg, exec, abandoned>> /\ row[r] = NoRow
    BY <1>2 DEF TriggerRun
  <2>3. /\ \A m \in Msgs : msg[m].run # r
        /\ \A w \in Workers : exec[w].pc = "ack" => exec[w].run # r
    BY <2>2 DEF KnownRuns
  <2> HIDE DEF TypeInv, TypeOK, RowOK, ExecOK, MsgOK, WorkerLinked
  <2> QED
    BY <2>1, <2>2, <2>3
<1>3. ASSUME NEW m \in Msgs, NEW r \in Runs, EnqueueRun(m, r)
       PROVE  QueuedInv'
    BY <1>3 DEF EnqueueRun
<1>4. ASSUME NEW c \in Clients, CancelWrite(c)
       PROVE  QueuedInv'
    BY <1>4 DEF CancelWrite
<1>5. ASSUME NEW m \in Msgs, AckWaitExpires(m)
       PROVE  QueuedInv'
    BY <1>5 DEF AckWaitExpires, Requeued
<1>6. ASSUME NEW w \in Workers, NEW m \in Msgs, Fetch(w, m)
       PROVE  QueuedInv'
    BY <1>6 DEF Fetch
<1>7. ASSUME NEW w \in Workers, Ack(w)
       PROVE  QueuedInv'
    BY <1>7 DEF Ack
<1>8. ASSUME NEW w \in Workers, Publish(w)
       PROVE  QueuedInv'
    BY <1>8 DEF Publish, Executors, IdleExec
<1>9. ASSUME NEW w \in Workers, Nak(w)
       PROVE  QueuedInv'
    BY <1>9 DEF Nak, Requeued, Executors, IdleExec
<1>10. ASSUME NEW e \in Executors, Load(e)
       PROVE  QueuedInv'
    BY <1>10 DEF Load, Return, Executors
<1>11. ASSUME NEW e \in Executors, Claim(e)
       PROVE  QueuedInv'
  <2>1. ClaimEffect(e)
    BY <1>11, ClaimChanges
  <2>2. e \in Executors /\ exec[e].pc = "claim" /\ UNCHANGED <<msg, abandoned>>
    BY <1>11 DEF Claim
  <2> HIDE DEF TypeInv, TypeOK, RowOK, ExecOK, HistoryOK, ApprovalOK, MsgOK, Linked, WorkerLinked
  <2>3. SUFFICES ASSUME NEW r \in Runs, row'[r].status = "queued"
               PROVE  /\ \A m \in Msgs : msg'[m].run = r /\ msg'[m].state = "acked" => HandedOver(r)'
                      /\ \A w \in Workers : exec'[w].run = r /\ exec'[w].pc = "ack" => HandedOver(r)'
    OBVIOUS
  <2>4. row[r].status = "queued" /\ (r = exec[e].run => exec'[e].pc # "ack" /\ row' = row)
    BY <2>1, <2>3 DEF ClaimEffect
  <2>5. HandedOver(r) => HandedOver(r)'
    BY <2>1, <2>2, <2>3 DEF ClaimEffect, Executors
  <2>6. \A w \in Workers : exec'[w].run = r /\ exec'[w].pc = "ack" => exec'[w] = exec[w]
    BY <2>1, <2>3, <2>4 DEF ClaimEffect, Executors
  <2> QED
    BY <2>2, <2>4, <2>5, <2>6
<1>12. ASSUME NEW e \in Executors, StepDone(e)
       PROVE  QueuedInv'
    BY <1>12 DEF StepDone
<1>13. ASSUME NEW e \in Executors, NEW a \in Approvals, Gate(e, a)
       PROVE  QueuedInv'
    BY <1>13 DEF Gate, RunStatus, Executors, NoApproval
<1>14. ASSUME NEW e \in Executors, Complete(e)
       PROVE  QueuedInv'
    BY <1>14 DEF Complete, Return
<1>15. ASSUME NEW e \in Executors, StepFails(e)
       PROVE  QueuedInv'
  <2>1. FailRunEffect(e)
    BY <1>15, FailRunChanges DEF StepFails
  <2>2. e \in Executors /\ exec[e].pc = "run" /\ UNCHANGED <<msg>>
    BY <1>15 DEF StepFails
  <2> HIDE DEF TypeInv, TypeOK, RowOK, ExecOK, HistoryOK, ApprovalOK, MsgOK, Linked, WorkerLinked
  <2>3. SUFFICES ASSUME NEW r \in Runs, row'[r].status = "queued"
               PROVE  /\ \A m \in Msgs : msg'[m].run = r /\ msg'[m].state = "acked" => HandedOver(r)'
                      /\ \A w \in Workers : exec'[w].run = r /\ exec'[w].pc = "ack" => HandedOver(r)'
    OBVIOUS
  <2>4. row[r].status = "queued" /\ (r = exec[e].run => exec'[e].pc # "ack" /\ row' = row)
    BY <2>1, <2>3 DEF FailRunEffect
  <2>5. HandedOver(r) => HandedOver(r)'
    BY <2>1, <2>2, <2>3 DEF FailRunEffect, Executors
  <2>6. \A w \in Workers : exec'[w].run = r /\ exec'[w].pc = "ack" => exec'[w] = exec[w]
    BY <2>1, <2>3, <2>4 DEF FailRunEffect, Executors
  <2> QED
    BY <2>2, <2>4, <2>5, <2>6
<1>16. ASSUME NEW e \in Executors, Await(e)
       PROVE  QueuedInv'
    BY <1>16 DEF Await, Return
<1>17. ASSUME NEW e \in Executors, Escape(e)
       PROVE  QueuedInv'
    BY SMTT(30), <1>17 DEF Escape, Raise, Abandon
<1>18. ASSUME NEW e \in Executors, Crash(e)
       PROVE  QueuedInv'
    BY <1>18 DEF Crash, Abandon, Executors, IdleExec
<1>19. ASSUME NEW e \in Resumers, NEW a \in Approvals, ResumeRead(e, a)
       PROVE  QueuedInv'
    BY <1>19 DEF ResumeRead, RunStatus, IdleExec
<1>20. ASSUME NEW e \in Resumers, ResumeRequeue(e)
       PROVE  QueuedInv'
    BY <1>20 DEF ResumeRequeue, Executors
<1>21. ASSUME NEW e \in Resumers, ResumeReject(e)
       PROVE  QueuedInv'
  <2>1. FailRunEffect(e)
    BY <1>21, FailRunChanges DEF ResumeReject, Executors
  <2>2. e \in Executors /\ exec[e].pc = "resume" /\ UNCHANGED <<msg>>
    BY <1>21 DEF ResumeReject, Executors
  <2> HIDE DEF TypeInv, TypeOK, RowOK, ExecOK, HistoryOK, ApprovalOK, MsgOK, Linked, WorkerLinked
  <2>3. SUFFICES ASSUME NEW r \in Runs, row'[r].status = "queued"
               PROVE  /\ \A m \in Msgs : msg'[m].run = r /\ msg'[m].state = "acked" => HandedOver(r)'
                      /\ \A w \in Workers : exec'[w].run = r /\ exec'[w].pc = "ack" => HandedOver(r)'
    OBVIOUS
  <2>4. row[r].status = "queued" /\ (r = exec[e].run => exec'[e].pc # "ack" /\ row' = row)
    BY <2>1, <2>3 DEF FailRunEffect
  <2>5. HandedOver(r) => HandedOver(r)'
    BY <2>1, <2>2, <2>3 DEF FailRunEffect, Executors
  <2>6. \A w \in Workers : exec'[w].run = r /\ exec'[w].pc = "ack" => exec'[w] = exec[w]
    BY <2>1, <2>3, <2>4 DEF FailRunEffect, Executors
  <2> QED
    BY <2>2, <2>4, <2>5, <2>6
<1>22. ASSUME NEW e \in Resumers, ResumeIgnored(e)
       PROVE  QueuedInv'
  <2>1. exec'[e] = IdleExec /\ \A x \in Executors : x # e => exec'[x] = exec[x]
    BY <1>22 DEF ResumeIgnored, Executors
  <2>2. UNCHANGED <<row, msg, abandoned>> /\ exec[e].pc = "resume"
    BY <1>22 DEF ResumeIgnored
  <2> HIDE DEF TypeInv, TypeOK, RowOK, ExecOK, MsgOK, WorkerLinked
  <2> QED
    BY <2>1, <2>2 DEF Executors
<1> QED
    BY <1>1, <1>2, <1>3, <1>4, <1>5, <1>6, <1>7, <1>8, <1>9, <1>10, <1>11,
        <1>12, <1>13, <1>14, <1>15, <1>16, <1>17, <1>18, <1>19, <1>20, <1>21,
        <1>22 DEF Next, ExecuteRun, Advance, vars, CancelRead, DecideRead,
        DecideWrite

(* A queued run whose execution was requested can still be reached by the  *)
(* consumer, is in the hands of an executor, or lost its executor.         *)
THEOREM QueuedReachable == Spec => []QueuedIsReachable
<1>1. Init => KnownRuns
    BY ActorsAssumption, PlanLength DEF Init, NoMsg, KnownRuns
<1>2. Init => QueuedInv
    BY ActorsAssumption, PlanLength DEF Init, NoRow, QueuedInv
<1>3. QueuedInv => QueuedIsReachable
    BY DEF QueuedInv, QueuedIsReachable, HandedOver, Executors
<1> QED
    BY <1>1, <1>2, KnownStep, QueuedStep, <1>3, TypeInvariant, PTL DEF Spec

-----------------------------------------------------------------------------
(* No executor stands behind an approval step and no step behind one has   *)
(* taken effect: execute_run always starts at the first step and returns   *)
(* at the gate, whatever was decided before.                               *)
PassedInv ==
    /\ GateHolds
    /\ \A e \in Executors : exec[e].pc = "run" =>
          \A i \in Steps(exec[e].run) :
             i < exec[e].next => Plan[exec[e].run][i] # "approval"
    /\ \A r \in Runs : \A i, j \in Steps(r) :
          i < j /\ effects[r][j] > 0 => Plan[r][i] # "approval"

(* Every step keeps PassedInv.                                             *)
LEMMA PassedStep == TypeInv /\ PassedInv /\ [Next]_vars => PassedInv'
<1> SUFFICES ASSUME TypeInv, PassedInv, [Next]_vars
             PROVE  PassedInv'
    OBVIOUS
<1> USE ActorsAssumption DEF TypeInv, TypeOK, Linked, history, ExecOK,
    HistoryOK, ApprovalOK, PassedInv, GateHolds
<1>1. CASE UNCHANGED <<approval, decisions, effects, exec>>
    BY <1>1
<1>2. ASSUME NEW c \in Clients, DecideWrite(c)
       PROVE  PassedInv'
    BY <1>2 DEF DecideWrite
<1>3. ASSUME NEW w \in Workers, NEW m \in Msgs, Fetch(w, m)
       PROVE  PassedInv'
    BY <1>3 DEF Fetch
<1>4. ASSUME NEW w \in Workers, Ack(w)
       PROVE  PassedInv'
    BY <1>4 DEF Ack
<1>5. ASSUME NEW w \in Workers, Publish(w)
       PROVE  PassedInv'
    BY <1>5 DEF Publish, IdleExec
<1>6. ASSUME NEW w \in Workers, Nak(w)
       PROVE  PassedInv'
    BY <1>6 DEF Nak, IdleExec
<1>7. ASSUME NEW e \in Executors, Load(e)
       PROVE  PassedInv'
    BY <1>7 DEF Load, Return, IdleExec
<1>8. ASSUME NEW e \in Executors, Claim(e)
       PROVE  PassedInv'
  <2>1. ClaimEffect(e)
    BY <1>8, ClaimChanges
  <2>2. e \in Executors /\ exec[e].pc = "claim" /\ UNCHANGED <<effects, decisions, approval>>
    BY <1>8 DEF Claim
  <2> HIDE DEF TypeInv, TypeOK, RowOK, ExecOK, HistoryOK, ApprovalOK, MsgOK, Linked, WorkerLinked
  <2>3. ASSUME NEW x \in Executors, exec'[x].pc = "run",
               NEW i \in Steps(exec'[x].run), i < exec'[x].next
        PROVE  Plan[exec'[x].run][i] # "approval"
    <3>1. CASE x = e
      BY <2>1, <2>3, <3>1, PlanLength DEF ClaimEffect, Steps
    <3>2. CASE x # e
      BY <2>1, <2>2, <2>3, <3>2 DEF ClaimEffect
    <3> QED
      BY <3>1, <3>2
  <2>4. UNCHANGED <<effects, decisions, approval>>
    BY <2>2
  <2> QED
    BY <2>3, <2>4
<1>9. ASSUME NEW e \in Executors, StepDone(e)
       PROVE  PassedInv'
  <2> DEFINE r == exec[e].run
             i == exec[e].next
  <2>1. /\ r \in Runs /\ i \in Steps(r) /\ i \in Nat
        /\ effects[r] \in [Steps(r) -> Nat]
        /\ \A q \in Runs : effects[q] \in [Steps(q) -> Nat]
    BY <1>9, PlanLength DEF StepDone, InPlan
  <2>2. effects' = [effects EXCEPT ![r] = [effects[r] EXCEPT ![i] = @ + 1]]
    BY <1>9 DEF StepDone
  <2>3. /\ \A q \in Runs : q # r => effects'[q] = effects[q]
        /\ \A j \in Steps(r) : j # i => effects'[r][j] = effects[r][j]
        /\ effects'[r][i] = effects[r][i] + 1
        /\ effects'[r][i] > 0
    BY <2>1, <2>2
  <2>4. /\ exec[e].pc = "run"
        /\ exec'[e].pc = "run" /\ exec'[e].run = r /\ exec'[e].next = i + 1
        /\ \A x \in Executors : x # e => exec'[x] = exec[x]
    BY <1>9 DEF StepDone
  <2>5. \A q \in Runs : row'[q].status = row[q].status
    BY <1>9, <2>1 DEF StepDone
  <2>6. Plan[r][i] # "approval" /\ UNCHANGED <<decisions, approval>>
    BY <1>9 DEF StepDone, CurrentKind
  <2> HIDE DEF TypeInv, TypeOK, RowOK, ExecOK, HistoryOK, ApprovalOK
  <2>7. ASSUME NEW x \in Executors, exec'[x].pc = "run",
               NEW j \in Steps(exec'[x].run), j < exec'[x].next
        PROVE  Plan[exec'[x].run][j] # "approval"
    <3>1. CASE x = e
      <4>1. j = i \/ j < i
        BY <2>1, <2>4, <2>7, <3>1, PlanLength DEF Steps
      <4> QED
        BY <2>4, <2>6, <2>7, <3>1, <4>1
    <3>2. CASE x # e
      BY <2>4, <2>7, <3>2
    <3> QED
      BY <3>1, <3>2
  <2>8. ASSUME NEW q \in Runs, NEW k \in Steps(q), NEW j \in Steps(q),
               k < j, effects'[q][j] > 0
        PROVE  Plan[q][k] # "approval"
    <3>1. CASE effects[q][j] > 0
      BY <2>8, <3>1
    <3>2. CASE ~(effects[q][j] > 0)
      <4>1. q = r /\ j = i
        BY <2>1, <2>3, <2>8, <3>2
      <4> QED
        BY <2>4, <2>8, <4>1
    <3> QED
      BY <3>1, <3>2
  <2>9. GateHolds'
    BY <2>8
  <2> QED
    BY <2>7, <2>8, <2>9
<1>10. ASSUME NEW e \in Executors, NEW a \in Approvals, Gate(e, a)
       PROVE  PassedInv'
    BY <1>10 DEF Gate
<1>11. ASSUME NEW e \in Executors, Complete(e)
       PROVE  PassedInv'
    BY <1>11 DEF Complete, Return, IdleExec
<1>12. ASSUME NEW e \in Executors, StepFails(e)
       PROVE  PassedInv'
  <2>1. FailRunEffect(e)
    BY <1>12, FailRunChanges DEF StepFails
  <2>2. e \in Executors /\ exec[e].pc = "run" /\ UNCHANGED <<effects, decisions, approval>>
    BY <1>12 DEF StepFails
  <2> HIDE DEF TypeInv, TypeOK, RowOK, ExecOK, HistoryOK, ApprovalOK, MsgOK, Linked, WorkerLinked
  <2>3. ASSUME NEW x \in Executors, exec'[x].pc = "run",
               NEW i \in Steps(exec'[x].run), i < exec'[x].next
        PROVE  Plan[exec'[x].run][i] # "approval"
    <3>1. CASE x = e
      BY <2>1, <2>3, <3>1, PlanLength DEF FailRunEffect
    <3>2. CASE x # e
      BY <2>1, <2>2, <2>3, <3>2 DEF FailRunEffect
    <3> QED
      BY <3>1, <3>2
  <2>4. UNCHANGED <<effects, decisions, approval>>
    BY <2>2
  <2> QED
    BY <2>3, <2>4
<1>13. ASSUME NEW e \in Executors, Await(e)
       PROVE  PassedInv'
    BY <1>13 DEF Await, Return, IdleExec
<1>14. ASSUME NEW e \in Executors, Escape(e)
       PROVE  PassedInv'
    BY <1>14 DEF Escape, Raise, IdleExec
<1>15. ASSUME NEW e \in Executors, Crash(e)
       PROVE  PassedInv'
    BY <1>15 DEF Crash, IdleExec
<1>16. ASSUME NEW e \in Resumers, NEW a \in Approvals, ResumeRead(e, a)
       PROVE  PassedInv'
    BY <1>16 DEF ResumeRead
<1>17. ASSUME NEW e \in Resumers, ResumeRequeue(e)
       PROVE  PassedInv'
    BY <1>17 DEF ResumeRequeue
<1>18. ASSUME NEW e \in Resumers, ResumeReject(e)
       PROVE  PassedInv'
  <2>1. FailRunEffect(e)
    BY <1>18, FailRunChanges DEF ResumeReject, Executors
  <2>2. e \in Executors /\ exec[e].pc = "resume" /\ UNCHANGED <<effects, decisions, approval>>
    BY <1>18 DEF ResumeReject, Executors
  <2> HIDE DEF TypeInv, TypeOK, RowOK, ExecOK, HistoryOK, ApprovalOK, MsgOK, Linked, WorkerLinked
  <2>3. ASSUME NEW x \in Executors, exec'[x].pc = "run",
               NEW i \in Steps(exec'[x].run), i < exec'[x].next
        PROVE  Plan[exec'[x].run][i] # "approval"
    <3>1. CASE x = e
      BY <2>1, <2>3, <3>1, PlanLength DEF FailRunEffect
    <3>2. CASE x # e
      BY <2>1, <2>2, <2>3, <3>2 DEF FailRunEffect
    <3> QED
      BY <3>1, <3>2
  <2>4. UNCHANGED <<effects, decisions, approval>>
    BY <2>2
  <2> QED
    BY <2>3, <2>4
<1>19. ASSUME NEW e \in Resumers, ResumeIgnored(e)
       PROVE  PassedInv'
    BY <1>19 DEF ResumeIgnored, IdleExec
<1> QED
    BY <1>1, <1>2, <1>3, <1>4, <1>5, <1>6, <1>7, <1>8, <1>9, <1>10, <1>11,
        <1>12, <1>13, <1>14, <1>15, <1>16, <1>17, <1>18, <1>19 DEF Next,
        ExecuteRun, Advance, vars, TriggerRun, EnqueueRun, CancelRead,
        CancelWrite, DecideRead, AckWaitExpires

(* No step behind an approval step takes effect without an approval of     *)
(* that step.  The inductive invariant is stronger: no such step ever      *)
(* takes effect at all.                                                    *)
THEOREM GatesHold == Spec => []GateHolds
<1>1. Init => PassedInv
    BY ActorsAssumption, PlanLength DEF Init, IdleExec, PassedInv, GateHolds
<1>2. PassedInv => GateHolds
    BY DEF PassedInv
<1> QED
    BY <1>1, PassedStep, <1>2, TypeInvariant, PTL DEF Spec

-----------------------------------------------------------------------------
(* An executor has run every step before the one it has reached, itself or *)
(* through an executor before it.                                          *)
DoneInv ==
    /\ CompletedRanAllSteps
    /\ \A e \in Executors : exec[e].pc = "run" =>
          \A i \in Steps(exec[e].run) :
             i < exec[e].next => effects[exec[e].run][i] > 0

(* Every step keeps DoneInv.                                               *)
LEMMA DoneStep == TypeInv /\ DoneInv /\ [Next]_vars => DoneInv'
<1> SUFFICES ASSUME TypeInv, DoneInv, [Next]_vars
             PROVE  DoneInv'
    OBVIOUS
<1> USE ActorsAssumption DEF TypeInv, TypeOK, Linked, history, RowOK, ExecOK,
    HistoryOK, DoneInv, CompletedRanAllSteps
<1>1. CASE UNCHANGED <<effects, exec, row>>
    BY <1>1
<1>2. ASSUME NEW r \in Runs, TriggerRun(r)
       PROVE  DoneInv'
    BY <1>2 DEF TriggerRun
<1>3. ASSUME NEW c \in Clients, CancelWrite(c)
       PROVE  DoneInv'
    BY <1>3 DEF CancelWrite
<1>4. ASSUME NEW w \in Workers, NEW m \in Msgs, Fetch(w, m)
       PROVE  DoneInv'
    BY <1>4 DEF Fetch
<1>5. ASSUME NEW w \in Workers, Ack(w)
       PROVE  DoneInv'
    BY <1>5 DEF Ack
<1>6. ASSUME NEW w \in Workers, Publish(w)
       PROVE  DoneInv'
    BY <1>6 DEF Publish, IdleExec
<1>7. ASSUME NEW w \in Workers, Nak(w)
       PROVE  DoneInv'
    BY <1>7 DEF Nak, IdleExec
<1>8. ASSUME NEW e \in Executors, Load(e)
       PROVE  DoneInv'
    BY <1>8 DEF Load, Return, IdleExec
<1>9. ASSUME NEW e \in Executors, Claim(e)
       PROVE  DoneInv'
  <2>1. ClaimEffect(e)
    BY <1>9, ClaimChanges
  <2>2. e \in Executors /\ exec[e].pc = "claim" /\ UNCHANGED <<effects>>
    BY <1>9 DEF Claim
  <2> HIDE DEF TypeInv, TypeOK, RowOK, ExecOK, HistoryOK, ApprovalOK, MsgOK, Linked, WorkerLinked
  <2>3. ASSUME NEW r \in Runs, row'[r].status = "completed"
        PROVE  row[r].status = "completed"
    BY <2>1, <2>3 DEF ClaimEffect
  <2>4. ASSUME NEW x \in Executors, exec'[x].pc = "run",
               NEW i \in Steps(exec'[x].run), i < exec'[x].next
        PROVE  effects'[exec'[x].run][i] > 0
    <3>1. CASE x = e
      BY <2>1, <2>4, <3>1, PlanLength DEF ClaimEffect, Steps
    <3>2. CASE x # e
      BY <2>1, <2>2, <2>4, <3>2 DEF ClaimEffect
    <3> QED
      BY <3>1, <3>2
  <2> QED
    BY <2>2, <2>3, <2>4
<1>10. ASSUME NEW e \in Executors, StepDone(e)
       PROVE  DoneInv'
  <2> DEFINE r == exec[e].run
             i == exec[e].next
  <2>1. /\ r \in Runs /\ i \in Steps(r) /\ i \in Nat
        /\ effects[r] \in [Steps(r) -> Nat]
        /\ \A q \in Runs : effects[q] \in [Steps(q) -> Nat]
    BY <1>10, PlanLength DEF StepDone, InPlan
  <2>2. effects' = [effects EXCEPT ![r] = [effects[r] EXCEPT ![i] = @ + 1]]
    BY <1>10 DEF StepDone
  <2>3. /\ \A q \in Runs : q # r => effects'[q] = effects[q]
        /\ \A j \in Steps(r) : j # i => effects'[r][j] = effects[r][j]
        /\ effects'[r][i] = effects[r][i] + 1
        /\ effects'[r][i] > 0
    BY <2>1, <2>2
  <2>4. /\ exec[e].pc = "run"
        /\ exec'[e].pc = "run" /\ exec'[e].run = r /\ exec'[e].next = i + 1
        /\ \A x \in Executors : x # e => exec'[x] = exec[x]
    BY <1>10 DEF StepDone
  <2>5. \A q \in Runs : row'[q].status = row[q].status
    BY <1>10, <2>1 DEF StepDone
  <2>6. Plan[r][i] # "approval" /\ UNCHANGED <<decisions, approval>>
    BY <1>10 DEF StepDone, CurrentKind
  <2> HIDE DEF TypeInv, TypeOK, RowOK, ExecOK, HistoryOK, ApprovalOK
  <2>7. ASSUME NEW q \in Runs, NEW j \in Steps(q), effects[q][j] > 0
        PROVE  effects'[q][j] > 0
    BY <2>1, <2>3, <2>7
  <2>8. CompletedRanAllSteps'
    BY <2>5, <2>7
  <2>9. ASSUME NEW x \in Executors, exec'[x].pc = "run",
               NEW j \in Steps(exec'[x].run), j < exec'[x].next
        PROVE  effects'[exec'[x].run][j] > 0
    <3>1. exec[x].run \in Runs
      BY <2>1, <2>4, <2>9 DEF TypeInv, TypeOK, ExecOK
    <3>2. CASE x = e /\ j = i
      BY <2>3, <2>4, <3>2
    <3>3. CASE x = e /\ j # i
      <4>1. j < i /\ j \in Steps(r)
        BY <2>1, <2>4, <2>9, <3>3, PlanLength DEF Steps
      <4> QED
        BY <2>1, <2>3, <2>4, <3>3, <4>1
    <3>4. CASE x # e
      BY <2>4, <2>7, <2>9, <3>1, <3>4
    <3> QED
      BY <3>2, <3>3, <3>4
  <2> QED
    BY <2>8, <2>9
<1>11. ASSUME NEW e \in Executors, NEW a \in Approvals, Gate(e, a)
       PROVE  DoneInv'
    BY <1>11 DEF Gate
<1>12. ASSUME NEW e \in Executors, Complete(e)
       PROVE  DoneInv'
  <2>1. exec[e].run \in Runs /\ exec[e].pc = "run" /\ effects' = effects
    BY <1>12 DEF Complete
  <2>2. \A i \in Steps(exec[e].run) : effects[exec[e].run][i] > 0
    <3>1. \A i \in Steps(exec[e].run) : i < exec[e].next
      BY <1>12, <2>1, PlanLength DEF Complete, InPlan, Steps
    <3> QED
      BY <2>1, <3>1
  <2>3. \A r \in Runs : r # exec[e].run => row'[r] = row[r]
    BY <1>12 DEF Complete
  <2>4. \A x \in Executors : exec'[x].pc = "run" => exec'[x] = exec[x]
    BY <1>12 DEF Complete, Return, IdleExec
  <2> HIDE DEF TypeInv, TypeOK, RowOK, ExecOK, HistoryOK
  <2> QED
    BY <2>1, <2>2, <2>3, <2>4
<1>13. ASSUME NEW e \in Executors, StepFails(e)
       PROVE  DoneInv'
  <2>1. FailRunEffect(e)
    BY <1>13, FailRunChanges DEF StepFails
  <2>2. e \in Executors /\ exec[e].pc = "run" /\ UNCHANGED <<effects>>
    BY <1>13 DEF StepFails
  <2> HIDE DEF TypeInv, TypeOK, RowOK, ExecOK, HistoryOK, ApprovalOK, MsgOK, Linked, WorkerLinked
  <2>3. ASSUME NEW r \in Runs, row'[r].status = "completed"
        PROVE  row[r].status = "completed"
    BY <2>1, <2>3 DEF FailRunEffect
  <2>4. ASSUME NEW x \in Executors, exec'[x].pc = "run",
               NEW i \in Steps(exec'[x].run), i < exec'[x].next
        PROVE  effects'[exec'[x].run][i] > 0
    <3>1. CASE x = e
      BY <2>1, <2>4, <3>1, PlanLength DEF FailRunEffect
    <3>2. CASE x # e
      BY <2>1, <2>2, <2>4, <3>2 DEF FailRunEffect
    <3> QED
      BY <3>1, <3>2
  <2> QED
    BY <2>2, <2>3, <2>4
<1>14. ASSUME NEW e \in Executors, Await(e)
       PROVE  DoneInv'
    BY <1>14 DEF Await, Return, IdleExec
<1>15. ASSUME NEW e \in Executors, Escape(e)
       PROVE  DoneInv'
    BY <1>15 DEF Escape, Raise, IdleExec
<1>16. ASSUME NEW e \in Executors, Crash(e)
       PROVE  DoneInv'
    BY <1>16 DEF Crash, IdleExec
<1>17. ASSUME NEW e \in Resumers, NEW a \in Approvals, ResumeRead(e, a)
       PROVE  DoneInv'
    BY <1>17 DEF ResumeRead
<1>18. ASSUME NEW e \in Resumers, ResumeRequeue(e)
       PROVE  DoneInv'
    BY <1>18 DEF ResumeRequeue
<1>19. ASSUME NEW e \in Resumers, ResumeReject(e)
       PROVE  DoneInv'
  <2>1. FailRunEffect(e)
    BY <1>19, FailRunChanges DEF ResumeReject, Executors
  <2>2. e \in Executors /\ exec[e].pc = "resume" /\ UNCHANGED <<effects>>
    BY <1>19 DEF ResumeReject, Executors
  <2> HIDE DEF TypeInv, TypeOK, RowOK, ExecOK, HistoryOK, ApprovalOK, MsgOK, Linked, WorkerLinked
  <2>3. ASSUME NEW r \in Runs, row'[r].status = "completed"
        PROVE  row[r].status = "completed"
    BY <2>1, <2>3 DEF FailRunEffect
  <2>4. ASSUME NEW x \in Executors, exec'[x].pc = "run",
               NEW i \in Steps(exec'[x].run), i < exec'[x].next
        PROVE  effects'[exec'[x].run][i] > 0
    <3>1. CASE x = e
      BY <2>1, <2>4, <3>1, PlanLength DEF FailRunEffect
    <3>2. CASE x # e
      BY <2>1, <2>2, <2>4, <3>2 DEF FailRunEffect
    <3> QED
      BY <3>1, <3>2
  <2> QED
    BY <2>2, <2>3, <2>4
<1>20. ASSUME NEW e \in Resumers, ResumeIgnored(e)
       PROVE  DoneInv'
    BY <1>20 DEF ResumeIgnored, IdleExec
<1> QED
    BY <1>1, <1>2, <1>3, <1>4, <1>5, <1>6, <1>7, <1>8, <1>9, <1>10, <1>11,
        <1>12, <1>13, <1>14, <1>15, <1>16, <1>17, <1>18, <1>19, <1>20 DEF
        Next, ExecuteRun, Advance, vars, EnqueueRun, CancelRead, DecideRead,
        DecideWrite, AckWaitExpires

(* A run shown as completed has run every step of its plan, however many   *)
(* executors worked on it.                                                 *)
THEOREM CompletedRan == Spec => []CompletedRanAllSteps
<1>1. Init => DoneInv
    BY ActorsAssumption, PlanLength DEF Init, NoRow, IdleExec, DoneInv,
        CompletedRanAllSteps
<1>2. DoneInv => CompletedRanAllSteps
    BY DEF DoneInv
<1> QED
    BY <1>1, DoneStep, <1>2, TypeInvariant, PTL DEF Spec

-----------------------------------------------------------------------------
(* The action of SettledIsFinal.                                           *)
SettledKept ==
    \A r \in Runs : Settled(r) => Settled(r)' /\ row'[r] = row[r]

(* No step changes the row of a settled run or takes an older read of it.  *)
LEMMA SettledStep == TypeInv /\ [Next]_vars => SettledKept
<1> SUFFICES ASSUME TypeInv, [Next]_vars
             PROVE  SettledKept
    OBVIOUS
<1> USE ActorsAssumption DEF TypeInv, TypeOK, Linked, history, RowOK, ExecOK,
    ClientOK, SettledKept, Settled, Terminal
<1>1. CASE UNCHANGED <<client, exec, row>>
    BY <1>1
<1>2. ASSUME NEW r \in Runs, TriggerRun(r)
       PROVE  SettledKept
    BY <1>2 DEF TriggerRun, NoRow
<1>3. ASSUME NEW c \in Clients, NEW r \in Runs, CancelRead(c, r)
       PROVE  SettledKept
    BY <1>3 DEF CancelRead, Cancellable
<1>4. ASSUME NEW c \in Clients, CancelWrite(c)
       PROVE  SettledKept
    BY <1>4 DEF CancelWrite, IdleClient
<1>5. ASSUME NEW c \in Clients, NEW a \in Approvals, NEW v \in Verdicts, DecideRead(c, a, v)
       PROVE  SettledKept
    BY <1>5 DEF DecideRead
<1>6. ASSUME NEW c \in Clients, DecideWrite(c)
       PROVE  SettledKept
    BY <1>6 DEF DecideWrite, IdleClient
<1>7. ASSUME NEW w \in Workers, NEW m \in Msgs, Fetch(w, m)
       PROVE  SettledKept
    BY <1>7 DEF Fetch
<1>8. ASSUME NEW w \in Workers, Ack(w)
       PROVE  SettledKept
    BY <1>8 DEF Ack
<1>9. ASSUME NEW w \in Workers, Publish(w)
       PROVE  SettledKept
    BY <1>9 DEF Publish, IdleExec
<1>10. ASSUME NEW w \in Workers, Nak(w)
       PROVE  SettledKept
    BY <1>10 DEF Nak, IdleExec
<1>11. ASSUME NEW e \in Executors, Load(e)
       PROVE  SettledKept
    BY <1>11 DEF Load, Return, IdleExec
<1>12. ASSUME NEW e \in Executors, Claim(e)
       PROVE  SettledKept
  <2>1. ClaimEffect(e)
    BY <1>12, ClaimChanges
  <2>2. e \in Executors /\ exec[e].pc = "claim" /\ UNCHANGED <<client>>
    BY <1>12 DEF Claim
  <2> HIDE DEF TypeInv, TypeOK, RowOK, ExecOK, HistoryOK, ApprovalOK, MsgOK, Linked, WorkerLinked
  <2>3. ASSUME NEW r \in Runs, Settled(r)
        PROVE  row'[r] = row[r] /\ Settled(r)'
    <3>1. r # exec[e].run
      BY <2>1, <2>2, <2>3
    <3>2. row'[r] = row[r]
      BY <2>1, <3>1 DEF ClaimEffect
    <3>3. \A x \in Executors : exec'[x].run = r =>
            exec'[x].pc \notin {"claim", "run", "await", "resume"}
      BY <2>1, <2>3, <3>1 DEF ClaimEffect
    <3> QED
      BY <2>2, <2>3, <3>2, <3>3
  <2> QED
    BY <2>3
<1>13. ASSUME NEW e \in Executors, StepDone(e)
       PROVE  SettledKept
    BY <1>13 DEF StepDone
<1>14. ASSUME NEW e \in Executors, NEW a \in Approvals, Gate(e, a)
       PROVE  SettledKept
    BY <1>14 DEF Gate
<1>15. ASSUME NEW e \in Executors, Complete(e)
       PROVE  SettledKept
    BY <1>15 DEF Complete, Return, IdleExec
<1>16. ASSUME NEW e \in Executors, StepFails(e)
       PROVE  SettledKept
  <2>1. FailRunEffect(e)
    BY <1>16, FailRunChanges DEF StepFails
  <2>2. e \in Executors /\ exec[e].pc = "run" /\ UNCHANGED <<client>>
    BY <1>16 DEF StepFails
  <2> HIDE DEF TypeInv, TypeOK, RowOK, ExecOK, HistoryOK, ApprovalOK, MsgOK, Linked, WorkerLinked
  <2>3. ASSUME NEW r \in Runs, Settled(r)
        PROVE  row'[r] = row[r] /\ Settled(r)'
    <3>1. r # exec[e].run
      BY <2>1, <2>2, <2>3
    <3>2. row'[r] = row[r]
      BY <2>1, <3>1 DEF FailRunEffect
    <3>3. \A x \in Executors : exec'[x].run = r =>
            exec'[x].pc \notin {"claim", "run", "await", "resume"}
      BY <2>1, <2>3, <3>1 DEF FailRunEffect
    <3> QED
      BY <2>2, <2>3, <3>2, <3>3
  <2> QED
    BY <2>3
<1>17. ASSUME NEW e \in Executors, Await(e)
       PROVE  SettledKept
    BY <1>17 DEF Await, Return, IdleExec
<1>18. ASSUME NEW e \in Executors, Escape(e)
       PROVE  SettledKept
    BY <1>18 DEF Escape, Raise, IdleExec
<1>19. ASSUME NEW e \in Executors, Crash(e)
       PROVE  SettledKept
    BY <1>19 DEF Crash, IdleExec
<1>20. ASSUME NEW e \in Resumers, NEW a \in Approvals, ResumeRead(e, a)
       PROVE  SettledKept
    BY <1>20 DEF ResumeRead
<1>21. ASSUME NEW e \in Resumers, ResumeRequeue(e)
       PROVE  SettledKept
    BY <1>21 DEF ResumeRequeue, Executors
<1>22. ASSUME NEW e \in Resumers, ResumeReject(e)
       PROVE  SettledKept
  <2>1. FailRunEffect(e)
    BY <1>22, FailRunChanges DEF ResumeReject, Executors
  <2>2. e \in Executors /\ exec[e].pc = "resume" /\ UNCHANGED <<client>>
    BY <1>22 DEF ResumeReject, Executors
  <2> HIDE DEF TypeInv, TypeOK, RowOK, ExecOK, HistoryOK, ApprovalOK, MsgOK, Linked, WorkerLinked
  <2>3. ASSUME NEW r \in Runs, Settled(r)
        PROVE  row'[r] = row[r] /\ Settled(r)'
    <3>1. r # exec[e].run
      BY <2>1, <2>2, <2>3
    <3>2. row'[r] = row[r]
      BY <2>1, <3>1 DEF FailRunEffect
    <3>3. \A x \in Executors : exec'[x].run = r =>
            exec'[x].pc \notin {"claim", "run", "await", "resume"}
      BY <2>1, <2>3, <3>1 DEF FailRunEffect
    <3> QED
      BY <2>2, <2>3, <3>2, <3>3
  <2> QED
    BY <2>3
<1>23. ASSUME NEW e \in Resumers, ResumeIgnored(e)
       PROVE  SettledKept
    BY <1>23 DEF ResumeIgnored, IdleExec
<1> QED
    BY <1>1, <1>2, <1>3, <1>4, <1>5, <1>6, <1>7, <1>8, <1>9, <1>10, <1>11,
        <1>12, <1>13, <1>14, <1>15, <1>16, <1>17, <1>18, <1>19, <1>20, <1>21,
        <1>22, <1>23 DEF Next, ExecuteRun, Advance, vars, EnqueueRun,
        AckWaitExpires

(* A terminal run nobody holds an older read of stays as it is.            *)
THEOREM SettledFinal == Spec => SettledIsFinal
<1>1. TypeInv /\ [Next]_vars =>
        [\A r \in Runs : Settled(r) => Settled(r)' /\ row'[r] = row[r]]_vars
    BY SettledStep DEF SettledKept
<1> QED
    BY <1>1, TypeInvariant, PTL DEF Spec, SettledIsFinal

-----------------------------------------------------------------------------
(* A single worker and no resumer.                                         *)
OneWorker == (\A x, y \in Executors : x = y) /\ Resumers = {}

(* No step of a queued run, of a run about to be claimed, or at or behind  *)
(* the step the worker has reached, has taken effect; a run under          *)
(* execution does not become queued.                                       *)
Untouched(r) == \A i \in Steps(r) : effects[r][i] = 0

OnceInv ==
    /\ StepsAtMostOnce
    /\ \A r \in Runs : row[r].status \in {"absent", "queued"} => Untouched(r)
    /\ \A e \in Executors :
          /\ exec[e].pc = "claim" => Untouched(exec[e].run)
          /\ exec[e].pc = "run" =>
                /\ row[exec[e].run].status \notin {"absent", "queued"}
                /\ \A i \in Steps(exec[e].run) :
                      i >= exec[e].next => effects[exec[e].run][i] = 0

(* With one worker and no resumer, every step keeps OnceInv.               *)
LEMMA OnceStep == TypeInv /\ OneWorker /\ OnceInv /\ [Next]_vars => OnceInv'
<1> SUFFICES ASSUME TypeInv, OneWorker, OnceInv, [Next]_vars
             PROVE  OnceInv'
    OBVIOUS
<1> USE ActorsAssumption DEF TypeInv, TypeOK, Linked, history, RowOK, ExecOK,
    HistoryOK, OnceInv, StepsAtMostOnce, Untouched, OneWorker
<1>1. CASE UNCHANGED <<effects, exec, row>>
    BY <1>1
<1>2. ASSUME NEW r \in Runs, TriggerRun(r)
       PROVE  OnceInv'
    BY <1>2 DEF TriggerRun, NoRow
<1>3. ASSUME NEW c \in Clients, CancelWrite(c)
       PROVE  OnceInv'
    BY <1>3 DEF CancelWrite
<1>4. ASSUME NEW w \in Workers, NEW m \in Msgs, Fetch(w, m)
       PROVE  OnceInv'
    BY <1>4 DEF Fetch
<1>5. ASSUME NEW w \in Workers, Ack(w)
       PROVE  OnceInv'
    BY <1>5 DEF Ack
<1>6. ASSUME NEW w \in Workers, Publish(w)
       PROVE  OnceInv'
    BY <1>6 DEF Publish, IdleExec
<1>7. ASSUME NEW w \in Workers, Nak(w)
       PROVE  OnceInv'
    BY <1>7 DEF Nak, IdleExec
<1>8. ASSUME NEW e \in Executors, Load(e)
       PROVE  OnceInv'
    BY <1>8 DEF Load, Return, Executors
<1>9. ASSUME NEW e \in Executors, Claim(e)
       PROVE  OnceInv'
  <2>1. ClaimEffect(e)
    BY <1>9, ClaimChanges
  <2>2. e \in Executors /\ exec[e].pc = "claim" /\ UNCHANGED <<effects>>
    BY <1>9 DEF Claim
  <2> HIDE DEF TypeInv, TypeOK, RowOK, ExecOK, HistoryOK, ApprovalOK, MsgOK, Linked, WorkerLinked
  <2>3. /\ effects' = effects
        /\ \A r \in Runs : row'[r].status \in {"absent", "queued"} =>
             row'[r].status = row[r].status
    BY <2>1, <2>2 DEF ClaimEffect
  <2>4. ASSUME NEW x \in Executors
        PROVE  x = e
    BY <2>2
  <2>5. exec'[e].pc = "run" =>
          /\ row'[exec'[e].run].status \notin {"absent", "queued"}
          /\ \A i \in Steps(exec'[e].run) :
                i >= exec'[e].next => effects'[exec'[e].run][i] = 0
    BY <2>1, <2>2, <2>3 DEF ClaimEffect
  <2>6. exec'[e].pc # "claim"
    BY <2>1 DEF ClaimEffect
  <2> QED
    BY <2>3, <2>4, <2>5, <2>6
<1>10. ASSUME NEW e \in Executors, StepDone(e)
       PROVE  OnceInv'
  <2> DEFINE r == exec[e].run
             i == exec[e].next
  <2>1. /\ r \in Runs /\ i \in Steps(r) /\ i \in Nat
        /\ effects[r] \in [Steps(r) -> Nat]
        /\ \A q \in Runs : effects[q] \in [Steps(q) -> Nat]
    BY <1>10, PlanLength DEF StepDone, InPlan
  <2>2. effects' = [effects EXCEPT ![r] = [effects[r] EXCEPT ![i] = @ + 1]]
    BY <1>10 DEF StepDone
  <2>3. /\ \A q \in Runs : q # r => effects'[q] = effects[q]
        /\ \A j \in Steps(r) : j # i => effects'[r][j] = effects[r][j]
        /\ effects'[r][i] = effects[r][i] + 1
        /\ effects'[r][i] > 0
    BY <2>1, <2>2
  <2>4. /\ exec[e].pc = "run"
        /\ exec'[e].pc = "run" /\ exec'[e].run = r /\ exec'[e].next = i + 1
        /\ \A x \in Executors : x # e => exec'[x] = exec[x]
    BY <1>10 DEF StepDone
  <2>5. \A q \in Runs : row'[q].status = row[q].status
    BY <1>10, <2>1 DEF StepDone
  <2>6. Plan[r][i] # "approval" /\ UNCHANGED <<decisions, approval>>
    BY <1>10 DEF StepDone, CurrentKind
  <2> HIDE DEF TypeInv, TypeOK, RowOK, ExecOK, HistoryOK, ApprovalOK
  <2>7. \A x \in Executors : x = e
    BY <2>4
  <2> HIDE DEF OnceInv, StepsAtMostOnce
  <2>13. \A j \in Steps(r) : j \in Nat /\ (j >= i => effects[r][j] = 0)
    BY <2>1, <2>4, PlanLength DEF Steps, OnceInv
  <2>8. effects[r][i] = 0 /\ effects'[r][i] = 1
    BY <2>1, <2>3, <2>13
  <2> USE DEF OnceInv, StepsAtMostOnce
  <2>9. row[r].status \notin {"absent", "queued"}
    BY <2>4
  <2>10. StepsAtMostOnce'
    <3> SUFFICES ASSUME NEW q \in Runs, NEW j \in Steps(q)
                 PROVE  effects'[q][j] <= 1
        OBVIOUS
    <3> QED
      BY <2>3, <2>8
  <2>11. \A q \in Runs : row'[q].status \in {"absent", "queued"} => Untouched(q)'
    BY <2>3, <2>5, <2>9
  <2>12. \A j \in Steps(r) : j >= i + 1 => effects'[r][j] = 0
    <3> SUFFICES ASSUME NEW j \in Steps(r), j >= i + 1
                 PROVE  effects'[r][j] = 0
        OBVIOUS
    <3>1. j # i /\ j >= i
      BY <2>1, <2>13
    <3> QED
      BY <2>3, <2>13, <3>1
  <2> QED
    BY <2>1, <2>4, <2>5, <2>7, <2>9, <2>10, <2>11, <2>12
<1>11. ASSUME NEW e \in Executors, NEW a \in Approvals, Gate(e, a)
       PROVE  OnceInv'
    BY <1>11 DEF Gate
<1>12. ASSUME NEW e \in Executors, Complete(e)
       PROVE  OnceInv'
    BY <1>12 DEF Complete, Return, Executors
<1>13. ASSUME NEW e \in Executors, StepFails(e)
       PROVE  OnceInv'
  <2>1. FailRunEffect(e)
    BY <1>13, FailRunChanges DEF StepFails
  <2>2. e \in Executors /\ exec[e].pc = "run" /\ UNCHANGED <<effects>>
    BY <1>13 DEF StepFails
  <2> HIDE DEF TypeInv, TypeOK, RowOK, ExecOK, HistoryOK, ApprovalOK, MsgOK, Linked, WorkerLinked
  <2>3. /\ effects' = effects
        /\ \A r \in Runs : row'[r].status \in {"absent", "queued"} =>
             row'[r].status = row[r].status
    BY <2>1, <2>2 DEF FailRunEffect
  <2>4. ASSUME NEW x \in Executors
        PROVE  x = e
    BY <2>2
  <2>5. exec'[e].pc = "run" =>
          /\ row'[exec'[e].run].status \notin {"absent", "queued"}
          /\ \A i \in Steps(exec'[e].run) :
                i >= exec'[e].next => effects'[exec'[e].run][i] = 0
    BY <2>1, <2>2, <2>3 DEF FailRunEffect
  <2>6. exec'[e].pc # "claim"
    BY <2>1 DEF FailRunEffect
  <2> QED
    BY <2>3, <2>4, <2>5, <2>6
<1>14. ASSUME NEW e \in Executors, Await(e)
       PROVE  OnceInv'
    BY <1>14 DEF Await, Return, Executors
<1>15. ASSUME NEW e \in Executors, Escape(e)
       PROVE  OnceInv'
    BY <1>15 DEF Escape, Raise, Executors
<1>16. ASSUME NEW e \in Executors, Crash(e)
       PROVE  OnceInv'
    BY <1>16 DEF Crash, IdleExec
<1>17. ASSUME NEW e \in Resumers, NEW a \in Approvals, ResumeRead(e, a)
       PROVE  OnceInv'
    BY <1>17
<1>18. ASSUME NEW e \in Resumers, ResumeRequeue(e)
       PROVE  OnceInv'
    BY <1>18
<1>19. ASSUME NEW e \in Resumers, ResumeReject(e)
       PROVE  OnceInv'
  <2>1. FailRunEffect(e)
    BY <1>19, FailRunChanges
  <2>2. e \in Executors /\ exec[e].pc = "resume" /\ UNCHANGED <<effects>>
    BY <1>19
  <2> HIDE DEF TypeInv, TypeOK, RowOK, ExecOK, HistoryOK, ApprovalOK, MsgOK, Linked, WorkerLinked
  <2>3. /\ effects' = effects
        /\ \A r \in Runs : row'[r].status \in {"absent", "queued"} =>
             row'[r].status = row[r].status
    BY <2>1, <2>2
  <2>4. ASSUME NEW x \in Executors
        PROVE  x = e
    BY <2>2
  <2>5. exec'[e].pc = "run" =>
          /\ row'[exec'[e].run].status \notin {"absent", "queued"}
          /\ \A i \in Steps(exec'[e].run) :
                i >= exec'[e].next => effects'[exec'[e].run][i] = 0
    BY <2>1, <2>2, <2>3
  <2>6. exec'[e].pc # "claim"
    BY <2>1
  <2> QED
    BY <2>3, <2>4, <2>5, <2>6
<1>20. ASSUME NEW e \in Resumers, ResumeIgnored(e)
       PROVE  OnceInv'
    BY <1>20
<1> QED
    BY <1>1, <1>2, <1>3, <1>4, <1>5, <1>6, <1>7, <1>8, <1>9, <1>10, <1>11,
        <1>12, <1>13, <1>14, <1>15, <1>16, <1>17, <1>18, <1>19, <1>20 DEF
        Next, ExecuteRun, Advance, vars, EnqueueRun, CancelRead, DecideRead,
        DecideWrite, AckWaitExpires

(* With one worker and no resumer no step takes effect twice, whatever     *)
(* crashes, redeliveries and duplicate messages there are.                 *)
THEOREM OneWorkerOnce ==
  ASSUME OneWorker
  PROVE  Spec => []StepsAtMostOnce
<1>1. Init => OnceInv
    BY DEF Init, IdleExec, OnceInv, StepsAtMostOnce, Untouched
<1>2. TypeInv /\ OnceInv /\ [Next]_vars => OnceInv'
    BY OnceStep, OneWorker
<1>3. OnceInv => StepsAtMostOnce
    BY DEF OnceInv
<1> QED
    BY <1>1, <1>2, <1>3, TypeInvariant, PTL DEF Spec

-----------------------------------------------------------------------------
(* RunLifecycle implements RunRow: what its actions do to the status of a  *)
(* run and to what the actors are permitted.                               *)

(* A status that is written.                                               *)
LEMMA StatusWritten ==
  ASSUME RowOK, NEW r \in Runs, NEW s, row' = [row EXCEPT ![r].status = s]
  PROVE  RowStatus' = [RowStatus EXCEPT ![r] = s]
BY DEF RowOK, RowStatus

(* An executor moves, or a request does.                                   *)
LEMMA ExecutorMoves ==
  ASSUME NEW e \in Executors, \A x \in Executors : x # e => exec'[x] = exec[x],
         client' = client
  PROVE  /\ Permits[e] = ExecutorPermit(exec[e])
         /\ Permits' = [Permits EXCEPT ![e] = ExecutorPermit(exec'[e])]
<1>1. e \notin Clients
  BY ClientsAssumption
<1>2. ExecutorPermit(exec[e])' = ExecutorPermit(exec'[e])
  BY DEF ExecutorPermit
<1>3. \A x \in Executors : x # e => ExecutorPermit(exec[x])' = ExecutorPermit(exec[x])
  BY DEF ExecutorPermit
<1>4. \A x \in Clients : ClientPermit(client[x])' = ClientPermit(client[x])
  BY DEF ClientPermit
<1>5. Permits' = [x \in Actors |->
                     IF x \in Clients THEN ClientPermit(client[x])'
                                      ELSE ExecutorPermit(exec[x])']
  BY DEF Permits, Actors
<1> QED
  BY <1>1, <1>2, <1>3, <1>4, <1>5 DEF Permits, Actors

(* The same of a request.                                                  *)
LEMMA RequestMoves ==
  ASSUME NEW c \in Clients, \A x \in Clients : x # c => client'[x] = client[x],
         exec' = exec
  PROVE  /\ Permits[c] = ClientPermit(client[c])
         /\ Permits' = [Permits EXCEPT ![c] = ClientPermit(client'[c])]
<1>1. ClientPermit(client[c])' = ClientPermit(client'[c])
  BY DEF ClientPermit
<1>2. \A x \in Clients : x # c => ClientPermit(client[x])' = ClientPermit(client[x])
  BY DEF ClientPermit
<1>3. \A x \in Executors : ExecutorPermit(exec[x])' = ExecutorPermit(exec[x])
  BY DEF ExecutorPermit
<1>4. Permits' = [x \in Actors |->
                     IF x \in Clients THEN ClientPermit(client[x])'
                                      ELSE ExecutorPermit(exec[x])']
  BY DEF Permits, Actors
<1> QED
  BY <1>1, <1>2, <1>3, <1>4 DEF Permits, Actors

(* A step of RunRow, or none.                                              *)
RowStep == [Row!RowNext]_(Row!rowVars)

(* What an executor does without a write uses no permit but its own.       *)
LEMMA ExecutorKeeps ==
  ASSUME NEW e \in Executors, \A x \in Executors : x # e => exec'[x] = exec[x],
         client' = client, RowStatus' = RowStatus,
         ExecutorPermit(exec'[e]) \in {ExecutorPermit(exec[e]), <<>>}
  PROVE  RowStep
<1>1. /\ Permits[e] = ExecutorPermit(exec[e]) /\ e \in Actors
      /\ Permits' = [Permits EXCEPT ![e] = ExecutorPermit(exec'[e])]
  BY ExecutorMoves DEF Actors
<1>2. Permits = [x \in Actors |-> Permits[x]]
  BY DEF Permits
<1>3. CASE ExecutorPermit(exec'[e]) = Permits[e]
  <2>1. Permits' = Permits
    BY <1>1, <1>2, <1>3
  <2> QED
    BY <2>1, Zenon DEF RowStep, Row!rowVars
<1>4. CASE ExecutorPermit(exec'[e]) # Permits[e]
  <2>1. ExecutorPermit(exec'[e]) = <<>> /\ Permits[e] # <<>>
    BY <1>1, <1>4
  <2>2. Row!Forget(e)
    BY <1>1, <2>1, Zenon DEF Row!Forget
  <2>3. Row!Act(e)
    BY <2>1, <2>2, Zenon DEF Row!Act
  <2> QED
    BY <1>1, <2>3, Zenon DEF RowStep, Row!RowNext
<1> QED
  BY <1>3, <1>4

(* A read and a write of the row of r, ...                                 *)
LEMMA RowReads ==
  ASSUME NEW x \in Actors, NEW r \in Runs,
         NEW act \in {"cancel", "execute", "resume"},
         Permits[x] = <<>>, RowStatus[r] \in Row!From[act], RowStatus' = RowStatus,
         Permits' = [Permits EXCEPT ![x] = <<r, act>>]
  PROVE  RowStep
<1>1. act \in DOMAIN Row!From
  BY DEF Row!From
<1>2. Row!Read(x, r, act)
  BY Zenon DEF Row!Read
<1>3. Row!Act(x)
  BY <1>1, <1>2, Zenon DEF Row!Act
<1> QED
  BY <1>3, Zenon DEF RowStep, Row!RowNext

(* ... after which the permit is used up unless an execution has begun.    *)
LEMMA RowWrites ==
  ASSUME NEW x \in Actors, NEW r \in Runs,
         NEW act \in {"cancel", "execute", "finish", "resume"},
         NEW s \in Row!Into[act],
         Permits[x] = <<r, act>>, RowStatus' = [RowStatus EXCEPT ![r] = s],
         Permits' = [Permits EXCEPT ![x] =
                       IF act = "execute" THEN <<r, "finish">> ELSE <<>>]
  PROVE  RowStep
<1>1. Permits[x] # <<>> /\ Permits[x][1] = r /\ Permits[x][2] = act
  OBVIOUS
<1>2. Row!Write(x, r, act)
  BY Zenon DEF Row!Write
<1>3. Row!Act(x)
  BY <1>1, <1>2, Zenon DEF Row!Act
<1> QED
  BY <1>3, Zenon DEF RowStep, Row!RowNext

(* What each place in execute_run permits.                                 *)
LEMMA PermitOf ==
  ASSUME NEW s
  PROVE  /\ s.pc = "claim" => ExecutorPermit(s) = <<s.run, "execute">>
         /\ s.pc \in {"run", "await"} => ExecutorPermit(s) = <<s.run, "finish">>
         /\ s.pc = "resume" => ExecutorPermit(s) = <<s.run, "resume">>
         /\ s.pc \in {"idle", "load", "ack", "publish", "nak"} => ExecutorPermit(s) = <<>>
<1>1. /\ DOMAIN ActOf = {"claim", "run", "await", "resume"}
      /\ ActOf["claim"] = "execute" /\ ActOf["run"] = "finish"
      /\ ActOf["await"] = "finish" /\ ActOf["resume"] = "resume"
  BY DEF ActOf
<1> QED
  BY <1>1 DEF ExecutorPermit

(* Where an executor ends up when execute_run returns or raises.           *)
LEMMA ReturnMoves ==
  ASSUME ExecOK, NEW e \in Executors, exec[e].pc # "idle",
         exec' = Return(e) \/ exec' = Raise(e) \/ exec' = [exec EXCEPT ![e] = IdleExec]
  PROVE  /\ \A x \in Executors : x # e => exec'[x] = exec[x]
         /\ ExecutorPermit(exec'[e]) = <<>>
<1>1. /\ \A x \in Executors : x # e => exec'[x] = exec[x]
      /\ exec'[e].pc \in {"idle", "ack", "nak"}
  BY DEF ExecOK, Return, Raise, IdleExec
<1> QED
  BY <1>1, PermitOf

(* A place changes, the run does not.                                      *)
LEMMA PlaceMoves ==
  ASSUME ExecOK, NEW e \in Executors, NEW p \in ExecPc,
         \/ exec' = [exec EXCEPT ![e].pc = p]
         \/ \E n : exec' = [exec EXCEPT ![e].pc = p, ![e].next = n]
  PROVE  /\ \A x \in Executors : x # e => exec'[x] = exec[x]
         /\ exec'[e].pc = p /\ exec'[e].run = exec[e].run
BY DEF ExecOK

(* Failing a run writes its row, or the execution raises instead.          *)
LEMMA FailRunStep ==
  ASSUME TypeInv, NEW e \in Executors, FailRun(e), client' = client,
         exec[e].pc \in {"run", "resume"}
  PROVE  RowStep
<1> DEFINE r == exec[e].run
<1>1. RowOK /\ ExecOK /\ r \in Runs /\ exec[e].pc # "idle"
  BY DEF TypeInv, TypeOK, ExecOK
<1>2. exec' = Return(e) \/ exec' = Raise(e)
  BY DEF FailRun
<1>3. /\ \A x \in Executors : x # e => exec'[x] = exec[x]
      /\ ExecutorPermit(exec'[e]) = <<>>
  BY <1>1, <1>2, ReturnMoves
<1>4. /\ Permits[e] = ExecutorPermit(exec[e])
      /\ Permits' = [Permits EXCEPT ![e] = <<>>]
  BY <1>3, ExecutorMoves
<1>5. CASE WallTimeFits
  <2>1. RowStatus' = [RowStatus EXCEPT ![r] = "failed"]
    BY <1>1, <1>5, StatusWritten DEF FailRun
  <2>2. CASE exec[e].pc = "run"
    <3>1. Permits[e] = <<r, "finish">> /\ "failed" \in Row!Into["finish"]
      BY <1>4, <2>2, PermitOf DEF Row!Into
    <3> QED
      BY <1>1, <1>4, <2>1, <3>1, RowWrites DEF Actors
  <2>3. CASE exec[e].pc = "resume"
    <3>1. Permits[e] = <<r, "resume">> /\ "failed" \in Row!Into["resume"]
      BY <1>4, <2>3, PermitOf DEF Row!Into
    <3> QED
      BY <1>1, <1>4, <2>1, <3>1, RowWrites DEF Actors
  <2> QED
    BY <2>2, <2>3
<1>6. CASE ~WallTimeFits
  <2>1. RowStatus' = RowStatus
    BY <1>6 DEF FailRun, RowStatus
  <2> QED
    BY <1>3, <2>1, ExecutorKeeps
<1> QED
  BY <1>5, <1>6

(* Each action is a step of RunRow or leaves its state alone.              *)
LEMMA RowRefined == TypeInv /\ [Next]_vars => RowStep
<1> SUFFICES ASSUME TypeInv, [Next]_vars
             PROVE  RowStep
    OBVIOUS
<1>t. RowOK /\ ExecOK /\ ClientOK
    BY DEF TypeInv, TypeOK
<1>r. \A e \in Executors : exec[e].pc # "idle" => exec[e].run \in Runs
    BY <1>t DEF ExecOK
<1>a. Workers \subseteq Executors /\ Resumers \subseteq Executors
    BY DEF Executors
<1>s. RowStatus = [r \in Runs |-> row[r].status]
    BY DEF RowStatus
<1>1. CASE UNCHANGED <<client, exec, row>>
  <2>1. RowStatus' = RowStatus /\ Permits' = Permits
    BY <1>1, Zenon DEF RowStatus, Permits, ExecutorPermit, ClientPermit
  <2> QED
    BY <2>1, Zenon DEF RowStep, Row!rowVars
<1>2. ASSUME NEW r \in Runs, TriggerRun(r)
       PROVE  RowStep
  <2>1. RowStatus[r] = "absent" /\ RowStatus' = [RowStatus EXCEPT ![r] = "queued"]
    <3>1. row[r].status = "absent" /\ row' = [row EXCEPT ![r].status = "queued"]
      BY <1>2 DEF TriggerRun, NoRow
    <3>2. RowStatus' = [RowStatus EXCEPT ![r] = "queued"]
      BY <3>1, <1>t, StatusWritten
    <3> QED
      BY <3>1, <3>2, <1>s
  <2>2. Permits' = Permits
    BY <1>2, Zenon DEF TriggerRun, Permits, ExecutorPermit, ClientPermit
  <2>3. Row!Create(r)
    BY <2>1, <2>2, Zenon DEF Row!Create
  <2> QED
    BY <2>3, Zenon DEF RowStep, Row!RowNext
<1>3. ASSUME NEW c \in Clients, NEW r \in Runs, CancelRead(c, r)
       PROVE  RowStep
  <2>1. /\ \A x \in Clients : x # c => client'[x] = client[x]
        /\ client'[c].op = "cancel" /\ client'[c].target = r
        /\ client[c].op = "idle" /\ exec' = exec /\ row' = row
    BY <1>3, <1>t DEF CancelRead, ClientOK, IdleClient
  <2>2. Permits[c] = <<>> /\ Permits' = [Permits EXCEPT ![c] = <<r, "cancel">>]
    BY <2>1, RequestMoves DEF ClientPermit
  <2>3. RowStatus[r] \in Row!From["cancel"] /\ RowStatus' = RowStatus
    BY <1>3, <2>1, <1>s DEF CancelRead, Cancellable, Row!From, RowStatus
  <2> QED
    BY <2>2, <2>3, RowReads DEF Actors
<1>4. ASSUME NEW c \in Clients, CancelWrite(c)
       PROVE  RowStep
  <2> DEFINE r == client[c].target
  <2>1. /\ \A x \in Clients : x # c => client'[x] = client[x]
        /\ client[c].op = "cancel" /\ client'[c].op = "idle" /\ exec' = exec
        /\ r \in Runs /\ row' = [row EXCEPT ![r].status = "cancelled"]
    BY <1>4, <1>t DEF CancelWrite, ClientOK, IdleClient
  <2>2. Permits[c] = <<r, "cancel">> /\ Permits' = [Permits EXCEPT ![c] = <<>>]
    BY <2>1, RequestMoves DEF ClientPermit
  <2>3. RowStatus' = [RowStatus EXCEPT ![r] = "cancelled"]
    BY <1>t, <2>1, StatusWritten
  <2>4. "cancelled" \in Row!Into["cancel"]
    BY DEF Row!Into
  <2> QED
    BY <2>1, <2>2, <2>3, <2>4, RowWrites DEF Actors
<1>5. ASSUME NEW c \in Clients, client[c].op # "cancel", client'[c].op # "cancel",
              \A x \in Clients : x # c => client'[x] = client[x],
              exec' = exec, row' = row
       PROVE  RowStep
  <2>1. Permits[c] = <<>> /\ Permits' = [Permits EXCEPT ![c] = <<>>]
    BY <1>5, RequestMoves DEF ClientPermit
  <2>2. Permits' = Permits /\ RowStatus' = RowStatus
    BY <1>5, <2>1 DEF Permits, RowStatus
  <2> QED
    BY <2>2, Zenon DEF RowStep, Row!rowVars
<1>6. ASSUME NEW c \in Clients, NEW a \in Approvals, NEW v \in Verdicts, DecideRead(c, a, v)
       PROVE  RowStep
    BY <1>5, <1>6, <1>t DEF DecideRead, ClientOK, IdleClient
<1>7. ASSUME NEW c \in Clients, DecideWrite(c)
       PROVE  RowStep
    BY <1>5, <1>7, <1>t DEF DecideWrite, ClientOK, IdleClient
<1>8. ASSUME NEW e \in Executors, row' = row, client' = client,
              \A x \in Executors : x # e => exec'[x] = exec[x],
              ExecutorPermit(exec'[e]) \in {ExecutorPermit(exec[e]), <<>>}
       PROVE  RowStep
  <2>1. RowStatus' = RowStatus
    BY <1>8 DEF RowStatus
  <2> QED
    BY <1>8, <2>1, ExecutorKeeps
<1>9. ASSUME NEW e \in Executors, exec[e].pc # "idle", row' = row, client' = client,
              exec' = Return(e) \/ exec' = Raise(e) \/ exec' = [exec EXCEPT ![e] = IdleExec]
       PROVE  RowStep
    BY <1>8, <1>9, <1>t, ReturnMoves
<1>10. ASSUME NEW w \in Workers, NEW m \in Msgs, Fetch(w, m)
       PROVE  RowStep
  <2>1. /\ \A x \in Executors : x # w => exec'[x] = exec[x]
        /\ exec'[w].pc = "load" /\ row' = row /\ client' = client
    BY <1>10, <1>t, <1>a DEF Fetch, ExecOK
  <2> QED
    BY <2>1, <1>8, <1>a, PermitOf
<1>11. ASSUME NEW w \in Workers, Ack(w)
       PROVE  RowStep
  <2>1. /\ \A x \in Executors : x # w => exec'[x] = exec[x]
        /\ exec'[w].pc = "publish" /\ row' = row /\ client' = client
    BY <1>11, <1>t, <1>a DEF Ack, ExecOK
  <2> QED
    BY <2>1, <1>8, <1>a, PermitOf
<1>12. ASSUME NEW w \in Workers, Publish(w)
       PROVE  RowStep
    BY <1>12, <1>9, <1>a DEF Publish
<1>13. ASSUME NEW w \in Workers, Nak(w)
       PROVE  RowStep
    BY <1>13, <1>9, <1>a DEF Nak
<1>14. ASSUME NEW e \in Executors, Load(e)
       PROVE  RowStep
  <2> DEFINE r == exec[e].run
  <2>1. exec[e].pc = "load" /\ r \in Runs /\ row' = row /\ client' = client
    BY <1>14, <1>r DEF Load
  <2>2. CASE row[r].status = "queued"
    <3>1. exec' = [exec EXCEPT ![e].pc = "claim"]
      BY <1>14, <2>2 DEF Load
    <3>2. /\ \A x \in Executors : x # e => exec'[x] = exec[x]
          /\ exec'[e].pc = "claim" /\ exec'[e].run = r
      BY <3>1, <1>t, PlaceMoves DEF ExecPc
    <3>3. Permits[e] = <<>> /\ Permits' = [Permits EXCEPT ![e] = <<r, "execute">>]
      BY <2>1, <3>2, ExecutorMoves, PermitOf
    <3>4. RowStatus[r] \in Row!From["execute"] /\ RowStatus' = RowStatus
      BY <2>1, <2>2, <1>s DEF Row!From, RowStatus
    <3> QED
      BY <2>1, <3>3, <3>4, RowReads DEF Actors
  <2>3. CASE row[r].status # "queued"
    BY <2>1, <2>3, <1>9, <1>14 DEF Load
  <2> QED
    BY <2>2, <2>3
<1>15. ASSUME NEW e \in Executors, Claim(e)
       PROVE  RowStep
  <2> DEFINE r == exec[e].run
  <2>1. /\ exec[e].pc = "claim" /\ r \in Runs /\ client' = client
        /\ row' = [row EXCEPT ![r].status = "running"]
        /\ exec' = [exec EXCEPT ![e].pc = "run", ![e].next = 1]
    BY <1>15, <1>r DEF Claim
  <2>2. /\ \A x \in Executors : x # e => exec'[x] = exec[x]
        /\ exec'[e].pc = "run" /\ exec'[e].run = r
    BY <2>1, <1>t, PlaceMoves DEF ExecPc
  <2>3. /\ Permits[e] = <<r, "execute">>
        /\ Permits' = [Permits EXCEPT ![e] = <<r, "finish">>]
    <3>1. /\ Permits[e] = ExecutorPermit(exec[e])
          /\ Permits' = [Permits EXCEPT ![e] = ExecutorPermit(exec'[e])]
      BY <2>1, <2>2, ExecutorMoves, Zenon
    <3>2. ExecutorPermit(exec[e]) = <<r, "execute">>
      BY <2>1, PermitOf, Zenon
    <3>3. ExecutorPermit(exec'[e]) = <<r, "finish">>
      BY <2>2, PermitOf
    <3> QED
      BY <3>1, <3>2, <3>3, Zenon
  <2>4. RowStatus' = [RowStatus EXCEPT ![r] = "running"]
    BY <1>t, <2>1, StatusWritten
  <2>5. "running" \in Row!Into["execute"]
    BY DEF Row!Into
  <2> QED
    BY <2>1, <2>3, <2>4, <2>5, RowWrites DEF Actors
<1>16. ASSUME NEW e \in Executors, StepDone(e)
       PROVE  RowStep
  <2>1. /\ \A x \in Executors : x # e => exec'[x] = exec[x]
        /\ exec'[e].pc = exec[e].pc /\ exec'[e].run = exec[e].run /\ client' = client
    BY <1>16, <1>t DEF StepDone, ExecOK
  <2>2. \A r \in Runs : row'[r].status = row[r].status
    BY <1>16, <1>t DEF StepDone, RowOK
  <2>3. RowStatus' = RowStatus
    BY <2>2 DEF RowStatus
  <2>4. ExecutorPermit(exec'[e]) = ExecutorPermit(exec[e])
    BY <2>1 DEF ExecutorPermit
  <2> QED
    BY <2>1, <2>3, <2>4, ExecutorKeeps
<1>17. ASSUME NEW e \in Executors, NEW a \in Approvals, Gate(e, a)
       PROVE  RowStep
  <2>1. /\ \A x \in Executors : x # e => exec'[x] = exec[x]
        /\ exec'[e].pc = "await" /\ exec'[e].run = exec[e].run /\ exec[e].pc = "run"
        /\ client' = client /\ row' = row
    BY <1>17, <1>t, PlaceMoves DEF Gate, ExecPc
  <2>2. ExecutorPermit(exec'[e]) = ExecutorPermit(exec[e])
    BY <2>1, PermitOf
  <2> QED
    BY <2>1, <2>2, <1>8
<1>18. ASSUME NEW e \in Executors, NEW s \in {"awaiting_approval", "completed"},
              exec[e].pc \in {"run", "await"}, client' = client, exec' = Return(e),
              row' = [row EXCEPT ![exec[e].run].status = s]
       PROVE  RowStep
  <2> DEFINE r == exec[e].run
  <2>1. r \in Runs /\ exec[e].pc # "idle"
    BY <1>18, <1>r
  <2>2. /\ \A x \in Executors : x # e => exec'[x] = exec[x]
        /\ ExecutorPermit(exec'[e]) = <<>>
    BY <2>1, <1>18, <1>t, ReturnMoves
  <2>3. Permits[e] = <<r, "finish">> /\ Permits' = [Permits EXCEPT ![e] = <<>>]
    BY <1>18, <2>2, ExecutorMoves, PermitOf
  <2>4. RowStatus' = [RowStatus EXCEPT ![r] = s]
    BY <1>t, <1>18, <2>1, StatusWritten
  <2>5. s \in Row!Into["finish"]
    BY DEF Row!Into
  <2> QED
    BY <2>1, <2>3, <2>4, <2>5, RowWrites DEF Actors
<1>19. ASSUME NEW e \in Executors, Complete(e)
       PROVE  RowStep
    BY <1>18, <1>19 DEF Complete
<1>20. ASSUME NEW e \in Executors, Await(e)
       PROVE  RowStep
    BY <1>18, <1>20 DEF Await
<1>21. ASSUME NEW e \in Executors, StepFails(e)
       PROVE  RowStep
    BY <1>21, FailRunStep DEF StepFails
<1>22. ASSUME NEW e \in Executors, Escape(e)
       PROVE  RowStep
    BY <1>22, <1>9 DEF Escape
<1>23. ASSUME NEW e \in Executors, Crash(e)
       PROVE  RowStep
    BY <1>23, <1>9 DEF Crash
<1>24. ASSUME NEW e \in Resumers, NEW a \in Approvals, ResumeRead(e, a)
       PROVE  RowStep
  <2> DEFINE r == approval[a].run
  <2>1. r \in Runs
    BY <1>24 DEF ResumeRead, TypeInv, TypeOK, ApprovalOK
  <2>2. /\ exec[e].pc = "idle" /\ row[r].status = "awaiting_approval"
        /\ exec' = [exec EXCEPT ![e] = [pc |-> "resume", run |-> r, ref |-> a, next |-> 0]]
        /\ row' = row /\ client' = client
    BY <1>24 DEF ResumeRead, IdleExec
  <2>3. /\ \A x \in Executors : x # e => exec'[x] = exec[x]
        /\ exec'[e].pc = "resume" /\ exec'[e].run = r
    BY <2>2, <1>t, <1>a DEF ExecOK
  <2>4. Permits[e] = <<>> /\ Permits' = [Permits EXCEPT ![e] = <<r, "resume">>]
    BY <2>2, <2>3, <1>a, ExecutorMoves, PermitOf
  <2>5. RowStatus[r] \in Row!From["resume"] /\ RowStatus' = RowStatus
    BY <2>1, <2>2, <1>s DEF Row!From, RowStatus
  <2> QED
    BY <2>1, <2>4, <2>5, <1>a, RowReads DEF Actors
<1>25. ASSUME NEW e \in Resumers, ResumeRequeue(e)
       PROVE  RowStep
  <2> DEFINE r == exec[e].run
  <2>1. /\ exec[e].pc = "resume" /\ r \in Runs /\ client' = client
        /\ row' = [row EXCEPT ![r].status = "queued"]
        /\ exec' = [exec EXCEPT ![e].pc = "load"]
    BY <1>25, <1>r, <1>a DEF ResumeRequeue
  <2>2. /\ \A x \in Executors : x # e => exec'[x] = exec[x]
        /\ exec'[e].pc = "load"
    BY <2>1, <1>t, <1>a, PlaceMoves DEF ExecPc
  <2>3. Permits[e] = <<r, "resume">> /\ Permits' = [Permits EXCEPT ![e] = <<>>]
    <3>1. /\ Permits[e] = ExecutorPermit(exec[e])
          /\ Permits' = [Permits EXCEPT ![e] = ExecutorPermit(exec'[e])]
      BY <2>1, <2>2, <1>a, ExecutorMoves
    <3>2. ExecutorPermit(exec[e]) = <<r, "resume">>
      BY <2>1, PermitOf, Zenon
    <3>3. ExecutorPermit(exec'[e]) = <<>>
      BY <2>2, PermitOf
    <3> QED
      BY <3>1, <3>2, <3>3, Zenon
  <2>4. RowStatus' = [RowStatus EXCEPT ![r] = "queued"]
    BY <1>t, <2>1, StatusWritten
  <2>5. "queued" \in Row!Into["resume"]
    BY DEF Row!Into
  <2> QED
    BY <2>1, <2>3, <2>4, <2>5, <1>a, RowWrites DEF Actors
<1>26. ASSUME NEW e \in Resumers, ResumeReject(e)
       PROVE  RowStep
    BY <1>26, <1>a, FailRunStep DEF ResumeReject
<1>27. ASSUME NEW e \in Resumers, ResumeIgnored(e)
       PROVE  RowStep
    BY <1>27, <1>9, <1>a DEF ResumeIgnored
<1> QED
    BY <1>1, <1>2, <1>3, <1>4, <1>6, <1>7, <1>10, <1>11, <1>12, <1>13, <1>14, <1>15,
        <1>16, <1>17, <1>19, <1>20, <1>21, <1>22, <1>23, <1>24, <1>25, <1>26, <1>27
    DEF Next, ExecuteRun, Advance, vars, EnqueueRun, AckWaitExpires

(* For every number of workers, resumers and requests, what becomes of the *)
(* status of a run is what RunRow permits.                                 *)
THEOREM LifecycleImplementsRow == Spec => ImplementsRow
<1>1. Init => Row!RowInit
  <2> SUFFICES ASSUME Init PROVE Row!RowInit
    OBVIOUS
  <2>1. RowStatus = [r \in Runs |-> "absent"]
    BY DEF Init, RowStatus, NoRow
  <2>2. Permits = [x \in Actors |-> <<>>]
    <3>1. \A e \in Executors : ExecutorPermit(exec[e]) = <<>>
      BY PermitOf DEF Init, IdleExec
    <3>2. \A c \in Clients : ClientPermit(client[c]) = <<>>
      BY DEF Init, IdleClient, ClientPermit
    <3> QED
      BY <3>1, <3>2 DEF Permits, Actors
  <2> QED
    BY <2>1, <2>2, Zenon DEF Row!RowInit
<1>2. TypeInv /\ [Next]_vars => [Row!RowNext]_(Row!rowVars)
  BY RowRefined DEF RowStep
<1> QED
  BY <1>1, <1>2, TypeInvariant, PTL DEF Spec, ImplementsRow, Row!RunRow

(* What RunRow promises, for what anything that implements it may build    *)
(* on: a run that is over and that nobody is permitted to change is over   *)
(* for good. This uses RunRow alone, nothing of what its actors do.        *)
THEOREM RowsEnd == ImplementsRow => Row!Final
<1> DEFINE Kept == \A r \in Runs : Row!Closed(r) =>
                      Row!Closed(r)' /\ RowStatus'[r] = RowStatus[r]
<1>t. RowStatus = [r \in Runs |-> RowStatus[r]]
  BY DEF RowStatus
<1>p. Permits = [x \in Actors |-> Permits[x]]
  BY DEF Permits
<1>h. \A x \in Actors : Permits[x] # <<>> =>
         /\ Permits[x] = <<Permits[x][1], Permits[x][2]>>
         /\ Permits[x][2] \in DOMAIN Row!Into
  BY DEF Permits, Actors, ClientPermit, ExecutorPermit, ActOf, Row!Into
<1>1. ASSUME Row!RowNext PROVE Kept
  <2> SUFFICES ASSUME NEW r \in Runs, Row!Closed(r)
               PROVE  Row!Closed(r)' /\ RowStatus'[r] = RowStatus[r]
    OBVIOUS
  <2>1. /\ RowStatus[r] \in {"completed", "failed", "cancelled"}
        /\ \A x \in Actors, act \in DOMAIN Row!Into :
              Permits[x] # <<r, act>>
    BY Zenon DEF Row!Closed
  <2>2. CASE \E q \in Runs : Row!Create(q)
    <3>1. PICK q \in Runs : Row!Create(q)
      BY <2>2
    <3>2. q # r /\ RowStatus'[r] = RowStatus[r] /\ Permits' = Permits
      BY <3>1, <2>1, <1>1, <1>t DEF Row!Create
    <3> QED
      BY <3>2, <2>1, Zenon DEF Row!Closed
  <2>3. ASSUME NEW x \in Actors, NEW q \in Runs, NEW act, Row!Read(x, q, act),
               act \in DOMAIN Row!From
        PROVE  Row!Closed(r)' /\ RowStatus'[r] = RowStatus[r]
    <3>1. q # r
      BY <2>1, <2>3 DEF Row!Read, Row!From
    <3>2. \A b : <<q, act>> # <<r, b>>
      BY <3>1
    <3>3. /\ RowStatus' = RowStatus
          /\ \A y \in Actors : Permits'[y] = Permits[y] \/ Permits'[y] = <<q, act>>
      BY <2>3, <1>p DEF Row!Read
    <3>4. \A y \in Actors, b \in DOMAIN Row!Into : Permits'[y] # <<r, b>>
      BY <2>1, <3>2, <3>3, Zenon
    <3> QED
      BY <2>1, <3>3, <3>4, Zenon DEF Row!Closed
  <2>4. ASSUME NEW x \in Actors, Permits[x] # <<>>,
               Row!Write(x, Permits[x][1], Permits[x][2])
        PROVE  Row!Closed(r)' /\ RowStatus'[r] = RowStatus[r]
    <3> DEFINE q == Permits[x][1]
    <3>1. q # r
      BY <2>1, <2>4, <1>h
    <3>2. \A b : <<q, "finish">> # <<r, b>> /\ <<>> # <<r, b>>
      BY <3>1
    <3>3. RowStatus'[r] = RowStatus[r]
      BY <2>4, <3>1, <1>1, <1>t DEF Row!Write
    <3>4. \A y \in Actors :
             \/ Permits'[y] = Permits[y]
             \/ Permits'[y] = <<q, "finish">> \/ Permits'[y] = <<>>
      BY <2>4, <1>p DEF Row!Write
    <3>5. \A y \in Actors, b \in DOMAIN Row!Into : Permits'[y] # <<r, b>>
      BY <2>1, <3>2, <3>4, Zenon
    <3> QED
      BY <2>1, <3>3, <3>5, Zenon DEF Row!Closed
  <2>5. ASSUME NEW x \in Actors, Row!Forget(x)
        PROVE  Row!Closed(r)' /\ RowStatus'[r] = RowStatus[r]
    <3>1. \A b : <<>> # <<r, b>>
      OBVIOUS
    <3>2. /\ RowStatus' = RowStatus
          /\ \A y \in Actors : Permits'[y] = Permits[y] \/ Permits'[y] = <<>>
      BY <2>5, <1>p DEF Row!Forget
    <3>3. \A y \in Actors, b \in DOMAIN Row!Into : Permits'[y] # <<r, b>>
      BY <2>1, <3>1, <3>2, Zenon
    <3> QED
      BY <2>1, <3>2, <3>3, Zenon DEF Row!Closed
  <2> QED
    BY <1>1, <2>2, <2>3, <2>4, <2>5, Zenon DEF Row!RowNext, Row!Act
<1>2. [Row!RowNext]_(Row!rowVars) => [Kept]_(Row!rowVars)
  BY <1>1, Zenon
<1> QED
  BY <1>2, PTL DEF ImplementsRow, Row!RunRow, Row!Final
=============================================================================
