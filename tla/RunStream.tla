----------------------------- MODULE RunStream -----------------------------
(***************************************************************************)
(* GET /runs/{id}/stream (routers/runs.py, stream_run): every stream polls *)
(* the row of the run through a session of its own, yields a frame when    *)
(* steps_completed differs from the last it saw, and ends with a frame     *)
(* when the status it reads is terminal.  Frames are yielded inside the    *)
(* session, so a connection is held until the client has taken them.       *)
(*                                                                         *)
(* The request itself has a session (get_db) too, whose transaction holds  *)
(* a connection from the first query until the dependency is finished:     *)
(* before the response is sent, or, in the later of the FastAPI versions   *)
(* that pyproject.toml admits, after it.  KeepsSession says which.         *)
(***************************************************************************)
EXTENDS Integers, FiniteSets

CONSTANTS Clients,       \* streams
          PoolSize,      \* connections of the database pool
          KeepsSession,  \* get_db is finished after the response
          MaxSteps,      \* bound on the steps of the run
          MaxResumes     \* bound on resumptions after an approval

StreamAssumption ==
    /\ PoolSize \in Nat \ {0} /\ KeepsSession \in BOOLEAN
    /\ IsFiniteSet(Clients) /\ {MaxSteps, MaxResumes} \subseteq Nat

VARIABLES row,         \* committed status and steps_completed
          exec,        \* the executor: whether it runs, and steps it has done
          cancelling,  \* a cancel_run that found the run cancellable
          resumes,
          stream

vars == <<row, exec, cancelling, resumes, stream>>

Terminal == {"completed", "failed", "cancelled", "timed_out"}
RunStatus == Terminal \cup {"queued", "running", "awaiting_approval"}

Nil == "none"

(* "read" is the row a poll found; "seen" the step frames, "end" the last. *)
Off == [pc |-> "off", last |-> -1, read |-> [status |-> Nil, steps |-> 0],
        seen |-> {}, end |-> Nil]

Init ==
    /\ row = [status |-> "queued", steps |-> 0]
    /\ exec = [on |-> FALSE, done |-> 0]
    /\ cancelling = FALSE
    /\ resumes = 0
    /\ stream = [c \in Clients |-> Off]

---------------------------------------------------------------------------
(* The run: commits of the executor, which never reads the row again, and  *)
(* of cancel_run and resume_after_approval.                                *)

Claim ==
    /\ row.status = "queued" /\ ~exec.on
    /\ row' = [row EXCEPT !.status = "running"]
    /\ exec' = [on |-> TRUE, done |-> 0]
    /\ UNCHANGED <<cancelling, resumes, stream>>

StepDone ==
    /\ exec.on /\ exec.done < MaxSteps
    /\ exec' = [exec EXCEPT !.done = @ + 1]
    /\ row' = [row EXCEPT !.steps = exec.done + 1]
    /\ UNCHANGED <<cancelling, resumes, stream>>

Leaves(status) ==
    /\ exec.on
    /\ row' = [row EXCEPT !.status = status]
    /\ exec' = [exec EXCEPT !.on = FALSE]
    /\ UNCHANGED <<cancelling, resumes, stream>>

Await == Leaves("awaiting_approval")
Complete == exec.done = MaxSteps /\ Leaves("completed")

(* An exception leaves execute_run and the status as it was.               *)
Escape == Leaves(row.status)

CancelRead ==
    /\ ~cancelling /\ row.status \in {"queued", "running", "awaiting_approval"}
    /\ cancelling' = TRUE
    /\ UNCHANGED <<row, exec, resumes, stream>>

CancelWrite ==
    /\ cancelling
    /\ cancelling' = FALSE
    /\ row' = [row EXCEPT !.status = "cancelled"]
    /\ UNCHANGED <<exec, resumes, stream>>

Resume ==
    /\ row.status = "awaiting_approval" /\ ~exec.on /\ resumes < MaxResumes
    /\ resumes' = resumes + 1
    /\ row' = [row EXCEPT !.status = "queued"]
    /\ UNCHANGED <<exec, cancelling, stream>>

---------------------------------------------------------------------------
(* The streams *)

(* The connections of the request and of the poll.                         *)
HoldsRequest(c) ==
    \/ stream[c].pc = "asked"
    \/ KeepsSession /\ stream[c].pc # "off"
HoldsPoll(c) == stream[c].pc = "yield"
Used == Cardinality({c \in Clients : HoldsRequest(c)})
        + Cardinality({c \in Clients : HoldsPoll(c)})

Becomes(c, s) == stream' = [stream EXCEPT ![c] = s]

(* The request checks out a connection and finds the run.                  *)
Ask(c) ==
    /\ stream[c].pc = "off" /\ Used < PoolSize
    /\ Becomes(c, [Off EXCEPT !.pc = "asked"])
    /\ UNCHANGED <<row, exec, cancelling, resumes>>

(* The response begins with run.started.                                   *)
Respond(c) ==
    /\ stream[c].pc = "asked"
    /\ Becomes(c, [stream[c] EXCEPT !.pc = "poll"])
    /\ UNCHANGED <<row, exec, cancelling, resumes>>

Poll(c) ==
    /\ stream[c].pc = "poll" /\ Used < PoolSize
    /\ Becomes(c, [stream[c] EXCEPT !.pc = "yield", !.read = row])
    /\ UNCHANGED <<row, exec, cancelling, resumes>>

(* The pool has no connection for longer than it lets a caller wait.       *)
PollTimeout(c) ==
    /\ stream[c].pc = "poll" /\ Used >= PoolSize
    /\ Becomes(c, [stream[c] EXCEPT !.pc = "ended"])
    /\ UNCHANGED <<row, exec, cancelling, resumes>>

(* Seeded fault: the status is looked at only when the steps changed.      *)
YieldNested(c) ==
    LET s == stream[c]
        changed == s.read.steps # s.last
        over == changed /\ s.read.status \in Terminal
    IN
    /\ s.pc = "yield"
    /\ Becomes(c, [s EXCEPT !.last = s.read.steps,
                     !.seen = IF changed THEN @ \cup {s.read.steps} ELSE @,
                     !.end = IF ~over THEN Nil
                             ELSE IF s.read.status = "completed" THEN "run.completed"
                             ELSE "run.failed",
                     !.read = Off.read,
                     !.pc = IF over THEN "ended" ELSE "sleep"])
    /\ UNCHANGED <<row, exec, cancelling, resumes>>

(* The client takes the frames: step.started if the steps changed, and     *)
(* run.completed or run.failed if the run is over.                         *)
Yield(c) ==
    LET s == stream[c]
        over == s.read.status \in Terminal
    IN
    /\ s.pc = "yield"
    /\ Becomes(c, [s EXCEPT !.last = s.read.steps, !.seen = @ \cup {s.read.steps},
                     !.end = IF ~over THEN Nil
                             ELSE IF s.read.status = "completed" THEN "run.completed"
                             ELSE "run.failed",
                     !.read = Off.read,
                     !.pc = IF over THEN "ended" ELSE "sleep"])
    /\ UNCHANGED <<row, exec, cancelling, resumes>>

Wake(c) ==
    /\ stream[c].pc = "sleep"
    /\ Becomes(c, [stream[c] EXCEPT !.pc = "poll"])
    /\ UNCHANGED <<row, exec, cancelling, resumes>>

(* The response is over, or its client went away.                          *)
Close(c) ==
    /\ stream[c].pc \notin {"off", "asked"}
    /\ Becomes(c, Off)
    /\ UNCHANGED <<row, exec, cancelling, resumes>>

Run == Claim \/ StepDone \/ Await \/ Complete \/ Escape
         \/ CancelRead \/ CancelWrite \/ Resume

Serve(c) == Ask(c) \/ Respond(c) \/ Poll(c) \/ PollTimeout(c) \/ Yield(c) \/ Wake(c)

Next == Run \/ \E c \in Clients : Serve(c) \/ Close(c)

Spec == Init /\ [][Next]_vars

(* The event loop serves every stream, the client takes its frames, and    *)
(* the pool gives its connections to those that wait in turn.              *)
Fairness ==
    \A c \in Clients :
        /\ WF_vars(Respond(c) \/ Yield(c) \/ Wake(c))
        /\ SF_vars(Poll(c))

---------------------------------------------------------------------------
(* Properties *)

(* Type invariant: the pool is never overdrawn, and a stream that yields   *)
(* has read a row.                                                         *)
TypeOK ==
    /\ row \in [status : RunStatus, steps : 0..MaxSteps]
    /\ exec \in [on : BOOLEAN, done : 0..MaxSteps]
    /\ cancelling \in BOOLEAN /\ resumes \in 0..MaxResumes
    /\ \A c \in Clients :
          /\ stream[c] \in [pc : {"off", "asked", "poll", "yield", "sleep", "ended"},
                            last : -1..MaxSteps, seen : SUBSET (0..MaxSteps),
                            read : [status : RunStatus \cup {Nil}, steps : 0..MaxSteps],
                            end : {Nil, "run.completed", "run.failed"}]
          /\ stream[c].pc = "yield" <=> stream[c].read.status # Nil
    /\ Used <= PoolSize

(* When a run stays settled, every stream of it comes to its end.          *)
SettledStreamsEnd ==
    <>[](row.status \in Terminal) =>
        \A c \in Clients : []<>(stream[c].pc \in {"off", "ended"})

-----------------------------------------------------------------------------
(* What the code's comments and docs say and the code does not do.         *)

(* A stream that was there from the first step to the end of the run has   *)
(* shown every step of it.                                                 *)
EveryStepIsShown ==
    \A c \in Clients :
        stream[c].end = "run.completed" /\ 0 \in stream[c].seen =>
            1..row.steps \subseteq stream[c].seen

=============================================================================
