------------------------------- MODULE RunRow -------------------------------
(***************************************************************************)
(* What the status of a run goes through, whoever acts on it and with what *)
(* delay: an actor changes it on the strength of one read, made when the   *)
(* status permitted what the actor is about to do, and one read is good    *)
(* for one change, or for one execution from its start to its one end.     *)
(* Other actors may have changed the status since; nothing more is         *)
(* promised.                                                               *)
(***************************************************************************)
CONSTANTS Runs, Actors

VARIABLES
    status,     \* status[r]: what the row of the run shows
    permit      \* permit[x]: the run and the act a read permits to x, if any

rowVars == <<status, permit>>

(* What an act may be begun from, and what it writes in the end.           *)
From == [cancel |-> {"queued", "running", "awaiting_approval"},
         execute |-> {"queued"},
         resume |-> {"awaiting_approval"}]

Into == [cancel |-> {"cancelled"},
         execute |-> {"running"},
         finish |-> {"awaiting_approval", "completed", "failed"},
         resume |-> {"queued", "failed"}]

RowInit ==
    /\ status = [r \in Runs |-> "absent"]
    /\ permit = [x \in Actors |-> <<>>]

Create(r) ==
    /\ status[r] = "absent"
    /\ status' = [status EXCEPT ![r] = "queued"]
    /\ UNCHANGED permit

Read(x, r, act) ==
    /\ status[r] \in From[act]
    /\ UNCHANGED status
    /\ permit' = [permit EXCEPT ![x] = <<r, act>>]

Write(x, r, act) ==
    /\ \E s \in Into[act] : status' = [status EXCEPT ![r] = s]
    /\ permit' = [permit EXCEPT ![x] = IF act = "execute" THEN <<r, "finish">> ELSE <<>>]

(* It is not used: the actor died, failed, or found no reason to.          *)
Forget(x) ==
    /\ permit' = [permit EXCEPT ![x] = <<>>]
    /\ UNCHANGED status

Act(x) ==
    \/ permit[x] = <<>> /\ \E r \in Runs, act \in DOMAIN From : Read(x, r, act)
    \/ permit[x] # <<>> /\ (Write(x, permit[x][1], permit[x][2]) \/ Forget(x))

RowNext ==
    \/ \E r \in Runs : Create(r)
    \/ \E x \in Actors : Act(x)

RunRow == RowInit /\ [][RowNext]_rowVars

-----------------------------------------------------------------------------
Closed(r) ==
    /\ status[r] \in {"completed", "failed", "cancelled"}
    /\ \A x \in Actors, act \in DOMAIN Into : permit[x] # <<r, act>>

(* What follows of it: a run that is over and that nobody is permitted to  *)
(* change stays as it is, and nobody will be.                              *)
Final == [][\A r \in Runs : Closed(r) => Closed(r)' /\ status'[r] = status[r]]_rowVars
=============================================================================
