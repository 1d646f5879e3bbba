--------------------------- MODULE WorkerManager ---------------------------
(***************************************************************************)
(* start and stop of WorkerManager (services/workers.py).  Both are        *)
(* coroutines of one event loop and give up control wherever they await:   *)
(* stop is called by whoever started the manager and by the signal         *)
(* handlers that start installs at its end.  Everything one call of start  *)
(* creates carries the number of that call: a NATS connection, the workers *)
(* with their subscriptions, and three loop tasks.  What a loop does with  *)
(* a message is the matter of RunLifecycle and KpiWorker.                  *)
(***************************************************************************)
EXTENDS Naturals

CONSTANTS MaxStarts,  \* bound on calls of start
          Stoppers,   \* calls of stop
          Outages     \* whether a connection may be lost and come back

ManagerAssumption == MaxStarts \in Nat \ {0} /\ Outages \in BOOLEAN

VARIABLES shutdown,  \* _shutdown_event
          nc,        \* _nc and _js: the start that connected, 0 for None
          workers,   \* _run_worker, _kpi_worker, _health_worker, likewise
          tasks,     \* _tasks, likewise
          conn,      \* state of each connection
          sub,       \* workers that hold a subscription
          loop,      \* state of each loop task
          starter,   \* the latest call of start
          stopper,   \* each call of stop
          handlers,  \* whether the signal handlers are installed
          asked      \* whether stop was called since the latest start

vars == <<shutdown, nc, workers, tasks, conn, sub, loop, starter, stopper,
          handlers, asked>>

Starts == 1..MaxStarts

Pullers == {"run", "kpi"}

Loops == Pullers \cup {"health"}

Init ==
    /\ shutdown = FALSE /\ nc = 0 /\ workers = 0 /\ tasks = 0
    /\ conn = [n \in Starts |-> "none"]
    /\ sub = [n \in Starts |-> [k \in Pullers |-> FALSE]]
    /\ loop = [n \in Starts |-> [k \in Loops |-> "none"]]
    /\ starter = [n |-> 0, pc |-> "raised"]
    /\ stopper = [s \in Stoppers |-> [pc |-> "idle", workers |-> 0, tasks |-> 0]]
    /\ handlers = FALSE /\ asked = FALSE

StartAt(pc) == starter.pc = pc

Goto(pc) == starter' = [starter EXCEPT !.pc = pc]

---------------------------------------------------------------------------

MayStart == starter.pc \in {"started", "raised"} /\ starter.n < MaxStarts

Connect ==
    /\ MayStart
    /\ starter' = [n |-> starter.n + 1, pc |-> "streams"]
    /\ conn' = [conn EXCEPT ![starter.n + 1] = "up"]
    /\ nc' = starter.n + 1
    /\ asked' = FALSE
    /\ UNCHANGED <<shutdown, workers, tasks, sub, loop, stopper, handlers>>

ConnectFails ==
    /\ MayStart
    /\ starter' = [n |-> starter.n + 1, pc |-> "raised"]
    /\ asked' = FALSE
    /\ UNCHANGED <<shutdown, nc, workers, tasks, conn, sub, loop, stopper, handlers>>

\* _ensure_streams swallows its errors; then the workers are created.
Instantiate ==
    /\ StartAt("streams")
    /\ IF nc = 0 THEN Goto("raised") /\ UNCHANGED workers
                 ELSE Goto("run") /\ workers' = starter.n
    /\ UNCHANGED <<shutdown, nc, tasks, conn, sub, loop, stopper, handlers, asked>>

\* pull_subscribe, on the JetStream context the worker was created with.
SubscribeRun ==
    /\ StartAt("run")
    /\ IF conn[starter.n] = "up"
       THEN /\ Goto("kpi")
            /\ sub' = [sub EXCEPT ![starter.n].run = TRUE]
       ELSE Goto("raised") /\ UNCHANGED sub
    /\ UNCHANGED <<shutdown, nc, workers, tasks, conn, loop, stopper, handlers, asked>>

\* The second subscription; then, without an await, the loops.
SubscribeKpi ==
    /\ StartAt("kpi")
    /\ IF conn[starter.n] = "up"
       THEN /\ Goto("started")
            /\ sub' = [sub EXCEPT ![starter.n].kpi = TRUE]
            /\ loop' = [loop EXCEPT ![starter.n] = [k \in Loops |-> "looping"]]
            /\ tasks' = starter.n
            /\ handlers' = TRUE
       ELSE Goto("raised") /\ UNCHANGED <<sub, loop, tasks, handlers>>
    /\ UNCHANGED <<shutdown, nc, workers, conn, stopper, asked>>

\* A loop looks at the event between two polls; cancelled, it ends in one.
LoopExits(n, k) ==
    /\ \/ loop[n][k] = "looping" /\ shutdown
       \/ loop[n][k] = "cancelled"
    /\ loop' = [loop EXCEPT ![n][k] = "ended"]
    /\ UNCHANGED <<shutdown, nc, workers, tasks, conn, sub, starter, stopper,
                   handlers, asked>>

---------------------------------------------------------------------------

At(s, pc) == stopper[s].pc = pc

Move(s, pc) == stopper' = [stopper EXCEPT ![s].pc = pc]

\* By hand when start is over, or by a signal.
MayStop(s) ==
    /\ At(s, "idle") /\ starter.n > 0
    /\ handlers \/ starter.pc \in {"started", "raised"}

StopAgain(s) ==
    /\ MayStop(s) /\ shutdown
    /\ Move(s, "skipped")
    /\ asked' = TRUE
    /\ UNCHANGED <<shutdown, nc, workers, tasks, conn, sub, loop, starter, handlers>>

(* Seeded fault: the event is not set, only the tasks are cancelled.       *)
StopQuietly(s) ==
    /\ MayStop(s) /\ ~shutdown
    /\ asked' = TRUE
    /\ stopper' = [stopper EXCEPT ![s].pc = "run", ![s].workers = workers]
    /\ UNCHANGED <<shutdown, nc, workers, tasks, conn, sub, loop, starter, handlers>>

Stop(s) ==
    /\ MayStop(s) /\ ~shutdown
    /\ shutdown' = TRUE
    /\ asked' = TRUE
    /\ stopper' = [stopper EXCEPT ![s].pc = "run", ![s].workers = workers]
    /\ UNCHANGED <<nc, workers, tasks, conn, sub, loop, starter, handlers>>

\* worker.stop() forgets its subscription whether or not unsubscribe fails.
StopWorker(s, k) ==
    /\ At(s, k)
    /\ Move(s, IF k = "run" THEN "kpi" ELSE "cancel")
    /\ sub' = IF stopper[s].workers = 0 THEN sub
              ELSE [sub EXCEPT ![stopper[s].workers][k] = FALSE]
    /\ UNCHANGED <<shutdown, nc, workers, tasks, conn, loop, starter, handlers, asked>>

(* Seeded fault: the tasks are waited for and not cancelled.               *)
CancelNone(s) ==
    /\ At(s, "cancel")
    /\ stopper' = [stopper EXCEPT ![s].pc = "gather", ![s].tasks = tasks]
    /\ UNCHANGED <<shutdown, nc, workers, tasks, conn, sub, loop, starter,
                   handlers, asked>>

Cancel(s) ==
    /\ At(s, "cancel")
    /\ loop' = [n \in Starts |-> [k \in Loops |->
                  IF n = tasks /\ loop[n][k] = "looping" THEN "cancelled"
                  ELSE loop[n][k]]]
    /\ stopper' = [stopper EXCEPT ![s].pc = "gather", ![s].tasks = tasks]
    /\ UNCHANGED <<shutdown, nc, workers, tasks, conn, sub, starter, handlers, asked>>

Gather(s) ==
    /\ At(s, "gather")
    /\ stopper[s].tasks # 0 =>
         \A k \in Loops : loop[stopper[s].tasks][k] = "ended"
    /\ tasks' = 0
    /\ Move(s, IF nc # 0 /\ conn[nc] = "up" THEN "drain" ELSE "returned")
    /\ UNCHANGED <<shutdown, nc, workers, conn, sub, loop, starter, handlers, asked>>

\* drain closes the connection when it succeeds.
Drain(s) ==
    /\ At(s, "drain")
    /\ Move(s, "close")
    /\ conn' = [conn EXCEPT ![nc] = "closed"] \/ UNCHANGED conn
    /\ UNCHANGED <<shutdown, nc, workers, tasks, sub, loop, starter, handlers, asked>>

Close(s) ==
    /\ At(s, "close")
    /\ Move(s, "returned")
    /\ conn' = [conn EXCEPT ![nc] = "closed"]
    /\ nc' = 0
    /\ UNCHANGED <<shutdown, workers, tasks, sub, loop, starter, handlers, asked>>

\* max_reconnect_attempts is -1: the client tries until it is closed.
Outage(n) ==
    /\ Outages /\ conn[n] = "up"
    /\ conn' = [conn EXCEPT ![n] = "down"]
    /\ UNCHANGED <<shutdown, nc, workers, tasks, sub, loop, starter, stopper,
                   handlers, asked>>

Reconnect(n) ==
    /\ conn[n] = "down"
    /\ conn' = [conn EXCEPT ![n] = "up"]
    /\ UNCHANGED <<shutdown, nc, workers, tasks, sub, loop, starter, stopper,
                   handlers, asked>>

StopStep(s) ==
    \/ StopAgain(s) \/ Stop(s) \/ \E k \in Pullers : StopWorker(s, k)
    \/ Cancel(s) \/ Gather(s) \/ Drain(s) \/ Close(s)

Next ==
    \/ Connect \/ ConnectFails \/ Instantiate \/ SubscribeRun \/ SubscribeKpi
    \/ \E n \in Starts, k \in Loops : LoopExits(n, k)
    \/ \E s \in Stoppers : StopStep(s)
    \/ \E n \in Starts : Outage(n) \/ Reconnect(n)

\* A stop that began goes on, and a cancelled task is given its error.  A
\* poll may take for ever: no loop owes anything until it is cancelled.
Fairness ==
    /\ \A s \in Stoppers : WF_vars(~At(s, "idle") /\ StopStep(s))
    /\ \A n \in Starts, k \in Loops :
         WF_vars(loop[n][k] = "cancelled" /\ LoopExits(n, k))

Spec == Init /\ [][Next]_vars /\ Fairness

---------------------------------------------------------------------------

(* Types; whatever the manager refers to was made by a call of start.      *)
TypeOK ==
    /\ shutdown \in BOOLEAN /\ handlers \in BOOLEAN /\ asked \in BOOLEAN
    /\ {nc, workers, tasks} \subseteq 0..starter.n
    /\ starter \in [n : 0..MaxStarts,
                    pc : {"streams", "run", "kpi", "started", "raised"}]
    /\ conn \in [Starts -> {"none", "up", "down", "closed"}]
    /\ nc # 0 => conn[nc] # "none"
    /\ sub \in [Starts -> [Pullers -> BOOLEAN]]
    /\ loop \in [Starts -> [Loops -> {"none", "looping", "cancelled", "ended"}]]
    /\ tasks # 0 => \A k \in Loops : loop[tasks][k] # "none"
    /\ stopper \in [Stoppers ->
         [pc : {"idle", "run", "kpi", "cancel", "gather", "drain", "close",
                "returned", "skipped"},
          workers : 0..MaxStarts, tasks : 0..MaxStarts]]

(* poll returns at once without a subscription, and nothing in the loop    *)
(* awaits then: a loop that is to go on always has one, or it would keep   *)
(* the event loop for itself.                                              *)
NoBusyLoop ==
    \A n \in Starts, k \in Pullers :
        loop[n][k] = "looping" /\ ~shutdown => sub[n][k]

(* stop comes to its end, also while a worker is in the middle of a run.   *)
StopReturns ==
    \A s \in Stoppers : At(s, "run") ~> At(s, "returned")

Quiet ==
    \A n \in Starts : /\ conn[n] \in {"none", "closed"}
                     /\ \A k \in Loops : loop[n][k] \in {"none", "ended"}

-----------------------------------------------------------------------------
(* What the code's comments and docs say and the code does not do.         *)

(* "Gracefully shut down all workers and close the NATS connection": when  *)
(* the call of stop that did the work has returned, no loop runs and no    *)
(* connection is open, whatever failed on the way.                         *)
QuietWhenDone == (\E s \in Stoppers : At(s, "returned")) => Quiet

(* "await manager.stop()        # cancels tasks, drains NATS,              *)
(* disconnects": this is so for every call of stop that returned.          *)
QuietAfterStop ==
    (\E s \in Stoppers : At(s, "returned") \/ At(s, "skipped")) => Quiet

(* start is to "launch all worker tasks": the loops of a start that        *)
(* returned go on until stop is called.                                    *)
StartedIsServing ==
    StartAt("started") /\ ~asked =>
        \A k \in Loops : loop[starter.n][k] = "looping"
=============================================================================
