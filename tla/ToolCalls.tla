----------------------------- MODULE ToolCalls -----------------------------
(***************************************************************************)
(* ToolRegistry.execute and the connectors of services/tools.py, called    *)
(* concurrently in one event loop.  Behind a call stands the service of a  *)
(* Jira or ServiceNow connector, or the process of shell:exec, that goes   *)
(* on whether or not anybody still waits; util:delay only sleeps.  Time is *)
(* counted in tens of seconds, and a timer fires before time passes on.    *)
(***************************************************************************)
EXTENDS Integers

CONSTANTS Calls,       \* calls of execute
          Connectors,  \* registered Jira and ServiceNow connectors
          Shell,       \* shell:exec
          Delay,       \* util:delay
          None,
          Seconds,     \* durations and timeouts callers ask for
          MaxTime      \* bound on time

CallsAssumption ==
    /\ Seconds \subseteq Nat \ {0} /\ MaxTime \in Nat
    /\ None \notin Connectors \cup {Shell, Delay}
    /\ Shell # Delay /\ {Shell, Delay} \cap Connectors = {}

VARIABLES now,     \* time
          call,    \* what execute knows of each call
          remote   \* what became of the request, or of the process

vars == <<now, call, remote>>

Timeout == 3      \* timeout_ms of every tool: 30 s
DelayCap == 30    \* min(seconds, 300)
ShellCap == 6     \* min(timeout, 60)

Least(a, b) == IF a < b THEN a ELSE b

Tools == Connectors \cup {Shell, Delay}

Fresh == [pc |-> "new", tool |-> None, asked |-> 0, start |-> 0,
          ok |-> FALSE, latency |-> 0]

Init ==
    /\ now = 0
    /\ call = [c \in Calls |-> Fresh]
    /\ remote = [c \in Calls |-> "none"]

---------------------------------------------------------------------------

Waiting(c) == call[c].pc = "waiting"

\* The result as execute returns it, with its latency.
Done(c, ok) ==
    [call[c] EXCEPT !.pc = "done", !.ok = ok, !.latency = now - call[c].start]

\* The bound leaves every call the time to reach its deadline.
MayStart(c) == call[c].pc = "new" /\ now + Timeout <= MaxTime

StartConnector(c, t) ==
    /\ MayStart(c)
    /\ call' = [call EXCEPT ![c] = [Fresh EXCEPT !.pc = "waiting", !.tool = t,
                                      !.start = now]]
    /\ remote' = [remote EXCEPT ![c] = "requested"]
    /\ UNCHANGED now

StartShell(c, s) ==
    /\ MayStart(c)
    /\ call' = [call EXCEPT ![c] = [Fresh EXCEPT !.pc = "waiting", !.tool = Shell,
                                      !.asked = s, !.start = now]]
    /\ remote' = [remote EXCEPT ![c] = "requested"]
    /\ UNCHANGED now

StartDelay(c, s) ==
    /\ MayStart(c)
    /\ call' = [call EXCEPT ![c] = [Fresh EXCEPT !.pc = "waiting", !.tool = Delay,
                                      !.asked = s, !.start = now]]
    /\ UNCHANGED <<now, remote>>

\* No tool of that name.
StartUnknown(c) ==
    /\ MayStart(c)
    /\ call' = [call EXCEPT ![c] = [Fresh EXCEPT !.pc = "done", !.start = now]]
    /\ UNCHANGED <<now, remote>>

\* The service, or the process, does what was asked or refuses it; "empty"
\* is success without a body.  The caller may have gone.
Serve(c, answer) ==
    /\ remote[c] = "requested"
    /\ answer = "empty" => call[c].tool \in Connectors
    /\ remote' = [remote EXCEPT ![c] = answer]
    /\ UNCHANGED <<now, call>>

\* raise_for_status and response.json(): an empty body does not parse.
Succeeds(answer) == answer = "ok"

Answer(c) ==
    /\ Waiting(c) /\ remote[c] \in {"ok", "empty", "refused"}
    /\ call' = [call EXCEPT ![c] = Done(c, Succeeds(remote[c]))]
    /\ UNCHANGED <<now, remote>>

\* A timeout of httpx or a lost connection, whatever the service does.
NetworkError(c) ==
    /\ Waiting(c) /\ call[c].tool \in Connectors
    /\ call' = [call EXCEPT ![c] = Done(c, FALSE)]
    /\ UNCHANGED <<now, remote>>

\* The inner wait_for; the process is not killed.
ShellTimesOut(c) ==
    /\ Waiting(c) /\ call[c].tool = Shell
    /\ now - call[c].start >= Least(call[c].asked, ShellCap)
    /\ call' = [call EXCEPT ![c] = Done(c, FALSE)]
    /\ UNCHANGED <<now, remote>>

DelayEnds(c) ==
    /\ Waiting(c) /\ call[c].tool = Delay
    /\ now - call[c].start >= Least(call[c].asked, DelayCap)
    /\ call' = [call EXCEPT ![c] = Done(c, TRUE)]
    /\ UNCHANGED <<now, remote>>

Due(c) == Waiting(c) /\ now - call[c].start >= Timeout

\* asyncio.wait_for in execute cancels the connector.
Deadline(c) ==
    /\ Due(c)
    /\ call' = [call EXCEPT ![c] = Done(c, FALSE)]
    /\ UNCHANGED <<now, remote>>

Tick ==
    /\ now < MaxTime
    /\ \A c \in Calls : ~Due(c)
    /\ now' = now + 1
    /\ UNCHANGED <<call, remote>>

Next ==
    \/ \E c \in Calls :
         \/ \E t \in Connectors : StartConnector(c, t)
         \/ \E s \in Seconds : StartShell(c, s) \/ StartDelay(c, s)
         \/ StartUnknown(c)
         \/ \E a \in {"ok", "empty", "refused"} : Serve(c, a)
         \/ Answer(c) \/ NetworkError(c) \/ ShellTimesOut(c)
         \/ DelayEnds(c) \/ Deadline(c)
    \/ Tick

\* The event loop runs its timers; services owe nothing.
Fairness ==
    /\ WF_vars(Tick)
    /\ \A c \in Calls : WF_vars(Deadline(c))

Spec == Init /\ [][Next]_vars /\ Fairness

---------------------------------------------------------------------------

(* Types; the latency of a result lies within the timeout of its tool.     *)
TypeOK ==
    /\ now \in 0..MaxTime
    /\ call \in [Calls -> [pc : {"new", "waiting", "done"},
                           tool : Tools \cup {None}, asked : Seconds \cup {0},
                           start : 0..MaxTime, ok : BOOLEAN,
                           latency : 0..Timeout]]
    /\ remote \in [Calls -> {"none", "requested", "ok", "empty", "refused"}]

-----------------------------------------------------------------------------
(* What the code's comments and docs say and the code does not do.         *)

(* util:delay, "Wait for a specified duration": a delay that returned has  *)
(* waited for what was asked, up to its own limit of 300 s.                *)
DelayWaits ==
    \A c \in Calls : call[c].pc = "done" /\ call[c].tool = Delay =>
        call[c].latency >= Least(call[c].asked, DelayCap)
=============================================================================
