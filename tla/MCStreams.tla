----------------------------- MODULE MCStreams ------------------------------
(***************************************************************************)
(* What a user sees of a run, for TLC: the SSE route that polls the run's  *)
(* row (RunStream), the event service over Redis (EventStream) and the     *)
(* data hook of the web pages (DataHook).  The route does not use the      *)
(* event service and the hook no stream, so a behaviour is one of them     *)
(* while the others stay at their start.                                   *)
(***************************************************************************)
EXTENDS Integers

CONSTANTS
    Clients, RoutePool, KeepsSession, MaxSteps, MaxResumes,
    Followers, Listeners, MaxEvents, MaxOpens, MaxFaults, EventPool,
    Params, None, MaxRequests, MaxWrites

VARIABLES
    part,
    row, exec, cancelling, resumes, viewer,
    run, published, stream, taken, opens, faults,
    params, state, requests, version, writer, known, last

routeVars == <<row, exec, cancelling, resumes, viewer>>

eventVars == <<run, published, stream, taken, opens, faults>>

hookVars == <<params, state, requests, version, writer, known, last>>

Route == INSTANCE RunStream WITH stream <- viewer, PoolSize <- RoutePool

Service == INSTANCE EventStream WITH PoolSize <- EventPool

Hook == INSTANCE DataHook

ASSUME StreamsAssumption ==
    /\ Route!StreamAssumption /\ Service!PoolAssumption /\ Hook!HookAssumption

-----------------------------------------------------------------------------
StreamsInit ==
    /\ part \in {"route", "service", "hook"}
    /\ Route!Init
    /\ Service!Init
    /\ Hook!Init
    /\ part # "hook" => params = None

RouteNext == part = "route" /\ Route!Next /\ UNCHANGED <<part, eventVars, hookVars>>

ServiceNext == part = "service" /\ Service!Next /\ UNCHANGED <<part, routeVars, hookVars>>

HookNext == part = "hook" /\ Hook!Next /\ UNCHANGED <<part, routeVars, eventVars>>

StreamsNext == RouteNext \/ ServiceNext \/ HookNext

StreamsSpec ==
    /\ StreamsInit
    /\ [][StreamsNext]_<<part, routeVars, eventVars, hookVars>>
    /\ Route!Fairness

-----------------------------------------------------------------------------
(* The type invariants of the three.                                       *)
TypeOK == Route!TypeOK /\ Service!TypeOK /\ Hook!TypeOK

(* The safety and liveness of the three.                                   *)
SettledStreamsEnd == Route!SettledStreamsEnd

FramesInOrder == Service!FramesInOrder

NewestIsShown == Hook!NewestIsShown
=============================================================================
