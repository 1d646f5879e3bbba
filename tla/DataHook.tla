------------------------------ MODULE DataHook ------------------------------
(***************************************************************************)
(* useAPI, the data hook of the web client (lib/hooks.ts), under which all *)
(* its pages read the API: a change of parameters or a call of refetch     *)
(* issues a request with the fetcher of the latest render, and whatever    *)
(* request is answered sets the state, the latest or not: nothing orders   *)
(* the answers and no request is given up.  An answer of another shape     *)
(* than the hook maps fails in the hook: the list routes of apps/api put   *)
(* the rows under "items", and rows.map raises.  useApprovals writes, by   *)
(* routes that apps/api does not have (there every POST fails), and then   *)
(* refetches.  What the server stores also changes without this user.      *)
(***************************************************************************)
EXTENDS Integers, Sequences

CONSTANTS Params,       \* parameters with a fetcher
          None,         \* parameters without one: useRun(undefined)
          MaxRequests,  \* bound on requests
          MaxWrites     \* bound on changes of what the server stores

HookAssumption == None \notin Params

VARIABLES params,    \* parameters of the latest render
          state,     \* data, loading and error of the hook
          requests,  \* all requests, in the order of their issue
          version,   \* version of what the server stores
          writer,    \* the approve or reject call of the user
          known,     \* version when the user last asked or has written
          last       \* the request that ended last; 0 at first

vars == <<params, state, requests, version, writer, known, last>>

Nothing == [of |-> None, version |-> 0]

Issued == [of |-> params, phase |-> "sent", version |-> 0]

InFlight == {i \in DOMAIN requests : requests[i].phase \in {"sent", "served"}}

Init ==
    /\ params \in Params \cup {None}
    /\ state = [data |-> Nothing, loading |-> params # None, error |-> FALSE]
    /\ requests = IF params = None THEN <<>> ELSE <<Issued>>
    /\ version = 0
    /\ writer = "idle"
    /\ known = 0
    /\ last = 0

---------------------------------------------------------------------------

(* refetch: without a fetcher it returns at once.                          *)
Fetch(p) ==
    IF p = None THEN UNCHANGED <<state, requests>>
    ELSE /\ state' = [state EXCEPT !.loading = TRUE, !.error = FALSE]
         /\ requests' = Append(requests, [Issued EXCEPT !.of = p])

Room == Len(requests) < MaxRequests

(* New parameters are a new refetch, which the effect calls.               *)
Render(p) ==
    /\ Room /\ p # params
    /\ params' = p
    /\ Fetch(p)
    /\ known' = version
    /\ UNCHANGED <<version, writer, last>>

Refetch ==
    /\ Room
    /\ Fetch(params)
    /\ known' = version
    /\ UNCHANGED <<params, version, writer, last>>

(* Somebody else changes what the server stores: a run goes on.            *)
Change ==
    /\ version < MaxWrites
    /\ version' = version + 1
    /\ UNCHANGED <<params, state, requests, writer, known, last>>

(* approve and reject: the POST ...                                        *)
Post ==
    /\ writer = "idle" /\ version < MaxWrites
    /\ writer' = "posting"
    /\ UNCHANGED <<params, state, requests, version, known, last>>

(* Seeded fault: the list is not fetched again after the POST.             *)
PostedOnly ==
    /\ writer = "posting" /\ Room /\ version < MaxWrites
    /\ version' = version + 1
    /\ known' = version + 1
    /\ writer' = "idle"
    /\ UNCHANGED <<params, state, requests, last>>

(* ... takes effect and is answered; only then is the list fetched again.  *)
Posted ==
    /\ writer = "posting" /\ Room /\ version < MaxWrites
    /\ version' = version + 1
    /\ known' = version + 1
    /\ writer' = "idle"
    /\ Fetch(params)
    /\ UNCHANGED <<params, last>>

(* The POST fails: nothing is fetched.                                     *)
PostFails ==
    /\ writer = "posting"
    /\ writer' = "idle"
    /\ UNCHANGED <<params, state, requests, version, known, last>>

(* The server reads for a request ...                                      *)
Serve(i) ==
    /\ requests[i].phase = "sent"
    /\ requests' = [requests EXCEPT ![i].phase = "served", ![i].version = version]
    /\ UNCHANGED <<params, state, version, writer, known, last>>

Ends(i, phase) ==
    /\ requests' = [requests EXCEPT ![i].phase = phase]
    /\ last' = i
    /\ UNCHANGED <<params, version, writer, known>>

(* The catch of refetch keeps the data.                                    *)
Caught == state' = [state EXCEPT !.loading = FALSE, !.error = TRUE]

(* ... and the answer, whenever it comes, becomes the state ...            *)
Answer(i) ==
    /\ requests[i].phase = "served"
    /\ state' = [data |-> [of |-> requests[i].of, version |-> requests[i].version],
                 loading |-> FALSE, error |-> FALSE]
    /\ Ends(i, "answered")

(* ... unless its shape is not the one the hook maps.                      *)
Misfit(i) ==
    /\ requests[i].phase = "served"
    /\ Caught
    /\ Ends(i, "answered")

Fail(i) ==
    /\ requests[i].phase \in {"sent", "served"}
    /\ Caught
    /\ Ends(i, "failed")

Next ==
    \/ \E p \in Params \cup {None} : Render(p)
    \/ Refetch \/ Change \/ Post \/ Posted \/ PostFails
    \/ \E i \in DOMAIN requests : Serve(i) \/ Answer(i) \/ Misfit(i) \/ Fail(i)

Spec == Init /\ [][Next]_vars

---------------------------------------------------------------------------
(* Properties *)

TypedData == {Nothing} \cup [of : Params, version : 0..version]

(* Type invariant: data is the answer to a request, and the user knows of  *)
(* no version the server does not have.                                    *)
TypeOK ==
    /\ params \in Params \cup {None}
    /\ state \in [data : TypedData, loading : BOOLEAN, error : BOOLEAN]
    /\ requests \in Seq([of : Params, phase : {"sent", "served", "answered", "failed"},
                         version : 0..version])
    /\ writer \in {"idle", "posting"}
    /\ known \in 0..version
    /\ last \in 0..Len(requests)

(* While no request has ended after the newest one, and that without an    *)
(* error, the page shows data of the parameters it was rendered with, and  *)
(* from no earlier than the user's last question or write: whatever        *)
(* answers came in whatever order before it.                               *)
NewestIsShown ==
    params # None /\ last = Len(requests) /\ ~state.error =>
        state.data.of = params /\ state.data.version >= known

-----------------------------------------------------------------------------
(* What the code's comments and docs say and the code does not do.         *)

(* hooks.ts "mirrors the FastAPI schemas": what the API answered is shown. *)
AnsweredIsShown ==
    (\E i \in DOMAIN requests : requests[i].phase = "answered") => state.data # Nothing

(* "Fetch all workflows, optionally filtered by status": once all requests *)
(* are answered without error, the page shows data of the parameters it    *)
(* was rendered with.                                                      *)
SettledShowsParams ==
    InFlight = {} /\ ~state.error /\ params # None => state.data.of = params
=============================================================================
