--------------------------- MODULE WebhookIntake ----------------------------
(***************************************************************************)
(* The webhook endpoints: a sender posts an event, the handler looks the   *)
(* production version of a workflow up and stores a queued run of it; the  *)
(* request's session commits, and the sender is told 201.  The sender      *)
(* posts the event again when it hears nothing or of an error.  Meanwhile  *)
(* the versions of the lineage change as WorkflowVersions says.            *)
(***************************************************************************)
EXTENDS WorkflowVersions

CONSTANTS
    Events,         \* what senders have to deliver
    Posts,          \* the requests an event may be posted as
    Lineage,        \* slug of the lineage, in the organisation of the posts
    MaxTries,       \* bound: how often one event is posted
    CommitsFirst    \* the session is committed before the answer is sent

(* What an endpoint looks for: the slug, and where an organisation may     *)
(* stand in the body.  The generic one takes both from the body.           *)
PagerDuty == [slug |-> "it-triage", orgIn |-> {"event", "body"}]
Jira      == [slug |-> "jira-automation", orgIn |-> {"body"}]
GitHub    == [slug |-> "github-ops", orgIn |-> {"body"}]

Endpoint == [pagerduty |-> PagerDuty, jira |-> Jira, github |-> GitHub]

Generic(slug) == [slug |-> slug, orgIn |-> {"body"}]

(* slug is what a generic body names; org where a well-formed organisation *)
(* stands, "nowhere" if there is none.                                     *)
Post ==
    [to : (DOMAIN Endpoint) \cup {"generic"}, signature : {"none", "wrong", "odd", "right"},
     parses : BOOLEAN, org : {"event", "body", "nowhere"},
     slug : {Lineage, "another"}]

ASSUME IntakeAssumption ==
    /\ MaxTries \in Nat
    /\ Posts \subseteq Post
    /\ CommitsFirst \in BOOLEAN

Tries == 1..MaxTries

VARIABLES
    post,           \* post[e]: the request e is posted as
    sender,         \* sender[e]: tries made, whether it waits, what it was told
    call,           \* call[e][n]: where the handler of the n-th try stands
    runs            \* runs[e][n]: version the run it committed is pinned to

intakeVars == <<post, sender, call, runs>>

NoCall == [at |-> "unsent", v |-> 0, answer |-> 0]
Received == [at |-> "received", v |-> 0, answer |-> 0]

IntakeInit ==
    /\ post \in [Events -> Posts]
    /\ sender = [e \in Events |-> [tries |-> 0, waits |-> FALSE, told |-> 0]]
    /\ call = [e \in Events |-> [n \in Tries |-> NoCall]]
    /\ runs = [e \in Events |-> [n \in Tries |-> 0]]

-----------------------------------------------------------------------------
(* Senders.  They are told nothing (0) when the connection breaks or their *)
(* patience ends; the handler goes on.                                     *)

Becomes(e, tries, waits, told) ==
    sender' = [sender EXCEPT ![e] = [tries |-> tries, waits |-> waits, told |-> told]]

Deliver(e) ==
    /\ ~sender[e].waits
    /\ sender[e].told \in {0, 500}
    /\ sender[e].tries < MaxTries
    /\ LET n == sender[e].tries + 1
       IN  /\ Becomes(e, n, TRUE, 0)
           /\ call' = [call EXCEPT ![e][n] = Received]
    /\ UNCHANGED <<post, runs>>

Hear(e) ==
    /\ sender[e].waits
    /\ LET answer == call[e][sender[e].tries].answer
       IN  /\ answer # 0
           /\ Becomes(e, sender[e].tries, FALSE, answer)
    /\ UNCHANGED <<post, call, runs>>

GiveUp(e) ==
    /\ sender[e].waits
    /\ Becomes(e, sender[e].tries, FALSE, sender[e].told)
    /\ UNCHANGED <<post, call, runs>>

-----------------------------------------------------------------------------
(* The handler of a try.                                                   *)

Moves(e, n, from, to, answer) ==
    /\ call[e][n].at = from
    /\ call' = [call EXCEPT
          ![e][n] = [at |-> to, v |-> call[e][n].v, answer |-> answer]]
    /\ UNCHANGED <<post, sender>>

Wanted(p) == IF p.to = "generic" THEN Generic(p.slug) ELSE Endpoint[p.to]

SignatureRight(p) == p.signature = "right"

(* Refused; on an odd one, which is not ASCII, compare_digest raises.      *)
Unsigned(e, n) ==
    /\ ~SignatureRight(post[e])
    /\ Moves(e, n, "received", "ended",
             IF post[e].signature = "odd" THEN 500 ELSE 401)
    /\ UNCHANGED runs

(* The body is no JSON of the expected form, or names no organisation.     *)
Malformed(e, n) ==
    /\ SignatureRight(post[e])
    /\ ~post[e].parses \/ post[e].org \notin Wanted(post[e]).orgIn
    /\ Moves(e, n, "received", "ended", 400)
    /\ UNCHANGED runs

Acceptable(p) == SignatureRight(p) /\ p.parses /\ p.org \in Wanted(p).orgIn

(* Seeded fault: whichever version there is will do.                       *)
MatchesStored(p) == IF Wanted(p).slug = Lineage THEN Stored ELSE {}

(* The rows of the lookup.                                                 *)
Matches(p) ==
    IF Wanted(p).slug = Lineage
    THEN {v \in Versions : status[v] = "production"}
    ELSE {}

(* _find_workflow_by_slug: one row or 404; on several the query raises.    *)
LookUp(e, n, v) ==
    /\ Acceptable(post[e])
    /\ call[e][n].at = "received"
    /\ Matches(post[e]) = {v}
    /\ call' = [call EXCEPT ![e][n] = [at |-> "found", v |-> v, answer |-> 0]]
    /\ UNCHANGED <<post, sender, runs>>

NotFound(e, n) ==
    /\ Acceptable(post[e])
    /\ Matches(post[e]) = {}
    /\ Moves(e, n, "received", "ended", 404)
    /\ UNCHANGED runs

Ambiguous(e, n) ==
    /\ Acceptable(post[e])
    /\ Cardinality(Matches(post[e])) > 1
    /\ Moves(e, n, "received", "ended", 500)
    /\ UNCHANGED runs

(* _create_webhook_run: the row is flushed, so no one else sees it yet.    *)
InsertRun(e, n) ==
    /\ Moves(e, n, "found", "inserted", 0)
    /\ UNCHANGED runs

(* A request with an inserted run commits and answers, in either order.    *)
CommitsAt == IF CommitsFirst THEN "inserted" ELSE "answering"
AnswersAt == IF CommitsFirst THEN "answering" ELSE "inserted"
Then == [inserted |-> "answering", answering |-> "ended"]

(* get_db commits when the handler is done.                                *)
CommitRun(e, n) ==
    /\ Moves(e, n, CommitsAt, Then[CommitsAt], call[e][n].answer)
    /\ runs' = [runs EXCEPT ![e][n] = call[e][n].v]

Answer(e, n) ==
    /\ Moves(e, n, AnswersAt, Then[AnswersAt], 201)
    /\ UNCHANGED runs

(* Seeded fault: the sender does not learn of a commit that fails.         *)
FailsQuietly(e, n) ==
    /\ \/ Acceptable(post[e]) /\ Moves(e, n, "received", "ended", 500)
       \/ Moves(e, n, "found", "ended", 500)
       \/ Moves(e, n, CommitsAt, "ended", 201)
    /\ UNCHANGED runs

(* The database refuses the lookup, the insert or the commit: get_db rolls *)
(* back, and the sender is told 500 unless it was told 201 before.         *)
Fails(e, n) ==
    /\ \/ Acceptable(post[e]) /\ Moves(e, n, "received", "ended", 500)
       \/ Moves(e, n, "found", "ended", 500)
       \/ Moves(e, n, CommitsAt, "ended", IF CommitsFirst THEN 500 ELSE 201)
    /\ UNCHANGED runs

(* The process dies, and with it the transaction and the connection.       *)
Dies(e, n) ==
    /\ call[e][n].at \notin {"unsent", "ended"}
    /\ Moves(e, n, call[e][n].at, "ended", call[e][n].answer)
    /\ UNCHANGED runs

Handle(e, n) ==
    \/ Unsigned(e, n)
    \/ Malformed(e, n)
    \/ \E v \in Versions : LookUp(e, n, v)
    \/ NotFound(e, n)
    \/ Ambiguous(e, n)
    \/ InsertRun(e, n)
    \/ CommitRun(e, n)
    \/ Answer(e, n)
    \/ Fails(e, n)
    \/ Dies(e, n)

Intake ==
    \/ \E e \in Events : Deliver(e) \/ Hear(e) \/ GiveUp(e)
    \/ \E e \in Events, n \in Tries : Handle(e, n)

IntakeNext ==
    \/ Intake /\ UNCHANGED vars
    \/ Next /\ UNCHANGED intakeVars

IntakeSpec == Init /\ IntakeInit /\ [][IntakeNext]_<<vars, intakeVars>>

-----------------------------------------------------------------------------
(***************************************************************************)
(* Properties.                                                             *)
(***************************************************************************)
CallState ==
    [at : {"unsent", "received", "found", "inserted", "answering",
           "ended"},
     v : 0..MaxVersion, answer : {0, 201, 400, 401, 404, 500}]

IntakeTyped ==
    /\ post \in [Events -> Posts]
    /\ sender \in [Events -> [tries : 0..MaxTries, waits : BOOLEAN,
                              told : {0, 201, 400, 401, 404, 500}]]
    /\ call \in [Events -> [Tries -> CallState]]
    /\ runs \in [Events -> [Tries -> 0..MaxVersion]]

HasRun(e) == \E n \in Tries : runs[e][n] # 0

(* Senders are told the truth whatever is lost, repeated, refused by the   *)
(* database or cut off by a crash: what was confirmed is stored for good,  *)
(* and what was refused for its content left nothing behind.               *)
Inbox == INSTANCE EventInbox WITH
             Inputs <- Events,
             stored <- {e \in Events : HasRun(e)},
             confirmed <- {e \in Events : sender[e].told = 201},
             rejected <- {e \in Events : sender[e].told \in {400, 401}}

ImplementsInbox == Inbox!Inbox

(* A run is pinned to a version that was released, although the version    *)
(* may be demoted, rolled back or deleted between lookup and commit.       *)
RunsAreOfReleased ==
    \A e \in Events, n \in Tries :
        runs[e][n] # 0 => released[runs[e][n]] # {}

-----------------------------------------------------------------------------
(* What the code's docs say and the code does not do.                      *)

(* _create_webhook_run's caller answers "PagerDuty webhook received; IT    *)
(* triage run queued" (with CommitsFirst = FALSE).                         *)
AnsweredIsQueued == \A e \in Events : sender[e].told = 201 => HasRun(e)
=============================================================================
