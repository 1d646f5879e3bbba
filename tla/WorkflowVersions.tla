-------------------------- MODULE WorkflowVersions ---------------------------
(***************************************************************************)
(* The versions of one workflow lineage (org_id, slug) in the workflows    *)
(* table, and the requests that create, update, promote, roll back and     *)
(* delete them.  A handler reads a row, decides, writes and commits; other *)
(* requests may commit in between, for no handler locks what it read.  The *)
(* lineage it-triage begins with a first version that the database is      *)
(* created with, in production; any other one is empty at first.           *)
(***************************************************************************)
EXTENDS Integers, FiniteSets

CONSTANTS
    Clients,       \* requests handled concurrently
    Contents,      \* definition and configuration of a version
    MaxVersion,    \* bound on the versions
    None

WorkflowStatus == {"draft", "staging", "production", "archived"}

ASSUME VersionsAssumption ==
    /\ MaxVersion \in Nat \ {0}
    /\ None \notin Contents \cup WorkflowStatus

Versions == 1..MaxVersion

VARIABLES
    status,        \* status[v] of the row of version v; None: no such row
    content,       \* content[v]
    client,        \* what each client read and is about to write
    seeded,        \* the versions inserted when the database was created
    everStaged,    \* history: versions that have been in STAGING
    released       \* history: released[v]: contents v was in PRODUCTION with

vars == <<status, content, client, seeded, everStaged, released>>

Stored == {v \in Versions : status[v] # None}

Idle == [op |-> "idle", v |-> 0, read |-> None]

(* The table when the API starts, a seeded version with content x.         *)
Seeded(x) ==
    /\ status = [v \in Versions |-> IF v \in seeded THEN "production" ELSE None]
    /\ content = [v \in Versions |-> IF v \in seeded THEN x ELSE None]
    /\ released = [v \in Versions |-> IF v \in seeded THEN {x} ELSE {}]

Init ==
    /\ seeded \in {{}, {1}}
    /\ \E x \in Contents : Seeded(x)
    /\ client = [c \in Clients |-> Idle]
    /\ everStaged = {}

-----------------------------------------------------------------------------
(* The handlers read.                                                      *)

Reads(c, op, v) ==
    /\ client[c] = Idle
    /\ client' = [client EXCEPT ![c] = [op |-> op, v |-> v, read |-> status[v]]]
    /\ UNCHANGED <<status, content, seeded, everStaged, released>>

(* create_workflow: SLUG_EXISTS, or an exception once there are several    *)
(* versions, unless there are none.                                        *)
CreateRead(c) == Stored = {} /\ Reads(c, "create", 1)

UpdateRead(c, v) == v \in Stored /\ status[v] # "archived" /\ Reads(c, "update", v)

PromoteRead(c, v) ==
    /\ v \in Stored
    /\ status[v] \in {"draft", "staging"}
    /\ Reads(c, "promote", v)

(* The previous version exists whenever this one does and is not the first.*)
RollbackRead(c, v) == v \in Stored /\ v > 1 /\ Reads(c, "rollback", v)

DeleteRead(c, v) == v \in Stored /\ Reads(c, "delete", v)

-----------------------------------------------------------------------------
(* The handlers write and commit.                                          *)

Writes(c, op) ==
    /\ client[c].op = op
    /\ client' = [client EXCEPT ![c] = Idle]

(* The rows after a commit, and what they say of the past.                 *)
Commit(newStatus, newContent) ==
    /\ status' = newStatus
    /\ content' = newContent
    /\ everStaged' = everStaged \cup {v \in Versions : newStatus[v] = "staging"}
    /\ released' = [v \in Versions |->
          released[v] \cup IF newStatus[v] = "production" THEN {newContent[v]} ELSE {}]
    /\ UNCHANGED seeded

(* A new row: the unique constraint on the version is the only guard.      *)
Insert(v, x) ==
    IF v \in Stored
    THEN UNCHANGED <<status, content, seeded, everStaged, released>>
    ELSE Commit([status EXCEPT ![v] = "draft"], [content EXCEPT ![v] = x])

CreateWrite(c, x) == Writes(c, "create") /\ Insert(1, x)

(* A draft is changed in place; of any other version a copy is stored as a *)
(* draft with the next number.                                             *)
UpdateWrite(c, x) ==
    /\ client[c].v < MaxVersion \/ client[c].read = "draft"
    /\ Writes(c, "update")
    /\ IF client[c].read = "draft"
       THEN Commit(status, [content EXCEPT ![client[c].v] = x])
       ELSE Insert(client[c].v + 1, x)

(* Seeded fault: a draft goes to production.                               *)
PromotedStraight(s) == "production"

Promoted(s) == IF s = "draft" THEN "staging" ELSE "production"

PromoteWrite(c) ==
    /\ Writes(c, "promote")
    /\ Commit([status EXCEPT ![client[c].v] = Promoted(client[c].read)], content)

(* The version is archived and its predecessor gets the status it had.     *)
RollbackWrite(c) ==
    /\ Writes(c, "rollback")
    /\ LET had == IF client[c].read = "archived" THEN "staging" ELSE client[c].read
       IN  Commit([status EXCEPT ![client[c].v] = "archived",
                                 ![client[c].v - 1] = had], content)

(* A soft delete.                                                          *)
DeleteWrite(c) ==
    /\ Writes(c, "delete")
    /\ Commit([status EXCEPT ![client[c].v] = "archived"], content)

Next ==
    \/ \E c \in Clients : CreateRead(c)
    \/ \E c \in Clients, v \in Versions : UpdateRead(c, v)
    \/ \E c \in Clients, v \in Versions : PromoteRead(c, v)
    \/ \E c \in Clients, v \in Versions : RollbackRead(c, v)
    \/ \E c \in Clients, v \in Versions : DeleteRead(c, v)
    \/ \E c \in Clients, x \in Contents : CreateWrite(c, x)
    \/ \E c \in Clients, x \in Contents : UpdateWrite(c, x)
    \/ \E c \in Clients : PromoteWrite(c)
    \/ \E c \in Clients : RollbackWrite(c)
    \/ \E c \in Clients : DeleteWrite(c)

Spec == Init /\ [][Next]_vars

-----------------------------------------------------------------------------
(***************************************************************************)
(* Properties.                                                             *)
(***************************************************************************)

(* The requests in flight: the route, the version and the status it read.  *)
Requests ==
    [op : {"idle", "create", "update", "promote", "rollback", "delete"},
     v : 0..MaxVersion, read : WorkflowStatus \cup {None}]

(* The stored versions are numbered from one without gaps, and a client    *)
(* writes about a version that is stored.                                  *)
TypeOK ==
    /\ status \in [Versions -> WorkflowStatus \cup {None}]
    /\ content \in [Versions -> Contents \cup {None}]
    /\ \A v \in Versions : status[v] = None <=> content[v] = None
    /\ \A v \in Stored : \A u \in 1..v : u \in Stored
    /\ client \in [Clients -> Requests]
    /\ \A c \in Clients : client[c].op \notin {"idle", "create"} =>
          client[c].v \in Stored /\ client[c].read \in WorkflowStatus
    /\ seeded \subseteq {1} /\ everStaged \subseteq Versions
    /\ released \in [Versions -> SUBSET Contents]

(* Whatever requests race and roll back, a version in production has been  *)
(* in staging, unless the database was created with it.                    *)
ProductionWasStaged ==
    \A v \in Versions :
        status[v] = "production" => v \in everStaged \cup seeded

-----------------------------------------------------------------------------
(* What the code's docs and checks say and the code does not do.           *)

(* _find_workflow_by_slug: "Locate a production workflow by slug or raise  *)
(* 404."  Its scalar_one_or_none raises when it finds two.                 *)
WebhookResolves ==
    Cardinality({v \in Versions : status[v] = "production"}) <= 1

(* update_workflow: "Update a workflow and preserve historical versions."  *)
(* The content a version was in production with is still there.            *)
HistoryPreserved ==
    \A v \in Versions : \A x \in released[v] : content[v] = x

(* update_workflow refuses: "Cannot update an archived workflow".          *)
ArchivedUnchanged ==
    [][\A v \in Stored : status[v] = "archived" => content'[v] = content[v]]_vars
=============================================================================
