---------------------------- MODULE ToolRecords -----------------------------
(***************************************************************************)
(* The stored records of tools: registering one, changing one, refreshing  *)
(* the health of one (routers/tools.py), and the HealthWorker that probes  *)
(* the connectors and wants to store what it found.  Requests run in       *)
(* read-committed transactions of their own (get_db), so what one of them  *)
(* read may have changed when it writes.                                   *)
(***************************************************************************)
EXTENDS Naturals, Sequences, FiniteSetsExt, Functions

CONSTANTS
    Clients,        \* requests under way at a time
    Names,          \* of tools; the name is unique over all organisations
    SystemTools,    \* the names of the tools that belong to no organisation
    Orgs,           \* organisations; requests are scoped to theirs
    Fields,         \* what a change may set
    Nullable,       \* the fields whose column takes a null
    Bodies,         \* the fields requests send, with their values
    Connectors,     \* the names the HealthWorker probes
    MaxChanges      \* bound: requests that commit an event

Healths == {"healthy", "degraded", "down"}
Values == {"set", "changed", "null"}

Row == [org : Orgs \cup {"system"}, health : Healths, fields : [Fields -> Values]]

Absent == [org |-> "none"]

(* Some fields with the values they get: those of a body the client sent.  *)
Updates == UNION {[fs -> Values] : fs \in SUBSET Fields}

RecordsAssumption ==
    /\ SystemTools \subseteq Names
    /\ Bodies \subseteq Updates
    /\ Orgs \cap {"none", "system"} = {}
    /\ MaxChanges \in Nat

RequestKinds == {"register", "update", "refresh"}

VARIABLES
    tools,      \* tools[t]: the committed row, or Absent
    audit,      \* committed audit events on tools, with (ghost) the values
    request,    \* request[c]: what c asks for and where its handler stands
    prober      \* the HealthWorker: where it stands and what it found last

recordVars == <<tools, audit, request, prober>>

NoRequest == [at |-> "none"]

TakesNulls(fs) == \A f \in DOMAIN fs : fs[f] = "null" => f \in Nullable

Fresh(fs) == [f \in Fields |-> IF f \in DOMAIN fs THEN fs[f] ELSE "set"]

RecordsInit ==
    /\ tools = [t \in Names |->
                   IF t \in SystemTools
                   THEN [org |-> "system", health |-> "healthy", fields |-> Fresh(<<>>)]
                   ELSE Absent]
    /\ audit = <<>>
    /\ request = [c \in Clients |-> NoRequest]
    /\ prober = [at |-> "asleep", found |-> <<>>]

-----------------------------------------------------------------------------
(* Requests.                                                               *)

Goes(c, place) == request' = [request EXCEPT ![c].at = place]
Ends(c) == request' = [request EXCEPT ![c] = NoRequest]

Begin(c, kind, t, o, fs) ==
    /\ request[c] = NoRequest
    /\ kind = "register" => TakesNulls(fs)
    /\ kind = "refresh" => fs = <<>>
    /\ request' = [request EXCEPT
          ![c] = [at |-> "begun", kind |-> kind, name |-> t, org |-> o,
                  sets |-> fs, read |-> Absent]]
    /\ UNCHANGED <<tools, audit, prober>>

At(c, place) == request[c] # NoRequest /\ request[c].at = place

(* The rows the request may see: its organisation's, and system tools.     *)
Visible(r) == tools[r.name].org \in {r.org, "system"}

(* register_tool looks for the name in every organisation, the others for  *)
(* the tool in theirs; only an organisation's own tools are changed.       *)
Refused(c) ==
    /\ At(c, "begun")
    /\ LET r == request[c]
       IN  CASE r.kind = "register" -> tools[r.name] # Absent
             [] r.kind = "update" -> ~Visible(r) \/ tools[r.name].org = "system"
             [] r.kind = "refresh" -> ~Visible(r)
    /\ Ends(c)
    /\ UNCHANGED <<tools, audit, prober>>

Accepted(c) ==
    /\ At(c, "begun")
    /\ LET r == request[c]
       IN  /\ CASE r.kind = "register" -> tools[r.name] = Absent
                [] r.kind = "update" -> tools[r.name].org = r.org
                [] r.kind = "refresh" -> Visible(r)
           /\ request' = [request EXCEPT ![c] = [r EXCEPT
                 !.at = "read", !.read = tools[r.name]]]
    /\ UNCHANGED <<tools, audit, prober>>

(* A body that sets nothing leaves the row alone.                          *)
TouchesRow(r) == r.kind # "update" \/ r.sets # <<>>

(* The row lock and the unique index let one uncommitted writer of a name  *)
(* in, and the others wait for its end.                                    *)
Locked(c) ==
    \E d \in Clients \ {c} :
        /\ At(d, "written")
        /\ request[d].name = request[c].name
        /\ TouchesRow(request[d])

(* The row a request leaves behind.  Seeded fault: all of the row that it  *)
(* read is written back.                                                   *)
WrittenWhole(r) ==
    CASE r.kind = "register" ->
            [org |-> r.org, health |-> "healthy", fields |-> Fresh(r.sets)]
      [] r.kind = "update" ->
            [r.read EXCEPT !.fields = [f \in Fields |->
                IF f \in DOMAIN r.sets THEN r.sets[f] ELSE @[f]]]
      [] r.kind = "refresh" -> r.read

(* A change sets the fields of the body, a refresh the health it has read. *)
Written(r) ==
    CASE r.kind = "register" ->
            [org |-> r.org, health |-> "healthy", fields |-> Fresh(r.sets)]
      [] r.kind = "update" ->
            [tools[r.name] EXCEPT !.fields = [f \in Fields |->
                IF f \in DOMAIN r.sets THEN r.sets[f] ELSE @[f]]]
      [] r.kind = "refresh" ->
            [tools[r.name] EXCEPT !.health = r.read.health]

(* A null may be sent for any field; the name may be taken meanwhile.      *)
Storable(r) ==
    /\ TakesNulls(r.sets)
    /\ r.kind = "register" => tools[r.name] = Absent

Write(c) ==
    /\ At(c, "read")
    /\ ~(TouchesRow(request[c]) /\ Locked(c))
    /\ Storable(request[c])
    /\ Goes(c, "written")
    /\ UNCHANGED <<tools, audit, prober>>

(* The columns refuse the values, the database fails, the process dies:    *)
(* the transaction is rolled back.                                         *)
RolledBack(c) ==
    /\ At(c, "read") \/ At(c, "written")
    /\ Ends(c)
    /\ UNCHANGED <<tools, audit, prober>>

(* The event build_audit_event makes of a request.  It names the fields;   *)
(* the values are a ghost of the model.                                    *)
Event(r) ==
    [type |-> IF r.kind = "register" THEN "tool_registered" ELSE "tool_updated",
     name |-> r.name,
     sets |-> IF r.kind = "register" THEN Fresh(r.sets) ELSE r.sets]

Audited(r) == r.kind # "refresh"

(* get_db commits the row and the event that was added after it.           *)
Commit(c) ==
    /\ At(c, "written")
    /\ LET r == request[c]
       IN  /\ Audited(r) => Len(audit) < MaxChanges
           /\ tools' = IF TouchesRow(r)
                       THEN [tools EXCEPT ![r.name] = Written(r)] ELSE tools
           /\ audit' = IF Audited(r) THEN Append(audit, Event(r)) ELSE audit
    /\ Ends(c)
    /\ UNCHANGED prober

-----------------------------------------------------------------------------
(* HealthWorker.                                                           *)

(* health_check_all: a probe that raises counts as unhealthy.              *)
Probe(found) ==
    /\ prober.at = "asleep"
    /\ prober' = [at |-> "probed", found |-> found]
    /\ UNCHANGED <<tools, audit, request>>

(* _persist_health: the columns is_healthy and last_health_check are not   *)
(* in the table, so the first statement fails, the transaction takes no    *)
(* other, both are passed over, and the commit stores nothing.             *)
Persist ==
    /\ prober.at = "probed"
    /\ prober' = [prober EXCEPT !.at = "asleep"]
    /\ UNCHANGED <<tools, audit, request>>

RecordsNext ==
    \/ \E c \in Clients, kind \in RequestKinds, t \in Names, o \in Orgs, fs \in Bodies \cup {<<>>} :
           Begin(c, kind, t, o, fs)
    \/ \E c \in Clients :
           Refused(c) \/ Accepted(c) \/ Write(c) \/ RolledBack(c) \/ Commit(c)
    \/ \E found \in [Connectors -> BOOLEAN] : Probe(found)
    \/ Persist

RecordsSpec == RecordsInit /\ [][RecordsNext]_recordVars

-----------------------------------------------------------------------------
(***************************************************************************)
(* Properties.                                                             *)
(***************************************************************************)
Requests ==
    [at : {"begun", "read", "written"}, kind : RequestKinds, name : Names,
     org : Orgs, sets : Updates, read : Row \cup {Absent}]

RecordsTyped ==
    /\ tools \in [Names -> Row \cup {Absent}]
    /\ \A i \in DOMAIN audit : audit[i].name \in Names /\ audit[i].sets \in Updates
    /\ request \in [Clients -> Requests \cup {NoRequest}]
    /\ prober.at \in {"asleep", "probed"}

Registrations(t) ==
    {i \in DOMAIN audit : audit[i].type = "tool_registered" /\ audit[i].name = t}

Naming(t, f) ==
    {i \in DOMAIN audit : audit[i].name = t /\ f \in DOMAIN audit[i].sets}

(* The events tell the whole story of the records: a tool is there when    *)
(* its one registration is, and each of its fields has the value of the    *)
(* last event that names the field, although requests read and write in    *)
(* between each other and are cut off half-way.                            *)
ChangesAreAudited ==
    \A t \in Names \ SystemTools :
        /\ Cardinality(Registrations(t)) = IF tools[t] = Absent THEN 0 ELSE 1
        /\ tools[t] # Absent =>
               \A f \in Fields :
                   tools[t].fields[f] = audit[Max(Naming(t, f))].sets[f]

-----------------------------------------------------------------------------
(* What the code's docs say and the code does not do.                      *)

(* "the worker calls health_check() and persists the result to the tools   *)
(* metadata table so that dashboards and governance policies have          *)
(* up-to-date availability data" (HealthWorker).                           *)
HealthIsPersisted ==
    prober.at = "asleep" =>
        \A t \in DOMAIN prober.found \cap Names :
            tools[t] # Absent => (tools[t].health = "healthy" <=> prober.found[t])
=============================================================================
