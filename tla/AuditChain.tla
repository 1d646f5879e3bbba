----------------------------- MODULE AuditChain -----------------------------
(***************************************************************************)
(* The audit writer of the governance proxy: handlers of one process call  *)
(* Writer.Write, which chains each event to the one before it under a      *)
(* mutex and inserts it into the audit_events table.  Hashing is free of   *)
(* collisions: the hash of a chain is the sequence of the payload hashes   *)
(* it was computed from, and "genesis" is the empty one.                   *)
(***************************************************************************)
EXTENDS Integers, SequencesExt

CONSTANTS
    Handlers,      \* HTTP handlers of the process
    Orgs,          \* org_id of an event
    Payloads,      \* payload hashes
    MaxEvents,     \* bound on the events stored
    MaxRestarts,   \* bound on restarts of the process
    None

ASSUME ChainAssumption ==
    /\ None \notin Handlers
    /\ MaxEvents \in Nat
    /\ MaxRestarts \in Nat

VARIABLES
    rows,          \* audit_events of earlier processes, in created_at order
    log,           \* audit_events of this process, in created_at order
    prevHash,      \* Writer.prevHash
    holder,        \* the handler that holds Writer.mu
    writer,        \* writer[h]: where handler h is in Write, and its event
    restarts,      \* restarts so far
    forked         \* history: an insert of this process took effect and failed

auditVars == <<rows, log, prevHash, holder, writer, restarts, forked>>

-----------------------------------------------------------------------------
Genesis == <<>>

(* computeSHA256(prevHash + payloadHash)                                   *)
Chain(hash, payload) == Append(hash, payload)

NoEvent == [org |-> None, payload |-> None, prev |-> Genesis]

Idle == [pc |-> "idle", event |-> NoEvent]

AuditInit ==
    /\ rows = <<>>
    /\ log = <<>>
    /\ prevHash = Genesis
    /\ holder = None
    /\ writer = [h \in Handlers |-> Idle]
    /\ restarts = 0
    /\ forked = FALSE

(* Write takes the mutex and fills in the event, PrevHash included.        *)
Enter(h, o, p) ==
    /\ writer[h].pc = "idle"
    /\ holder = None
    /\ Len(rows) + Len(log) < MaxEvents
    /\ holder' = h
    /\ writer' = [writer EXCEPT ![h] =
          [pc |-> "append", event |-> [org |-> o, payload |-> p, prev |-> prevHash]]]
    /\ UNCHANGED <<rows, log, prevHash, restarts, forked>>

(* store.Append inserted the row ...                                       *)
Stored(h) ==
    /\ writer[h].pc = "append"
    /\ log' = Append(log, writer[h].event)
    /\ writer' = [writer EXCEPT ![h].pc = "advance"]
    /\ UNCHANGED <<rows, prevHash, holder, restarts, forked>>

Leave(h) ==
    /\ holder' = None
    /\ writer' = [writer EXCEPT ![h] = Idle]

(* Seeded fault: the chain advances although the row was not stored.       *)
RefusedAdvancing(h) ==
    /\ writer[h].pc = "append"
    /\ Leave(h)
    /\ prevHash' = Chain(prevHash, writer[h].event.payload)
    /\ UNCHANGED <<rows, log, restarts, forked>>

(* Seeded fault: the mutex is not released on an error.                    *)
RefusedLocked(h) ==
    /\ writer[h].pc = "append"
    /\ writer' = [writer EXCEPT ![h] = Idle]
    /\ UNCHANGED <<rows, log, prevHash, holder, restarts, forked>>

(* ... or reported an error, and Write returns without advancing.          *)
Refused(h) ==
    /\ writer[h].pc = "append"
    /\ Leave(h)
    /\ UNCHANGED <<rows, log, prevHash, restarts, forked>>

(* The request's context ended while the insert was in flight: the row is  *)
(* stored and an error is reported all the same.                           *)
StoredUnseen(h) ==
    /\ writer[h].pc = "append"
    /\ log' = Append(log, writer[h].event)
    /\ Leave(h)
    /\ forked' = TRUE
    /\ UNCHANGED <<rows, prevHash, restarts>>

(* The chain advances and the deferred Unlock runs.                        *)
Advance(h) ==
    /\ writer[h].pc = "advance"
    /\ prevHash' = Chain(prevHash, writer[h].event.payload)
    /\ Leave(h)
    /\ UNCHANGED <<rows, log, restarts, forked>>

(* A new process: NewWriter starts at genesis, the table is as it was.     *)
NewWriter ==
    /\ restarts < MaxRestarts
    /\ restarts' = restarts + 1
    /\ rows' = rows \o log
    /\ log' = <<>>
    /\ prevHash' = Genesis
    /\ holder' = None
    /\ writer' = [h \in Handlers |-> Idle]
    /\ forked' = FALSE

AuditNext ==
    \/ \E h \in Handlers, o \in Orgs, p \in Payloads : Enter(h, o, p)
    \/ \E h \in Handlers : Stored(h)
    \/ \E h \in Handlers : Refused(h)
    \/ \E h \in Handlers : StoredUnseen(h)
    \/ \E h \in Handlers : Advance(h)
    \/ NewWriter

AuditSpec == AuditInit /\ [][AuditNext]_auditVars

-----------------------------------------------------------------------------
(* The hash of the first n events of a sequence of them.                   *)
HashOf(events, n) == [i \in 1..n |-> events[i].payload]

(* Writer.ValidateChain: the running hash starts at genesis and each event *)
(* has to carry it.                                                        *)
ValidateChain(events) ==
    \A i \in 1..Len(events) : events[i].prev = HashOf(events, i - 1)

-----------------------------------------------------------------------------
(***************************************************************************)
(* Properties.                                                             *)
(***************************************************************************)
Events == [org : Orgs, payload : Payloads, prev : Seq(Payloads)]

(* Only the holder of the mutex is inside Write.                           *)
AuditTypeOK ==
    /\ rows \in Seq(Events)
    /\ log \in Seq(Events)
    /\ prevHash \in Seq(Payloads)
    /\ holder \in Handlers \cup {None}
    /\ DOMAIN writer = Handlers
    /\ \A h \in Handlers :
          \/ writer[h] = Idle
          \/ /\ writer[h] \in [pc : {"append", "advance"}, event : Events]
             /\ holder = h
    /\ restarts \in 0..MaxRestarts
    /\ forked \in BOOLEAN

(* What one process has stored is a chain, whichever handlers wrote it and *)
(* whichever inserts failed, unless an insert failed after it took effect. *)
ChainValid == ~forked => ValidateChain(log)

-----------------------------------------------------------------------------
(* What the code's comments say and the code does not do.                  *)

(* writer.go: every event gets "a reference to the previous event's hash,  *)
(* forming a tamper-evident chain": also the first one after a restart.    *)
ChainSurvivesRestart ==
    (rows # <<>> /\ log # <<>>) =>
        log[1].prev = Chain(Last(rows).prev, Last(rows).payload)

(* ValidateChain "verifies the hash chain integrity for an organization".  *)
OrgChainValid ==
    ~forked => \A o \in Orgs : ValidateChain(SelectSeq(log, LAMBDA e : e.org = o))

(* The same sentence of writer.go, whatever becomes of an insert.          *)
ProcessChainValid == ValidateChain(log)
=============================================================================
