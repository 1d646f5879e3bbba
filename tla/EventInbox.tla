----------------------------- MODULE EventInbox ------------------------------
(***************************************************************************)
(* What an intake of events promises to those who send them, however often *)
(* they repeat themselves: an event that is confirmed is stored and stays  *)
(* so, and one that is rejected has left nothing behind and never will.    *)
(***************************************************************************)
CONSTANT Inputs     \* the events

VARIABLES
    stored,         \* events something was stored for
    confirmed,      \* events whose sender was told that it is stored
    rejected        \* events whose sender was told that it is unacceptable

inboxVars == <<stored, confirmed, rejected>>

InboxInit == stored = {} /\ confirmed = {} /\ rejected = {}

Store(e) ==
    /\ e \notin rejected
    /\ stored' = stored \cup {e}
    /\ UNCHANGED <<confirmed, rejected>>

Confirm(e) ==
    /\ e \in stored
    /\ confirmed' = confirmed \cup {e}
    /\ UNCHANGED <<stored, rejected>>

Reject(e) ==
    /\ e \notin stored
    /\ rejected' = rejected \cup {e}
    /\ UNCHANGED <<stored, confirmed>>

InboxNext == \E e \in Inputs : Store(e) \/ Confirm(e) \/ Reject(e)

Inbox == InboxInit /\ [][InboxNext]_inboxVars
=============================================================================
