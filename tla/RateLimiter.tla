---------------------------- MODULE RateLimiter -----------------------------
(***************************************************************************)
(* The rate limiter of the governance proxy: Limiter.Check over the        *)
(* counters of MemoryRateLimitStore, which RedisRateLimitStore wraps.      *)
(* Increment holds the store's mutex and Check decides on the count it was *)
(* given alone, so a check is one action.  One unit of time is one unit of *)
(* Window; several checks may happen at the same time.  The counters are   *)
(* in the memory of a process: the next one starts with none.              *)
(***************************************************************************)
EXTENDS Integers, Sequences

CONSTANTS
    Keys,          \* ratelimit:{org}:tool:{agent}
    MaxRequests,   \* maxRequests of Check
    Window,        \* windowSec of Check
    MaxCount,      \* bound on a counter
    MaxTime,       \* bound on the clock
    MaxStores      \* bound on the stores made after the first

ASSUME LimiterAssumption ==
    /\ MaxRequests \in Nat \ {0}
    /\ Window \in Nat \ {0}
    /\ MaxCount \in Nat
    /\ MaxTime \in Nat
    /\ MaxStores \in Nat

VARIABLES
    counters,      \* counters[k]: count and expiresAt of a windowCounter
    now,           \* time.Now()
    stores,        \* history: stores made after the first
    admitted       \* history: the requests of k that passed, in order: when,
                   \* and which store counted them

limiterVars == <<counters, now, stores, admitted>>

-----------------------------------------------------------------------------
(* A key without an entry: counters[key] does not exist.                   *)
NoCounter == [count |-> 0, expiresAt |-> -1]

LimiterInit ==
    /\ counters = [k \in Keys |-> NoCounter]
    /\ now = 0
    /\ stores = 0
    /\ admitted = [k \in Keys |-> <<>>]

(* Seeded fault: the window is closed one unit late.                       *)
ExpiredLate(k) == counters[k] = NoCounter \/ now > counters[k].expiresAt + 1

Expired(k) == counters[k] = NoCounter \/ now > counters[k].expiresAt

(* Seeded fault: the count is incremented in a copy of the entry.          *)
IncrementLost(k) ==
    IF Expired(k)
    THEN [count |-> 1, expiresAt |-> now + Window]
    ELSE counters[k]

(* MemoryRateLimitStore.Increment: the entry it leaves behind.             *)
Increment(k) ==
    IF Expired(k)
    THEN [count |-> 1, expiresAt |-> now + Window]
    ELSE [counters[k] EXCEPT !.count = @ + 1]

Within(c) == c.count <= MaxRequests

Count(k) ==
    /\ counters[k].count < MaxCount \/ Expired(k)
    /\ counters' = [counters EXCEPT ![k] = Increment(k)]
    /\ UNCHANGED <<now, stores>>

(* Check returns nil ...                                                   *)
Admit(k) ==
    /\ Count(k)
    /\ Within(Increment(k))
    /\ admitted' = [admitted EXCEPT ![k] = Append(@, [at |-> now, store |-> stores])]

(* ... or a RateLimitError.                                                *)
Refuse(k) ==
    /\ Count(k)
    /\ ~Within(Increment(k))
    /\ UNCHANGED admitted

Tick ==
    /\ now < MaxTime
    /\ now' = now + 1
    /\ UNCHANGED <<counters, stores, admitted>>

(* NewMemoryRateLimitStore, in a new process.                              *)
NewStore ==
    /\ stores < MaxStores
    /\ stores' = stores + 1
    /\ counters' = [k \in Keys |-> NoCounter]
    /\ UNCHANGED <<now, admitted>>

LimiterNext ==
    \/ \E k \in Keys : Admit(k)
    \/ \E k \in Keys : Refuse(k)
    \/ Tick
    \/ NewStore

LimiterSpec == LimiterInit /\ [][LimiterNext]_limiterVars

-----------------------------------------------------------------------------
(***************************************************************************)
(* Properties.                                                             *)
(***************************************************************************)

(* A request that passed: when, and the number of the store then.          *)
Passes == [at : Nat, store : Nat]

(* A counter counts from the opening of its window, which is not in the    *)
(* future, and the requests that passed did so in the order of time.       *)
LimiterTypeOK ==
    /\ counters \in [Keys -> [count : Nat, expiresAt : Int]]
    /\ \A k \in Keys : counters[k] # NoCounter =>
          /\ counters[k].count > 0
          /\ counters[k].expiresAt \in Window..(now + Window)
    /\ now \in Nat
    /\ stores \in Nat
    /\ admitted \in [Keys -> Seq(Passes)]

(* How many requests may pass within one Window, the first of them counted *)
(* by store first and the last by store last: a process that goes on can   *)
(* close one window and open the next, and each one after it opens one.    *)
Allowance(first, last) == (2 + last - first) * MaxRequests

(* The windows are fixed, not sliding, and a restart forgets them: a key   *)
(* may pass the limit, but of any 2 * MaxRequests + 1 requests that pass   *)
(* the first and the last are more than a window apart, and a restart      *)
(* between them lets MaxRequests more through, no more.                    *)
TwiceAtMost ==
    \A k \in Keys : \A i, j \in DOMAIN admitted[k] :
        i < j /\ j >= i + Allowance(admitted[k][i].store, admitted[k][j].store) =>
            admitted[k][j].at - admitted[k][i].at > Window

(* A key is refused only when this process has let it through MaxRequests  *)
(* times within the last Window: refused requests, which are counted too,  *)
(* do not keep a key out, and nothing is left of an earlier process.       *)
RefusedOnlyWhenBusy ==
    [][\A k \in Keys : Refuse(k) =>
          LET first == Len(admitted[k]) - MaxRequests + 1
          IN  /\ first > 0
              /\ admitted[k][first].store = stores
              /\ now - admitted[k][first].at <= Window]_limiterVars

-----------------------------------------------------------------------------
(* What the documentation says and the code does not do.                   *)

(* limiter.go: "sliding window counters".  Of any MaxRequests + 1 requests *)
(* that pass, the first and the last are a window apart.                   *)
SlidingWindow ==
    \A k \in Keys : \A i, j \in DOMAIN admitted[k] :
        j >= i + MaxRequests => admitted[k][j].at - admitted[k][i].at >= Window
=============================================================================
