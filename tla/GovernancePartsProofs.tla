------------------------ MODULE GovernancePartsProofs ------------------------
(* Proofs about RateLimiter, for every set of keys, limit and window, and  *)
(* about AuditChain, for every set of handlers, organizations and payloads.*)
EXTENDS RateLimiter, AuditChain, TLAPS

-----------------------------------------------------------------------------
(* The limiter.                                                            *)

(***************************************************************************)
(* The requests of k that passed in the current window are the last ones,  *)
(* as many as the counter says, capped at the limit.  Those before them    *)
(* passed in earlier windows, or under earlier stores; Earlier(k) is how   *)
(* many they are.  Without a counter the next window would open now.       *)
(***************************************************************************)
Opened(k) ==
    IF counters[k] = NoCounter THEN now ELSE counters[k].expiresAt - Window

InWindow(k) ==
    IF counters[k].count <= MaxRequests THEN counters[k].count ELSE MaxRequests

Earlier(k) == Len(admitted[k]) - InWindow(k)

At(k, i) == admitted[k][i].at
By(k, i) == admitted[k][i].store

(* Every request that passed did so by now; the earlier ones before the    *)
(* current window was opened, or when it was if another store counted      *)
(* them, and the rest since, before it expires.                            *)
Dated(k) ==
    /\ Earlier(k) \in Nat
    /\ \A i \in 1..Len(admitted[k]) :
          /\ At(k, i) <= now /\ By(k, i) <= stores
          /\ i <= Earlier(k) => At(k, i) <= Opened(k)
          /\ i <= Earlier(k) /\ By(k, i) = stores =>
                counters[k] # NoCounter /\ At(k, i) < Opened(k)
          /\ i > Earlier(k) => /\ By(k, i) = stores /\ At(k, i) >= Opened(k)
                               /\ At(k, i) <= counters[k].expiresAt

(* One limit less than what may pass within a window of request i.         *)
Room(k, i) == (1 + stores - By(k, i)) * MaxRequests

(* A request that so many earlier ones followed passed more than a window  *)
(* before the current one was opened.                                      *)
Spaced(k) ==
    \A i \in 1..Len(admitted[k]) :
        i + Room(k, i) <= Earlier(k) => Opened(k) - At(k, i) > Window

Apart(k) ==
    \A i, j \in 1..Len(admitted[k]) :
        i < j /\ j >= i + Allowance(By(k, i), By(k, j)) =>
            At(k, j) - At(k, i) > Window

WindowInv == LimiterTypeOK /\ \A k \in Keys : Dated(k) /\ Spaced(k) /\ Apart(k)

-----------------------------------------------------------------------------
(* A check leaves a counter of the right shape, whose window was opened at *)
(* the latest now.                                                         *)
LEMMA CountTyped ==
  ASSUME LimiterTypeOK, NEW k \in Keys, Count(k)
  PROVE  /\ counters' \in [Keys -> [count : Nat, expiresAt : Int]]
         /\ \A q \in Keys : counters'[q] # NoCounter =>
              /\ counters'[q].count > 0
              /\ counters'[q].expiresAt \in Window..(now + Window)
  BY SMTT(30), LimiterAssumption DEF LimiterTypeOK, Count, Increment, Expired, NoCounter

(* Every step keeps the types.                                             *)
LEMMA LimiterTypeStep == LimiterTypeOK /\ [LimiterNext]_limiterVars => LimiterTypeOK'
<1> SUFFICES ASSUME LimiterTypeOK, [LimiterNext]_limiterVars
             PROVE  LimiterTypeOK'
    OBVIOUS
<1>1. ASSUME NEW k \in Keys, Admit(k)
      PROVE  LimiterTypeOK'
  <2>1. [at |-> now, store |-> stores] \in Passes
    BY DEF LimiterTypeOK, Passes
  <2>2. admitted' \in [Keys -> Seq(Passes)]
    BY <1>1, <2>1 DEF Admit, LimiterTypeOK
  <2> QED
    BY <1>1, <2>2, CountTyped DEF Admit, Count, LimiterTypeOK
<1>2. ASSUME NEW k \in Keys, Refuse(k)
      PROVE  LimiterTypeOK'
  BY <1>2, CountTyped DEF Refuse, Count, LimiterTypeOK
<1>3. CASE Tick
  BY <1>3, LimiterAssumption DEF Tick, LimiterTypeOK, NoCounter
<1>4. CASE NewStore
  BY <1>4 DEF NewStore, LimiterTypeOK, NoCounter
<1>5. CASE UNCHANGED limiterVars
  BY <1>5 DEF limiterVars, LimiterTypeOK
<1> QED
  BY <1>1, <1>2, <1>3, <1>4, <1>5 DEF LimiterNext

(* The invariant at one key, with the types its arithmetic needs.          *)
KeyTyped(k) ==
    /\ counters \in [Keys -> [count : Nat, expiresAt : Int]]
    /\ admitted \in [Keys -> Seq(Passes)]
    /\ Len(admitted[k]) \in Nat
    /\ now \in Nat /\ stores \in Nat
    /\ counters[k].count \in Nat /\ counters[k].expiresAt \in Int
    /\ Opened(k) \in Int /\ Opened(k) <= now
    /\ Earlier(k) \in Nat /\ Earlier(k) = Len(admitted[k]) - InWindow(k)
    /\ InWindow(k) \in Nat /\ InWindow(k) <= MaxRequests
    /\ counters[k] = NoCounter => InWindow(k) = 0 /\ Opened(k) = now
    /\ counters[k] # NoCounter => Opened(k) = counters[k].expiresAt - Window
    /\ MaxRequests \in Nat /\ MaxRequests > 0
    /\ Window \in Nat /\ Window > 0

(* At each key the types give the facts its arithmetic needs.              *)
LEMMA KeyFacts ==
  ASSUME LimiterTypeOK, NEW k \in Keys, Dated(k)
  PROVE  KeyTyped(k)
  BY SMTT(30), LimiterAssumption
     DEF KeyTyped, LimiterTypeOK, Opened, Dated, Earlier, InWindow, NoCounter

(* Where a request of a key lies: before the current window opened, or in  *)
(* it.                                                                     *)
LEMMA RequestFacts ==
  ASSUME LimiterTypeOK, NEW k \in Keys, Dated(k), NEW i \in 1..Len(admitted[k])
  PROVE  /\ At(k, i) \in Nat /\ By(k, i) \in Nat
         /\ At(k, i) <= now /\ By(k, i) <= stores
         /\ i <= Earlier(k) => At(k, i) <= Opened(k)
         /\ i <= Earlier(k) /\ By(k, i) = stores =>
               counters[k] # NoCounter /\ At(k, i) < Opened(k)
         /\ i > Earlier(k) => /\ By(k, i) = stores /\ At(k, i) >= Opened(k)
                              /\ At(k, i) <= counters[k].expiresAt
<1>1. admitted[k][i] \in Passes
  BY DEF LimiterTypeOK
<1> QED
  BY <1>1 DEF Dated, At, By, Passes

(* The limits that may pass after a request: at least one, and one more    *)
(* after each restart.                                                     *)
LEMMA RoomFacts ==
  ASSUME NEW s \in Nat, NEW b \in Nat, b <= s
  PROVE  /\ (1 + s - b) * MaxRequests \in Nat
         /\ (1 + s - b) * MaxRequests >= MaxRequests
         /\ (1 + (s + 1) - b) * MaxRequests = (1 + s - b) * MaxRequests + MaxRequests
         /\ Allowance(b, s) = (1 + s - b) * MaxRequests + MaxRequests
<1>1. PICK d \in Nat : d = s - b
  OBVIOUS
<1>2. MaxRequests \in Nat
  BY LimiterAssumption
<1>3. /\ (1 + d) * MaxRequests \in Nat
      /\ (1 + d) * MaxRequests >= MaxRequests
      /\ (2 + d) * MaxRequests = (1 + d) * MaxRequests + MaxRequests
  <2>1. d * MaxRequests \in Nat
    BY <1>1, <1>2
  <2>2. (1 + d) * MaxRequests = MaxRequests + d * MaxRequests
    BY <1>1, <1>2
  <2>3. (2 + d) * MaxRequests = 2 * MaxRequests + d * MaxRequests
    BY <1>1, <1>2
  <2> QED
    BY <1>2, <2>1, <2>2, <2>3
<1>4. 1 + s - b = 1 + d /\ 1 + (s + 1) - b = 2 + d /\ 2 + s - b = 2 + d
  BY <1>1
<1> QED
  BY <1>3, <1>4 DEF Allowance

(* Once the window of a key has expired, all its requests lie before now.  *)
LEMMA ExpiredIsPast ==
  ASSUME LimiterTypeOK, NEW k \in Keys, Dated(k), counters[k] # NoCounter, Expired(k),
         NEW i \in 1..Len(admitted[k])
  PROVE  now > counters[k].expiresAt /\ At(k, i) < now
<1>a. KeyTyped(k)
  BY KeyFacts
<1>2. now > counters[k].expiresAt
  BY DEF Expired
<1>b. /\ now \in Nat /\ counters[k].expiresAt \in Int /\ Window \in Nat /\ Window > 0
      /\ Opened(k) = counters[k].expiresAt - Window
      /\ At(k, i) \in Nat
      /\ Earlier(k) \in Nat /\ i \in Nat
  BY <1>a, RequestFacts DEF KeyTyped
<1>3. CASE i <= Earlier(k)
  <2>1. At(k, i) <= Opened(k)
    BY <1>3, RequestFacts
  <2> QED
    BY SMTT(30), <1>2, <1>b, <2>1
<1>4. CASE i > Earlier(k)
  <2>1. At(k, i) <= counters[k].expiresAt
    BY <1>4, RequestFacts
  <2> QED
    BY <1>2, <1>b, <2>1
<1> QED
  BY <1>b, <1>3, <1>4

(* A request that the limits of its window followed lies more than a window*)
(* before now, once the current one has expired or its store is gone.      *)
LEMMA PassedLongAgo ==
  ASSUME LimiterTypeOK, NEW k \in Keys, Dated(k), Spaced(k),
         NEW i \in 1..Len(admitted[k]), i + Room(k, i) <= Len(admitted[k]),
         Expired(k)
  PROVE  now - At(k, i) > Window
<1>a. KeyTyped(k)
  BY KeyFacts
<1>b. At(k, i) \in Nat /\ By(k, i) \in Nat /\ By(k, i) <= stores /\ stores \in Nat
  BY <1>a, RequestFacts DEF KeyTyped
<1>c. Room(k, i) \in Nat /\ Room(k, i) >= MaxRequests
  BY <1>b, RoomFacts DEF Room
<1>1. CASE counters[k] = NoCounter
  <2>1. Earlier(k) = Len(admitted[k]) /\ Opened(k) = now
    BY <1>1, <1>a DEF KeyTyped
  <2> QED
    BY <2>1 DEF Spaced
<1>2. CASE counters[k] # NoCounter
  <2>1. now > counters[k].expiresAt
    BY <1>2, ExpiredIsPast
  <2>2. i <= Earlier(k)
    BY <1>a, <1>c DEF KeyTyped
  <2>3. At(k, i) <= Opened(k)
    BY <2>2, RequestFacts
  <2> QED
    BY SMTT(30), <1>2, <1>a, <1>b, <2>1, <2>3 DEF KeyTyped
<1> QED
  BY <1>1, <1>2

(* A check that passes, by appending to the requests of its key: the first *)
(* of a new window, or one more of the current one.                        *)
Appended(k) ==
    /\ counters' \in [Keys -> [count : Nat, expiresAt : Int]]
    /\ admitted' \in [Keys -> Seq(Passes)]
    /\ Len(admitted'[k]) = Len(admitted[k]) + 1
    /\ admitted'[k][Len(admitted[k]) + 1] = [at |-> now, store |-> stores]
    /\ \A i \in 1..Len(admitted[k]) :
          At(k, i)' = At(k, i) /\ By(k, i)' = By(k, i) /\ Room(k, i)' = Room(k, i)
    /\ now' = now /\ stores' = stores
    /\ counters'[k] = Increment(k)

(* A check that passes appends the present to the requests of its key.     *)
LEMMA AdmitAppends ==
  ASSUME LimiterTypeOK, NEW k \in Keys, Admit(k)
  PROVE  Appended(k)
<1>1. admitted[k] \in Seq(Passes) /\ now \in Nat /\ stores \in Nat
  BY DEF LimiterTypeOK
<1> DEFINE e == [at |-> now, store |-> stores]
           n == Len(admitted[k])
<1>2. admitted'[k] = Append(admitted[k], e)
  BY DEF Admit, LimiterTypeOK
<1>3. now' = now /\ stores' = stores /\ counters'[k] = Increment(k)
  BY DEF Admit, Count, LimiterTypeOK
<1>4. /\ counters' \in [Keys -> [count : Nat, expiresAt : Int]]
      /\ admitted' \in [Keys -> Seq(Passes)]
  BY LimiterTypeStep DEF LimiterNext, LimiterTypeOK
<1>5. /\ Len(admitted'[k]) = n + 1 /\ admitted'[k][n + 1] = e
      /\ \A i \in 1..n : admitted'[k][i] = admitted[k][i]
  BY <1>1, <1>2
<1> QED
  BY <1>3, <1>4, <1>5 DEF Appended, At, By, Room

(* The bound on the requests follows from the position of the window, when *)
(* a request has just been appended.                                       *)
LEMMA AppendedApart ==
  ASSUME LimiterTypeOK, NEW k \in Keys, Dated(k), Apart(k), Appended(k),
         Spaced(k)', Opened(k)' \in Int, Opened(k)' <= now,
         Earlier(k)' \in Nat, Len(admitted[k]) + 1 <= Earlier(k)' + MaxRequests
  PROVE  Apart(k)'
<1> DEFINE n == Len(admitted[k])
<1>a. KeyTyped(k)
  BY KeyFacts
<1>b. n \in Nat /\ MaxRequests \in Nat /\ now \in Nat /\ Window \in Nat
  BY <1>a DEF KeyTyped
<1> SUFFICES ASSUME NEW i \in 1..(n + 1), NEW j \in 1..(n + 1), i < j,
                    j >= i + Allowance(By(k, i)', By(k, j)')
             PROVE  At(k, j)' - At(k, i)' > Window
  BY DEF Apart, Appended
<1>1. i \in 1..n /\ (j \in 1..n \/ j = n + 1)
  BY <1>b
<1>2. At(k, i)' = At(k, i) /\ By(k, i)' = By(k, i) /\ Room(k, i)' = Room(k, i)
  BY <1>1 DEF Appended
<1>3. CASE j \in 1..n
  <2>1. At(k, j)' = At(k, j) /\ By(k, j)' = By(k, j)
    BY <1>3 DEF Appended
  <2> QED
    BY <1>1, <1>2, <1>3, <2>1 DEF Apart
<1>4. CASE j = n + 1
  <2>1. At(k, j)' = now /\ By(k, j)' = stores
    BY <1>4 DEF Appended, At, By
  <2>2. At(k, i) \in Nat /\ By(k, i) \in Nat /\ By(k, i) <= stores /\ stores \in Nat
    BY <1>1, <1>a, RequestFacts DEF KeyTyped
  <2>3. Allowance(By(k, i), stores) = Room(k, i) + MaxRequests /\ Room(k, i) \in Nat
    BY <2>2, RoomFacts DEF Room
  <2>4. i + Room(k, i)' <= Earlier(k)'
    BY <1>b, <1>1, <1>2, <1>4, <2>1, <2>3
  <2>5. i \in 1..Len(admitted'[k])
    BY <1>b DEF Appended
  <2>6. Opened(k)' - At(k, i)' > Window
    BY <2>4, <2>5 DEF Spaced
  <2> QED
    BY <1>b, <1>2, <2>1, <2>2, <2>6
<1> QED
  BY <1>1, <1>3, <1>4

(* A check that passes and opens a new window keeps the invariant of its   *)
(* key: everything admitted before lies in the past of that window, or at  *)
(* its opening under an earlier store.                                     *)
LEMMA NewWindowKept ==
  ASSUME LimiterTypeOK, NEW k \in Keys, Dated(k), Spaced(k), Apart(k), Admit(k),
         Expired(k)
  PROVE  Dated(k)' /\ Spaced(k)' /\ Apart(k)'
<1>a. KeyTyped(k)
  BY KeyFacts
<1>b. Appended(k)
  BY AdmitAppends
<1> DEFINE n == Len(admitted[k])
<1>c. n \in Nat /\ now \in Nat /\ Window \in Nat /\ MaxRequests \in Nat /\ MaxRequests > 0
  BY <1>a DEF KeyTyped
<1>1. /\ Opened(k)' = now /\ Earlier(k)' = n
      /\ counters'[k].expiresAt = now + Window
      /\ counters'[k] # NoCounter
  <2>1. counters'[k] = [count |-> 1, expiresAt |-> now + Window]
    BY <1>b DEF Increment, Appended
  <2>2. InWindow(k)' = 1
    BY <2>1, <1>c DEF InWindow
  <2>3. Len(admitted'[k]) = n + 1
    BY <1>b DEF Appended
  <2>4. counters'[k] # NoCounter
    BY <2>1 DEF NoCounter
  <2>5. Opened(k)' = (now + Window) - Window
    BY <2>1, <2>4 DEF Opened
  <2> QED
    BY <2>1, <2>2, <2>3, <2>4, <2>5, <1>c DEF Earlier
<1>2. ASSUME NEW i \in 1..n, By(k, i) = stores
      PROVE  At(k, i) < now
  <2>1. counters[k] # NoCounter
    <3> SUFFICES ASSUME counters[k] = NoCounter
                 PROVE  FALSE
        OBVIOUS
    <3>1. i <= Earlier(k)
      BY <1>a DEF KeyTyped
    <3> QED
      BY <1>2, <3>1, RequestFacts
  <2> QED
    BY <2>1, ExpiredIsPast
<1>3. Dated(k)'
  <2>1. ASSUME NEW i \in 1..(n + 1)
        PROVE  /\ At(k, i)' <= now /\ By(k, i)' <= stores
               /\ i <= n /\ By(k, i)' = stores => At(k, i)' < now
               /\ i > n => /\ By(k, i)' = stores /\ At(k, i)' >= now
                           /\ At(k, i)' <= now + Window
    <3>1. CASE i = n + 1
      <4>1. At(k, i)' = now /\ By(k, i)' = stores /\ stores \in Nat
        BY <3>1, <1>a, <1>b DEF Appended, KeyTyped, At, By
      <4> QED
        BY <3>1, <4>1, <1>c
    <3>2. CASE i \in 1..n
      <4>1. /\ At(k, i)' = At(k, i) /\ By(k, i)' = By(k, i)
            /\ At(k, i) <= now /\ By(k, i) <= stores
        BY <3>2, <1>b, RequestFacts DEF Appended
      <4> QED
        BY <3>2, <4>1, <1>2, <1>c
    <3>3. i \in 1..n \/ i = n + 1
      BY <1>c
    <3> QED
      BY <3>1, <3>2, <3>3
  <2>2. /\ now' = now /\ stores' = stores /\ Len(admitted'[k]) = n + 1
    BY <1>b DEF Appended
  <2> HIDE DEF n
  <2> QED
    BY <1>1, <1>c, <2>1, <2>2 DEF Dated
<1>4. Spaced(k)'
  <2> SUFFICES ASSUME NEW i \in 1..(n + 1), i + Room(k, i)' <= n
               PROVE  now - At(k, i)' > Window
    BY <1>1, <1>b DEF Spaced, Appended
  <2>1. i \in 1..n
    <3>1. CASE i = n + 1
      <4>1. Room(k, i)' = (1 + stores - stores) * MaxRequests /\ stores \in Nat
        BY <3>1, <1>a, <1>b DEF Room, Appended, KeyTyped, By
      <4>2. Room(k, i)' \in Nat
        BY <4>1, RoomFacts
      <4> QED
        BY <3>1, <4>2, <1>c
    <3>2. i \in 1..n \/ i = n + 1
      BY <1>c
    <3> QED
      BY <3>1, <3>2
  <2>2. At(k, i)' = At(k, i) /\ Room(k, i)' = Room(k, i)
    BY <2>1, <1>b DEF Appended
  <2> QED
    BY <2>1, <2>2, PassedLongAgo
<1>5. Apart(k)'
  BY <1>1, <1>4, <1>b, <1>c, AppendedApart
<1> QED
  BY <1>3, <1>4, <1>5

(* A check that passes within the current window keeps the invariant of    *)
(* its key: the limit leaves room for one more request of this window.     *)
LEMMA SameWindowKept ==
  ASSUME LimiterTypeOK, NEW k \in Keys, Dated(k), Spaced(k), Apart(k), Admit(k),
         ~Expired(k)
  PROVE  Dated(k)' /\ Spaced(k)' /\ Apart(k)'
<1>a. KeyTyped(k)
  BY KeyFacts
<1>b. Appended(k)
  BY AdmitAppends
<1> DEFINE n == Len(admitted[k])
<1>c. n \in Nat /\ now \in Nat /\ Window \in Nat /\ MaxRequests \in Nat /\ MaxRequests > 0
  BY <1>a DEF KeyTyped
<1>1. /\ counters[k].count + 1 <= MaxRequests
      /\ counters[k] # NoCounter
      /\ now <= counters[k].expiresAt
  BY <1>a DEF Admit, Within, Increment, Expired, KeyTyped
<1>2. /\ counters'[k].count = counters[k].count + 1
      /\ counters'[k].expiresAt = counters[k].expiresAt
      /\ counters'[k] # NoCounter
  <2>1. counters'[k] = [counters[k] EXCEPT !.count = @ + 1]
    BY <1>b DEF Increment, Appended
  <2>2. counters[k] \in [count : Nat, expiresAt : Int]
    BY <1>a DEF KeyTyped
  <2>3. counters'[k].count = counters[k].count + 1 /\ counters[k].count \in Nat
    BY <2>1, <2>2
  <2>4. counters'[k].count # 0
    BY <2>3
  <2> QED
    BY <2>1, <2>2, <2>3, <2>4 DEF NoCounter
<1>3. Opened(k)' = Opened(k) /\ Earlier(k)' = Earlier(k)
  <2>1. Opened(k)' = Opened(k)
    BY <1>1, <1>2 DEF Opened
  <2>2. InWindow(k)' = InWindow(k) + 1
    BY <1>1, <1>2, <1>a DEF InWindow, KeyTyped
  <2>3. /\ Len(admitted'[k]) = n + 1 /\ InWindow(k) \in Nat
        /\ Earlier(k) = n - InWindow(k)
    BY <1>a, <1>b DEF KeyTyped, Appended
  <2>4. Earlier(k)' = Len(admitted'[k]) - InWindow(k)'
    BY DEF Earlier
  <2> QED
    BY <1>c, <2>1, <2>2, <2>3, <2>4
<1>4. /\ Opened(k) <= now /\ Opened(k) \in Int
      /\ Earlier(k) \in Nat /\ Earlier(k) <= n /\ n + 1 <= Earlier(k) + MaxRequests
  BY SMTT(30), <1>1, <1>a DEF InWindow, KeyTyped
<1>5. Dated(k)'
  <2>1. ASSUME NEW i \in 1..(n + 1)
        PROVE  /\ At(k, i)' <= now /\ By(k, i)' <= stores
               /\ i <= Earlier(k) => At(k, i)' <= Opened(k)
               /\ i <= Earlier(k) /\ By(k, i)' = stores => At(k, i)' < Opened(k)
               /\ i > Earlier(k) => /\ By(k, i)' = stores /\ At(k, i)' >= Opened(k)
                                    /\ At(k, i)' <= counters[k].expiresAt
    <3>1. CASE i = n + 1
      <4>1. At(k, i)' = now /\ By(k, i)' = stores /\ stores \in Nat
        BY <3>1, <1>a, <1>b DEF Appended, KeyTyped, At, By
      <4> QED
        BY <3>1, <4>1, <1>1, <1>4, <1>c
    <3>2. CASE i \in 1..n
      BY <3>2, RequestFacts, <1>b DEF Appended
    <3>3. i \in 1..n \/ i = n + 1
      BY <1>c
    <3> QED
      BY <3>1, <3>2, <3>3
  <2>2. /\ now' = now /\ stores' = stores /\ Len(admitted'[k]) = n + 1
    BY <1>b DEF Appended
  <2> HIDE DEF n
  <2> QED
    BY <1>2, <1>3, <1>4, <2>1, <2>2 DEF Dated
<1>6. Spaced(k)'
  <2> SUFFICES ASSUME NEW i \in 1..(n + 1), i + Room(k, i)' <= Earlier(k)
               PROVE  Opened(k) - At(k, i)' > Window
    BY <1>3, <1>b DEF Spaced, Appended
  <2>1. i \in 1..n
    <3>1. CASE i = n + 1
      <4>1. Room(k, i)' = (1 + stores - stores) * MaxRequests /\ stores \in Nat
        BY <3>1, <1>a, <1>b DEF Room, Appended, KeyTyped, By
      <4>2. Room(k, i)' \in Nat
        BY <4>1, RoomFacts
      <4> QED
        BY <3>1, <4>2, <1>c, <1>4
    <3>2. i \in 1..n \/ i = n + 1
      BY <1>c
    <3> QED
      BY <3>1, <3>2
  <2> QED
    BY <2>1, <1>b DEF Spaced, Appended
<1>7. Apart(k)'
  BY <1>3, <1>4, <1>6, <1>b, AppendedApart
<1> QED
  BY <1>5, <1>6, <1>7

(* A check that refuses leaves the requests of its key where they were: a  *)
(* full window stays open.                                                 *)
LEMMA RefuseKept ==
  ASSUME LimiterTypeOK, NEW k \in Keys, Dated(k), Spaced(k), Apart(k), Refuse(k)
  PROVE  Dated(k)' /\ Spaced(k)' /\ Apart(k)'
<1>1. /\ counters[k] \in [count : Nat, expiresAt : Int]
      /\ MaxRequests \in Nat \ {0}
      /\ counters'[k] = Increment(k)
      /\ UNCHANGED <<now, stores, admitted>>
  BY LimiterAssumption DEF LimiterTypeOK, Refuse, Count
<1>2. ~Expired(k) /\ counters[k].count >= MaxRequests
  BY <1>1 DEF Refuse, Within, Increment
<1>3. /\ counters'[k].count = counters[k].count + 1
      /\ counters'[k].expiresAt = counters[k].expiresAt
      /\ counters[k] # NoCounter /\ counters'[k] # NoCounter
  BY <1>1, <1>2 DEF Increment, Expired, NoCounter
<1>4. Opened(k)' = Opened(k) /\ Earlier(k)' = Earlier(k)
  BY <1>1, <1>2, <1>3 DEF Opened, Earlier, InWindow
<1> QED
  BY <1>1, <1>3, <1>4 DEF Dated, Spaced, Apart, At, By, Room

(* Time passing and other keys' checks do not touch a key's requests.      *)
LEMMA OthersKept ==
  ASSUME LimiterTypeOK, NEW k \in Keys, Dated(k), Spaced(k), Apart(k),
         counters'[k] = counters[k], admitted'[k] = admitted[k], stores' = stores,
         now' \in Nat, now' >= now
  PROVE  Dated(k)' /\ Spaced(k)' /\ Apart(k)'
<1>a. KeyTyped(k)
  BY KeyFacts
<1>1. Earlier(k)' = Earlier(k) /\ Opened(k)' >= Opened(k) /\ Opened(k)' \in Int
  BY <1>a DEF Opened, Earlier, InWindow, KeyTyped
<1>2. counters[k] # NoCounter => Opened(k)' = Opened(k)
  BY DEF Opened
<1>3. counters[k] = NoCounter => Earlier(k) = Len(admitted[k])
  BY <1>a DEF KeyTyped
<1>4. ASSUME NEW i \in 1..Len(admitted[k])
      PROVE  At(k, i)' = At(k, i) /\ By(k, i)' = By(k, i) /\ Room(k, i)' = Room(k, i)
  BY DEF At, By, Room
<1>5. Dated(k)'
  <2> SUFFICES ASSUME NEW i \in 1..Len(admitted[k])
               PROVE  /\ At(k, i) <= now' /\ By(k, i) <= stores
                      /\ i <= Earlier(k) => At(k, i) <= Opened(k)'
                      /\ i <= Earlier(k) /\ By(k, i) = stores =>
                            counters[k] # NoCounter /\ At(k, i) < Opened(k)'
                      /\ i > Earlier(k) =>
                            /\ By(k, i) = stores /\ At(k, i) >= Opened(k)'
                            /\ At(k, i) <= counters[k].expiresAt
    BY <1>1, <1>4, <1>a DEF Dated, KeyTyped
  <2> QED
    <3>1. i <= Earlier(k) \/ i > Earlier(k)
      BY <1>a DEF KeyTyped
    <3>2. /\ At(k, i) \in Nat /\ Opened(k) \in Int /\ Opened(k)' \in Int
          /\ now \in Nat /\ now' \in Nat /\ At(k, i) <= now /\ By(k, i) <= stores
      BY <1>1, <1>a, RequestFacts DEF KeyTyped
    <3>3. CASE i <= Earlier(k)
      <4>1. /\ At(k, i) <= Opened(k)
            /\ By(k, i) = stores => counters[k] # NoCounter /\ At(k, i) < Opened(k)
        BY <3>3, RequestFacts
      <4> QED
        BY SMTT(30), <3>2, <3>3, <4>1, <1>1, <1>a DEF KeyTyped
    <3>4. CASE i > Earlier(k)
      <4>1. counters[k] # NoCounter
        BY <3>4, <1>3, <1>a DEF KeyTyped
      <4> QED
        BY <3>2, <3>4, <4>1, <1>2, <1>a, RequestFacts DEF KeyTyped
    <3> QED
      BY <3>1, <3>3, <3>4
<1>6. Spaced(k)'
  <2> SUFFICES ASSUME NEW i \in 1..Len(admitted[k]), i + Room(k, i) <= Earlier(k)
               PROVE  Opened(k)' - At(k, i) > Window
    BY <1>1, <1>4 DEF Spaced
  <2>1. Opened(k) - At(k, i) > Window
    BY DEF Spaced
  <2> QED
    BY SMTT(30), <2>1, <1>1, <1>a, RequestFacts DEF KeyTyped
<1>7. Apart(k)'
  BY <1>4 DEF Apart
<1> QED
  BY <1>5, <1>6, <1>7

(* A new store has counted nothing, and everything that passed did so      *)
(* under an earlier one: one more limit may pass.                          *)
LEMMA NewStoreKept ==
  ASSUME LimiterTypeOK, NEW k \in Keys, Dated(k), Spaced(k), Apart(k), NewStore
  PROVE  Dated(k)' /\ Spaced(k)' /\ Apart(k)'
<1>a. KeyTyped(k)
  BY KeyFacts
<1> DEFINE n == Len(admitted[k])
<1>b. n \in Nat /\ now \in Nat /\ stores \in Nat
  BY <1>a DEF KeyTyped
<1>1. /\ counters'[k] = NoCounter /\ now' = now /\ stores' = stores + 1
      /\ admitted'[k] = admitted[k]
  BY DEF NewStore
<1>2. Opened(k)' = now /\ Earlier(k)' = n
  <2>1. InWindow(k)' = 0
    BY <1>1, <1>a DEF InWindow, NoCounter, KeyTyped
  <2> QED
    BY <1>1, <1>b, <2>1 DEF Opened, Earlier
<1>3. ASSUME NEW i \in 1..n
      PROVE  /\ At(k, i)' = At(k, i) /\ By(k, i)' = By(k, i)
             /\ At(k, i) \in Nat /\ At(k, i) <= now
             /\ By(k, i) \in Nat /\ By(k, i) <= stores
             /\ Room(k, i)' = Room(k, i) + MaxRequests
             /\ Room(k, i) \in Nat /\ Room(k, i) >= MaxRequests
  <2>1. At(k, i)' = At(k, i) /\ By(k, i)' = By(k, i)
    BY <1>1 DEF At, By
  <2>2. /\ At(k, i) \in Nat /\ At(k, i) <= now
        /\ By(k, i) \in Nat /\ By(k, i) <= stores
    BY RequestFacts
  <2> QED
    BY ZenonT(60), <1>1, <1>b, <2>1, <2>2, RoomFacts DEF Room
<1>4. Dated(k)'
  <2>1. \A i \in 1..n : By(k, i)' < stores' /\ At(k, i)' <= now
    BY <1>1, <1>3, <1>b
  <2>2. \A i \in 1..n : i <= n /\ By(k, i)' <= stores' /\ By(k, i)' # stores'
    BY <2>1, <1>1, <1>3, <1>b
  <2> HIDE DEF n
  <2> QED
    BY <1>1, <1>2, <1>b, <2>1, <2>2 DEF Dated, n
<1>5. Spaced(k)'
  <2> SUFFICES ASSUME NEW i \in 1..n, i + Room(k, i)' <= n
               PROVE  now - At(k, i) > Window
    BY <1>1, <1>2, <1>3 DEF Spaced
  <2>1. i + Room(k, i) <= Earlier(k)
    BY SMTT(30), <1>3, <1>a DEF KeyTyped
  <2>2. Opened(k) - At(k, i) > Window
    BY <2>1 DEF Spaced
  <2> QED
    BY SMTT(30), <2>2, <1>3, <1>a DEF KeyTyped
<1>6. Apart(k)'
  BY <1>1, <1>3 DEF Apart
<1> QED
  BY <1>4, <1>5, <1>6

-----------------------------------------------------------------------------
(* The invariant holds at first and is kept by every step.                 *)
LEMMA WindowInit == LimiterInit => WindowInv
  BY LimiterAssumption DEF LimiterInit, WindowInv, LimiterTypeOK, Dated, Spaced, Apart,
     Earlier, InWindow, Opened, NoCounter

(* Every step keeps the invariant, at the key it is about and at the       *)
(* others.                                                                 *)
LEMMA WindowStep == WindowInv /\ [LimiterNext]_limiterVars => WindowInv'
<1> SUFFICES ASSUME WindowInv, [LimiterNext]_limiterVars
             PROVE  WindowInv'
    OBVIOUS
<1>1. LimiterTypeOK'
  BY LimiterTypeStep DEF WindowInv
<1>2. ASSUME NEW k \in Keys, Admit(k), NEW q \in Keys
      PROVE  Dated(q)' /\ Spaced(q)' /\ Apart(q)'
  <2>1. CASE q = k
    BY <1>2, <2>1, NewWindowKept, SameWindowKept DEF WindowInv
  <2>2. CASE q # k
    BY <1>2, <2>2, OthersKept DEF WindowInv, Admit, Count, LimiterTypeOK
  <2> QED
    BY <2>1, <2>2
<1>3. ASSUME NEW k \in Keys, Refuse(k), NEW q \in Keys
      PROVE  Dated(q)' /\ Spaced(q)' /\ Apart(q)'
  <2>1. CASE q = k
    BY <1>3, <2>1, RefuseKept DEF WindowInv
  <2>2. CASE q # k
    BY <1>3, <2>2, OthersKept DEF WindowInv, Refuse, Count, LimiterTypeOK
  <2> QED
    BY <2>1, <2>2
<1>4. ASSUME Tick, NEW q \in Keys
      PROVE  Dated(q)' /\ Spaced(q)' /\ Apart(q)'
  <2>1. /\ counters'[q] = counters[q] /\ admitted'[q] = admitted[q]
        /\ stores' = stores /\ now' \in Nat /\ now' >= now
    BY <1>4 DEF Tick, WindowInv, LimiterTypeOK
  <2> QED
    BY <2>1, OthersKept DEF WindowInv
<1>5. ASSUME NewStore, NEW q \in Keys
      PROVE  Dated(q)' /\ Spaced(q)' /\ Apart(q)'
  BY <1>5, NewStoreKept DEF WindowInv
<1>6. ASSUME UNCHANGED limiterVars, NEW q \in Keys
      PROVE  Dated(q)' /\ Spaced(q)' /\ Apart(q)'
  BY <1>6, OthersKept DEF WindowInv, limiterVars, LimiterTypeOK
<1> QED
  BY <1>1, <1>2, <1>3, <1>4, <1>5, <1>6 DEF WindowInv, LimiterNext

(* The invariant holds throughout.                                         *)
LEMMA WindowInvariant == LimiterSpec => []WindowInv
  BY WindowInit, WindowStep, PTL DEF LimiterSpec

(* Any two requests that pass with as many between them lie apart.         *)
LEMMA WindowsBound == WindowInv => TwiceAtMost
<1> SUFFICES ASSUME WindowInv, NEW k \in Keys
             PROVE  \A i, j \in DOMAIN admitted[k] :
                      i < j /\ j >= i + Allowance(admitted[k][i].store,
                                                  admitted[k][j].store) =>
                          admitted[k][j].at - admitted[k][i].at > Window
    BY DEF TwiceAtMost
<1>1. DOMAIN admitted[k] = 1..Len(admitted[k])
  BY DEF WindowInv, LimiterTypeOK
<1> QED
  BY <1>1 DEF WindowInv, Apart, At, By

(* The last requests of k, as many as the limit, passed within a window of *)
(* now and were counted by this store.                                     *)
FullWindow(k) ==
    LET first == Len(admitted[k]) - MaxRequests + 1
    IN  /\ first > 0
        /\ admitted[k][first].store = stores
        /\ now - admitted[k][first].at <= Window

(* A refusal finds it so: as many requests as the limit lie in it.         *)
LEMMA WindowsJustify ==
  ASSUME WindowInv, NEW k \in Keys, Refuse(k)
  PROVE  FullWindow(k)
<1>1. LimiterTypeOK /\ Dated(k) /\ KeyTyped(k)
  BY KeyFacts DEF WindowInv
<1>2. ~Expired(k) /\ counters[k].count >= MaxRequests
  BY <1>1 DEF Refuse, Within, Increment, KeyTyped
<1>3. InWindow(k) = MaxRequests
  BY <1>1, <1>2 DEF InWindow, KeyTyped
<1>4. now <= counters[k].expiresAt /\ Opened(k) = counters[k].expiresAt - Window
  BY <1>1, <1>2 DEF Expired, KeyTyped
<1> DEFINE first == Len(admitted[k]) - MaxRequests + 1
<1>5. first \in 1..Len(admitted[k]) /\ first > Earlier(k)
  BY <1>1, <1>3 DEF KeyTyped
<1>6. At(k, first) >= Opened(k) /\ At(k, first) \in Nat /\ By(k, first) = stores
  BY <1>1, <1>5, RequestFacts
<1>7. now - At(k, first) <= Window
  BY SMTT(30), <1>1, <1>4, <1>5, <1>6 DEF KeyTyped
<1>8. first > 0
  BY <1>1, <1>5 DEF KeyTyped
<1> QED
  BY <1>6, <1>7, <1>8 DEF FullWindow, At, By

(* No key is let through more than 2 * MaxRequests times within a window,  *)
(* however its requests and those of other keys fall, and MaxRequests more *)
(* for each restart in between.                                            *)
THEOREM RateBound == LimiterSpec => []TwiceAtMost
  BY WindowsBound, WindowInvariant, PTL

(* A key that is refused was let through MaxRequests times within the last *)
(* Window by this process, as many of its requests as may have been        *)
(* refused since.                                                          *)
THEOREM RefusalJustified == LimiterSpec => RefusedOnlyWhenBusy
<1> DEFINE A == \A k \in Keys : Refuse(k) => FullWindow(k)
<1>1. WindowInv => A
  BY WindowsJustify
<1>2. []WindowInv => [][A]_limiterVars
  BY <1>1, PTL
<1> QED
  BY <1>2, WindowInvariant, PTL DEF RefusedOnlyWhenBusy, FullWindow

-----------------------------------------------------------------------------
(* The writer.                                                             *)

(***************************************************************************)
(* The writer's hash is that of the events of this process, but for the    *)
(* one whose row is stored and whose handler has not advanced yet; and the *)
(* event a handler is about to store carries the writer's hash.            *)
(***************************************************************************)
Advancing == \E h \in Handlers : writer[h].pc = "advance"

Linked ==
    \A h \in Handlers : writer[h].pc # "idle" => writer[h].event.prev = prevHash

HashIsCurrent ==
    /\ ~Advancing => prevHash = HashOf(log, Len(log))
    /\ \A h \in Handlers : writer[h].pc = "advance" =>
          /\ Len(log) > 0
          /\ log[Len(log)] = writer[h].event
          /\ prevHash = HashOf(log, Len(log) - 1)

ChainInv ==
    /\ AuditTypeOK
    /\ Linked
    /\ ~forked => ValidateChain(log) /\ HashIsCurrent

-----------------------------------------------------------------------------
(* Every step keeps the types, and with them the mutual exclusion of Write.*)
LEMMA WriterTypeStep == AuditTypeOK /\ [AuditNext]_auditVars => AuditTypeOK'
<1> SUFFICES ASSUME AuditTypeOK, [AuditNext]_auditVars
             PROVE  AuditTypeOK'
    OBVIOUS
<1> USE ChainAssumption DEF AuditTypeOK
<1>1. ASSUME NEW h \in Handlers, NEW o \in Orgs, NEW p \in Payloads,
             Enter(h, o, p)
      PROVE  AuditTypeOK'
  BY <1>1 DEF Enter, Events, Idle
<1>2. ASSUME NEW h \in Handlers, Stored(h)
      PROVE  AuditTypeOK'
  <2>1. writer[h].event \in Events
    BY <1>2 DEF Stored, Idle
  <2>2. log' \in Seq(Events)
    BY <1>2, <2>1 DEF Stored
  <2>3. ASSUME NEW g \in Handlers
        PROVE  \/ writer'[g] = Idle
               \/ /\ writer'[g] \in [pc : {"append", "advance"}, event : Events]
                  /\ holder' = g
    <3>1. CASE g = h
      <4>1. writer[h] \in [pc : {"append", "advance"}, event : Events] /\ holder = h
        BY <1>2 DEF Stored, Idle
      <4>2. writer'[h] = [writer[h] EXCEPT !.pc = "advance"] /\ holder' = holder
        BY <1>2 DEF Stored
      <4> QED
        BY <3>1, <4>1, <4>2
    <3>2. CASE g # h
      BY <1>2, <3>2 DEF Stored
    <3> QED
      BY <3>1, <3>2
  <2>4. DOMAIN writer' = Handlers
    BY <1>2 DEF Stored
  <2> QED
    BY <1>2, <2>2, <2>3, <2>4 DEF Stored
<1>3. ASSUME NEW h \in Handlers, Refused(h)
      PROVE  AuditTypeOK'
  BY <1>3 DEF Refused, Leave, Idle
<1>4. ASSUME NEW h \in Handlers, StoredUnseen(h)
      PROVE  AuditTypeOK'
  <2>1. writer[h].event \in Events
    BY <1>4 DEF StoredUnseen, Idle
  <2>2. log' \in Seq(Events)
    BY <1>4, <2>1 DEF StoredUnseen
  <2> QED
    BY <1>4, <2>1, <2>2 DEF StoredUnseen, Leave, Idle
<1>5. ASSUME NEW h \in Handlers, Advance(h)
      PROVE  AuditTypeOK'
  <2>1. writer[h].event.payload \in Payloads
    BY <1>5 DEF Advance, Idle, Events
  <2>2. prevHash' \in Seq(Payloads)
    BY <1>5, <2>1 DEF Advance, Chain
  <2> QED
    BY <1>5, <2>2 DEF Advance, Leave, Idle
<1>6. CASE NewWriter
  <2>1. rows' \in Seq(Events) /\ log' \in Seq(Events) /\ prevHash' \in Seq(Payloads)
    BY <1>6 DEF NewWriter, Genesis
  <2>2. DOMAIN writer' = Handlers /\ \A g \in Handlers : writer'[g] = Idle
    BY <1>6 DEF NewWriter
  <2>3. restarts' \in 0..MaxRestarts
    BY <1>6 DEF NewWriter
  <2> QED
    BY <1>6, <2>1, <2>2, <2>3 DEF NewWriter
<1>7. CASE UNCHANGED auditVars
  BY <1>7 DEF auditVars
<1> QED
  BY <1>1, <1>2, <1>3, <1>4, <1>5, <1>6, <1>7 DEF AuditNext

(* Appending an event leaves the hashes of the events before it, and the   *)
(* hash after it is one link longer.                                       *)
LEMMA AppendHash ==
  ASSUME NEW s \in Seq(Events), NEW e \in Events
  PROVE  /\ Len(Append(s, e)) = Len(s) + 1
         /\ \A n \in 0..Len(s) : HashOf(Append(s, e), n) = HashOf(s, n)
         /\ Append(s, e)[Len(s) + 1] = e
  BY DEF HashOf

(* The hash of all the events is the one its last event carries, with one  *)
(* more link.                                                              *)
LEMMA LinkHash ==
  ASSUME NEW s \in Seq(Events), Len(s) > 0
  PROVE  HashOf(s, Len(s)) = Chain(HashOf(s, Len(s) - 1), s[Len(s)].payload)
<1>1. Len(s) \in Nat /\ \A i \in 1..Len(s) : s[i].payload \in Payloads
  <2>1. \A i \in 1..Len(s) : s[i] \in Events
    OBVIOUS
  <2> QED
    BY <2>1 DEF Events
<1> DEFINE n == Len(s) - 1
<1>2. n \in Nat /\ Len(s) = n + 1
  BY <1>1
<1>3. HashOf(s, n) \in Seq(Payloads) /\ Len(HashOf(s, n)) = n
  BY <1>1, <1>2 DEF HashOf
<1> QED
  BY <1>1, <1>2, <1>3 DEF HashOf, Chain

(* A chain stays one when an event that carries its hash is appended.      *)
LEMMA AppendValid ==
  ASSUME NEW s \in Seq(Events), NEW e \in Events, ValidateChain(s),
         e.prev = HashOf(s, Len(s))
  PROVE  ValidateChain(Append(s, e))
<1>1. Len(s) \in Nat
  OBVIOUS
<1> SUFFICES ASSUME NEW i \in 1..(Len(s) + 1)
             PROVE  Append(s, e)[i].prev = HashOf(Append(s, e), i - 1)
  BY AppendHash DEF ValidateChain
<1>2. HashOf(Append(s, e), i - 1) = HashOf(s, i - 1)
  BY <1>1, AppendHash
<1>3. CASE i = Len(s) + 1
  BY <1>1, <1>2, <1>3, AppendHash
<1>4. CASE i \in 1..Len(s)
  BY <1>2, <1>4 DEF ValidateChain
<1>5. i \in 1..Len(s) \/ i = Len(s) + 1
  BY <1>1
<1> QED
  BY <1>3, <1>4, <1>5

-----------------------------------------------------------------------------
(* A process starts with no rows, the genesis hash and the mutex free.     *)
LEMMA ChainInit == AuditInit => ChainInv
<1> SUFFICES ASSUME AuditInit
             PROVE  ChainInv
    OBVIOUS
<1>1. log = <<>> /\ Len(log) = 0 /\ rows = <<>> /\ prevHash = <<>>
  BY DEF AuditInit, Genesis
<1>2. \A h \in Handlers : writer[h] = Idle /\ writer[h].pc = "idle"
  BY DEF AuditInit, Idle
<1>3. AuditTypeOK
  <2>1. <<>> \in Seq(Events) /\ <<>> \in Seq(Payloads)
    OBVIOUS
  <2>2. holder = None /\ DOMAIN writer = Handlers
    BY DEF AuditInit
  <2>3. MaxRestarts \in Nat
    BY ChainAssumption
  <2>4. restarts = 0
    BY DEF AuditInit
  <2>5. restarts \in 0..MaxRestarts
    BY <2>3, <2>4
  <2>6. forked \in BOOLEAN
    BY DEF AuditInit
  <2> QED
    BY <1>1, <1>2, <2>1, <2>2, <2>5, <2>6 DEF AuditTypeOK
<1>4. ValidateChain(log) /\ HashOf(log, Len(log)) = <<>>
  BY <1>1 DEF ValidateChain, HashOf
<1> QED
  BY <1>1, <1>2, <1>3, <1>4 DEF ChainInv, Linked, HashIsCurrent

(* Every step keeps the invariant: the mutex makes the event that is being *)
(* stored the only one, so the hash it carries is still the last one.      *)
LEMMA ChainStep == ChainInv /\ [AuditNext]_auditVars => ChainInv'
<1> SUFFICES ASSUME ChainInv, [AuditNext]_auditVars
             PROVE  ChainInv'
    OBVIOUS
<1>0. AuditTypeOK /\ AuditTypeOK'
  BY WriterTypeStep DEF ChainInv
<1>a. \A g, h \in Handlers :
        writer[g].pc # "idle" /\ writer[h].pc # "idle" => g = h
  BY <1>0 DEF AuditTypeOK, Idle
<1>1. ASSUME NEW h \in Handlers, NEW o \in Orgs, NEW p \in Payloads,
             Enter(h, o, p)
      PROVE  ChainInv'
  <2>1. Linked'
    BY <1>0, <1>1 DEF ChainInv, Linked, Enter, AuditTypeOK
  <2>2. \A g \in Handlers : writer'[g].pc = "advance" <=> writer[g].pc = "advance"
    BY <1>0, <1>1 DEF Enter, AuditTypeOK
  <2>3. \A g \in Handlers : writer[g].pc # "advance"
    BY <1>0, <1>1, ChainAssumption DEF Enter, AuditTypeOK, Idle
  <2>4. ~forked => HashIsCurrent'
    BY <1>1, <2>2, <2>3 DEF ChainInv, HashIsCurrent, Advancing, Enter
  <2> QED
    BY <1>0, <1>1, <2>1, <2>4 DEF ChainInv, Enter
<1>2. ASSUME NEW h \in Handlers, Stored(h)
      PROVE  ChainInv'
  <2> DEFINE e == writer[h].event
  <2>1. e \in Events /\ log \in Seq(Events) /\ e.prev = prevHash
    BY <1>0, <1>2 DEF ChainInv, Linked, Stored, AuditTypeOK, Idle
  <2>2. writer'[h].event = e /\ writer'[h].pc = "advance"
    BY <1>0, <1>2 DEF Stored, AuditTypeOK
  <2>3. \A g \in Handlers : g # h => writer'[g].pc = "idle" /\ writer[g].pc = "idle"
    BY <1>0, <1>2, <1>a DEF Stored, AuditTypeOK
  <2>4. Linked'
    BY <1>2, <2>1, <2>2, <2>3 DEF Linked, Stored
  <2>5. ASSUME ~forked
        PROVE  ValidateChain(log') /\ HashIsCurrent'
    <3>1. ~Advancing
      BY <1>2, <2>3 DEF Advancing, Stored
    <3>2. ValidateChain(log) /\ prevHash = HashOf(log, Len(log))
      BY <2>5, <3>1 DEF ChainInv, HashIsCurrent
    <3>3. ValidateChain(log')
      BY <1>2, <2>1, <3>2, AppendValid DEF Stored
    <3>4. /\ Len(log') = Len(log) + 1 /\ log'[Len(log) + 1] = e
          /\ HashOf(log', Len(log)) = HashOf(log, Len(log))
      BY <1>2, <2>1, AppendHash DEF Stored
    <3>5. Len(log) \in Nat /\ Len(log') - 1 = Len(log)
      BY <2>1, <3>4
    <3>6. Len(log') > 0 /\ log'[Len(log')] = e /\ prevHash' = HashOf(log', Len(log') - 1)
      BY <1>2, <3>2, <3>4, <3>5 DEF Stored
    <3> QED
      BY <2>2, <2>3, <3>3, <3>6 DEF HashIsCurrent, Advancing
  <2> QED
    BY <1>0, <1>2, <2>4, <2>5 DEF ChainInv, Stored
<1>3. ASSUME NEW h \in Handlers, Refused(h)
      PROVE  ChainInv'
  <2>1. \A g \in Handlers : writer'[g].pc = "idle" /\ writer[g].pc # "advance"
    BY <1>0, <1>3, <1>a DEF Refused, Leave, AuditTypeOK, Idle
  <2> QED
    BY <1>0, <1>3, <2>1 DEF ChainInv, Linked, HashIsCurrent, Advancing, Refused
<1>4. ASSUME NEW h \in Handlers, StoredUnseen(h)
      PROVE  ChainInv'
  <2>1. \A g \in Handlers : writer'[g].pc = "idle"
    BY <1>0, <1>4, <1>a DEF StoredUnseen, Leave, AuditTypeOK, Idle
  <2> QED
    BY <1>0, <1>4, <2>1 DEF ChainInv, Linked, StoredUnseen
<1>5. ASSUME NEW h \in Handlers, Advance(h)
      PROVE  ChainInv'
  <2>1. \A g \in Handlers : writer'[g].pc = "idle"
    BY <1>0, <1>5, <1>a DEF Advance, Leave, AuditTypeOK, Idle
  <2>2. ASSUME ~forked
        PROVE  prevHash' = HashOf(log, Len(log))
    <3>1. Len(log) > 0 /\ log[Len(log)] = writer[h].event
          /\ prevHash = HashOf(log, Len(log) - 1)
      BY <1>5, <2>2 DEF ChainInv, HashIsCurrent, Advance
    <3> QED
      BY <1>0, <1>5, <3>1, LinkHash DEF Advance, AuditTypeOK
  <2> QED
    BY <1>0, <1>5, <2>1, <2>2 DEF ChainInv, Linked, HashIsCurrent, Advancing, Advance
<1>6. CASE NewWriter
  BY <1>0, <1>6 DEF ChainInv, Linked, HashIsCurrent, Advancing, NewWriter,
     ValidateChain, HashOf, Genesis, Idle
<1>7. CASE UNCHANGED auditVars
  BY <1>0, <1>7 DEF ChainInv, Linked, HashIsCurrent, Advancing, auditVars
<1> QED
  BY <1>1, <1>2, <1>3, <1>4, <1>5, <1>6, <1>7 DEF AuditNext

(* The table holds events, and one handler at a time is inside Write.      *)
THEOREM WriterTyped == AuditSpec => []AuditTypeOK
<1>1. ChainInv => AuditTypeOK
  BY DEF ChainInv
<1> QED
  BY <1>1, ChainInit, ChainStep, PTL DEF AuditSpec

(* Whatever its handlers interleave and however many inserts fail, what a  *)
(* process has stored passes ValidateChain, unless an insert failed after  *)
(* it took effect.                                                         *)
THEOREM WriterChains == AuditSpec => []ChainValid
<1>1. ChainInv => ChainValid
  BY DEF ChainInv, ChainValid
<1> QED
  BY <1>1, ChainInit, ChainStep, PTL DEF AuditSpec
=============================================================================
