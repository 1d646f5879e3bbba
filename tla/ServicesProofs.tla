--------------------------- MODULE ServicesProofs ---------------------------
(***************************************************************************)
(* Proofs about the services of MCServices: the pagination of the list     *)
(* routes, the chunks of a document, the knowledge service, the memory     *)
(* layers and the model router, each for every value of its constants.     *)
(* The parts share no state, so a property of one part needs only that the *)
(* steps of the others leave its variables alone.                          *)
(***************************************************************************)
EXTENDS MCServices, SequenceTheorems, TLAPS

-----------------------------------------------------------------------------
(***************************************************************************)
(* No walk returns a row twice or misses one, for any ids, page size and   *)
(* length of time.  The rows are split by the cursor: what was returned    *)
(* lies at or before it, and of the rows that were there all along what    *)
(* lies at or before it was returned.  The next page takes the first rows  *)
(* after the cursor, so both stay true when it becomes their last row; the *)
(* page that ends the walk takes all the rows that are left.               *)
(***************************************************************************)

(* At or before the cursor.                                                *)
Passed(i) == walk.cursor.some /\ ~Before(walk.desc, walk.cursor.id, i)

AtMostOnce == \A i \in Ids : returned[i] \in {0, 1}
ReturnedIsPassed ==
    walk.on /\ ~walk.ended =>
        \A i \in Ids : returned[i] = 1 => i \in visible /\ Passed(i)
PassedIsReturned ==
    walk.on /\ ~walk.ended =>
        \A i \in constant : Passed(i) => returned[i] = 1
EndedIsWhole == walk.ended => \A i \in constant : returned[i] = 1

SplitInv == AtMostOnce /\ ReturnedIsPassed /\ PassedIsReturned /\ EndedIsWhole

---------------------------------------------------------------------------

(* Before is a strict total order on rows with different ids.              *)
LEMMA BeforeOrders ==
    ASSUME TypeOK, NEW i \in Ids, NEW j \in Ids, NEW k \in Ids, NEW d \in BOOLEAN
    PROVE  /\ ~Before(d, i, i)
           /\ ~(Before(d, i, j) /\ Before(d, j, i))
           /\ Before(d, i, j) /\ Before(d, j, k) => Before(d, i, k)
  <1>1. i \in Int /\ j \in Int /\ k \in Int
    BY IdsAreOrdered
  <1>2. created[i] \in Int /\ created[j] \in Int /\ created[k] \in Int
    BY DEF TypeOK
  <1> QED
    BY <1>1, <1>2 DEF Before, Older

(* A row of the next page is not yet passed and not yet returned.          *)
LEMMA PageIsNew ==
    ASSUME TypeOK, SplitInv, walk.on, ~walk.ended,
           NEW p \in SUBSET Ids, IsPage(p), NEW i \in p
    PROVE  /\ i \in visible /\ i \in selected
           /\ walk.cursor.some => Before(walk.desc, walk.cursor.id, i)
           /\ returned[i] = 0
  <1>1. i \in visible /\ i \in selected /\ AfterCursor(i)
    BY DEF IsPage, Eligible
  <1>2. ~Passed(i)
    BY <1>1 DEF AfterCursor, Passed
  <1>3. returned[i] \in {0, 1} /\ returned[i] # 1
    BY <1>2 DEF SplitInv, AtMostOnce, ReturnedIsPassed
  <1> QED
    BY <1>1, <1>3 DEF AfterCursor

(* A row that was there all along and is not passed is in the next page or *)
(* after all of it.                                                        *)
LEMMA UnpassedIsNext ==
    ASSUME TypeOK, NEW p \in SUBSET Ids, IsPage(p), NEW i \in constant, i \notin p,
           ~Passed(i)
    PROVE  i \in Eligible /\ \A j \in p : Before(walk.desc, j, i)
  <1>1. i \in visible \cap selected
    BY DEF TypeOK
  <1>2. AfterCursor(i)
    BY DEF AfterCursor, Passed
  <1> QED
    BY <1>1, <1>2 DEF Eligible, IsPage

---------------------------------------------------------------------------

(* Every step keeps the types.                                             *)
LEMMA TypeStep == TypeOK /\ [Next]_vars => TypeOK'
  <1> SUFFICES ASSUME TypeOK, [Next]_vars PROVE TypeOK'
    OBVIOUS
  <1> USE DEF TypeOK, NoCursor, At
  <1>1. ASSUME NEW i \in Ids, Insert(i) PROVE TypeOK'
    BY <1>1 DEF Insert
  <1>2. ASSUME NEW i \in Ids, Commit(i) PROVE TypeOK'
    BY <1>2 DEF Commit
  <1>3. ASSUME NEW i \in Ids, Reselect(i) PROVE TypeOK'
    BY <1>3 DEF Reselect
  <1>4. CASE Tick
    BY <1>4 DEF Tick
  <1>5. ASSUME NEW d \in BOOLEAN, Start(d) PROVE TypeOK'
    BY <1>5 DEF Start
  <1>6. ASSUME NEW p \in SUBSET Ids, FullPage(p) PROVE TypeOK'
    <2>1. PICK l \in p : walk' = [walk EXCEPT !.cursor = At(l)]
      BY <1>6 DEF FullPage
    <2>2. l \in visible
      BY <1>6 DEF FullPage, IsPage, Eligible
    <2>3. returned' \in [Ids -> Nat]
      BY <1>6 DEF FullPage, Count
    <2> QED
      BY <1>6, <2>1, <2>2, <2>3 DEF FullPage
  <1>7. ASSUME NEW p \in SUBSET Ids, LastPage(p) PROVE TypeOK'
    <2>1. returned' \in [Ids -> Nat]
      BY <1>7 DEF LastPage, Count
    <2> QED
      BY <1>7, <2>1 DEF LastPage
  <1>8. CASE Finish
    BY <1>8 DEF Finish, Idle
  <1>9. CASE UNCHANGED vars
    BY <1>9 DEF vars
  <1> QED
    BY <1>1, <1>2, <1>3, <1>4, <1>5, <1>6, <1>7, <1>8, <1>9 DEF Next

(* A step of another request leaves the two sides of the cursor as they    *)
(* are: created_at of a visible row does not change.                       *)
LEMMA OthersKeep ==
    ASSUME TypeOK, SplitInv, UNCHANGED <<walk, returned>>,
           visible \subseteq visible', constant' \subseteq constant,
           \A i \in visible : created'[i] = created[i]
    PROVE  SplitInv'
  <1>1. \A i \in visible : Passed(i)' = Passed(i)
    BY DEF TypeOK, Passed, Before, Older, NoCursor, At
  <1>2. constant \subseteq visible
    BY DEF TypeOK
  <1> QED
    BY <1>1, <1>2 DEF SplitInv, AtMostOnce, ReturnedIsPassed, PassedIsReturned,
      EndedIsWhole

(* A full page moves the cursor to its last row.                           *)
LEMMA FullPageKeeps ==
    ASSUME TypeOK, SplitInv, NEW p \in SUBSET Ids, FullPage(p)
    PROVE  SplitInv'
  <1> USE DEF FullPage
  <1>1. PICK l \in p : IsLast(l, p) /\ walk' = [walk EXCEPT !.cursor = At(l)]
    OBVIOUS
  <1>2. walk'.on /\ ~walk'.ended /\ walk'.cursor.some /\ walk'.cursor.id = l
        /\ walk'.desc = walk.desc /\ walk.desc \in BOOLEAN
    BY <1>1 DEF At, TypeOK
  <1>3. \A i \in Ids : Passed(i)' <=> ~Before(walk.desc, l, i)
    BY <1>2 DEF Passed, Before, Older
  <1>4. \A i \in Ids : returned'[i] = IF i \in p THEN returned[i] + 1 ELSE returned[i]
    BY DEF Count
  <1>5. \A i \in p : returned[i] = 0 /\ i \in visible
    BY PageIsNew
  <1>6. AtMostOnce'
    BY <1>4, <1>5 DEF SplitInv, AtMostOnce
  <1>7. ASSUME NEW i \in Ids, returned'[i] = 1
        PROVE  i \in visible /\ ~Before(walk.desc, l, i)
    <2>1. CASE i \in p
      <3>1. i = l \/ Before(walk.desc, i, l)
        BY <1>1, <2>1 DEF IsLast
      <3> QED
        BY <1>2, <1>5, <2>1, <3>1, BeforeOrders
    <2>2. CASE i \notin p
      <3>1. i \in visible /\ Passed(i)
        BY <1>4, <1>7, <2>2 DEF SplitInv, ReturnedIsPassed
      <3>2. Before(walk.desc, walk.cursor.id, l)
        BY <3>1, PageIsNew DEF Passed
      <3>3. walk.cursor.id \in Ids
        BY <3>1 DEF Passed, TypeOK, NoCursor, At
      <3> QED
        BY <1>2, <3>1, <3>2, <3>3, BeforeOrders DEF Passed
    <2> QED
      BY <2>1, <2>2
  <1>8. ASSUME NEW i \in constant, ~Before(walk.desc, l, i)
        PROVE  returned'[i] = 1
    <2>0. i \in Ids
      BY DEF TypeOK
    <2>1. CASE i \in p
      BY <1>4, <1>5, <2>0, <2>1
    <2>2. CASE i \notin p
      <3>1. Passed(i)
        BY <1>8, <2>2, UnpassedIsNext
      <3>2. returned[i] = 1
        BY <3>1 DEF SplitInv, PassedIsReturned
      <3> QED
        BY <1>4, <2>0, <2>2, <3>2
    <2> QED
      BY <2>1, <2>2
  <1>9. constant' = constant /\ visible' = visible /\ constant \subseteq Ids
    BY DEF TypeOK
  <1>10. ReturnedIsPassed'
    BY <1>3, <1>7, <1>9 DEF ReturnedIsPassed
  <1>11. PassedIsReturned'
    BY <1>3, <1>8, <1>9 DEF PassedIsReturned
  <1>12. EndedIsWhole'
    BY <1>2 DEF EndedIsWhole
  <1> QED
    BY <1>6, <1>10, <1>11, <1>12 DEF SplitInv

(* The last page takes every row that is left.                             *)
LEMMA LastPageKeeps ==
    ASSUME TypeOK, SplitInv, NEW p \in SUBSET Ids, LastPage(p)
    PROVE  SplitInv'
  <1> USE DEF LastPage
  <1>1. walk'.ended /\ constant' = constant /\ constant \subseteq Ids
    BY DEF TypeOK
  <1>2. \A i \in Ids : returned'[i] = IF i \in p THEN returned[i] + 1 ELSE returned[i]
    BY DEF Count
  <1>3. \A i \in p : returned[i] = 0
    BY PageIsNew
  <1>4. p = Eligible
    BY DEF IsPage
  <1>5. ASSUME NEW i \in constant PROVE returned'[i] = 1
    <2>1. CASE i \in p
      BY <1>1, <1>2, <1>3, <2>1
    <2>2. CASE i \notin p
      <3>1. Passed(i)
        BY <1>4, <2>2, UnpassedIsNext
      <3>2. returned[i] = 1
        BY <3>1 DEF SplitInv, PassedIsReturned
      <3> QED
        BY <1>1, <1>2, <2>2, <3>2
    <2> QED
      BY <2>1, <2>2
  <1>6. AtMostOnce'
    BY <1>2, <1>3 DEF SplitInv, AtMostOnce
  <1> QED
    BY <1>1, <1>5, <1>6 DEF SplitInv, ReturnedIsPassed, PassedIsReturned,
      EndedIsWhole

(* Every step keeps the split.                                             *)
LEMMA SplitStep == TypeOK /\ SplitInv /\ [Next]_vars => SplitInv'
  <1> SUFFICES ASSUME TypeOK, SplitInv, [Next]_vars PROVE SplitInv'
    OBVIOUS
  <1>1. ASSUME NEW i \in Ids, Insert(i) PROVE SplitInv'
    <2>1. \A j \in visible : created'[j] = created[j]
      BY <1>1 DEF Insert, TypeOK
    <2> QED
      BY <1>1, <2>1, OthersKeep DEF Insert
  <1>2. ASSUME NEW i \in Ids, Commit(i) PROVE SplitInv'
    BY <1>2, OthersKeep DEF Commit
  <1>3. ASSUME NEW i \in Ids, Reselect(i) PROVE SplitInv'
    BY <1>3, OthersKeep DEF Reselect
  <1>4. CASE Tick
    BY <1>4, OthersKeep DEF Tick
  <1>5. ASSUME NEW d \in BOOLEAN, Start(d) PROVE SplitInv'
    BY <1>5 DEF Start, SplitInv, AtMostOnce, ReturnedIsPassed, PassedIsReturned,
      EndedIsWhole, Passed, NoCursor
  <1>6. ASSUME NEW p \in SUBSET Ids, FullPage(p) PROVE SplitInv'
    BY <1>6, FullPageKeeps
  <1>7. ASSUME NEW p \in SUBSET Ids, LastPage(p) PROVE SplitInv'
    BY <1>7, LastPageKeeps
  <1>8. CASE Finish
    BY <1>8 DEF Finish, Idle, SplitInv, AtMostOnce, ReturnedIsPassed,
      PassedIsReturned, EndedIsWhole
  <1>9. CASE UNCHANGED vars
    BY <1>9, OthersKeep DEF vars
  <1> QED
    BY <1>1, <1>2, <1>3, <1>4, <1>5, <1>6, <1>7, <1>8, <1>9 DEF Next

---------------------------------------------------------------------------

(* Type correctness: a cursor is always the id of a row that is there.     *)
THEOREM CursorExists == Spec => []TypeOK
  <1>1. Init => TypeOK
    BY DEF Init, TypeOK, Idle, NoCursor
  <1> QED
    BY <1>1, TypeStep, PTL DEF Spec

(* The split of the rows by the cursor holds throughout.                   *)
THEOREM SplitHolds == Spec => []SplitInv
  <1>1. Init => SplitInv
    BY DEF Init, SplitInv, AtMostOnce, ReturnedIsPassed, PassedIsReturned,
      EndedIsWhole, Idle
  <1> QED
    BY <1>1, SplitStep, CursorExists, PTL DEF Spec

(* No walk over a list route returns a row twice.                          *)
THEOREM WalksRepeatNothing == Spec => []NoRowTwice
  <1>1. SplitInv => NoRowTwice
    BY DEF SplitInv, AtMostOnce, NoRowTwice
  <1> QED
    BY <1>1, SplitHolds, PTL

(* No walk that ended missed a row that was there and selected throughout. *)
THEOREM WalksMissNothing == Spec => []NoRowMissed
  <1>1. TypeOK /\ SplitInv => NoRowMissed
    BY DEF TypeOK, SplitInv, EndedIsWhole, NoRowMissed
  <1> QED
    BY <1>1, CursorExists, SplitHolds, PTL

(* Every walk is exact, for any table, page size and interleaving.         *)
THEOREM WalksAreExact == Spec => []WalkIsExact
  <1>1. NoRowTwice /\ NoRowMissed => WalkIsExact
    BY DEF WalkIsExact
  <1> QED
    BY <1>1, WalksRepeatNothing, WalksMissNothing, PTL

-----------------------------------------------------------------------------
(* Chunking, for every text, window and overlap.                           *)

Chunk == [from : Nat, to : Nat]

LastTo == chunks[Len(chunks)].to

(* The windows so far: each within bounds, each linked to the one before.  *)
Bounded(c) == c.to <= tokens /\ c.to - c.from \in 0..ChunkSize

Linked(c, d) == d.from = c.to - Overlap /\ d.to > c.to

ChunkInv ==
    /\ tokens \in Nat /\ start \in Nat /\ cut \in BOOLEAN
    /\ chunks \in Seq(Chunk)
    /\ \A i \in 1..Len(chunks) : Bounded(chunks[i])
    /\ \A i \in 1..(Len(chunks) - 1) : Linked(chunks[i], chunks[i + 1])
    /\ chunks = <<>> => start = 0
    /\ chunks # <<>> => chunks[1].from = 0
    /\ chunks # <<>> /\ ~cut => start = LastTo - Overlap /\ LastTo < tokens
    /\ cut => chunks # <<>> /\ LastTo = tokens

-----------------------------------------------------------------------------
(* What appending a window c does to the sequence.                         *)
LEMMA AppendWindow ==
  ASSUME NEW s \in Seq(Chunk), NEW c \in Chunk, NEW t, t = Append(s, c)
  PROVE  /\ t \in Seq(Chunk) /\ t # <<>> /\ Len(t) = Len(s) + 1
         /\ t[Len(t)] = c
         /\ \A i \in 1..Len(s) : t[i] = s[i]
  BY AppendProperties

(* A window that fits, begins where it should and reaches further keeps    *)
(* the invariant.                                                          *)
LEMMA WindowKeeps ==
  ASSUME ChunkInv, ~cut, NEW c \in Chunk,
         chunks' = Append(chunks, c), c.from = start, Bounded(c),
         chunks # <<>> => c.to > LastTo
  PROVE  /\ chunks' \in Seq(Chunk) /\ chunks' # <<>> /\ chunks'[Len(chunks')] = c
         /\ \A i \in 1..Len(chunks') : Bounded(chunks'[i])
         /\ \A i \in 1..(Len(chunks') - 1) : Linked(chunks'[i], chunks'[i + 1])
         /\ chunks'[1].from = 0
<1>1. chunks \in Seq(Chunk) /\ Len(chunks) \in Nat
  BY DEF ChunkInv
<1>2. /\ chunks' \in Seq(Chunk) /\ chunks' # <<>> /\ Len(chunks') = Len(chunks) + 1
      /\ chunks'[Len(chunks')] = c
      /\ \A i \in 1..Len(chunks) : chunks'[i] = chunks[i]
  BY <1>1, AppendWindow
<1>3. ASSUME NEW i \in 1..Len(chunks')
      PROVE  Bounded(chunks'[i])
  <2>1. CASE i = Len(chunks')
    BY <1>2, <2>1
  <2>2. CASE i # Len(chunks')
    <3>1. i \in 1..Len(chunks)
      BY <1>1, <1>2, <2>2
    <3> QED
      BY <1>2, <3>1 DEF ChunkInv
  <2> QED
    BY <2>1, <2>2
<1>4. ASSUME NEW i \in 1..(Len(chunks') - 1)
      PROVE  Linked(chunks'[i], chunks'[i + 1])
  <2>0. i \in 1..Len(chunks) /\ chunks'[i] = chunks[i]
    BY <1>1, <1>2
  <2>1. CASE i = Len(chunks)
    <3>1. chunks'[i] = chunks[Len(chunks)] /\ chunks'[i + 1] = c /\ chunks # <<>>
      BY <1>1, <1>2, <2>0, <2>1
    <3> QED
      BY <3>1 DEF ChunkInv, Linked, LastTo
  <2>2. CASE i # Len(chunks)
    <3>1. i \in 1..(Len(chunks) - 1) /\ i + 1 \in 1..Len(chunks)
      BY <1>1, <2>0, <2>2
    <3>2. Linked(chunks[i], chunks[i + 1])
      BY <3>1 DEF ChunkInv
    <3> QED
      BY <1>2, <2>0, <3>1, <3>2
  <2> QED
    BY <2>1, <2>2
<1>5. chunks'[1].from = 0
  <2>1. CASE chunks = <<>>
    <3>1. Len(chunks') = 1
      BY <1>1, <1>2, <2>1
    <3> QED
      BY <1>2, <2>1, <3>1 DEF ChunkInv
  <2>2. CASE chunks # <<>>
    <3>1. 1 \in 1..Len(chunks)
      BY <1>1, <2>2
    <3> QED
      BY <1>2, <2>2, <3>1 DEF ChunkInv
  <2> QED
    BY <2>1, <2>2
<1> QED
  BY <1>2, <1>3, <1>4, <1>5

(* The invariant of the chunks holds at the start.                         *)
LEMMA ChunkStart == ChunkInit => ChunkInv
<1> SUFFICES ASSUME ChunkInit
             PROVE  ChunkInv
    OBVIOUS
<1>1. tokens \in Nat /\ start = 0 /\ start \in Nat /\ cut = FALSE /\ chunks = <<>>
  BY ChunkingAssumption DEF ChunkInit
<1>2. chunks \in Seq(Chunk) /\ Len(chunks) = 0
  BY <1>1
<1>3. 1..Len(chunks) = {} /\ 1..(Len(chunks) - 1) = {}
  BY <1>2
<1> QED
  BY <1>1, <1>2, <1>3 DEF ChunkInv

(* Every cut keeps it.                                                     *)
LEMMA ChunkStep == ChunkInv /\ [ChunkNext]_chunkVars => ChunkInv'
<1> SUFFICES ASSUME ChunkInv, [ChunkNext]_chunkVars
             PROVE  ChunkInv'
    OBVIOUS
<1> USE ChunkingAssumption
<1>1. CASE WholeText
  <2>1. PICK c \in Chunk : c = [from |-> 0, to |-> tokens]
    BY DEF ChunkInv, Chunk
  <2>2. chunks' = <<c>> /\ cut' = TRUE /\ tokens' = tokens /\ start' = start
    BY <1>1, <2>1 DEF WholeText
  <2>3. Len(chunks') = 1 /\ chunks'[1] = c /\ chunks' \in Seq(Chunk) /\ chunks' # <<>>
    BY <2>2
  <2>4. Bounded(c) /\ c.to = tokens /\ c.from = 0
    BY <1>1, <2>1 DEF WholeText, Bounded, ChunkInv
  <2> QED
    BY <2>2, <2>3, <2>4 DEF ChunkInv, LastTo, Bounded
<1>2. CASE Window
  <2>0. /\ tokens \in Nat /\ start \in Nat
        /\ chunks # <<>> => LastTo \in Nat
    <3>1. chunks \in Seq(Chunk) /\ tokens \in Nat /\ start \in Nat
      BY DEF ChunkInv
    <3>2. ASSUME chunks # <<>>
          PROVE  chunks[Len(chunks)] \in Chunk
      <4>1. Len(chunks) \in 1..Len(chunks)
        BY <3>1, <3>2
      <4> QED
        BY <3>1, <4>1
    <3> QED
      BY <3>1, <3>2 DEF LastTo, Chunk
  <2> DEFINE to == IF start + ChunkSize < tokens THEN start + ChunkSize ELSE tokens
  <2>1. /\ to \in Nat /\ start < tokens /\ start < to /\ to <= tokens
        /\ to <= start + ChunkSize
        /\ to < tokens => to = start + ChunkSize
    BY <1>2, <2>0 DEF Window
  <2>2. chunks # <<>> => to > LastTo
    BY <1>2, <2>0 DEF Window, ChunkInv
  <2>3. /\ chunks' = Append(chunks, [from |-> start, to |-> to])
        /\ IF to >= tokens
           THEN cut' = TRUE /\ start' = start
           ELSE start' = start + ChunkSize - Overlap /\ cut' = cut
        /\ tokens' = tokens
        /\ ~cut
    BY <1>2 DEF Window, LastWindow
  <2> HIDE DEF to
  <2>4. PICK c \in Chunk : c = [from |-> start, to |-> to]
    BY <2>0, <2>1 DEF Chunk
  <2>5. c.from = start /\ c.to = to /\ Bounded(c)
    BY <2>0, <2>1, <2>4 DEF Bounded
  <2>6. /\ chunks' \in Seq(Chunk) /\ chunks' # <<>> /\ chunks'[Len(chunks')] = c
        /\ \A i \in 1..Len(chunks') : Bounded(chunks'[i])
        /\ \A i \in 1..(Len(chunks') - 1) : Linked(chunks'[i], chunks'[i + 1])
        /\ chunks'[1].from = 0
    BY <2>2, <2>3, <2>4, <2>5, WindowKeeps
  <2>7. LastTo' = to
    BY <2>5, <2>6 DEF LastTo
  <2>8. \A i \in 1..Len(chunks') :
          chunks'[i].to <= tokens' /\ chunks'[i].to - chunks'[i].from \in 0..ChunkSize
    BY <2>3, <2>6 DEF Bounded
  <2>9. CASE to < tokens
    <3>0. ~(to >= tokens) /\ to = start + ChunkSize
      BY <2>0, <2>1, <2>9
    <3>1. cut' = FALSE /\ start' = start + ChunkSize - Overlap
      BY <2>3, <3>0
    <3>2. start' = to - Overlap /\ start' \in Nat
      BY <2>0, <2>1, <3>0, <3>1
    <3> QED
      BY <2>0, <2>3, <2>6, <2>7, <2>8, <2>9, <3>1, <3>2 DEF ChunkInv, Linked, Bounded
  <2>10. CASE to = tokens
    <3>1. cut' = TRUE /\ start' = start
      BY <2>0, <2>1, <2>3, <2>10
    <3> QED
      BY <2>0, <2>3, <2>6, <2>7, <2>8, <2>10, <3>1 DEF ChunkInv, Linked, Bounded
  <2> QED
    BY <2>0, <2>1, <2>9, <2>10
<1>3. CASE UNCHANGED chunkVars
  BY <1>3 DEF chunkVars, ChunkInv, Bounded, Linked, LastTo
<1> QED
  BY <1>1, <1>2, <1>3 DEF ChunkNext

(* The chunks of every text tile it: nothing is lost between them, before  *)
(* the first or behind the last.                                           *)
THEOREM TextIsTiled == ChunkSpec => []ChunksTile
<1>1. ChunkInv => ChunksTile
  BY DEF ChunkInv, ChunksTile, Bounded, Linked, LastTo
<1> QED
  BY <1>1, ChunkStart, ChunkStep, PTL DEF ChunkSpec

-----------------------------------------------------------------------------
(***************************************************************************)
(* A behaviour of the whole is a behaviour of every part: what is proved   *)
(* of a part below holds of it here.                                       *)
(***************************************************************************)
THEOREM ServicesAreParts ==
    ServicesSpec => Spec /\ Knowledge!Spec /\ Memory!Spec /\ Router!Spec
<1>1. ServicesInit => Init /\ Knowledge!Init /\ Memory!Init /\ Router!Init
  BY DEF ServicesInit
<1> DEFINE all == <<part, vars, chunkVars, knowledgeVars, memoryVars, routerVars>>
<1>2. [ServicesNext]_all => [Next]_vars
  BY DEF ServicesNext, PaginationNext, ChunkingNext, KnowledgeNext, MemoryNext, RouterNext
<1>3. [ServicesNext]_all => [Knowledge!Next]_(Knowledge!vars)
  BY DEF ServicesNext, PaginationNext, ChunkingNext, KnowledgeNext, MemoryNext,
      RouterNext, knowledgeVars, Knowledge!vars
<1>4. [ServicesNext]_all => [Memory!Next]_(Memory!vars)
  BY DEF ServicesNext, PaginationNext, ChunkingNext, KnowledgeNext, MemoryNext,
      RouterNext, memoryVars, Memory!vars
<1>5. [ServicesNext]_all => [Router!Next]_(Router!vars)
  BY DEF ServicesNext, PaginationNext, ChunkingNext, KnowledgeNext, MemoryNext,
      RouterNext, routerVars, Router!vars
<1> QED
  BY <1>1, <1>2, <1>3, <1>4, <1>5, PTL
      DEF ServicesSpec, Spec, Knowledge!Spec, Memory!Spec, Router!Spec

-----------------------------------------------------------------------------
(***************************************************************************)
(* The model router.  The settings are put back before another coroutine   *)
(* can read them, so every request is given the profiles configured for    *)
(* its role; the sequence of those it has not been refused by yet is one   *)
(* of two.                                                                 *)
(***************************************************************************)
RoleProfile(c) == Router!Own(configured.chosen[asked[c].role], asked[c].role)

(* Only the role's provider is to be asked, and so it is.                  *)
AskingOnly(c) ==
    /\ asked[c].profiles = <<RoleProfile(c)>>
    /\ asked[c].tried = {RoleProfile(c)}

(* It was asked and refused; the fallback is asked.                        *)
AskingFallback(c) ==
    \E p \in Router!Profiles :
        /\ asked[c].profiles = <<p>>
        /\ asked[c].tried = {RoleProfile(c), p}
        /\ Router!ConfiguredFor(asked[c].role) = {RoleProfile(c), p}

(* It is asked and the fallback is still there.                            *)
AskingFirst(c) ==
    \E p \in Router!Profiles :
        /\ asked[c].profiles = <<RoleProfile(c), p>>
        /\ asked[c].tried = {RoleProfile(c)}
        /\ Router!ConfiguredFor(asked[c].role) = {RoleProfile(c), p}
        /\ asked[c].pc # "failed"

Shape ==
    [pc : {"asking", "answered", "returned", "failed", "cancelled"},
     stream : BOOLEAN, role : Roles, profiles : Seq(Router!Profiles),
     tried : SUBSET Router!Profiles, billed : Nat, cost : Nat]

RequestInv(c) ==
    asked[c].pc # "idle" =>
        /\ asked[c] \in Shape
        /\ AskingOnly(c) \/ AskingFallback(c) \/ AskingFirst(c)
        /\ AskingOnly(c) /\ ~asked[c].stream =>
               Router!ConfiguredFor(asked[c].role) = {RoleProfile(c)}

RouterInv ==
    /\ configured \in Router!RoutingFields
    /\ settings = configured
    /\ asked = [c \in Calls |-> asked[c]]
    /\ \A c \in Calls : RequestInv(c)

(* The settings are put back.                                              *)
LEMMA SettingsPutBack ==
    ASSUME configured \in Router!RoutingFields, NEW r \in Roles
    PROVE  Router!SettingsAfter(configured, r) = configured
<1>1. [configured.chosen EXCEPT ![r] = configured.chosen[r]] = configured.chosen
  BY DEF Router!RoutingFields
<1> DEFINE over == Router!Override(configured, r)
<1>2. /\ over.mode = configured.mode /\ over.fallback = configured.fallback
      /\ over.chosen = [configured.chosen EXCEPT ![r] = configured.fallback]
      /\ over = [mode |-> over.mode, fallback |-> over.fallback, chosen |-> over.chosen]
  BY DEF Router!RoutingFields, Router!Override
<1>3. [over.chosen EXCEPT ![r] = configured.chosen[r]] = configured.chosen
  BY <1>2 DEF Router!RoutingFields
<1>4. Router!Restore(over, r, configured.chosen[r]) = configured
  BY <1>2, <1>3 DEF Router!RoutingFields, Router!Restore
<1> QED
  BY <1>4 DEF Router!SettingsAfter

(* What is asked for a role is what is configured for it.                  *)
LEMMA AttemptsAreConfigured ==
    ASSUME Router!RouterAssumption, configured \in Router!RoutingFields, NEW r \in Roles
    PROVE  LET own == Router!Own(configured.chosen[r], r) IN
           /\ own \in Router!Profiles
           /\ Router!Profile(configured, r) = own
           /\ \/ /\ Router!Attempts(configured, r) = <<own>>
                 /\ Router!ConfiguredFor(r) = {own}
              \/ \E p \in Router!Profiles :
                    /\ Router!Attempts(configured, r) = <<own, p>>
                    /\ Router!ConfiguredFor(r) = {own, p}
<1> DEFINE own == Router!Own(configured.chosen[r], r)
           other == Router!Own(configured.fallback, r)
<1> USE DEF Router!RoutingFields
<1>1. own \in Router!Profiles /\ Router!Profile(configured, r) = own
  BY DEF Router!Own, Router!Profiles, Router!Models, Router!Profile, Router!ModelFor
<1>2. CASE Router!HasFallback(configured, r)
  <2>1. configured.fallback \in Providers /\ configured.mode # "single"
    BY <1>2 DEF Router!HasFallback
  <2>2. other \in Router!Profiles
    BY <2>1 DEF Router!Own, Router!Profiles, Router!Models
  <2>3. Router!Profile(Router!Override(configured, r), r) = other
    BY DEF Router!Own, Router!Override, Router!Profile, Router!ModelFor
  <2>4. Router!Attempts(configured, r) = <<own, other>>
    BY <1>1, <1>2, <2>3 DEF Router!Attempts
  <2>5. Router!ConfiguredFor(r) = {own, other}
    BY <2>1 DEF Router!ConfiguredFor, Router!RouterAssumption
  <2> QED
    BY <1>1, <2>2, <2>4, <2>5
<1>3. CASE ~Router!HasFallback(configured, r)
  <2>1. Router!Attempts(configured, r) = <<own>>
    BY <1>1, <1>3 DEF Router!Attempts
  <2>2. \/ configured.mode = "single"
        \/ configured.fallback \in {NoProvider, configured.chosen[r]}
    BY <1>3 DEF Router!HasFallback, Router!RouterAssumption
  <2>3. Router!ConfiguredFor(r) = {own}
    BY <2>2 DEF Router!ConfiguredFor
  <2> QED
    BY <1>1, <2>1, <2>3
<1> QED
  BY <1>2, <1>3

(* A request as it begins, with one profile or two.                        *)
Begun(a, st, r, own) ==
    /\ a \in Shape
    /\ a.pc = "asking" /\ a.stream = st /\ a.role = r /\ a.tried = {own}

(* A call that has the profile of its role alone to try.                   *)
LEMMA AskingOne ==
    ASSUME NEW st \in BOOLEAN, NEW r \in Roles, NEW own \in Router!Profiles
    PROVE  /\ Begun(Router!Asking(st, r, <<own>>), st, r, own)
           /\ Router!Asking(st, r, <<own>>).profiles = <<own>>
<1>1. <<own>> \in Seq(Router!Profiles) /\ Head(<<own>>) = own
  OBVIOUS
<1> QED
  BY <1>1 DEF Router!Asking, Begun, Shape

(* A call that has the profile of its role and one to fall back on.        *)
LEMMA AskingTwo ==
    ASSUME NEW st \in BOOLEAN, NEW r \in Roles,
           NEW own \in Router!Profiles, NEW p \in Router!Profiles
    PROVE  /\ Begun(Router!Asking(st, r, <<own, p>>), st, r, own)
           /\ Router!Asking(st, r, <<own, p>>).profiles = <<own, p>>
<1>1. <<own, p>> \in Seq(Router!Profiles) /\ Head(<<own, p>>) = own
  OBVIOUS
<1> QED
  BY <1>1 DEF Router!Asking, Begun, Shape

(* A request that is begun is for what is configured for its role.         *)
LEMMA RequestBegins ==
    ASSUME Router!RouterAssumption, RouterInv, NEW c \in Calls, NEW r \in Roles,
           Router!Generate(c, r) \/ Router!GenerateStream(c, r)
    PROVE  settings' = settings /\ RequestInv(c)'
<1> DEFINE own == Router!Own(configured.chosen[r], r)
<1>1. settings = configured /\ configured \in Router!RoutingFields
  BY DEF RouterInv
<1>2. settings' = settings /\ configured' = configured
  BY <1>1, SettingsPutBack DEF Router!Generate, Router!GenerateStream
<1>3. own \in Router!Profiles /\ Router!Profile(configured, r) = own
  BY <1>1, AttemptsAreConfigured
<1>4. ASSUME asked'[c].role = r
      PROVE  /\ RoleProfile(c)' = own
             /\ Router!ConfiguredFor(asked[c].role)' = Router!ConfiguredFor(r)
  BY <1>2, <1>4 DEF RoleProfile, Router!ConfiguredFor
<1>5. CASE Router!Generate(c, r)
  <2>1. asked'[c] = Router!Asking(FALSE, r, Router!Attempts(configured, r))
    BY <1>1, <1>5 DEF Router!Generate, RouterInv
  <2>2. CASE /\ Router!Attempts(configured, r) = <<own>>
             /\ Router!ConfiguredFor(r) = {own}
    <3>1. Begun(asked'[c], FALSE, r, own) /\ asked'[c].profiles = <<own>>
      BY <1>3, <2>1, <2>2, AskingOne
    <3> QED
      BY <1>2, <1>4, <2>2, <3>1 DEF Begun, RequestInv, AskingOnly
  <2>3. ASSUME NEW p \in Router!Profiles,
               Router!Attempts(configured, r) = <<own, p>>,
               Router!ConfiguredFor(r) = {own, p}
        PROVE  RequestInv(c)'
    <3>1. Begun(asked'[c], FALSE, r, own) /\ asked'[c].profiles = <<own, p>>
      <4>1. asked'[c] = Router!Asking(FALSE, r, <<own, p>>)
        BY <2>1, <2>3
      <4>2. own \in Router!Profiles /\ FALSE \in BOOLEAN
        BY <1>3
      <4> HIDE DEF own
      <4> QED
        BY <4>1, <4>2, AskingTwo
    <3>2. AskingFirst(c)'
      BY <1>4, <2>3, <3>1 DEF Begun, AskingFirst
    <3>3. ~AskingOnly(c)'
      BY <1>4, <3>1 DEF Begun, AskingOnly
    <3> QED
      BY <3>1, <3>2, <3>3 DEF Begun, RequestInv
  <2> QED
    BY <1>1, <1>2, <2>2, <2>3, AttemptsAreConfigured
<1>6. CASE Router!GenerateStream(c, r)
  <2>1. asked'[c] = Router!Asking(TRUE, r, <<own>>)
    BY <1>1, <1>3, <1>6 DEF Router!GenerateStream, RouterInv
  <2>2. Begun(asked'[c], TRUE, r, own) /\ asked'[c].profiles = <<own>>
    BY <1>3, <2>1, AskingOne
  <2> QED
    BY <1>2, <1>4, <2>2 DEF Begun, RequestInv, AskingOnly
<1> QED
  BY <1>2, <1>5, <1>6

(* A refusal takes the request to the next profile, if there is one.       *)
LEMMA RefusalGoesOn ==
    ASSUME RouterInv, NEW c \in Calls, asked[c].pc \in {"asking", "answered"},
           Router!AttemptFails(c)
    PROVE  RequestInv(c)'
<1> USE DEF Shape
<1>1. /\ asked[c] \in Shape
      /\ AskingOnly(c) \/ AskingFallback(c) \/ AskingFirst(c)
      /\ AskingOnly(c) /\ ~asked[c].stream =>
            Router!ConfiguredFor(asked[c].role) = {RoleProfile(c)}
  BY DEF RouterInv, RequestInv
<1>2. configured' = configured
  BY DEF Router!AttemptFails
<1>3. CASE \E p \in Router!Profiles : asked[c].profiles = <<p>>
  <2>0. Tail(asked[c].profiles) = <<>>
    BY <1>3
  <2>1. asked'[c] = [asked[c] EXCEPT !.pc = "failed"]
    BY <2>0 DEF Router!AttemptFails, RouterInv
  <2>2. /\ asked'[c] \in Shape
        /\ asked'[c].profiles = asked[c].profiles /\ asked'[c].tried = asked[c].tried
        /\ asked'[c].role = asked[c].role /\ asked'[c].stream = asked[c].stream
    BY <1>1, <2>1
  <2>3. ~AskingFirst(c)
    BY <1>3 DEF AskingFirst
  <2>4. /\ RoleProfile(c)' = RoleProfile(c)
        /\ Router!ConfiguredFor(asked[c].role)' = Router!ConfiguredFor(asked[c].role)
    BY <1>2, <2>2 DEF RoleProfile, Router!ConfiguredFor
  <2>5. AskingOnly(c)' <=> AskingOnly(c)
    BY <2>2, <2>4 DEF AskingOnly
  <2>6. AskingFallback(c) => AskingFallback(c)'
    BY <2>2, <2>4 DEF AskingFallback
  <2> QED
    BY <1>1, <2>2, <2>3, <2>4, <2>5, <2>6 DEF RequestInv
<1>4. CASE AskingFirst(c)
  <2>1. PICK p \in Router!Profiles :
           /\ asked[c].profiles = <<RoleProfile(c), p>>
           /\ asked[c].tried = {RoleProfile(c)}
           /\ Router!ConfiguredFor(asked[c].role) = {RoleProfile(c), p}
    BY <1>4 DEF AskingFirst
  <2>2. Tail(asked[c].profiles) = <<p>>
    BY <2>1
  <2>3. asked'[c] = [asked[c] EXCEPT !.pc = "asking", !.profiles = <<p>>,
                                     !.tried = @ \cup {p}]
    <3>1. Tail(asked[c].profiles) # <<>> /\ Head(<<p>>) = p
      BY SMTT(30), <2>2
    <3> DEFINE rest == Tail(asked[c].profiles)
    <3>2. asked'[c] = [asked[c] EXCEPT !.pc = "asking", !.profiles = rest,
                                       !.tried = @ \cup {Head(rest)}]
      BY <3>1 DEF Router!AttemptFails, RouterInv
    <3> QED
      BY <2>2, <3>1, <3>2
  <2>4. /\ asked'[c] \in Shape
        /\ asked'[c].profiles = <<p>> /\ asked'[c].tried = {RoleProfile(c), p}
        /\ asked'[c].role = asked[c].role
    <3>1. <<p>> \in Seq(Router!Profiles)
      OBVIOUS
    <3>2. {RoleProfile(c), p} \subseteq Router!Profiles
      BY <1>1, <2>1
    <3>3. asked'[c] = [asked[c] EXCEPT !.pc = "asking", !.profiles = <<p>>,
                                       !.tried = {RoleProfile(c), p}]
      BY <2>1, <2>3
    <3>4. PICK ps \in Seq(Router!Profiles) : ps = <<p>>
      BY <3>1
    <3>5. PICK t \in SUBSET Router!Profiles : t = {RoleProfile(c), p}
      BY <3>2
    <3>6. asked'[c] = [asked[c] EXCEPT !.pc = "asking", !.profiles = ps, !.tried = t]
      BY <3>3, <3>4, <3>5
    <3>7. asked[c] \in Shape
      BY <1>1
    <3>8. asked'[c] \in Shape /\ asked'[c].role = asked[c].role
      BY ONLY <3>6, <3>7 DEF Shape
    <3>9. asked'[c].profiles = ps /\ asked'[c].tried = t
      BY ONLY <3>6, <3>7 DEF Shape
    <3> QED
      BY <3>4, <3>5, <3>8, <3>9
  <2>5. /\ RoleProfile(c)' = RoleProfile(c)
        /\ Router!ConfiguredFor(asked[c].role)' = Router!ConfiguredFor(asked[c].role)
    BY <1>2, <2>4 DEF RoleProfile, Router!ConfiguredFor
  <2>6. AskingFallback(c)'
    BY <2>1, <2>4, <2>5 DEF AskingFallback
  <2>7. AskingOnly(c)' => Router!ConfiguredFor(asked[c].role)' = {RoleProfile(c)'}
    BY <2>1, <2>4, <2>5 DEF AskingOnly
  <2> QED
    BY <2>4, <2>6, <2>7 DEF RequestInv
<1>5. AskingOnly(c) => RoleProfile(c) \in Router!Profiles
  BY <1>1 DEF AskingOnly
<1> QED
  BY <1>1, <1>3, <1>4, <1>5 DEF AskingOnly, AskingFallback

(* Other steps of a request leave what it asks for.                        *)
LEMMA RequestAnswered ==
    ASSUME Router!RouterAssumption, RouterInv, NEW c \in Calls,
           \/ Router!Worked(c) \/ Router!Cancelled(c)
           \/ \E told \in BOOLEAN : Router!Returned(c, told)
    PROVE  RequestInv(c)'
<1> USE DEF Shape
<1>1. asked[c].pc \in {"asking", "answered"}
  BY DEF Router!Worked, Router!Cancelled, Router!Returned
<1>2. /\ asked[c] \in Shape
      /\ AskingOnly(c) \/ AskingFallback(c) \/ AskingFirst(c)
      /\ AskingOnly(c) /\ ~asked[c].stream =>
            Router!ConfiguredFor(asked[c].role) = {RoleProfile(c)}
  BY <1>1 DEF RouterInv, RequestInv
<1>3. Head(asked[c].profiles) \in Router!Profiles
  <2>1. AskingOnly(c) => RoleProfile(c) \in Router!Profiles
    BY <1>2 DEF AskingOnly
  <2>2. AskingFirst(c) => RoleProfile(c) \in Router!Profiles
    BY <1>2 DEF AskingFirst
  <2> QED
    BY <1>2, <2>1, <2>2 DEF AskingOnly, AskingFirst, AskingFallback
<1>4. /\ asked'[c] \in Shape /\ asked'[c].pc # "failed"
      /\ asked'[c].profiles = asked[c].profiles /\ asked'[c].tried = asked[c].tried
      /\ asked'[c].role = asked[c].role /\ asked'[c].stream = asked[c].stream
  <2>1. CASE Router!Worked(c)
    <3>1. Router!Current(c).provider \in Providers
      BY <1>3 DEF Router!Current, Router!Profiles
    <3>2. asked[c].billed + Prices[Router!Current(c).provider] \in Nat
      BY <1>2, <3>1 DEF Router!RouterAssumption
    <3> QED
      BY <1>2, <2>1, <3>2 DEF Router!Worked, RouterInv
  <2>2. CASE Router!Cancelled(c)
    BY <1>2, <2>2 DEF Router!Cancelled, RouterInv
  <2>3. CASE \E told \in BOOLEAN : Router!Returned(c, told)
    <3>1. PICK told \in BOOLEAN : Router!Returned(c, told)
      BY <2>3
    <3>2. \A m \in Router!Models : m \in DOMAIN Router!COST_TABLE => Router!COST_TABLE[m] \in Nat
      BY DEF Router!COST_TABLE, Router!Models, Router!RouterAssumption
    <3>3. Router!Current(c).model \in Router!Models
      BY <1>3 DEF Router!Current, Router!Profiles
    <3>4. Router!EstimateCost(Router!Current(c).model, told) \in Nat
      BY <3>2, <3>3 DEF Router!EstimateCost
    <3> QED
      BY <1>2, <3>1, <3>4 DEF Router!Returned, RouterInv
  <2> QED
    BY <2>1, <2>2, <2>3
<1>5. configured' = configured
  BY DEF Router!Worked, Router!Cancelled, Router!Returned
<1>6. /\ RoleProfile(c)' = RoleProfile(c)
      /\ Router!ConfiguredFor(asked[c].role)' = Router!ConfiguredFor(asked[c].role)
  BY <1>4, <1>5 DEF RoleProfile, Router!ConfiguredFor
<1>7. /\ AskingOnly(c)' <=> AskingOnly(c)
      /\ AskingFallback(c) => AskingFallback(c)'
      /\ AskingFirst(c) => AskingFirst(c)'
  BY <1>4, <1>6 DEF AskingOnly, AskingFallback, AskingFirst
<1> QED
  BY <1>2, <1>4, <1>6, <1>7 DEF RequestInv

(* A step of one request is no step of another.                            *)
LEMMA OthersKept ==
    ASSUME RouterInv, configured' = configured, NEW c \in Calls, NEW d \in Calls,
           asked'[d] = asked[d]
    PROVE  RequestInv(d)'
<1>1. /\ RoleProfile(d)' = RoleProfile(d)
      /\ Router!ConfiguredFor(asked[d].role)' = Router!ConfiguredFor(asked[d].role)
  BY DEF RoleProfile, Router!ConfiguredFor
<1>2. RequestInv(d)
  BY DEF RouterInv
<1> QED
  BY <1>1, <1>2 DEF RequestInv, AskingOnly, AskingFallback, AskingFirst

(* Every step of the router keeps its invariant.                           *)
LEMMA RouterStep ==
    ASSUME Router!RouterAssumption, RouterInv, [Router!Next]_(Router!vars)
    PROVE  RouterInv'
<1>1. CASE UNCHANGED Router!vars
  <2>1. UNCHANGED <<settings, configured, asked>>
    BY <1>1 DEF Router!vars
  <2>2. \A d \in Calls : RequestInv(d)'
    BY <2>1, OthersKept
  <2> QED
    BY <2>1, <2>2 DEF RouterInv
<1>2. CASE Router!Next
  <2> USE <1>2
  <2>1. PICK c \in Calls :
          \/ \E r \in Roles : Router!Generate(c, r) \/ Router!GenerateStream(c, r)
          \/ asked[c].pc \in {"asking", "answered"} /\ Router!AttemptFails(c)
          \/ Router!Worked(c) \/ Router!Cancelled(c)
          \/ \E told \in BOOLEAN : Router!Returned(c, told)
    BY DEF Router!Next, Router!NoKey, Router!Rejected, Router!Lost
  <2>2. settings' = settings /\ RequestInv(c)'
    <3>1. CASE \E r \in Roles : Router!Generate(c, r) \/ Router!GenerateStream(c, r)
      BY <3>1, RequestBegins
    <3>2. CASE asked[c].pc \in {"asking", "answered"} /\ Router!AttemptFails(c)
      <4>1. RequestInv(c)'
        BY <3>2, RefusalGoesOn
      <4> QED
        BY <3>2, <4>1 DEF Router!AttemptFails
    <3>3. CASE \/ Router!Worked(c) \/ Router!Cancelled(c)
               \/ \E told \in BOOLEAN : Router!Returned(c, told)
      <4>1. RequestInv(c)'
        BY <3>3, RequestAnswered
      <4> QED
        BY <3>3, <4>1 DEF Router!Worked, Router!Cancelled, Router!Returned
    <3> QED
      BY <2>1, <3>1, <3>2, <3>3
  <2>3. /\ configured' = configured
        /\ asked' = [asked EXCEPT ![c] = asked'[c]]
    BY <2>1 DEF Router!Generate, Router!GenerateStream, Router!AttemptFails, Router!Worked,
        Router!Cancelled, Router!Returned, RouterInv
  <2>4. asked' = [d \in Calls |-> asked'[d]] /\ \A d \in Calls \ {c} : asked'[d] = asked[d]
    BY <2>3 DEF RouterInv
  <2>5. \A d \in Calls \ {c} : RequestInv(d)'
    BY <2>3, <2>4, OthersKept
  <2> QED
    BY <2>2, <2>3, <2>4, <2>5 DEF RouterInv
<1> QED
  BY <1>1, <1>2

(* The fallback is the last resort, and it is one (llm.py:290-330): a      *)
(* request fails only after all that is configured for its role was asked, *)
(* and nobody answers unless the role's own provider was asked, however    *)
(* the requests of the process interleave.                                 *)
THEOREM RouterFallsBackLast == Router!Spec => []FallbackIsLastResort
<1>1. Router!RouterAssumption
  BY ServicesAssumption
<1>2. Router!Init => RouterInv
  BY DEF Router!Init, RouterInv, RequestInv, Router!Unused
<1>3. RouterInv => FallbackIsLastResort
  <2> SUFFICES ASSUME RouterInv, NEW c \in Calls
               PROVE  /\ asked[c].pc = "failed" /\ ~asked[c].stream =>
                           asked[c].tried = Router!ConfiguredFor(asked[c].role)
                      /\ asked[c].pc \in {"answered", "returned"} =>
                           RoleProfile(c) \in asked[c].tried
    BY DEF FallbackIsLastResort, Router!FallbackIsLastResort, RoleProfile
  <2> QED
    BY DEF RouterInv, RequestInv, AskingOnly, AskingFallback, AskingFirst
<1> QED
  BY <1>1, <1>2, <1>3, RouterStep, PTL DEF Router!Spec

-----------------------------------------------------------------------------
(***************************************************************************)
(* The knowledge service.  A point of a collection is in Qdrant as long as *)
(* its ingest is recorded as completed, because a delete of its collection *)
(* tears the ingests it overlaps; what a delete took away stays away,      *)
(* because it spares the points that may come back behind it.              *)
(***************************************************************************)
Ingest == [pc : Knowledge!Ingesting, proc : Procs, coll : Collections,
           point : Knowledge!Points, size : Sizes, ok : BOOLEAN, torn : BOOLEAN]

Delete == [pc : Knowledge!Deleting, proc : Procs, coll : Collections, ok : BOOLEAN,
           spare : SUBSET Knowledge!Points]

Ingests(k) == req[k].pc \in Knowledge!Ingesting

Deletes(k) == req[k].pc \in Knowledge!Deleting

Coll(pt) == CollectionOf[pt.domain]

(* What Qdrant holds.                                                      *)
Held(c) == IF qdrant[c].exists THEN qdrant[c].points ELSE {}

RequestsTyped ==
    /\ req = [k \in Clients |-> req[k]]
    /\ \A k \in Clients :
          \/ req[k] = Knowledge!Idle
          \/ req[k] \in Ingest /\ req[k].coll = Coll(req[k].point)
          \/ req[k] \in Delete

StoresTyped ==
    /\ reachable \in BOOLEAN
    /\ qdrant = [c \in Collections |-> qdrant[c]]
    /\ \A c \in Collections :
          \/ qdrant[c] = Knowledge!NoCollection
          \/ qdrant[c] \in [exists : {TRUE}, size : Sizes,
                            points : SUBSET Knowledge!InCollection(c)]
    /\ bm25 \in [Procs -> [Collections -> SUBSET Knowledge!Points]]
    /\ \A p \in Procs, c \in Collections : bm25[p][c] \subseteq Knowledge!InCollection(c)
    /\ durable \subseteq Knowledge!Points
    /\ gone \in [Procs -> SUBSET Knowledge!Points]

(* A completed document is in Qdrant, and so is one about to be completed. *)
DurableHeld == \A pt \in durable : pt \in Held(Coll(pt))

UpsertedHeld ==
    \A k \in Clients :
        /\ req[k].pc \in {"ensure", "create", "upsert"} => ~req[k].ok
        /\ req[k].pc = "index" /\ req[k].ok /\ ~req[k].torn =>
               req[k].point \in Held(req[k].coll)

(* While a delete is in flight, what it may take away is neither counted   *)
(* on nor will be.                                                         *)
DeleteTears ==
    \A k \in Clients : Deletes(k) =>
        /\ \A j \in Clients : Ingests(j) /\ req[j].coll = req[k].coll => req[j].torn
        /\ durable \cap Knowledge!InCollection(req[k].coll) = {}

(* ... and what may come back behind it is spared.                         *)
DeleteSpares ==
    \A k \in Clients : Deletes(k) =>
        /\ \A j \in Clients : Ingests(j) => req[j].point \in req[k].spare
        /\ req[k].pc = "clear" /\ req[k].ok => Held(req[k].coll) \subseteq req[k].spare

(* What is gone is nowhere the process looks, nor on its way there.        *)
GoneNowhere ==
    \A p \in Procs : \A pt \in gone[p] :
        /\ pt \notin Held(Coll(pt)) /\ pt \notin bm25[p][Coll(pt)]
        /\ \A j \in Clients : Ingests(j) => req[j].point # pt

KnowledgeInv ==
    /\ RequestsTyped /\ StoresTyped
    /\ DurableHeld /\ UpsertedHeld
    /\ DeleteTears /\ DeleteSpares /\ GoneNowhere

(* What the types say of a point and of a request in flight.               *)
LEMMA CollOfPoint == \A pt \in Knowledge!Points : Coll(pt) \in Collections
  BY ServicesAssumption DEF Knowledge!NamesAreMapped, Knowledge!Points, Coll

(* What the requests in flight carry.                                      *)
LEMMA InFlightTyped ==
    ASSUME RequestsTyped
    PROVE  /\ \A j \in Clients : Ingests(j) =>
                /\ req[j] \in Ingest /\ req[j].proc \in Procs
                /\ req[j].point \in Knowledge!Points
                /\ req[j].coll \in Collections /\ req[j].coll = Coll(req[j].point)
           /\ \A j \in Clients : Deletes(j) =>
                /\ req[j] \in Delete /\ req[j].proc \in Procs
                /\ req[j].coll \in Collections
  BY DEF RequestsTyped, Ingests, Deletes, Ingest, Delete, Knowledge!Ingesting,
      Knowledge!Deleting, Knowledge!Idle

(* A step of one ingest that keeps its collection, its document and        *)
(* whether it is torn.                                                     *)
IngestStep(k) ==
    /\ Ingests(k)
    /\ \A j \in Clients \ {k} : req'[j] = req[j]
    /\ \/ /\ req'[k] \in Ingest
          /\ req'[k].coll = req[k].coll /\ req'[k].point = req[k].point
          /\ req'[k].torn = req[k].torn
       \/ req'[k] = Knowledge!Idle

(* A step of an ingestion neither begins nor changes another request.      *)
LEMMA IngestKept ==
    ASSUME KnowledgeInv, NEW k \in Clients, IngestStep(k),
           req' = [j \in Clients |-> req'[j]]
    PROVE  /\ RequestsTyped'
           /\ \A j \in Clients : Ingests(j)' =>
                 Ingests(j) /\ req'[j].coll = req[j].coll /\ req'[j].point = req[j].point
                            /\ req'[j].torn = req[j].torn
           /\ \A j \in Clients : Deletes(j)' => Deletes(j) /\ req'[j] = req[j]
<1> USE DEF Knowledge!Ingesting, Knowledge!Deleting, Knowledge!Idle
<1>1. req[k] \in Ingest /\ req[k].coll = Coll(req[k].point)
  BY DEF KnowledgeInv, RequestsTyped, IngestStep, Ingests, Delete
<1>2. RequestsTyped'
  BY <1>1 DEF KnowledgeInv, RequestsTyped, IngestStep, Coll
<1> QED
  BY <1>1, <1>2 DEF IngestStep, Ingests, Deletes, Ingest

(* get_collection and create_collection change no points.                  *)
LEMMA EnsureKeepsKnowledge ==
    ASSUME KnowledgeInv, NEW k \in Clients, Knowledge!EnsureGet(k) \/ Knowledge!EnsureCreate(k)
    PROVE  KnowledgeInv'
<1> USE DEF Knowledge!Ingesting, Knowledge!Deleting, Knowledge!Idle
<1>1. /\ req[k] \in Ingest /\ req[k].pc \in {"ensure", "create"}
      /\ req[k].coll \in Collections /\ ~req[k].ok
  BY DEF KnowledgeInv, RequestsTyped, UpsertedHeld, Delete, Ingest,
      Knowledge!EnsureGet, Knowledge!EnsureCreate
<1>2. /\ \E pc \in {"create", "upsert", "index"} : req' = [req EXCEPT ![k].pc = pc]
      /\ UNCHANGED <<reachable, bm25, durable, gone>>
  BY DEF Knowledge!EnsureGet, Knowledge!EnsureCreate
<1>3. req' = [j \in Clients |-> req'[j]] /\ IngestStep(k) /\ ~req'[k].ok
  BY <1>1, <1>2 DEF KnowledgeInv, RequestsTyped, IngestStep, Ingests, Ingest
<1>4. /\ RequestsTyped'
      /\ \A j \in Clients : Ingests(j)' =>
            Ingests(j) /\ req'[j].coll = req[j].coll /\ req'[j].point = req[j].point
                       /\ req'[j].torn = req[j].torn
      /\ \A j \in Clients : Deletes(j)' => Deletes(j) /\ req'[j] = req[j]
  BY <1>3, IngestKept
<1>5. /\ qdrant' = [c \in Collections |-> qdrant'[c]]
      /\ \A c \in Collections :
            /\ Held(c)' = Held(c)
            /\ \/ qdrant'[c] = Knowledge!NoCollection
               \/ qdrant'[c] \in [exists : {TRUE}, size : Sizes,
                                   points : SUBSET Knowledge!InCollection(c)]
  <2>1. CASE qdrant' = qdrant
    BY <2>1 DEF KnowledgeInv, StoresTyped, Held
  <2>2. CASE /\ ~qdrant[req[k].coll].exists
             /\ qdrant' = [qdrant EXCEPT ![req[k].coll] =
                             Knowledge!Existing(req[k].size, {})]
    BY <1>1, <2>2 DEF KnowledgeInv, StoresTyped, Knowledge!NoCollection,
        Knowledge!Existing, Held, Ingest
  <2> QED
    BY <2>1, <2>2 DEF Knowledge!EnsureGet, Knowledge!EnsureCreate
<1>6. StoresTyped'
  BY <1>2, <1>5 DEF KnowledgeInv, StoresTyped
<1>7. DurableHeld' /\ GoneNowhere'
  <2>1. \A pt \in Knowledge!Points : Held(Coll(pt))' = Held(Coll(pt))
    BY <1>5, CollOfPoint DEF Coll
  <2>2. DurableHeld'
    BY <1>2, <2>1 DEF KnowledgeInv, StoresTyped, DurableHeld
  <2>3. GoneNowhere'
    BY <1>2, <1>4, <2>1 DEF KnowledgeInv, StoresTyped, GoneNowhere, Coll
  <2> QED
    BY <2>2, <2>3
<1>8. UpsertedHeld'
  <2>1. \A j \in Clients \ {k} : req'[j] = req[j]
    BY <1>3 DEF IngestStep
  <2>2. SUFFICES ASSUME NEW j \in Clients \ {k}
                 PROVE  /\ req[j].pc \in {"ensure", "create", "upsert"} => ~req[j].ok
                        /\ req[j].pc = "index" /\ req[j].ok /\ ~req[j].torn =>
                              req[j].point \in Held(req[j].coll)'
    BY <1>3, <2>1 DEF UpsertedHeld, Held
  <2>3. Ingests(j) => req[j].coll \in Collections
    BY InFlightTyped DEF KnowledgeInv
  <2> QED
    BY <1>5, <2>1, <2>3 DEF KnowledgeInv, UpsertedHeld, Ingests, Held
<1>9. DeleteTears' /\ DeleteSpares'
  <2>1. DeleteTears'
    BY <1>2, <1>4 DEF KnowledgeInv, DeleteTears
  <2>2. DeleteSpares'
    BY ZenonT(60), <1>4, <1>5, InFlightTyped DEF KnowledgeInv, DeleteSpares, Held
  <2> QED
    BY <2>1, <2>2
<1> QED
  BY <1>4, <1>6, <1>7, <1>8, <1>9 DEF KnowledgeInv

(* An upsert adds the points of its document, or fails.                    *)
LEMMA UpsertKeepsKnowledge ==
    ASSUME KnowledgeInv, NEW k \in Clients, NEW alike \in BOOLEAN, Knowledge!Upsert(k, alike)
    PROVE  KnowledgeInv'
<1> USE DEF Knowledge!Ingesting, Knowledge!Deleting, Knowledge!Idle
<1>0. PICK pt \in Knowledge!Points, c \in Collections :
        /\ pt = req[k].point /\ c = req[k].coll /\ c = Coll(pt)
        /\ req[k] \in Ingest /\ req[k].pc = "upsert"
  BY InFlightTyped DEF KnowledgeInv, Ingests, Knowledge!Upsert
<1>1. /\ req[k] \in Ingest /\ req[k].pc = "upsert" /\ Ingests(k)
      /\ pt = req[k].point /\ c = req[k].coll /\ c = Coll(pt)
  BY <1>0 DEF Ingests
<1>2. /\ \E b \in BOOLEAN : req' = [req EXCEPT ![k].pc = "index", ![k].ok = b]
      /\ UNCHANGED <<reachable, bm25, durable, gone>>
  BY DEF Knowledge!Upsert
<1>3. req' = [j \in Clients |-> req'[j]] /\ IngestStep(k)
  BY <1>1, <1>2 DEF KnowledgeInv, RequestsTyped, IngestStep, Ingests, Ingest
<1>4. /\ RequestsTyped'
      /\ \A j \in Clients : Ingests(j)' =>
            Ingests(j) /\ req'[j].coll = req[j].coll /\ req'[j].point = req[j].point
                       /\ req'[j].torn = req[j].torn
      /\ \A j \in Clients : Deletes(j)' => Deletes(j) /\ req'[j] = req[j]
  BY <1>3, IngestKept
<1>5. /\ qdrant' = [d \in Collections |-> qdrant'[d]]
      /\ \A d \in Collections :
            /\ Held(d) \subseteq Held(d)'
            /\ Held(d)' \subseteq IF d = c THEN Held(d) \cup {pt} ELSE Held(d)
            /\ \/ qdrant'[d] = Knowledge!NoCollection
               \/ qdrant'[d] \in [exists : {TRUE}, size : Sizes,
                                  points : SUBSET Knowledge!InCollection(d)]
      /\ req'[k].pc = "index" /\ (req'[k].ok => pt \in Held(c)')
  <2>1. CASE qdrant' = qdrant /\ ~req'[k].ok
    <3>1. req'[k].pc = "index"
      BY <1>1, <1>2 DEF KnowledgeInv, RequestsTyped, Ingest
    <3> QED
      BY <2>1, <3>1 DEF KnowledgeInv, StoresTyped, Held
  <2>2. CASE /\ qdrant[c].exists
             /\ qdrant' = [qdrant EXCEPT ![c].points = qdrant[c].points \cup {pt}]
    <3>1. qdrant[c] \in [exists : {TRUE}, size : Sizes,
                         points : SUBSET Knowledge!InCollection(c)]
      <4>1. qdrant[c] # Knowledge!NoCollection
        BY <2>2 DEF Knowledge!NoCollection
      <4> QED
        BY <1>1, <4>1 DEF KnowledgeInv, StoresTyped
    <3>2. pt \in Knowledge!InCollection(c)
      BY <1>1 DEF Knowledge!InCollection, Coll
    <3>3. /\ qdrant'[c] \in [exists : {TRUE}, size : Sizes,
                             points : SUBSET Knowledge!InCollection(c)]
          /\ qdrant'[c].points = qdrant[c].points \cup {pt}
          /\ \A d \in Collections \ {c} : qdrant'[d] = qdrant[d]
          /\ qdrant' = [d \in Collections |-> qdrant'[d]]
      BY <1>1, <2>2, <3>1, <3>2 DEF KnowledgeInv, StoresTyped
    <3>4. req'[k].pc = "index"
      BY <1>1, <1>2 DEF KnowledgeInv, RequestsTyped, Ingest
    <3>5. /\ Held(c) = qdrant[c].points /\ Held(c)' = Held(c) \cup {pt}
          /\ \A d \in Collections \ {c} : Held(d)' = Held(d)
      BY <2>2, <3>3 DEF Held
    <3>6. \A d \in Collections :
             \/ qdrant'[d] = Knowledge!NoCollection
             \/ qdrant'[d] \in [exists : {TRUE}, size : Sizes,
                                 points : SUBSET Knowledge!InCollection(d)]
      BY <3>3 DEF KnowledgeInv, StoresTyped
    <3> QED
      BY <3>3, <3>4, <3>5, <3>6
  <2> QED
    BY <1>1, <2>1, <2>2 DEF Knowledge!Upsert, KnowledgeInv, RequestsTyped, Ingest
<1>6. StoresTyped'
  BY <1>2, <1>5 DEF KnowledgeInv, StoresTyped
<1>7. DurableHeld'
  <2>1. \A q \in Knowledge!Points : Held(Coll(q)) \subseteq Held(Coll(q))'
    BY <1>5, CollOfPoint DEF Coll
  <2> QED
    BY <1>2, <2>1 DEF KnowledgeInv, StoresTyped, DurableHeld
<1>8. GoneNowhere'
  <2>1. \A q \in Knowledge!Points : q # pt => (q \in Held(Coll(q))' => q \in Held(Coll(q)))
    BY <1>5, CollOfPoint DEF Coll
  <2>2. \A p \in Procs : pt \notin gone[p]
    BY <1>1 DEF KnowledgeInv, GoneNowhere
  <2>3. SUFFICES ASSUME NEW p \in Procs, NEW q \in gone[p]
                 PROVE  /\ q \notin Held(Coll(q))' /\ q \notin bm25[p][Coll(q)]
                        /\ \A j \in Clients : Ingests(j)' => req'[j].point # q
    BY <1>2 DEF GoneNowhere, Coll
  <2>4. q \in Knowledge!Points /\ q # pt
    BY <2>2 DEF KnowledgeInv, StoresTyped
  <2> QED
    BY <1>4, <2>1, <2>4 DEF KnowledgeInv, GoneNowhere
<1>9. UpsertedHeld'
  <2>1. /\ \A j \in Clients \ {k} : req'[j] = req[j]
        /\ req'[k].coll = c /\ req'[k].point = pt
    BY <1>1, <1>3, <1>5 DEF IngestStep
  <2>0. req'[k].pc = "index" /\ (req'[k].ok => req'[k].point \in Held(req[k].coll)')
    BY <1>5, <2>1 DEF Held
  <2>2. SUFFICES ASSUME NEW j \in Clients \ {k}
                 PROVE  /\ req[j].pc \in {"ensure", "create", "upsert"} => ~req[j].ok
                        /\ req[j].pc = "index" /\ req[j].ok /\ ~req[j].torn =>
                              req[j].point \in Held(req[j].coll)'
    BY <2>0, <2>1 DEF UpsertedHeld, Held
  <2>3. Ingests(j) => req[j].coll \in Collections
    BY InFlightTyped DEF KnowledgeInv
  <2> QED
    BY <1>5, <2>1, <2>3 DEF KnowledgeInv, UpsertedHeld, Ingests, Held
<1>10. DeleteTears' /\ DeleteSpares'
  <2>1. DeleteTears'
    <3>1. \A j, i \in Clients :
             Deletes(j) /\ Ingests(i) /\ req[i].coll = req[j].coll => req[i].torn
      BY DEF KnowledgeInv, DeleteTears
    <3>2. \A j \in Clients : Deletes(j) =>
             durable \cap Knowledge!InCollection(req[j].coll) = {}
      BY DEF KnowledgeInv, DeleteTears
    <3> QED
      BY <1>2, <1>4, <3>1, <3>2 DEF DeleteTears
  <2>2. \A j \in Clients : Deletes(j) => pt \in req[j].spare /\ req[j].coll \in Collections
    BY <1>1, InFlightTyped DEF KnowledgeInv, DeleteSpares
  <2>3. DeleteSpares'
    <3>1. SUFFICES ASSUME NEW j \in Clients, Deletes(j)'
                   PROVE  /\ \A i \in Clients : Ingests(i)' => req'[i].point \in req'[j].spare
                          /\ req'[j].pc = "clear" /\ req'[j].ok =>
                                Held(req[j].coll)' \subseteq req'[j].spare
      BY DEF DeleteSpares
    <3>2. Deletes(j) /\ req'[j] = req[j]
      BY <1>4, <3>1
    <3>3. req[j].pc = "clear" /\ req[j].ok => Held(req[j].coll) \subseteq req[j].spare
      BY <3>2 DEF KnowledgeInv, DeleteSpares
    <3>4. req[j].coll \in Collections /\ pt \in req[j].spare
      BY <2>2, <3>2
    <3>5. \A d \in Collections :
             d = req[j].coll => Held(d)' \subseteq Held(d) \cup {pt}
      BY <1>5
    <3> QED
      BY <1>4, <3>2, <3>3, <3>4, <3>5 DEF KnowledgeInv, DeleteSpares, Held
  <2> QED
    BY <2>1, <2>3
<1> QED
  BY <1>4, <1>6, <1>7, <1>8, <1>9, <1>10 DEF KnowledgeInv

(* The end of an ingest: the document is in this process's index.          *)
LEMMA IngestDoneKeepsKnowledge ==
    ASSUME KnowledgeInv, NEW k \in Clients, Knowledge!IngestDone(k)
    PROVE  KnowledgeInv'
<1> USE DEF Knowledge!Ingesting, Knowledge!Deleting, Knowledge!Idle
<1>0. PICK pt \in Knowledge!Points, c \in Collections, p \in Procs :
        /\ pt = req[k].point /\ c = req[k].coll /\ c = Coll(pt) /\ p = req[k].proc
        /\ req[k] \in Ingest /\ req[k].pc = "index"
  BY InFlightTyped DEF KnowledgeInv, Ingests, Knowledge!IngestDone
<1>1. /\ req[k] \in Ingest /\ req[k].pc = "index" /\ Ingests(k)
      /\ pt = req[k].point /\ c = req[k].coll /\ c = Coll(pt) /\ p = req[k].proc
  BY <1>0 DEF Ingests
<1>2. /\ req' = [req EXCEPT ![k] = Knowledge!Idle]
      /\ UNCHANGED <<qdrant, reachable, gone>>
      /\ durable' = durable \/ (durable' = durable \cup {pt} /\ ~req[k].torn /\ req[k].ok)
      /\ bm25' = [bm25 EXCEPT ![p][c] = bm25[p][c] \cup {pt}]
  BY <1>1 DEF Knowledge!IngestDone, Knowledge!Completed
<1>3. req' = [j \in Clients |-> req'[j]] /\ IngestStep(k) /\ req'[k] = Knowledge!Idle
  BY <1>1, <1>2 DEF KnowledgeInv, RequestsTyped, IngestStep
<1>4. /\ RequestsTyped'
      /\ \A j \in Clients : Ingests(j)' =>
            Ingests(j) /\ req'[j].coll = req[j].coll /\ req'[j].point = req[j].point
                       /\ req'[j].torn = req[j].torn
      /\ \A j \in Clients : Deletes(j)' => Deletes(j) /\ req'[j] = req[j]
  BY <1>3, IngestKept
<1>5. pt \in Knowledge!InCollection(c)
  BY <1>1 DEF Knowledge!InCollection, Coll
<1>6. /\ bm25' \in [Procs -> [Collections -> SUBSET Knowledge!Points]]
      /\ \A q \in Procs, d \in Collections :
            bm25'[q][d] = IF q = p /\ d = c THEN bm25[p][c] \cup {pt} ELSE bm25[q][d]
  BY <1>1, <1>2 DEF KnowledgeInv, StoresTyped
<1>7. StoresTyped'
  <2>1. \A q \in Procs, d \in Collections : bm25'[q][d] \subseteq Knowledge!InCollection(d)
    BY <1>5, <1>6 DEF KnowledgeInv, StoresTyped
  <2>2. durable' \subseteq Knowledge!Points
    BY <1>2 DEF KnowledgeInv, StoresTyped
  <2> QED
    BY <1>2, <1>6, <2>1, <2>2 DEF KnowledgeInv, StoresTyped
<1>8. DurableHeld' /\ UpsertedHeld'
  <2>1. ~req[k].torn /\ req[k].ok => pt \in Held(Coll(pt))
    BY <1>1 DEF KnowledgeInv, UpsertedHeld
  <2>2. DurableHeld'
    BY <1>2, <2>1 DEF KnowledgeInv, DurableHeld, Held, Coll
  <2>3. UpsertedHeld'
    BY <1>2, <1>3 DEF KnowledgeInv, UpsertedHeld, Held, RequestsTyped
  <2> QED
    BY <2>2, <2>3
<1>9. DeleteTears'
  <2>1. SUFFICES ASSUME NEW j \in Clients, Deletes(j)'
                 PROVE  /\ \A i \in Clients : Ingests(i)' /\ req'[i].coll = req'[j].coll => req'[i].torn
                        /\ durable' \cap Knowledge!InCollection(req'[j].coll) = {}
    BY DEF DeleteTears, Knowledge!InCollection
  <2>2. Deletes(j) /\ req'[j] = req[j]
    BY <1>4, <2>1
  <2>3. /\ \A i \in Clients : Ingests(i) /\ req[i].coll = req[j].coll => req[i].torn
        /\ durable \cap Knowledge!InCollection(req[j].coll) = {}
    BY <2>2 DEF KnowledgeInv, DeleteTears
  <2>4. ~req[k].torn => pt \notin Knowledge!InCollection(req[j].coll)
    BY <1>1, <2>3 DEF Knowledge!InCollection, Coll
  <2> QED
    BY <1>2, <1>4, <2>2, <2>3, <2>4
<1>10. DeleteSpares'
  BY <1>2, <1>4 DEF KnowledgeInv, DeleteSpares, Held
<1>11. GoneNowhere'
  <2>1. SUFFICES ASSUME NEW r \in Procs, NEW q \in gone[r]
                 PROVE  /\ q \notin Held(Coll(q)) /\ q \notin bm25'[r][Coll(q)]
                        /\ \A j \in Clients : Ingests(j)' => req'[j].point # q
    BY <1>2 DEF GoneNowhere, Coll, Held
  <2>2. /\ q \notin Held(Coll(q)) /\ q \notin bm25[r][Coll(q)]
        /\ \A j \in Clients : Ingests(j) => req[j].point # q
    BY DEF KnowledgeInv, GoneNowhere
  <2>3. q # pt /\ Coll(q) \in Collections
    BY <1>1, <2>2, CollOfPoint DEF KnowledgeInv, StoresTyped
  <2> QED
    BY <1>4, <1>6, <2>2, <2>3
<1> QED
  BY <1>4, <1>7, <1>8, <1>9, <1>10, <1>11 DEF KnowledgeInv

(* The start of a delete tears the ingests of its collection and spares    *)
(* what is on its way to any.                                              *)
LEMMA DeleteStartKeepsKnowledge ==
    ASSUME KnowledgeInv, NEW k \in Clients, NEW p \in Procs, NEW d \in Domains,
           Knowledge!DeleteStart(k, p, d)
    PROVE  KnowledgeInv'
<1> USE DEF Knowledge!Ingesting, Knowledge!Deleting, Knowledge!Idle
<1> DEFINE c == CollectionOf[d]
<1>1. c \in Collections /\ req[k].pc = "idle"
  BY ServicesAssumption DEF Knowledge!NamesAreMapped, Knowledge!DeleteStart
<1>2. /\ durable' = durable \ Knowledge!InCollection(c)
      /\ UNCHANGED <<qdrant, reachable, bm25, gone>>
  BY DEF Knowledge!DeleteStart
<1>3. PICK spared : spared = {req[i].point : i \in {i \in Clients : req[i].pc \in Knowledge!Ingesting}}
  OBVIOUS
<1>4. req' = [j \in Clients |->
                 IF j = k
                 THEN [pc |-> "delete", proc |-> p, coll |-> c, ok |-> FALSE,
                       spare |-> spared]
                 ELSE IF req[j].pc \in Knowledge!Ingesting /\ req[j].coll = c
                      THEN [req[j] EXCEPT !.torn = TRUE]
                      ELSE req[j]]
  BY <1>3 DEF Knowledge!DeleteStart
<1>5. /\ spared \subseteq Knowledge!Points
      /\ \A j \in Clients : Ingests(j) => req[j].point \in spared
  BY <1>3, InFlightTyped DEF KnowledgeInv, Ingests
<1>6. /\ req'[k] \in Delete /\ req'[k].pc = "delete" /\ req'[k].coll = c
      /\ req'[k].spare = spared
  BY <1>1, <1>4, <1>5 DEF Delete
<1>7. \A j \in Clients \ {k} : Ingests(j) =>
        /\ req'[j] \in Ingest /\ req'[j].pc = req[j].pc /\ req'[j].coll = req[j].coll
        /\ req'[j].point = req[j].point /\ req'[j].ok = req[j].ok
        /\ req'[j].torn = (req[j].torn \/ req[j].coll = c)
  BY ZenonT(60), <1>4, InFlightTyped DEF KnowledgeInv, Ingests, Ingest
<1>8. \A j \in Clients \ {k} : ~Ingests(j) => req'[j] = req[j]
  BY <1>4 DEF Ingests
<1>9. RequestsTyped'
  <2>1. req' = [j \in Clients |-> req'[j]]
    BY <1>4
  <2>2. \A j \in Clients \ {k} : Ingests(j) => req'[j].coll = Coll(req'[j].point)
    BY <1>7, InFlightTyped DEF KnowledgeInv
  <2>3. \A j \in Clients \ {k} : ~Ingests(j) =>
           req'[j] = Knowledge!Idle \/ req'[j] \in Delete
    BY <1>8 DEF KnowledgeInv, RequestsTyped, Ingests, Ingest
  <2> QED
    BY <1>6, <1>7, <2>1, <2>2, <2>3 DEF RequestsTyped, Coll
<1>10. StoresTyped' /\ DurableHeld'
  <2>1. StoresTyped'
    BY <1>2 DEF KnowledgeInv, StoresTyped
  <2>2. DurableHeld'
    BY <1>2 DEF KnowledgeInv, DurableHeld, Held, Coll
  <2> QED
    BY <2>1, <2>2
<1>11. \A j \in Clients : Ingests(j)' => j # k /\ Ingests(j)
  BY <1>6, <1>7, <1>8 DEF Ingests
<1>12. \A j \in Clients : Deletes(j)' => j = k \/ (Deletes(j) /\ req'[j] = req[j])
  BY <1>7, <1>8 DEF Ingests, Deletes
<1>13. UpsertedHeld'
  <2>1. SUFFICES ASSUME NEW j \in Clients, Ingests(j)'
                 PROVE  /\ req'[j].pc \in {"ensure", "create", "upsert"} => ~req'[j].ok
                        /\ req'[j].pc = "index" /\ req'[j].ok /\ ~req'[j].torn =>
                              req'[j].point \in Held(req'[j].coll)
    BY <1>2 DEF UpsertedHeld, Held, Ingests
  <2> QED
    BY <1>7, <1>11, <2>1 DEF KnowledgeInv, UpsertedHeld
<1>14. DeleteTears'
  <2>1. SUFFICES ASSUME NEW j \in Clients, Deletes(j)'
                 PROVE  /\ \A i \in Clients : Ingests(i)' /\ req'[i].coll = req'[j].coll => req'[i].torn
                        /\ durable' \cap Knowledge!InCollection(req'[j].coll) = {}
    BY DEF DeleteTears, Knowledge!InCollection
  <2>2. CASE j = k
    BY <1>2, <1>6, <1>7, <1>11, <2>2
  <2>3. CASE Deletes(j) /\ req'[j] = req[j]
    <3>1. durable' \cap Knowledge!InCollection(req[j].coll) = {}
      BY <1>2, <2>3 DEF KnowledgeInv, DeleteTears
    <3>2. \A i \in Clients : Ingests(i) /\ req[i].coll = req[j].coll => req[i].torn
      BY <2>3 DEF KnowledgeInv, DeleteTears
    <3> QED
      BY <1>7, <1>11, <2>3, <3>1, <3>2
  <2> QED
    BY <1>12, <2>1, <2>2, <2>3
<1>15. DeleteSpares'
  <2>1. SUFFICES ASSUME NEW j \in Clients, Deletes(j)'
                 PROVE  /\ \A i \in Clients : Ingests(i)' => req'[i].point \in req'[j].spare
                        /\ req'[j].pc = "clear" /\ req'[j].ok =>
                              Held(req'[j].coll) \subseteq req'[j].spare
    BY <1>2 DEF DeleteSpares, Held
  <2>2. CASE j = k
    BY <1>5, <1>6, <1>7, <1>11, <2>2
  <2>3. CASE Deletes(j) /\ req'[j] = req[j]
    BY <1>7, <1>11, <2>3 DEF KnowledgeInv, DeleteSpares
  <2> QED
    BY <1>12, <2>1, <2>2, <2>3
<1>16. GoneNowhere'
  BY <1>2, <1>7, <1>11 DEF KnowledgeInv, GoneNowhere, Held, Coll
<1> QED
  BY <1>9, <1>10, <1>13, <1>14, <1>15, <1>16 DEF KnowledgeInv

(* The start of an ingest: what it will store is gone no longer, and every *)
(* delete in flight spares it.                                             *)
LEMMA IngestStartKeepsKnowledge ==
    ASSUME KnowledgeInv, NEW k \in Clients, NEW p \in Procs, NEW pt \in Knowledge!Points,
           NEW s \in Sizes, Knowledge!IngestStart(k, p, pt, s)
    PROVE  KnowledgeInv'
<1> USE DEF Knowledge!Ingesting, Knowledge!Deleting, Knowledge!Idle
<1> DEFINE c == CollectionOf[pt.domain]
<1>1. c \in Collections /\ req[k].pc = "idle" /\ c = Coll(pt)
  BY CollOfPoint DEF Coll, Knowledge!IngestStart
<1>2. /\ durable' = durable \ {pt} /\ gone' = [q \in Procs |-> gone[q] \ {pt}]
      /\ UNCHANGED <<qdrant, reachable, bm25>>
  BY DEF Knowledge!IngestStart
<1>3. PICK t \in BOOLEAN : t = Knowledge!InFlight(Knowledge!Deleting, c)
  BY DEF Knowledge!InFlight
<1>4. req' = [j \in Clients |->
                 IF j = k
                 THEN [pc |-> "ensure", proc |-> p, coll |-> c, point |-> pt,
                       size |-> s, ok |-> FALSE, torn |-> t]
                 ELSE IF req[j].pc \in Knowledge!Deleting
                      THEN [req[j] EXCEPT !.spare = req[j].spare \cup {pt}]
                      ELSE req[j]]
  BY <1>3 DEF Knowledge!IngestStart
<1>5. /\ req'[k] \in Ingest /\ req'[k].pc = "ensure" /\ req'[k].coll = c
      /\ req'[k].point = pt /\ ~req'[k].ok /\ req'[k].torn = t
  BY <1>1, <1>4 DEF Ingest
<1>6. \A j \in Clients : Deletes(j) /\ req[j].coll = c => t
  BY <1>3 DEF Deletes, Knowledge!InFlight
<1>7. \A j \in Clients \ {k} : Deletes(j) =>
        /\ req'[j] \in Delete /\ req'[j].pc = req[j].pc /\ req'[j].coll = req[j].coll
        /\ req'[j].ok = req[j].ok /\ req'[j].spare = req[j].spare \cup {pt}
  BY <1>4, InFlightTyped DEF KnowledgeInv, Deletes, Delete
<1>8. \A j \in Clients \ {k} : ~Deletes(j) => req'[j] = req[j]
  BY <1>4 DEF Deletes
<1>9. RequestsTyped'
  BY <1>1, <1>4, <1>5, <1>7, <1>8, InFlightTyped
      DEF KnowledgeInv, RequestsTyped, Deletes, Coll
<1>10. StoresTyped' /\ DurableHeld'
  <2>1. StoresTyped'
    BY <1>2 DEF KnowledgeInv, StoresTyped
  <2>2. DurableHeld'
    BY <1>2 DEF KnowledgeInv, DurableHeld, Held, Coll
  <2> QED
    BY <2>1, <2>2
<1>11. \A j \in Clients : Ingests(j)' => j = k \/ (Ingests(j) /\ req'[j] = req[j])
  BY <1>7, <1>8 DEF Ingests, Deletes
<1>12. \A j \in Clients : Deletes(j)' => j # k /\ Deletes(j)
  BY <1>5, <1>7, <1>8 DEF Deletes
<1>13. UpsertedHeld'
  BY <1>2, <1>5, <1>7, <1>8 DEF KnowledgeInv, UpsertedHeld, Held, Deletes
<1>14. DeleteTears'
  <2>1. SUFFICES ASSUME NEW j \in Clients, Deletes(j)'
                 PROVE  /\ \A i \in Clients : Ingests(i)' /\ req'[i].coll = req'[j].coll => req'[i].torn
                        /\ durable' \cap Knowledge!InCollection(req'[j].coll) = {}
    BY DEF DeleteTears, Knowledge!InCollection
  <2>2. Deletes(j) /\ req'[j].coll = req[j].coll
    BY <1>7, <1>12, <2>1
  <2> QED
    BY <1>2, <1>5, <1>6, <1>11, <2>2 DEF KnowledgeInv, DeleteTears
<1>15. DeleteSpares'
  <2>1. SUFFICES ASSUME NEW j \in Clients, Deletes(j)'
                 PROVE  /\ \A i \in Clients : Ingests(i)' => req'[i].point \in req'[j].spare
                        /\ req'[j].pc = "clear" /\ req'[j].ok =>
                              Held(req'[j].coll) \subseteq req'[j].spare
    BY <1>2 DEF DeleteSpares, Held
  <2>2. /\ Deletes(j) /\ req'[j].pc = req[j].pc /\ req'[j].coll = req[j].coll
        /\ req'[j].ok = req[j].ok /\ req'[j].spare = req[j].spare \cup {pt}
    BY <1>7, <1>12, <2>1
  <2> QED
    BY <1>5, <1>11, <2>2 DEF KnowledgeInv, DeleteSpares
<1>16. GoneNowhere'
  <2>1. SUFFICES ASSUME NEW r \in Procs, NEW q \in gone'[r]
                 PROVE  /\ q \notin Held(Coll(q)) /\ q \notin bm25[r][Coll(q)]
                        /\ \A j \in Clients : Ingests(j)' => req'[j].point # q
    BY <1>2 DEF GoneNowhere, Coll, Held
  <2>2. q \in gone[r] /\ q # pt
    BY <1>2
  <2> QED
    BY <1>5, <1>11, <2>2 DEF KnowledgeInv, GoneNowhere
<1> QED
  BY <1>9, <1>10, <1>13, <1>14, <1>15, <1>16 DEF KnowledgeInv

(* Qdrant deletes the collection, or is away.                              *)
LEMMA DeleteOnServerKeepsKnowledge ==
    ASSUME KnowledgeInv, NEW k \in Clients, Knowledge!DeleteOnServer(k)
    PROVE  KnowledgeInv'
<1> USE DEF Knowledge!Ingesting, Knowledge!Deleting, Knowledge!Idle
<1>1. PICK c \in Collections :
        /\ c = req[k].coll /\ req[k] \in Delete /\ req[k].pc = "delete" /\ Deletes(k)
  BY InFlightTyped DEF KnowledgeInv, Deletes, Knowledge!DeleteOnServer
<1>2. /\ UNCHANGED <<reachable, bm25, durable, gone>>
      /\ req' = [req EXCEPT ![k].pc = "clear", ![k].ok = reachable]
      /\ qdrant' = IF reachable THEN [qdrant EXCEPT ![c] = Knowledge!NoCollection]
                   ELSE qdrant
  BY <1>1 DEF Knowledge!DeleteOnServer
<1>3. /\ \A j \in Clients \ {k} : req'[j] = req[j]
      /\ req'[k] \in Delete /\ req'[k].pc = "clear" /\ req'[k].coll = c
      /\ req'[k].spare = req[k].spare
      /\ req' = [j \in Clients |-> req'[j]]
      /\ ~req'[k].ok => qdrant' = qdrant
      /\ req'[k].ok => qdrant' = [qdrant EXCEPT ![c] = Knowledge!NoCollection]
  <2>1. reachable \in BOOLEAN /\ req = [j \in Clients |-> req[j]]
    BY DEF KnowledgeInv, StoresTyped, RequestsTyped
  <2> QED
    BY <1>1, <1>2, <2>1 DEF Delete
<1>4. /\ \A d \in Collections :
            /\ Held(d)' = IF d = c /\ req'[k].ok THEN {} ELSE Held(d)
            /\ \/ qdrant'[d] = Knowledge!NoCollection
               \/ qdrant'[d] = qdrant[d]
      /\ qdrant' = [d \in Collections |-> qdrant'[d]]
  <2>1. CASE qdrant' = qdrant /\ ~req'[k].ok
    BY <2>1 DEF KnowledgeInv, StoresTyped, Held
  <2>2. CASE qdrant' = [qdrant EXCEPT ![c] = Knowledge!NoCollection] /\ req'[k].ok
    BY <2>2 DEF KnowledgeInv, StoresTyped, Held, Knowledge!NoCollection
  <2> QED
    BY <1>3, <2>1, <2>2
<1>5. /\ \A j \in Clients : Ingests(j)' => j # k /\ Ingests(j) /\ req'[j] = req[j]
      /\ \A j \in Clients : Deletes(j)' =>
            Deletes(j) /\ req'[j].coll = req[j].coll /\ req'[j].spare = req[j].spare
  BY <1>1, <1>3 DEF Ingests, Deletes
<1>6. RequestsTyped'
  BY <1>3 DEF KnowledgeInv, RequestsTyped, Coll
<1>7. StoresTyped'
  BY <1>2, <1>4 DEF KnowledgeInv, StoresTyped
<1>8. DurableHeld'
  <2>1. \A pt \in durable : Coll(pt) # c
    BY <1>1 DEF KnowledgeInv, StoresTyped, DeleteTears, Knowledge!InCollection, Coll
  <2>2. \A pt \in durable : Held(Coll(pt))' = Held(Coll(pt))
    BY <1>4, <2>1, CollOfPoint DEF KnowledgeInv, StoresTyped, Coll
  <2> QED
    BY <1>2, <2>2 DEF KnowledgeInv, DurableHeld
<1>9. UpsertedHeld'
  <2>1. SUFFICES ASSUME NEW j \in Clients, Ingests(j)'
                 PROVE  /\ req'[j].pc \in {"ensure", "create", "upsert"} => ~req'[j].ok
                        /\ req'[j].pc = "index" /\ req'[j].ok /\ ~req'[j].torn =>
                              req'[j].point \in Held(req[j].coll)'
    BY DEF UpsertedHeld, Ingests
  <2>2. Ingests(j) /\ req'[j] = req[j] /\ req[j].coll \in Collections
    BY <1>5, <2>1, InFlightTyped DEF KnowledgeInv
  <2>3. PICK d \in Collections : d = req[j].coll
    BY <2>2
  <2>4. req[j].coll = c => req[j].torn
    BY <1>1, <2>2 DEF KnowledgeInv, DeleteTears
  <2>5. d # c => Held(d)' = Held(d)
    BY <1>4
  <2>6. Held(req[j].coll)' = Held(d)'
    BY <2>2, <2>3 DEF Held
  <2> QED
    BY <2>2, <2>3, <2>4, <2>5, <2>6 DEF KnowledgeInv, UpsertedHeld
<1>10. DeleteTears'
  <2>1. SUFFICES ASSUME NEW j \in Clients, Deletes(j)'
                 PROVE  /\ \A i \in Clients : Ingests(i)' /\ req'[i].coll = req'[j].coll => req'[i].torn
                        /\ durable' \cap Knowledge!InCollection(req'[j].coll) = {}
    BY DEF DeleteTears, Knowledge!InCollection
  <2>2. Deletes(j) /\ req'[j].coll = req[j].coll
    BY <1>5, <2>1
  <2>3. durable \cap Knowledge!InCollection(req[j].coll) = {}
    BY <2>2 DEF KnowledgeInv, DeleteTears
  <2>4. \A i \in Clients : Ingests(i) /\ req[i].coll = req[j].coll => req[i].torn
    BY <2>2 DEF KnowledgeInv, DeleteTears
  <2> QED
    BY <1>2, <1>5, <2>2, <2>3, <2>4
<1>11. DeleteSpares'
  <2>1. SUFFICES ASSUME NEW j \in Clients, Deletes(j)'
                 PROVE  /\ \A i \in Clients : Ingests(i)' => req'[i].point \in req'[j].spare
                        /\ req'[j].pc = "clear" /\ req'[j].ok =>
                              Held(req[j].coll)' \subseteq req'[j].spare
    BY DEF DeleteSpares
  <2>2. /\ Deletes(j) /\ req'[j].coll = req[j].coll /\ req'[j].spare = req[j].spare
        /\ req[j].coll \in Collections
    BY <1>5, <2>1, InFlightTyped DEF KnowledgeInv
  <2>3. PICK d \in Collections : d = req[j].coll
    BY <2>2
  <2>4. Held(req[j].coll)' = Held(d)'
    BY <2>2, <2>3 DEF Held
  <2>5. j # k /\ req[j].pc = "clear" /\ req[j].ok => Held(d) \subseteq req[j].spare
    BY <2>2, <2>3 DEF KnowledgeInv, DeleteSpares
  <2>6. \A i \in Clients : Ingests(i)' => req'[i].point \in req'[j].spare
    BY <1>5, <2>2 DEF KnowledgeInv, DeleteSpares
  <2> QED
    BY <1>1, <1>3, <1>4, <2>2, <2>3, <2>4, <2>5, <2>6
<1>12. GoneNowhere'
  <2>1. SUFFICES ASSUME NEW p \in Procs, NEW q \in gone[p]
                 PROVE  /\ q \notin Held(Coll(q))' /\ q \notin bm25[p][Coll(q)]
                        /\ \A j \in Clients : Ingests(j)' => req'[j].point # q
    BY <1>2 DEF GoneNowhere, Coll
  <2>2. Held(Coll(q))' \subseteq Held(Coll(q))
    BY <1>4, CollOfPoint DEF KnowledgeInv, StoresTyped, Coll
  <2> QED
    BY <1>5, <2>2 DEF KnowledgeInv, GoneNowhere
<1> QED
  BY <1>6, <1>7, <1>8, <1>9, <1>10, <1>11, <1>12 DEF KnowledgeInv

(* The index is cleared, and the caller told.                              *)
LEMMA DeleteDoneKeepsKnowledge ==
    ASSUME KnowledgeInv, NEW k \in Clients, Knowledge!DeleteDone(k)
    PROVE  KnowledgeInv'
<1> USE DEF Knowledge!Ingesting, Knowledge!Deleting, Knowledge!Idle
<1>1. PICK c \in Collections, p \in Procs :
        /\ c = req[k].coll /\ p = req[k].proc
        /\ req[k] \in Delete /\ req[k].pc = "clear" /\ Deletes(k)
  BY InFlightTyped DEF KnowledgeInv, Deletes, Knowledge!DeleteDone
<1>2. /\ req' = [req EXCEPT ![k] = Knowledge!Idle]
      /\ UNCHANGED <<qdrant, reachable, durable>>
      /\ bm25' = [bm25 EXCEPT ![p][c] = {}]
      /\ \/ gone' = gone
         \/ /\ req[k].ok
            /\ gone' = [gone EXCEPT ![p] = gone[p] \cup
                           (Knowledge!InCollection(c) \ req[k].spare)]
  BY <1>1 DEF Knowledge!DeleteDone, Knowledge!ClearIndex
<1>3. /\ \A j \in Clients \ {k} : req'[j] = req[j]
      /\ req'[k] = Knowledge!Idle /\ req' = [j \in Clients |-> req'[j]]
  BY <1>2 DEF KnowledgeInv, RequestsTyped
<1>4. /\ \A j \in Clients : Ingests(j)' => j # k /\ Ingests(j) /\ req'[j] = req[j]
      /\ \A j \in Clients : Deletes(j)' => j # k /\ Deletes(j) /\ req'[j] = req[j]
  BY <1>3 DEF Ingests, Deletes
<1>5. /\ bm25' \in [Procs -> [Collections -> SUBSET Knowledge!Points]]
      /\ \A q \in Procs, d \in Collections :
            bm25'[q][d] = IF q = p /\ d = c THEN {} ELSE bm25[q][d]
  BY <1>2 DEF KnowledgeInv, StoresTyped
<1>6. /\ gone' \in [Procs -> SUBSET Knowledge!Points]
      /\ \A q \in Procs : q # p \/ ~req[k].ok => gone'[q] = gone[q]
      /\ gone'[p] \subseteq gone[p] \cup (Knowledge!InCollection(c) \ req[k].spare)
  <2>1. Knowledge!InCollection(c) \subseteq Knowledge!Points
    BY DEF Knowledge!InCollection
  <2>2. gone \in [Procs -> SUBSET Knowledge!Points]
    BY DEF KnowledgeInv, StoresTyped
  <2> QED
    BY <1>2, <2>1, <2>2
<1>7. RequestsTyped'
  BY <1>3 DEF KnowledgeInv, RequestsTyped, Coll
<1>8. StoresTyped'
  <2>1. \A q \in Procs, d \in Collections : bm25'[q][d] \subseteq Knowledge!InCollection(d)
    BY <1>5 DEF KnowledgeInv, StoresTyped
  <2> QED
    BY <1>2, <1>5, <1>6, <2>1 DEF KnowledgeInv, StoresTyped
<1>9. DurableHeld' /\ UpsertedHeld'
  <2>1. DurableHeld'
    BY <1>2 DEF KnowledgeInv, DurableHeld, Held, Coll
  <2>2. UpsertedHeld'
    BY <1>2, <1>3 DEF KnowledgeInv, UpsertedHeld, Held
  <2> QED
    BY <2>1, <2>2
<1>10. DeleteTears'
  BY <1>2, <1>4 DEF KnowledgeInv, DeleteTears, Knowledge!InCollection
<1>11. DeleteSpares'
  BY <1>2, <1>4 DEF KnowledgeInv, DeleteSpares, Held
<1>12. GoneNowhere'
  <2>1. SUFFICES ASSUME NEW q \in Procs, NEW pt \in gone'[q]
                 PROVE  /\ pt \notin Held(Coll(pt)) /\ pt \notin bm25'[q][Coll(pt)]
                        /\ \A j \in Clients : Ingests(j) => req[j].point # pt
    BY <1>2, <1>4 DEF GoneNowhere, Coll, Held
  <2>2. pt \in Knowledge!Points /\ Coll(pt) \in Collections
    BY <1>6, CollOfPoint
  <2>3. CASE pt \in gone[q]
    BY <1>5, <2>2, <2>3 DEF KnowledgeInv, GoneNowhere
  <2>4. CASE pt \notin gone[q]
    <3>1. q = p /\ req[k].ok /\ pt \in Knowledge!InCollection(c) \ req[k].spare
      BY <1>6, <2>4
    <3>2. Coll(pt) = c /\ pt \notin bm25'[q][Coll(pt)]
      BY <1>5, <2>2, <3>1 DEF Knowledge!InCollection, Coll
    <3>3. pt \notin Held(c) /\ \A j \in Clients : Ingests(j) => req[j].point # pt
      BY <1>1, <3>1 DEF KnowledgeInv, DeleteSpares
    <3> QED
      BY <3>2, <3>3
  <2> QED
    BY <2>3, <2>4
<1> QED
  BY <1>7, <1>8, <1>9, <1>10, <1>11, <1>12 DEF KnowledgeInv

(* A restart ends requests and empties an index.                           *)
LEMMA RestartKeepsKnowledge ==
    ASSUME KnowledgeInv, NEW p \in Procs, Knowledge!Restart(p)
    PROVE  KnowledgeInv'
<1> USE DEF Knowledge!Ingesting, Knowledge!Deleting, Knowledge!Idle
<1>1. /\ \A j \in Clients : req'[j] \in {Knowledge!Idle, req[j]}
      /\ req' = [j \in Clients |-> req'[j]]
      /\ bm25' = [bm25 EXCEPT ![p] = [d \in Collections |-> {}]]
      /\ UNCHANGED <<qdrant, reachable, durable, gone>>
  BY DEF Knowledge!Restart
<1>2. /\ \A j \in Clients : Ingests(j)' => Ingests(j) /\ req'[j] = req[j]
      /\ \A j \in Clients : Deletes(j)' => Deletes(j) /\ req'[j] = req[j]
  BY <1>1 DEF Ingests, Deletes
<1>3. RequestsTyped'
  BY <1>1 DEF KnowledgeInv, RequestsTyped, Coll
<1>4. /\ bm25' \in [Procs -> [Collections -> SUBSET Knowledge!Points]]
      /\ \A q \in Procs, d \in Collections : bm25'[q][d] \subseteq bm25[q][d]
  BY <1>1 DEF KnowledgeInv, StoresTyped
<1>5. StoresTyped'
  <2>1. \A q \in Procs, d \in Collections : bm25'[q][d] \subseteq Knowledge!InCollection(d)
    BY <1>4 DEF KnowledgeInv, StoresTyped
  <2> QED
    BY <1>1, <1>4, <2>1 DEF KnowledgeInv, StoresTyped
<1>6. DurableHeld' /\ UpsertedHeld'
  <2>1. DurableHeld'
    BY <1>1 DEF KnowledgeInv, DurableHeld, Held, Coll
  <2>2. UpsertedHeld'
    BY <1>1 DEF KnowledgeInv, UpsertedHeld, Held
  <2> QED
    BY <2>1, <2>2
<1>7. DeleteTears' /\ DeleteSpares'
  <2>1. DeleteTears'
    BY <1>1, <1>2 DEF KnowledgeInv, DeleteTears, Knowledge!InCollection
  <2>2. DeleteSpares'
    BY <1>1, <1>2 DEF KnowledgeInv, DeleteSpares, Held
  <2> QED
    BY <2>1, <2>2
<1>8. GoneNowhere'
  <2>1. SUFFICES ASSUME NEW q \in Procs, NEW pt \in gone[q]
                 PROVE  /\ pt \notin Held(Coll(pt)) /\ pt \notin bm25'[q][Coll(pt)]
                        /\ \A j \in Clients : Ingests(j)' => req'[j].point # pt
    BY <1>1 DEF GoneNowhere, Held, Coll
  <2>2. Coll(pt) \in Collections
    BY CollOfPoint DEF KnowledgeInv, StoresTyped
  <2> QED
    BY <1>2, <1>4, <2>2 DEF KnowledgeInv, GoneNowhere
<1> QED
  BY <1>3, <1>5, <1>6, <1>7, <1>8 DEF KnowledgeInv

(* Every step of the knowledge base keeps its invariant.                   *)
LEMMA KnowledgeStep ==
    ASSUME KnowledgeInv, [Knowledge!Next]_(Knowledge!vars)
    PROVE  KnowledgeInv'
<1>1. CASE UNCHANGED <<qdrant, bm25, req, durable, gone>> /\ reachable' \in BOOLEAN
  BY <1>1 DEF KnowledgeInv, RequestsTyped, StoresTyped, DurableHeld, UpsertedHeld,
      DeleteTears, DeleteSpares, GoneNowhere, Held, Coll, Ingests, Deletes
<1>2. CASE Knowledge!Next
  <2>1. CASE \/ \E k \in Clients :
                  \/ \E p \in Procs, pt \in Knowledge!Points, s \in Sizes :
                        Knowledge!IngestStart(k, p, pt, s)
                  \/ Knowledge!EnsureGet(k) \/ Knowledge!EnsureCreate(k)
                  \/ \E alike \in BOOLEAN : Knowledge!Upsert(k, alike)
                  \/ Knowledge!IngestDone(k)
    BY <2>1, IngestStartKeepsKnowledge, EnsureKeepsKnowledge, UpsertKeepsKnowledge,
        IngestDoneKeepsKnowledge
  <2>2. CASE \/ \E k \in Clients :
                  \/ \E p \in Procs, d \in Domains : Knowledge!DeleteStart(k, p, d)
                  \/ Knowledge!DeleteOnServer(k) \/ Knowledge!DeleteDone(k)
             \/ \E p \in Procs : Knowledge!Restart(p)
    BY <2>2, DeleteStartKeepsKnowledge, DeleteOnServerKeepsKnowledge,
        DeleteDoneKeepsKnowledge, RestartKeepsKnowledge
  <2>3. CASE Knowledge!GoAway \/ Knowledge!ComeBack
    BY <1>1, <2>3 DEF Knowledge!GoAway, Knowledge!ComeBack
  <2> QED
    BY <1>2, <2>1, <2>2, <2>3 DEF Knowledge!Next
<1> QED
  BY <1>1, <1>2 DEF Knowledge!vars, KnowledgeInv, StoresTyped

(* Whatever requests are in flight, a completed document is in Qdrant, and *)
(* a point that was deleted through a process is nowhere it looks nor on   *)
(* its way there, for every set of clients, processes and collections.     *)
THEOREM KnowledgeInvariant == Knowledge!Spec => []KnowledgeInv
<1>1. Knowledge!Init => KnowledgeInv
  <2> SUFFICES ASSUME Knowledge!Init
               PROVE  KnowledgeInv
    OBVIOUS
  <2> USE DEF Knowledge!Init, Knowledge!Idle
  <2>1. RequestsTyped /\ StoresTyped
    BY DEF RequestsTyped, StoresTyped
  <2>2. DurableHeld /\ GoneNowhere
    BY DEF DurableHeld, GoneNowhere
  <2>3. UpsertedHeld /\ DeleteTears /\ DeleteSpares
    BY DEF UpsertedHeld, DeleteTears, DeleteSpares, Deletes, Knowledge!Deleting
  <2> QED
    BY <2>1, <2>2, <2>3 DEF KnowledgeInv
<1> QED
  BY <1>1, KnowledgeStep, PTL DEF Knowledge!Spec

(* An ingest recorded as "completed" is in Qdrant until a delete of its    *)
(* collection begins, whatever outages, lost answers, restarts and other   *)
(* requests come in between (knowledge.py).                                *)
THEOREM CompletedStaysDurable == Knowledge!Spec => []CompletedIsDurable
<1>1. KnowledgeInv => CompletedIsDurable
  BY DEF KnowledgeInv, StoresTyped, DurableHeld, CompletedIsDurable,
      Knowledge!CompletedIsDurable, Held, Coll
<1> QED
  BY <1>1, KnowledgeInvariant, PTL

(* After a delete that returned True, the process that served it finds the *)
(* deleted documents neither in Qdrant nor in its fallback index, with any *)
(* requests in flight beside it.                                           *)
THEOREM DeletedStaysGone == Knowledge!Spec => []DeletedGoneHere
<1>1. KnowledgeInv => DeletedGoneHere
  <2> SUFFICES ASSUME KnowledgeInv, NEW p \in Procs, NEW d \in Domains, NEW s \in Sizes,
                      NEW pt \in gone[p], pt \in Knowledge!SearchResults(p, d, s)
               PROVE  FALSE
    BY DEF DeletedGoneHere, Knowledge!DeletedGoneHere
  <2>1. PICK c \in Collections : c = CollectionOf[d]
    BY ServicesAssumption DEF Knowledge!NamesAreMapped
  <2>2. pt \in Held(c) \/ pt \in bm25[p][c]
    BY <2>1 DEF Knowledge!SearchResults, Knowledge!VectorSearchWorks, Held
  <2>3. pt \in Knowledge!InCollection(c)
    <3>1. Held(c) \subseteq Knowledge!InCollection(c)
      <4>1. CASE qdrant[c] = Knowledge!NoCollection
        BY <4>1 DEF Held, Knowledge!NoCollection
      <4>2. CASE qdrant[c] # Knowledge!NoCollection
        BY <4>2 DEF KnowledgeInv, StoresTyped, Held
      <4> QED
        BY <4>1, <4>2
    <3> QED
      BY <2>2, <3>1 DEF KnowledgeInv, StoresTyped
  <2>4. Coll(pt) = c
    BY <2>3 DEF Coll, Knowledge!InCollection
  <2> QED
    BY <2>2, <2>4 DEF KnowledgeInv, GoneNowhere
<1> QED
  BY <1>1, KnowledgeInvariant, PTL

-----------------------------------------------------------------------------
(***************************************************************************)
(* The memory layers.  The column has no "_memory" part, ever, so only     *)
(* Redis holds values: those of the latest store or of a write in flight.  *)
(* A call that overlaps a write may find its value, and nothing else turns *)
(* up while the call is in flight.                                         *)
(***************************************************************************)
Call == [pc : {"redis", "pg", "answer"}, op : {"store", "retrieve", "delete"},
         key : Keys, val : Memory!MaybeVals, ok : BOOLEAN,
         may : SUBSET Memory!MaybeVals]

Retrieving(c, k) == Memory!Busy(c, k) /\ call[c].op = "retrieve"

CallsTyped ==
    /\ call = [c \in Clients |-> call[c]]
    /\ \A c \in Clients : call[c] = Memory!Idle \/ call[c] \in Call
    /\ \A c \in Clients : call[c].pc = "answer" => call[c].op = "retrieve"
    /\ \A c \in Clients : call[c].pc = "redis" => ~call[c].ok

LayersTyped ==
    /\ output.memory = Absent
    /\ redis \in [Keys -> Memory!MaybeVals]
    /\ latest \in [Keys -> SUBSET Memory!MaybeVals]

(* Every call in flight knows the values of the writes it overlaps.        *)
OverlapsKnown ==
    \A c, e \in Clients, k \in Keys :
        c # e /\ Memory!Busy(c, k) /\ Memory!Writing(e, k) => call[e].val \in call[c].may

(* What Redis holds.                                                       *)
RedisExplained ==
    \A k \in Keys :
        \/ redis[k] \in {None} \cup latest[k]
        \/ \E e \in Clients : Memory!Writing(e, k) /\ redis[k] = call[e].val

(* A write that succeeded in Redis left nothing older behind.              *)
WritePrevails ==
    \A c \in Clients, k \in Keys :
        Memory!Writing(c, k) /\ call[c].pc = "pg" /\ call[c].ok =>
            redis[k] \in {None, call[c].val} \cup call[c].may

(* A retrieve finds what it may.                                           *)
FindsCurrent ==
    \A c \in Clients, k \in Keys : Retrieving(c, k) =>
        /\ call[c].pc = "redis" => redis[k] \in {None} \cup call[c].may
        /\ call[c].pc = "answer" => call[c].val \in {None} \cup call[c].may

MemoryInv ==
    /\ CallsTyped /\ LayersTyped
    /\ OverlapsKnown /\ RedisExplained /\ WritePrevails /\ FindsCurrent

(* A step that only ends a call, or moves a retrieve on.                   *)
LEMMA RetrieveKeepsMemory ==
    ASSUME MemoryInv, NEW c \in Clients,
           Memory!RedisRead(c) \/ Memory!PgRead(c) \/ Memory!Return(c)
    PROVE  MemoryInv'
<1> USE DEF Memory!Idle
<1>1. /\ call[c] \in Call /\ call[c].op = "retrieve"
      /\ UNCHANGED <<redis, output, latest>>
  BY DEF Memory!RedisRead, Memory!PgRead, Memory!Return, MemoryInv, CallsTyped
<1>2. PICK k \in Keys : k = call[c].key
  BY <1>1 DEF Call
<1>3. Retrieving(c, k)
  BY <1>1, <1>2 DEF Retrieving, Memory!Busy, Call
<1>4. redis[k] \in Memory!MaybeVals /\ Memory!PgMemory[k] = None
      /\ None \in Memory!MaybeVals
  BY DEF MemoryInv, LayersTyped, Memory!PgMemory, Memory!NoMemory, Memory!MaybeVals
<1>5. \/ call' = [call EXCEPT ![c] = Memory!Idle]
      \/ \E v \in Memory!MaybeVals :
            /\ v \in {None} \cup call[c].may
            /\ call' = [call EXCEPT ![c].pc = "answer", ![c].val = v]
      \/ call' = [call EXCEPT ![c].pc = "pg", ![c].val = None]
      \/ call' = [call EXCEPT ![c].pc = "pg"]
  <2>1. CASE Memory!RedisRead(c)
    <3>1. call[c].pc = "redis" => redis[k] \in {None} \cup call[c].may
      BY <1>3 DEF MemoryInv, FindsCurrent
    <3> QED
      BY <1>2, <1>4, <2>1, <3>1 DEF Memory!RedisRead
  <2>2. CASE Memory!PgRead(c)
    BY <1>2, <1>4, <2>2 DEF Memory!PgRead
  <2>3. CASE Memory!Return(c)
    BY <2>3 DEF Memory!Return
  <2> QED
    BY <2>1, <2>2, <2>3
<1>6. /\ call' = [d \in Clients |-> call'[d]]
      /\ \A d \in Clients \ {c} : call'[d] = call[d]
      /\ \/ call'[c] = Memory!Idle
         \/ /\ call'[c] \in Call /\ call'[c].op = "retrieve" /\ call'[c].key = k
            /\ call'[c].may = call[c].may /\ call'[c].pc \in {"answer", "pg"}
            /\ call'[c].pc = "answer" => call'[c].val \in {None} \cup call[c].may
  <2>1. call = [d \in Clients |-> call[d]]
    BY DEF MemoryInv, CallsTyped
  <2>2. CASE call' = [call EXCEPT ![c] = Memory!Idle]
    BY <2>1, <2>2
  <2>3. ASSUME NEW v \in Memory!MaybeVals, v \in {None} \cup call[c].may,
               call' = [call EXCEPT ![c].pc = "answer", ![c].val = v]
        PROVE  <1>6!2 /\ call'[c] \in Call /\ call'[c].op = "retrieve" /\ call'[c].key = k
               /\ call'[c].may = call[c].may /\ call'[c].pc = "answer"
               /\ call'[c].val = v /\ call' = [d \in Clients |-> call'[d]]
    BY <1>1, <1>2, <2>1, <2>3 DEF Call
  <2>4. ASSUME NEW v \in Memory!MaybeVals,
               call' = [call EXCEPT ![c].pc = "pg", ![c].val = v]
        PROVE  <1>6!2 /\ call'[c] \in Call /\ call'[c].op = "retrieve" /\ call'[c].key = k
               /\ call'[c].may = call[c].may /\ call'[c].pc = "pg"
               /\ call' = [d \in Clients |-> call'[d]]
    BY <1>1, <1>2, <2>1, <2>4 DEF Call
  <2>5. CASE call' = [call EXCEPT ![c].pc = "pg"]
    BY <1>1, <1>2, <2>1, <2>5 DEF Call
  <2> QED
    BY <1>4, <1>5, <2>2, <2>3, <2>4, <2>5
<1>7. CallsTyped' /\ LayersTyped'
  BY <1>1, <1>6 DEF MemoryInv, CallsTyped, LayersTyped
<1>8. \A d \in Clients, l \in Keys :
        /\ Memory!Busy(d, l)' => Memory!Busy(d, l) /\ call'[d].may = call[d].may
        /\ Memory!Writing(d, l)' <=> Memory!Writing(d, l)
        /\ Memory!Writing(d, l) => d # c
  BY <1>1, <1>2, <1>3, <1>6 DEF Memory!Busy, Memory!Writing, Retrieving
<1>9. OverlapsKnown'
  BY <1>6, <1>8 DEF MemoryInv, OverlapsKnown
<1>10. RedisExplained'
  BY <1>1, <1>6, <1>8 DEF MemoryInv, RedisExplained
<1>11. WritePrevails'
  BY <1>1, <1>6, <1>8 DEF MemoryInv, WritePrevails
<1>12. FindsCurrent'
  BY <1>1, <1>6 DEF MemoryInv, FindsCurrent, Retrieving, Memory!Busy
<1> QED
  BY <1>7, <1>9, <1>10, <1>11, <1>12 DEF MemoryInv

(* A call begins.                                                          *)
LEMMA BeginKeepsMemory ==
    ASSUME MemoryInv, NEW c \in Clients, NEW op \in {"store", "retrieve", "delete"},
           NEW k \in Keys, NEW v \in Memory!MaybeVals, Memory!Begin(c, op, k, v)
    PROVE  MemoryInv'
<1> USE DEF Memory!Idle
<1>1. PICK may : may = {call[e].val : e \in {e \in Clients : Memory!Writing(e, k)}}
                         \cup IF op = "retrieve" THEN latest[k] ELSE {}
  OBVIOUS
<1>2. /\ call[c].pc = "idle"
      /\ call' = [d \in Clients |->
           IF d = c
           THEN [pc |-> "redis", op |-> op, key |-> k, val |-> v, ok |-> FALSE, may |-> may]
           ELSE IF Memory!Busy(d, k) /\ op # "retrieve"
                THEN [call[d] EXCEPT !.may = call[d].may \cup {v}]
                ELSE call[d]]
      /\ UNCHANGED <<redis, output, latest>>
  BY <1>1 DEF Memory!Begin
<1>3. \A e \in Clients, l \in Keys : Memory!Busy(e, l) => call[e] \in Call
  BY DEF MemoryInv, CallsTyped, Memory!Busy
<1>4. /\ may \subseteq Memory!MaybeVals
      /\ \A e \in Clients : Memory!Writing(e, k) => call[e].val \in may
      /\ op = "retrieve" => latest[k] \subseteq may
  BY <1>1, <1>3 DEF MemoryInv, LayersTyped, Call, Memory!Writing
<1>5. /\ call'[c] \in Call /\ call'[c].pc = "redis" /\ call'[c].op = op
      /\ call'[c].key = k /\ call'[c].val = v /\ call'[c].may = may /\ ~call'[c].ok
  BY <1>2, <1>4 DEF Call
<1>6. \A d \in Clients \ {c} :
        /\ call'[d].pc = call[d].pc
        /\ call[d] = Memory!Idle => call'[d] = Memory!Idle
        /\ call[d] \in Call =>
             /\ call'[d] \in Call
             /\ call'[d].op = call[d].op /\ call'[d].key = call[d].key
             /\ call'[d].val = call[d].val /\ call'[d].ok = call[d].ok
             /\ call[d].may \subseteq call'[d].may
             /\ Memory!Busy(d, k) /\ op # "retrieve" => v \in call'[d].may
  BY <1>2 DEF MemoryInv, CallsTyped, Call, Memory!Busy
<1>7. CallsTyped' /\ LayersTyped'
  <2>1. call' = [d \in Clients |-> call'[d]]
    BY <1>2
  <2> QED
    BY <1>2, <1>5, <1>6, <2>1 DEF MemoryInv, CallsTyped, LayersTyped
<1>8. \A d \in Clients \ {c}, l \in Keys :
        /\ Memory!Busy(d, l)' <=> Memory!Busy(d, l)
        /\ Memory!Writing(d, l)' <=> Memory!Writing(d, l)
        /\ Memory!Busy(d, l) => call[d].may \subseteq call'[d].may /\ call'[d].val = call[d].val
  BY <1>3, <1>6 DEF Memory!Busy, Memory!Writing, MemoryInv, CallsTyped
<1>9. \A l \in Keys : /\ Memory!Busy(c, l)' => l = k
                      /\ Memory!Writing(c, l)' => l = k /\ op # "retrieve"
  BY <1>5 DEF Memory!Busy, Memory!Writing
<1>10. OverlapsKnown'
  <2>1. SUFFICES ASSUME NEW d \in Clients, NEW e \in Clients, NEW l \in Keys,
                        d # e, Memory!Busy(d, l)', Memory!Writing(e, l)'
                 PROVE  call'[e].val \in call'[d].may
    BY DEF OverlapsKnown
  <2>2. CASE d = c
    BY <1>4, <1>5, <1>8, <1>9, <2>1, <2>2 DEF Memory!Writing
  <2>3. CASE e = c
    BY <1>3, <1>5, <1>6, <1>8, <1>9, <2>1, <2>3
  <2>4. CASE d # c /\ e # c
    <3>1. call[e].val \in call[d].may
      BY <1>8, <2>1, <2>4 DEF MemoryInv, OverlapsKnown
    <3> QED
      BY <1>8, <2>1, <2>4, <3>1 DEF Memory!Writing
  <2> QED
    BY <2>2, <2>3, <2>4
<1>11. \A e \in Clients, l \in Keys : Memory!Writing(e, l) => e # c
  BY <1>2 DEF Memory!Writing, Memory!Busy
<1>12. RedisExplained'
  <2>1. SUFFICES ASSUME NEW l \in Keys,
                        NEW e \in Clients, Memory!Writing(e, l), redis[l] = call[e].val
                 PROVE  Memory!Writing(e, l)' /\ redis[l] = call'[e].val
    BY <1>2 DEF MemoryInv, RedisExplained
  <2> QED
    BY <1>8, <1>11, <2>1 DEF Memory!Writing
<1>13. WritePrevails'
  <2>1. SUFFICES ASSUME NEW d \in Clients, NEW l \in Keys, Memory!Writing(d, l)',
                        call'[d].pc = "pg", call'[d].ok
                 PROVE  redis[l] \in {None, call'[d].val} \cup call'[d].may
    BY <1>2 DEF WritePrevails
  <2>2. d # c
    BY <1>5, <2>1
  <2>3. Memory!Writing(d, l) /\ call[d] \in Call
    BY <1>3, <1>8, <2>1, <2>2 DEF Memory!Writing
  <2>4. redis[l] \in {None, call[d].val} \cup call[d].may
    BY <1>6, <2>1, <2>2, <2>3 DEF MemoryInv, WritePrevails
  <2> QED
    BY <1>6, <2>2, <2>3, <2>4
<1>14. FindsCurrent'
  <2>1. SUFFICES ASSUME NEW d \in Clients, NEW l \in Keys, Retrieving(d, l)'
                 PROVE  /\ call'[d].pc = "redis" => redis[l] \in {None} \cup call'[d].may
                        /\ call'[d].pc = "answer" => call'[d].val \in {None} \cup call'[d].may
    BY <1>2 DEF FindsCurrent
  <2>2. CASE d = c
    <3>1. l = k /\ op = "retrieve"
      BY <1>5, <2>1, <2>2 DEF Retrieving, Memory!Busy
    <3>2. redis[k] \in {None} \cup may
      BY <1>4, <3>1 DEF MemoryInv, RedisExplained
    <3> QED
      BY <1>5, <2>2, <3>1, <3>2
  <2>3. CASE d # c
    <3>1. Retrieving(d, l) /\ call[d] \in Call
      BY <1>3, <1>6, <1>8, <2>1, <2>3 DEF Retrieving
    <3>2. /\ call[d].pc = "redis" => redis[l] \in {None} \cup call[d].may
          /\ call[d].pc = "answer" => call[d].val \in {None} \cup call[d].may
      BY <3>1 DEF MemoryInv, FindsCurrent
    <3> QED
      BY <1>6, <2>3, <3>1, <3>2
  <2> QED
    BY <2>2, <2>3
<1> QED
  BY <1>7, <1>10, <1>12, <1>13, <1>14 DEF MemoryInv

(* A write reaches Redis, or raises there.                                 *)
LEMMA RedisWriteKeepsMemory ==
    ASSUME MemoryInv, NEW c \in Clients, Memory!RedisWrite(c)
    PROVE  MemoryInv'
<1> USE DEF Memory!Idle
<1>1. call[c] \in Call /\ call[c].op # "retrieve" /\ call[c].pc = "redis"
  BY DEF Memory!RedisWrite, MemoryInv, CallsTyped
<1>2. PICK k \in Keys, v \in Memory!MaybeVals : k = call[c].key /\ v = call[c].val
  BY <1>1 DEF Call
<1>3. Memory!Writing(c, k) /\ \A l \in Keys : Memory!Busy(c, l) => l = k
  BY <1>1, <1>2 DEF Memory!Writing, Memory!Busy
<1>4. /\ UNCHANGED <<output, latest>>
      /\ \/ redis' = redis \/ redis' = [redis EXCEPT ![k] = v]
      /\ \/ redis' = [redis EXCEPT ![k] = v] /\ call' = [call EXCEPT ![c].pc = "pg", ![c].ok = TRUE]
         \/ call' = [call EXCEPT ![c].pc = "pg"]
  BY <1>2 DEF Memory!RedisWrite
<1>5. /\ redis' \in [Keys -> Memory!MaybeVals]
      /\ \A l \in Keys : redis'[l] = redis[l] \/ (l = k /\ redis'[l] = v)
  BY <1>4 DEF MemoryInv, LayersTyped
<1>6. /\ call' = [d \in Clients |-> call'[d]]
      /\ \A d \in Clients \ {c} : call'[d] = call[d]
      /\ call'[c] \in Call /\ call'[c].pc = "pg" /\ call'[c].op = call[c].op
      /\ call'[c].key = k /\ call'[c].val = v /\ call'[c].may = call[c].may
      /\ call'[c].ok => call[c].ok \/ redis'[k] = v
  <2>1. call = [d \in Clients |-> call[d]] /\ redis \in [Keys -> Memory!MaybeVals]
    BY DEF MemoryInv, CallsTyped, LayersTyped
  <2>2. CASE redis' = [redis EXCEPT ![k] = v] /\ call' = [call EXCEPT ![c].pc = "pg", ![c].ok = TRUE]
    BY <1>1, <1>2, <2>1, <2>2 DEF Call
  <2>3. CASE call' = [call EXCEPT ![c].pc = "pg"]
    BY <1>1, <1>2, <2>1, <2>3 DEF Call
  <2> QED
    BY <1>4, <2>2, <2>3
<1>7. CallsTyped' /\ LayersTyped'
  BY <1>1, <1>4, <1>5, <1>6 DEF MemoryInv, CallsTyped, LayersTyped
<1>8. \A d \in Clients, l \in Keys :
        /\ Memory!Busy(d, l)' <=> Memory!Busy(d, l)
        /\ Memory!Writing(d, l)' <=> Memory!Writing(d, l)
        /\ call'[d].may = call[d].may /\ call'[d].val = call[d].val
  BY <1>1, <1>2, <1>6 DEF Memory!Busy, Memory!Writing
<1>9. OverlapsKnown'
  BY <1>8 DEF MemoryInv, OverlapsKnown
<1>10. RedisExplained'
  BY <1>2, <1>3, <1>4, <1>5, <1>8 DEF MemoryInv, RedisExplained
<1>11. WritePrevails'
  <2>1. SUFFICES ASSUME NEW d \in Clients, NEW l \in Keys, Memory!Writing(d, l)',
                        call'[d].pc = "pg", call'[d].ok
                 PROVE  redis'[l] \in {None, call[d].val} \cup call[d].may
    BY <1>8 DEF WritePrevails
  <2>2. Memory!Writing(d, l)
    BY <1>8, <2>1
  <2>3. CASE d # c
    <3>1. redis[l] \in {None, call[d].val} \cup call[d].may
      BY <1>6, <2>1, <2>2, <2>3 DEF MemoryInv, WritePrevails
    <3>2. l = k => v \in call[d].may
      BY <1>2, <1>3, <2>2, <2>3 DEF MemoryInv, OverlapsKnown, Memory!Writing
    <3> QED
      BY <1>5, <3>1, <3>2
  <2>4. CASE d = c
    <3>1. l = k
      BY <1>3, <2>2, <2>4 DEF Memory!Writing
    <3>2. redis'[k] = v
      BY <1>1, <1>6, <2>1, <2>4 DEF MemoryInv, CallsTyped
    <3> QED
      BY <1>2, <2>4, <3>1, <3>2
  <2> QED
    BY <2>3, <2>4
<1>12. FindsCurrent'
  <2>1. SUFFICES ASSUME NEW d \in Clients, NEW l \in Keys, Retrieving(d, l)'
                 PROVE  /\ call'[d].pc = "redis" => redis'[l] \in {None} \cup call[d].may
                        /\ call'[d].pc = "answer" => call[d].val \in {None} \cup call[d].may
    BY <1>8 DEF FindsCurrent
  <2>2. d # c /\ Retrieving(d, l) /\ call'[d] = call[d]
    BY <1>1, <1>6, <1>8, <2>1 DEF Retrieving
  <2>3. l = k => v \in call[d].may
    BY <1>2, <1>3, <2>2 DEF MemoryInv, OverlapsKnown, Retrieving
  <2> QED
    BY <1>5, <2>2, <2>3 DEF MemoryInv, FindsCurrent
<1> QED
  BY <1>7, <1>9, <1>10, <1>11, <1>12 DEF MemoryInv

(* A write ends: Postgres holds nothing before or after it.                *)
LEMMA PgWriteKeepsMemory ==
    ASSUME MemoryInv, NEW c \in Clients, Memory!PgWrite(c)
    PROVE  MemoryInv'
<1> USE DEF Memory!Idle
<1>1. call[c] \in Call /\ call[c].op # "retrieve" /\ call[c].pc = "pg"
  BY DEF Memory!PgWrite, MemoryInv, CallsTyped
<1>2. PICK k \in Keys, v \in Memory!MaybeVals : k = call[c].key /\ v = call[c].val
  BY <1>1 DEF Call
<1>3. Memory!Writing(c, k) /\ \A l \in Keys : Memory!Busy(c, l) => l = k
  BY <1>1, <1>2 DEF Memory!Writing, Memory!Busy
<1>4. PICK new \in SUBSET Memory!MaybeVals : new = {v} \cup call[c].may
  BY <1>1 DEF Call
<1>5. /\ call' = [call EXCEPT ![c] = Memory!Idle]
      /\ latest' = [latest EXCEPT ![k] = IF call[c].ok THEN new ELSE latest[k] \cup new]
      /\ UNCHANGED redis
  BY <1>2, <1>4 DEF Memory!PgWrite, Memory!Answered
<1>6. output'.memory = Absent
  <2>1. output.memory = Absent
    BY DEF MemoryInv, LayersTyped
  <2>2. \A l, x : Memory!JsonbSet(output, l, x).memory = Absent
    BY <2>1 DEF Memory!JsonbSet
  <2>3. \A l : Memory!JsonbDelete(output, l) = output
    BY <2>1 DEF Memory!JsonbDelete
  <2> QED
    BY <2>1, <2>2, <2>3 DEF Memory!PgWrite
<1>7. /\ call' = [d \in Clients |-> call'[d]] /\ call'[c] = Memory!Idle
      /\ \A d \in Clients \ {c} : call'[d] = call[d]
  BY <1>5 DEF MemoryInv, CallsTyped
<1>8. /\ latest' \in [Keys -> SUBSET Memory!MaybeVals]
      /\ \A l \in Keys \ {k} : latest'[l] = latest[l]
      /\ latest'[k] = IF call[c].ok THEN new ELSE latest[k] \cup new
  BY <1>5 DEF MemoryInv, LayersTyped
<1>9. CallsTyped' /\ LayersTyped'
  BY <1>5, <1>6, <1>7, <1>8 DEF MemoryInv, CallsTyped, LayersTyped
<1>10. \A d \in Clients, l \in Keys :
        /\ Memory!Busy(d, l)' => d # c /\ Memory!Busy(d, l)
        /\ Memory!Writing(d, l)' => d # c /\ Memory!Writing(d, l)
        /\ Memory!Writing(d, l) => d = c \/ Memory!Writing(d, l)'
  BY <1>7 DEF Memory!Busy, Memory!Writing
<1>11. OverlapsKnown'
  BY <1>7, <1>10 DEF MemoryInv, OverlapsKnown
<1>12. RedisExplained'
  <2>1. SUFFICES ASSUME NEW l \in Keys
                 PROVE  \/ redis[l] \in {None} \cup latest'[l]
                        \/ \E e \in Clients : Memory!Writing(e, l)' /\ redis[l] = call'[e].val
    BY <1>5 DEF RedisExplained
  <2>2. CASE l # k
    <3>1. \A e \in Clients : Memory!Writing(e, l) => e # c
      BY <1>3, <2>2 DEF Memory!Writing
    <3> QED
      BY <1>7, <1>8, <1>10, <2>2, <3>1 DEF MemoryInv, RedisExplained
  <2>3. CASE l = k /\ call[c].ok
    BY <1>1, <1>2, <1>3, <1>4, <1>8, <2>3 DEF MemoryInv, WritePrevails
  <2>4. CASE l = k /\ ~call[c].ok
    BY <1>2, <1>4, <1>7, <1>8, <1>10, <2>4 DEF MemoryInv, RedisExplained
  <2> QED
    BY <2>2, <2>3, <2>4
<1>13. WritePrevails'
  BY <1>5, <1>7, <1>10 DEF MemoryInv, WritePrevails
<1>14. FindsCurrent'
  BY <1>5, <1>7, <1>10 DEF MemoryInv, FindsCurrent, Retrieving, Memory!Busy
<1> QED
  BY <1>9, <1>11, <1>12, <1>13, <1>14 DEF MemoryInv

(* Every step of the memory service keeps its invariant.                   *)
LEMMA MemoryStep ==
    ASSUME MemoryInv, [Memory!Next]_(Memory!vars)
    PROVE  MemoryInv'
<1> USE DEF Retrieving, Memory!Busy, Memory!Writing
<1>1. CASE UNCHANGED Memory!vars
  BY <1>1 DEF Memory!vars, MemoryInv, CallsTyped, LayersTyped, OverlapsKnown,
      RedisExplained, WritePrevails, FindsCurrent
<1>2. ASSUME NEW c \in Clients, NEW k \in Keys, NEW v \in Vals,
             Memory!StoreBegin(c, k, v) \/ Memory!RetrieveBegin(c, k) \/ Memory!DeleteBegin(c, k)
      PROVE  MemoryInv'
  <2>1. v \in Memory!MaybeVals /\ None \in Memory!MaybeVals
    BY DEF Memory!MaybeVals
  <2> QED
    BY <1>2, <2>1, BeginKeepsMemory
        DEF Memory!StoreBegin, Memory!RetrieveBegin, Memory!DeleteBegin
<1>3. ASSUME NEW c \in Clients, NEW k \in Keys,
             Memory!RetrieveBegin(c, k) \/ Memory!DeleteBegin(c, k)
      PROVE  MemoryInv'
  <2>1. None \in Memory!MaybeVals
    BY DEF Memory!MaybeVals
  <2> QED
    BY <1>3, <2>1, BeginKeepsMemory DEF Memory!RetrieveBegin, Memory!DeleteBegin
<1>4. ASSUME NEW k \in Keys, Memory!Expire(k)
      PROVE  MemoryInv'
  <2>1. /\ redis' \in [Keys -> Memory!MaybeVals]
        /\ \A l \in Keys : redis'[l] \in {None, redis[l]}
        /\ UNCHANGED <<output, call, latest>>
    BY <1>4 DEF Memory!Expire, MemoryInv, LayersTyped, Memory!MaybeVals
  <2> QED
    BY <2>1 DEF MemoryInv, CallsTyped, LayersTyped, OverlapsKnown, RedisExplained,
        WritePrevails, FindsCurrent
<1>5. CASE Memory!RunCompletes
  BY <1>5 DEF Memory!RunCompletes, MemoryInv, CallsTyped, LayersTyped, OverlapsKnown,
      RedisExplained, WritePrevails, FindsCurrent
<1> QED
  BY <1>1, <1>2, <1>3, <1>4, <1>5, RetrieveKeepsMemory, RedisWriteKeepsMemory,
      PgWriteKeepsMemory DEF Memory!Next

(* A retrieve returns nothing, the value of the latest store, or that of a *)
(* store it overlaps, whatever expires, raises or overlaps on the way      *)
(* (memory.py).                                                            *)
THEOREM MemoryAnswersCurrent == Memory!Spec => []AnswersAreCurrent
<1>1. Memory!Init => MemoryInv
  BY DEF Memory!Init, Memory!Idle, Memory!NoMemory, Memory!NoOutput, Memory!MaybeVals,
      Memory!Busy, Memory!Writing, Retrieving, MemoryInv, CallsTyped, LayersTyped,
      OverlapsKnown, RedisExplained, WritePrevails, FindsCurrent
<1>2. MemoryInv => AnswersAreCurrent
  <2> SUFFICES ASSUME MemoryInv, NEW c \in Clients, call[c].pc = "answer"
               PROVE  call[c].val \in call[c].may \cup {None}
    BY DEF AnswersAreCurrent, Memory!AnswersAreCurrent
  <2>1. call[c] \in Call /\ call[c].op = "retrieve"
    BY DEF MemoryInv, CallsTyped, Memory!Idle
  <2>2. PICK k \in Keys : Retrieving(c, k)
    BY <2>1 DEF Call, Retrieving, Memory!Busy
  <2> QED
    BY <2>2 DEF MemoryInv, FindsCurrent
<1> QED
  BY <1>1, <1>2, MemoryStep, PTL DEF Memory!Spec
=============================================================================
