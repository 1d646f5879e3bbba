----------------------------- MODULE Pagination -----------------------------
(***************************************************************************)
(* Cursor pagination, as every list route has it: audit events, newest     *)
(* first, and those of a run, oldest first (routers/audit.py), workflows,  *)
(* runs and approvals; tools, whose names are unique and never change, by  *)
(* name.  A page is the first "limit" rows of the filtered table after the *)
(* row whose id is the cursor; a full page gives                           *)
(* the id of its last row as the next cursor, a shorter one ends the walk. *)
(*                                                                         *)
(* Between two pages other requests insert rows and change which of them   *)
(* the filter selects (an approval is decided, a run settles).  A row gets *)
(* created_at when its transaction begins (server_default now()) and is    *)
(* seen when it commits, so rows may appear behind the cursor, and the     *)
(* rows of one transaction share their time.  No route deletes a row, so   *)
(* the row of a cursor is always found.                                    *)
(***************************************************************************)
EXTENDS Integers, FiniteSets

CONSTANTS Ids,       \* ids, in the order of their bytes
          Limit,     \* rows in a full page
          MaxTime    \* bound on the clock

ASSUME IdsAreOrdered == Ids \subseteq Int
ASSUME LimitIsPositive == Limit \in Nat \ {0}

VARIABLES created,   \* created_at of each row; 0 before its transaction
          visible,   \* rows whose transaction committed
          selected,  \* rows the filter of the walk selects
          clock,
          walk,      \* the walk of a client
          returned,  \* how often the walk returned each row
          constant   \* rows selected ever since the walk began

vars == <<created, visible, selected, clock, walk, returned, constant>>

NoCursor == [some |-> FALSE]
At(i) == [some |-> TRUE, id |-> i]
Idle == [on |-> FALSE, desc |-> FALSE, cursor |-> NoCursor, ended |-> FALSE]

Init ==
    /\ created = [i \in Ids |-> 0]
    /\ visible = {}
    /\ selected \in SUBSET Ids
    /\ clock = 1
    /\ walk = Idle
    /\ returned = [i \in Ids |-> 0]
    /\ constant = {}

---------------------------------------------------------------------------
(* Other requests *)

Insert(i) ==
    /\ created[i] = 0
    /\ created' = [created EXCEPT ![i] = clock]
    /\ UNCHANGED <<visible, selected, clock, walk, returned, constant>>

Commit(i) ==
    /\ created[i] # 0 /\ i \notin visible
    /\ visible' = visible \cup {i}
    /\ UNCHANGED <<created, selected, clock, walk, returned, constant>>

Tick ==
    /\ clock < MaxTime
    /\ clock' = clock + 1
    /\ UNCHANGED <<created, visible, selected, walk, returned, constant>>

Reselect(i) ==
    /\ i \in visible
    /\ selected' = IF i \in selected THEN selected \ {i} ELSE selected \cup {i}
    /\ constant' = constant \ {i}
    /\ UNCHANGED <<created, visible, clock, walk, returned>>

---------------------------------------------------------------------------
(* The walk *)

(* The order of the rows: by created_at, then by id.                       *)
Older(i, j) ==
    \/ created[i] < created[j]
    \/ created[i] = created[j] /\ i < j
Before(desc, i, j) == IF desc THEN Older(j, i) ELSE Older(i, j)

(* Seeded fault: the comparison admits the time of the cursor, not its id. *)
AfterCursorOrEqual(i) ==
    walk.cursor.some =>
        IF walk.desc THEN created[i] <= created[walk.cursor.id]
        ELSE created[i] >= created[walk.cursor.id]

AfterCursor(i) ==
    walk.cursor.some => Before(walk.desc, walk.cursor.id, i)

Eligible == {i \in visible \cap selected : AfterCursor(i)}

(* ORDER BY ... LIMIT: the rows before all the others, as many as fit.     *)
IsPage(p) ==
    /\ p \subseteq Eligible
    /\ Cardinality(p) <= Limit
    /\ Cardinality(p) < Limit => p = Eligible
    /\ \A i \in p, j \in Eligible \ p : Before(walk.desc, i, j)

IsLast(i, p) == i \in p /\ \A j \in p \ {i} : Before(walk.desc, j, i)

Start(desc) ==
    /\ ~walk.on
    /\ walk' = [on |-> TRUE, desc |-> desc, cursor |-> NoCursor, ended |-> FALSE]
    /\ returned' = [i \in Ids |-> 0]
    /\ constant' = visible \cap selected
    /\ UNCHANGED <<created, visible, selected, clock>>

Count(p) == [i \in Ids |-> IF i \in p THEN returned[i] + 1 ELSE returned[i]]

FullPage(p) ==
    /\ walk.on /\ ~walk.ended /\ IsPage(p) /\ Cardinality(p) = Limit
    /\ \E i \in p : IsLast(i, p) /\ walk' = [walk EXCEPT !.cursor = At(i)]
    /\ returned' = Count(p)
    /\ UNCHANGED <<created, visible, selected, clock, constant>>

LastPage(p) ==
    /\ walk.on /\ ~walk.ended /\ IsPage(p) /\ Cardinality(p) < Limit
    /\ walk' = [walk EXCEPT !.ended = TRUE]
    /\ returned' = Count(p)
    /\ UNCHANGED <<created, visible, selected, clock, constant>>

(* The client has what it asked for, and may walk again.                   *)
Finish ==
    /\ walk.ended
    /\ walk' = Idle
    /\ UNCHANGED <<created, visible, selected, clock, returned, constant>>

Next ==
    \/ \E i \in Ids : Insert(i) \/ Commit(i) \/ Reselect(i)
    \/ Tick
    \/ \E desc \in BOOLEAN : Start(desc)
    \/ \E p \in SUBSET Ids : FullPage(p) \/ LastPage(p)
    \/ Finish

Spec == Init /\ [][Next]_vars

---------------------------------------------------------------------------
(* Properties *)

(* Type invariant: a cursor is the id of a row that was returned.          *)
TypeOK ==
    /\ created \in [Ids -> 0..clock]
    /\ visible \subseteq {i \in Ids : created[i] # 0}
    /\ selected \subseteq Ids /\ clock \in Nat
    /\ walk \in [on : BOOLEAN, desc : BOOLEAN, ended : BOOLEAN,
                 cursor : {NoCursor} \cup {At(i) : i \in visible}]
    /\ returned \in [Ids -> Nat]
    /\ constant \subseteq visible \cap selected

(* No walk returns a row twice, whatever is inserted, committed late or    *)
(* changed between its pages.                                              *)
NoRowTwice == \A i \in Ids : returned[i] <= 1

(* A walk that ended returned every row that was there and selected from   *)
(* its beginning to its end.                                               *)
NoRowMissed == walk.ended => \A i \in constant : returned[i] >= 1

(* Both: what a walk returns is exact, although no two of its pages see    *)
(* the same table.                                                         *)
WalkIsExact == NoRowTwice /\ NoRowMissed

=============================================================================
