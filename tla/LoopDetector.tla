---------------------------- MODULE LoopDetector ----------------------------
(***************************************************************************)
(* class LoopDetector: the hashes of a run's latest actions, and the test  *)
(* for an action that came back too often.  A hash is the action itself:   *)
(* equal actions have equal sorted JSON.                                   *)
(***************************************************************************)
EXTENDS Integers, Sequences, FiniteSets

CONSTANTS
    Window,      \* how many actions the test looks back on
    Threshold    \* how many equal ones make a loop

DetectorAssumption ==
    /\ Window \in Nat \ {0}
    /\ Threshold \in Nat \ {0}

(* s[-n:]                                                                  *)
Latest(s, n) == SubSeq(s, IF Len(s) > n THEN Len(s) - n + 1 ELSE 1, Len(s))

Occurrences(s, x) == Cardinality({k \in DOMAIN s : s[k] = x})

(* The list after a check of this action.                                  *)
Remember(hashes, action) == Latest(Append(hashes, action), 2 * Window)

(* Seeded fault: one occurrence more is let through.                       *)
LoopsLate(hashes, action) ==
    Occurrences(Latest(hashes, Window), action) > Threshold

(* What check answers, of the list it has just stored.                     *)
Loops(hashes, action) ==
    Occurrences(Latest(hashes, Window), action) >= Threshold
=============================================================================
