----------------------------- MODULE Redaction -----------------------------
(***************************************************************************)
(* Detect and Redact of the governance proxy's PII detector                *)
(* (internal/pii/detector.go).  A text is a sequence of cells, numbered by *)
(* their place; what the regular expressions find in it is an input: for   *)
(* each pattern, in the order of NewDetector, a set of matches that do not *)
(* overlap.  Matches of two patterns may lie in any way to each other:     *)
(* apart, one in the other (an IP in the domain of an EMAIL), or with one  *)
(* beginning in the other (an EMAIL whose local part ends a PHONE number). *)
(* A cell of a marker is 0.  One step replaces one detection, as one turn  *)
(* of the loop in Redact.                                                  *)
(***************************************************************************)
EXTENDS Integers, Sequences, FiniteSets, SequencesExt

CONSTANTS Size,          \* cells of the text
          MarkerLength,  \* cells of the marker of each pattern
          MaxMatches     \* bound on the matches of one pattern

RedactionAssumption ==
    /\ Size \in Nat \ {0} /\ MaxMatches \in Nat
    /\ MarkerLength \in Seq(Nat \ {0})

VARIABLES found,       \* matches of each pattern
          detections,  \* what Detect returned, in its order
          result,      \* the text as rewritten so far
          i,           \* the loop variable of Redact, one higher
          status       \* "running", "returned" or "panicked"

vars == <<found, detections, result, i, status>>

Patterns == DOMAIN MarkerLength

\* A match spans the cells start + 1 .. end, as text[start:end] in Go.
Match == {m \in [start : 0..Size - 1, end : 1..Size] : m.start < m.end}

Apart(m, n) == m.end <= n.start \/ n.end <= m.start

\* What FindAllStringIndex may return for one pattern.
FindAll == {ms \in {{}} \cup {Range(f) : f \in [1..MaxMatches -> Match]} :
              \A m, n \in ms : m = n \/ Apart(m, n)}

---------------------------------------------------------------------------

Detections(f) ==
    UNION {{[pattern |-> p, start |-> m.start, end |-> m.end] : m \in f[p]}
             : p \in Patterns}

\* Pattern after pattern, and from left to right within one.
Before(d, e) ==
    d.pattern < e.pattern \/ (d.pattern = e.pattern /\ d.start < e.start)

\* k - 1 of the detections are before the k-th.
Detect(f) ==
    [k \in 1..Cardinality(Detections(f)) |->
        CHOOSE d \in Detections(f) :
            Cardinality({e \in Detections(f) : Before(e, d)}) = k - 1]

Text == [c \in 1..Size |-> c]

Init ==
    /\ found \in [Patterns -> FindAll]
    /\ detections = Detect(found)
    /\ result = Text
    /\ i = Len(detections)
    /\ status = "running"

\* result[:det.Start] + det.Redacted + result[det.End:]
Splice(d) ==
    SubSeq(result, 1, d.start) \o [c \in 1..MarkerLength[d.pattern] |-> 0]
        \o SubSeq(result, d.end + 1, Len(result))

\* A slice that starts behind the end of the text panics.
InRange(d) == d.end <= Len(result)

(* Seeded fault: the loop runs from the first detection to the last.       *)
CurrentFromFirst == detections[Len(detections) - i + 1]

Current == detections[i]

Replace ==
    /\ status = "running" /\ i > 0 /\ InRange(Current)
    /\ result' = Splice(Current)
    /\ i' = i - 1
    /\ UNCHANGED <<found, detections, status>>

Panic ==
    /\ status = "running" /\ i > 0 /\ ~InRange(Current)
    /\ status' = "panicked"
    /\ UNCHANGED <<found, detections, result, i>>

Return ==
    /\ status = "running" /\ i = 0
    /\ status' = "returned"
    /\ UNCHANGED <<found, detections, result, i>>

Next == Replace \/ Panic \/ Return

Spec == Init /\ [][Next]_vars

---------------------------------------------------------------------------

Covered == UNION {{c \in 1..Size : \E m \in found[p] : m.start < c /\ c <= m.end}
                    : p \in Patterns}

\* By how much the markers of the first k detections exceed their matches.
Growth(ds, k) ==
    LET growth[j \in 0..Len(ds)] ==
            IF j = 0 THEN 0
            ELSE growth[j - 1] + MarkerLength[ds[j].pattern]
                     - (ds[j].end - ds[j].start)
    IN  growth[k]

\* The detections come from left to right and none overlaps another.
InOrder == \A k, l \in DOMAIN detections :
             k < l => detections[k].end <= detections[l].start

(* Redact, when the patterns match in the order of the text and apart from *)
(* each other: every match is gone, everything around it is there as it    *)
(* was, in its order, and there is one marker for each match.              *)
OrderedIsExact ==
    InOrder /\ status # "running" =>
        /\ status = "returned"
        /\ Range(result) \ {0} = 1..Size \ Covered
        /\ \A c, d \in DOMAIN result :
             (c < d /\ result[c] # 0 /\ result[d] # 0) => result[c] < result[d]
        /\ Len(result) = Size + Growth(detections, Len(detections))

-----------------------------------------------------------------------------
(* What the code's comments and docs say and the code does not do.         *)

(* "Redact replaces all PII in text with redaction markers": nothing of a  *)
(* match is in the text it returns.                                        *)
AllReplaced ==
    status = "returned" => \A c \in DOMAIN result : result[c] \notin Covered

(* "Returns the redacted text and the list of detections": the proxy's     *)
(* handler is never ended by a slice out of range.                         *)
Returns == status # "panicked"
=============================================================================
