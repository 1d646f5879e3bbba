---------------------------- MODULE EngineProofs ----------------------------
(***************************************************************************)
(* Proofs about the step engine of ExecuteRun and TriageWorkflow, for      *)
(* every graph, plan, set of limits and cost of a step: the queue of a     *)
(* defined workflow and its walk, the limits, and the repetition detector  *)
(* of a plan.                                                              *)
(***************************************************************************)
EXTENDS TriageWorkflow, SequenceTheorems, FiniteSetTheorems, TLAPS

(* Every set of numbers that is not empty has a least one.  Induction is   *)
(* stated with it: the least number without a property cannot exist.       *)
LEMMA LeastNumber ==
  ASSUME NEW T, T \subseteq Nat, T # {}
  PROVE  \E m \in T : \A k \in T : m <= k
<1>1. PICK m \in T : \A k \in T : <<k, m>> \notin OpToRel(<, Nat)
  BY WFMin, NatLessThanWellFounded, Zenon
<1>2. \A k \in T : ~(k < m)
  BY <1>1, Zenon DEF OpToRel
<1> QED
  BY <1>2

(* What Without has kept of the first i elements, and the function that    *)
(* says so of each of the first n.                                         *)
KeptNext(q, seen, kept, i) ==
    IF q[i] \in seen THEN kept ELSE Append(kept, q[i])

Filtering(q, seen, n, g) ==
    g = [i \in 0..n |-> IF i = 0 THEN <<>> ELSE KeptNext(q, seen, g[i - 1], i)]

(* By the least length for which it fails, a prefix of every length can be *)
(* filtered.                                                               *)
LEMMA FilteringExists ==
  ASSUME NEW q, NEW seen, NEW n \in Nat
  PROVE  \E g : Filtering(q, seen, n, g)
<1> DEFINE T == {k \in Nat : ~(\E g : Filtering(q, seen, k, g))}
<1> SUFFICES ASSUME T # {} PROVE FALSE
  BY Zenon
<1>1. PICK m \in T : \A k \in T : m <= k
  <2>1. T \subseteq Nat
    OBVIOUS
  <2> QED
    BY <2>1, LeastNumber, Zenon
<1>2. m \in Nat /\ ~(\E g : Filtering(q, seen, m, g))
  BY <1>1
<1>3. CASE m = 0
  <2>1. Filtering(q, seen, 0, [i \in 0..0 |-> <<>>])
    BY DEF Filtering
  <2> QED
    BY <2>1, <1>2, <1>3
<1>4. CASE m > 0
  <2>1. m - 1 \notin T /\ m - 1 \in Nat
    BY <1>1, <1>2, <1>4
  <2>2. PICK g : Filtering(q, seen, m - 1, g)
    BY <2>1
  <2>3. \A i \in 0..(m - 1) :
           g[i] = IF i = 0 THEN <<>> ELSE KeptNext(q, seen, g[i - 1], i)
    BY <2>2, Zenon DEF Filtering
  <2> DEFINE h == [i \in 0..m |-> IF i = 0 THEN <<>>
                                  ELSE KeptNext(q, seen, g[i - 1], i)]
  <2>4. \A i \in 0..(m - 1) : h[i] = g[i]
    BY <2>1, <2>3, <1>2
  <2>5. h = [i \in 0..m |-> IF i = 0 THEN <<>>
                            ELSE KeptNext(q, seen, h[i - 1], i)]
    <3>1. ASSUME NEW i \in 0..m, i # 0
          PROVE  i - 1 \in 0..(m - 1)
      BY <3>1, <1>2
    <3>2. \A i \in 0..m : i # 0 => h[i - 1] = g[i - 1]
      BY <3>1, <2>4
    <3> HIDE DEF h
    <3>3. h = [i \in 0..m |-> IF i = 0 THEN <<>>
                              ELSE KeptNext(q, seen, g[i - 1], i)]
      BY DEF h
    <3> QED
      BY <3>2, <3>3
  <2> QED
    BY <2>5, <1>2, Zenon DEF Filtering
<1> QED
  BY <1>2, <1>3, <1>4

(* A function like this one is the one in the definition.                  *)
LEMMA WithoutFunction ==
  ASSUME NEW q, NEW seen, Len(q) \in Nat
  PROVE  \E g : Filtering(q, seen, Len(q), g) /\ Without(q, seen) = g[Len(q)]
<1>1. PICK g : Filtering(q, seen, Len(q), g)
  BY FilteringExists, Zenon
<1> DEFINE f == CHOOSE k : k = [i \in 0..Len(q) |-> IF i = 0 THEN <<>>
                        ELSE IF q[i] \in seen THEN k[i - 1]
                        ELSE Append(k[i - 1], q[i])]
<1>2. f = [i \in 0..Len(q) |-> IF i = 0 THEN <<>>
                        ELSE IF q[i] \in seen THEN f[i - 1]
                        ELSE Append(f[i - 1], q[i])]
  BY <1>1, Zenon DEF Filtering, KeptNext
<1>3. Without(q, seen) = f[Len(q)]
  BY Zenon DEF Without
<1> QED
  BY <1>2, <1>3, Zenon DEF Filtering, KeptNext

(* Appending an element adds it to what the sequence holds.                *)
LEMMA RangeAppends ==
  ASSUME NEW X, NEW q \in Seq(X), NEW x \in X
  PROVE  Append(q, x) \in Seq(X) /\ Range(Append(q, x)) = Range(q) \cup {x}
<1>1. Append(q, x) \in Seq(X) /\ DOMAIN Append(q, x) = 1..(Len(q) + 1)
  OBVIOUS
<1>2. \A i \in 1..Len(q) : Append(q, x)[i] = q[i]
  OBVIOUS
<1>3. Append(q, x)[Len(q) + 1] = x /\ Len(q) \in Nat /\ DOMAIN q = 1..Len(q)
  OBVIOUS
<1>4. \A i \in 1..(Len(q) + 1) : i \in 1..Len(q) \/ i = Len(q) + 1
  BY <1>3
<1>5. 1..Len(q) \subseteq 1..(Len(q) + 1) /\ Len(q) + 1 \in 1..(Len(q) + 1)
  BY <1>3
<1> QED
  BY <1>1, <1>2, <1>3, <1>4, <1>5 DEF Range

(* A queue holds its head and what its tail holds.                         *)
LEMMA RangeTail ==
  ASSUME NEW X, NEW q \in Seq(X), q # <<>>
  PROVE  /\ Tail(q) \in Seq(X)
         /\ Head(q) \in X
         /\ Range(q) = {Head(q)} \cup Range(Tail(q))
<1>1. /\ Len(q) \in Nat \ {0} /\ DOMAIN q = 1..Len(q) /\ Head(q) = q[1]
      /\ DOMAIN Tail(q) = 1..(Len(q) - 1) /\ Tail(q) \in Seq(X)
  OBVIOUS
<1>2. \A i \in 1..(Len(q) - 1) : Tail(q)[i] = q[i + 1]
  OBVIOUS
<1>3. /\ \A i \in 1..(Len(q) - 1) : i + 1 \in 1..Len(q)
      /\ \A i \in 1..Len(q) : i = 1 \/ (i - 1 \in 1..(Len(q) - 1) /\ i = (i - 1) + 1)
      /\ 1 \in 1..Len(q)
  BY <1>1
<1>4. \A i \in 1..Len(q) : i = 1 \/ q[i] = Tail(q)[i - 1]
  BY <1>2, <1>3
<1> DEFINE r == Tail(q)
           h == Head(q)
<1>5. /\ DOMAIN r = 1..(Len(q) - 1) /\ h = q[1]
      /\ \A i \in 1..(Len(q) - 1) : r[i] = q[i + 1]
      /\ \A i \in 1..Len(q) : i = 1 \/ q[i] = r[i - 1]
  BY <1>1, <1>2, <1>4
<1> HIDE DEF r, h
<1>6. Range(q) = {h} \cup Range(r)
  <2>1. ASSUME NEW x \in Range(q) PROVE x \in {h} \cup Range(r)
    BY SMTT(30), <2>1, <1>1, <1>3, <1>5 DEF Range
  <2>2. ASSUME NEW x \in {h} \cup Range(r) PROVE x \in Range(q)
    BY <2>2, <1>1, <1>3, <1>5 DEF Range
  <2> QED
    BY <2>1, <2>2
<1>7. h \in X
  BY DEF h
<1> QED
  BY <1>1, <1>6, <1>7 DEF r, h

(* Without keeps the elements of q that are not in the other set.          *)
LEMMA WithoutKeeps ==
  ASSUME NEW X, NEW q \in Seq(X), NEW seen
  PROVE  /\ Without(q, seen) \in Seq(X)
         /\ Range(Without(q, seen)) = Range(q) \ seen
<1>1. Len(q) \in Nat /\ DOMAIN q = 1..Len(q) /\ \A i \in 1..Len(q) : q[i] \in X
  OBVIOUS
<1>2. PICK g : Filtering(q, seen, Len(q), g) /\ Without(q, seen) = g[Len(q)]
  BY <1>1, WithoutFunction, Zenon
<1> DEFINE Exact(k) == /\ g[k] \in Seq(X)
                       /\ Range(g[k]) = {q[j] : j \in 1..k} \ seen
           T == {k \in 0..Len(q) : ~Exact(k)}
<1>3. /\ g[0] = <<>>
      /\ \A i \in 1..Len(q) : g[i] = KeptNext(q, seen, g[i - 1], i)
  <2>1. \A i \in 0..Len(q) : g[i] = IF i = 0 THEN <<>>
                                    ELSE KeptNext(q, seen, g[i - 1], i)
    BY <1>2, Zenon DEF Filtering
  <2> QED
    BY <2>1, <1>1
<1>4. Exact(0)
  BY <1>3 DEF Range
<1>5. ASSUME NEW k \in 1..Len(q), Exact(k - 1)
      PROVE  Exact(k)
  <2>1. {q[j] : j \in 1..k} = {q[j] : j \in 1..(k - 1)} \cup {q[k]}
    <3>1. k \in 1..k /\ \A j \in 1..k : j = k \/ j \in 1..(k - 1)
      OBVIOUS
    <3>2. \A j \in 1..(k - 1) : j \in 1..k
      OBVIOUS
    <3> QED
      BY <3>1, <3>2
  <2>2. g[k] = IF q[k] \in seen THEN g[k - 1] ELSE Append(g[k - 1], q[k])
    BY <1>3 DEF KeptNext
  <2>3. CASE q[k] \in seen
    BY <2>1, <2>2, <2>3, <1>5
  <2>4. CASE q[k] \notin seen
    <3>1. Range(g[k]) = Range(g[k - 1]) \cup {q[k]} /\ g[k] \in Seq(X)
      BY <2>2, <2>4, <1>1, <1>5, RangeAppends
    <3> QED
      BY <3>1, <2>1, <2>4, <1>5
  <2> QED
    BY <2>3, <2>4
<1>6. T = {}
  <2> SUFFICES ASSUME T # {} PROVE FALSE
    OBVIOUS
  <2>1. T \subseteq Nat
    OBVIOUS
  <2>2. PICK m \in T : \A k \in T : m <= k
    BY <2>1, LeastNumber, Zenon
  <2>3. m \in 0..Len(q) /\ ~Exact(m) /\ m # 0
    BY <1>4
  <2>4. m \in 1..Len(q) /\ m - 1 \in 0..Len(q) /\ ~(m <= m - 1)
    BY <2>3, <1>1
  <2>5. Exact(m - 1)
    BY <2>2, <2>4
  <2> QED
    BY <2>3, <2>4, <2>5, <1>5
<1>7. Exact(Len(q))
  <2>1. Len(q) \in 0..Len(q)
    BY <1>1
  <2> HIDE DEF Exact
  <2> QED
    BY <2>1, <1>6
<1>8. {q[j] : j \in 1..Len(q)} = Range(q)
  BY <1>1 DEF Range
<1> QED
  BY <1>2, <1>7, <1>8

-----------------------------------------------------------------------------
(* The execution of a definition.                                          *)

Ids == Steps \cup Targets

(* What the assumption on the graph says of the order and the edges.       *)
LEMMA GraphFacts ==
  /\ StepIds \in Seq(Steps) /\ StepIds # <<>>
  /\ \A s \in Steps :
        /\ Adjacency[s] \in Seq(Ids)
        /\ Kind[s] = "branch" => \A l \in Labels : Labelled[s][l] \in Seq(Ids)
<1>1. \A s \in Steps : Range(Adjacency[s]) \subseteq Ids
  BY DEF Targets, Ids
<1> QED
  BY <1>1, GraphAssumption, SeqMonotonic

(* The walk begins with steps of the definition.                           *)
LEMMA EntryFacts == EntryPoints \in Seq(Steps)
<1>1. Without(StepIds, Targets) \in Seq(Steps)
  BY GraphFacts, WithoutKeeps
<1>2. <<StepIds[1]>> \in Seq(Steps)
  BY GraphFacts
<1> QED
  BY <1>1, <1>2 DEF EntryPoints

(* While a run goes on, the steps looked at are those with a result.       *)
WorkflowInv ==
    /\ StepsTyped
    /\ queue \in Seq(Ids)
    /\ results \in Seq(Steps)
    /\ Executed \subseteq visited
    /\ status = "running" => visited \cap Steps = Executed

(* What a step that was let through leaves of the limits.                  *)
Spent ==
    /\ usage.steps <= MaxSteps
    /\ \E t \in TokenCosts \cup {0} : usage.tokens < MaxTokens + t
    /\ \E c \in CallCounts \cup {1} : usage.calls < MaxToolCalls + c
    /\ \E d \in Durations : clock < MaxWallTime + d

SpentInv == completed > 0 => Spent

(* Taking a step from the queue leaves the rest of it.                     *)
LEMMA PopFacts ==
  ASSUME WorkflowInv, NEW s, Pop(s)
  PROVE  /\ s \in Ids
         /\ Tail(queue) \in Seq(Ids)
         /\ Range(queue) = {s} \cup Range(Tail(queue))
  BY RangeTail DEF Pop, WorkflowInv

(* One more result, of a step that has none.                               *)
LEMMA ResultFacts ==
  ASSUME WorkflowInv, NEW s, Fresh(s), results' = Append(results, s)
  PROVE  /\ results' \in Seq(Steps)
         /\ Len(results') = Len(results) + 1
         /\ Len(results) \in Nat
         /\ Executed' = Executed \cup {s}
         /\ IsInjective(results')
         /\ \A k \in 1..Len(results) : results'[k] = results[k]
         /\ results'[Len(results')] = s
         /\ visited' \cap Steps = (visited \cap Steps) \cup {s}
         /\ Executed' \subseteq visited'
<1>1. s \in Steps /\ s \notin Executed /\ results \in Seq(Steps) /\ visited' = visited \cup {s}
  BY DEF Fresh, Pop, WorkflowInv
<1>2. Executed' = Executed \cup {s} /\ results' \in Seq(Steps)
  BY <1>1, RangeAppends DEF Executed
<1>3. /\ Len(results') = Len(results) + 1
      /\ Len(results) \in Nat
      /\ \A k \in 1..Len(results) : results'[k] = results[k]
      /\ results'[Len(results')] = s
  BY <1>1
<1>4. \A k \in 1..Len(results) : results[k] # s
  BY <1>1 DEF Executed, Range
<1>5. \A k \in 1..Len(results') : k \in 1..Len(results) \/ k = Len(results')
  BY <1>3
<1>6. \A j, k \in 1..Len(results) : results[j] = results[k] => j = k
  BY <1>1 DEF WorkflowInv, StepsTyped, IsInjective
<1>7. IsInjective(results')
  <2>1. DOMAIN results' = 1..Len(results')
    BY <1>2
  <2>2. \A j, k \in 1..Len(results') : results'[j] = results'[k] => j = k
    BY <1>3, <1>4, <1>5, <1>6
  <2> QED
    BY <2>1, <2>2 DEF IsInjective
<1>8. Executed \subseteq visited
  BY DEF WorkflowInv
<1> QED
  BY <1>1, <1>2, <1>3, <1>7, <1>8

(* A step that is done, with its successors queued, keeps the invariant.   *)
LEMMA FinishKeeps ==
  ASSUME WorkflowInv, NEW s, Start(s), NEW t \in Nat, NEW c \in Nat,
         FinishStep(s, t, c), UNCHANGED status
  PROVE  WorkflowInv'
<1>1. Fresh(s) /\ results' = Append(results, s) /\ started' = started \cup {s} /\ s \in Steps
  BY DEF Start, FinishStep, Fresh
<1>2. queue' \in Seq(Ids)
  <2>1. Adjacency[s] \in Seq(Ids)
    BY <1>1, GraphFacts
  <2>2. Without(Adjacency[s], visited') \in Seq(Ids)
    BY <2>1, WithoutKeeps
  <2> QED
    BY <1>1, <2>2, PopFacts, ConcatProperties DEF FinishStep, Follow, Fresh
<1>3. usage' \in Usage /\ clock' \in Nat
  <2>1. usage \in Usage /\ clock \in Nat
    BY DEF WorkflowInv, StepsTyped
  <2>2. usage' = RecordStep(usage, t, c)
    BY DEF FinishStep
  <2>3. usage' \in Usage
    BY <2>1, <2>2 DEF RecordStep, Usage
  <2>4. PICK d \in Durations : clock' = clock + d
    BY DEF Start
  <2> QED
    BY <2>1, <2>3, <2>4, GraphAssumption
<1>4. completed' = Len(results') /\ completed' \in 0..Len(results')
  BY <1>1, ResultFacts DEF FinishStep
<1>5. \A k \in (completed' + 1)..Len(results') : Kind[results'[k]] = "branch"
  BY <1>4
<1>6. finished' \subseteq started' /\ started' \subseteq Steps
  BY <1>1 DEF FinishStep, WorkflowInv, StepsTyped
<1>7. Executed' \subseteq Steps
  BY <1>1, ResultFacts DEF WorkflowInv, StepsTyped
<1>8. StepsTyped'
  BY <1>1, <1>3, <1>4, <1>5, <1>6, <1>7, ResultFacts DEF WorkflowInv, StepsTyped
<1> QED
  BY <1>1, <1>2, <1>8, ResultFacts DEF WorkflowInv

(* A step that ends the run leaves the results as they are.                *)
LEMMA StopKeeps ==
  ASSUME WorkflowInv, NEW s, Fresh(s), status' \in {"awaiting", "failed"},
         queue' = Tail(queue), UNCHANGED <<results, completed, usage, finished>>,
         clock' \in Nat, started' \in {started, started \cup {s}}
  PROVE  WorkflowInv'
<1>1. queue' \in Seq(Ids)
  BY PopFacts DEF Fresh
<1>2. visited \subseteq visited' /\ s \in Steps
  BY DEF Fresh, Pop
<1>3. UNCHANGED Executed
  BY DEF Executed
<1>4. StepsTyped'
  BY <1>2, <1>3 DEF WorkflowInv, StepsTyped
<1> QED
  BY <1>1, <1>2, <1>3, <1>4 DEF WorkflowInv

(* Every step of a defined workflow keeps the invariant.                   *)
LEMMA WorkflowStep == WorkflowInv /\ [Next]_vars => WorkflowInv'
<1> SUFFICES ASSUME WorkflowInv, [Next]_vars
             PROVE  WorkflowInv'
    OBVIOUS
<1>1. ASSUME NEW s, SkipStep(s)
      PROVE  WorkflowInv'
  <2>1. queue' \in Seq(Ids) /\ visited' = visited \cup {s}
    BY <1>1, PopFacts DEF SkipStep, Pop
  <2>2. UNCHANGED <<Executed, StepsTyped>>
    BY <1>1 DEF SkipStep, Executed, StepsTyped
  <2>3. visited' \cap Steps = visited \cap Steps
    BY <1>1, <2>1 DEF SkipStep
  <2> QED
    BY <1>1, <2>1, <2>2, <2>3 DEF SkipStep, WorkflowInv
<1>2. ASSUME NEW s, OverLimit(s)
      PROVE  WorkflowInv'
  BY <1>2, StopKeeps DEF OverLimit, WorkflowInv, StepsTyped
<1>3. ASSUME NEW s, LlmStep(s)
      PROVE  WorkflowInv'
  BY <1>3, FinishKeeps, GraphAssumption DEF LlmStep
<1>4. ASSUME NEW s, OtherStep(s)
      PROVE  WorkflowInv'
  BY <1>4, FinishKeeps DEF OtherStep
<1>5. ASSUME NEW s, ToolStep(s)
      PROVE  WorkflowInv'
  BY <1>5, FinishKeeps DEF ToolStep
<1>6. ASSUME NEW s, GateStep(s) \/ StepRaises(s)
      PROVE  WorkflowInv'
  <2>1. /\ Fresh(s) /\ status' \in {"awaiting", "failed"} /\ queue' = Tail(queue)
        /\ UNCHANGED <<results, completed, usage, finished>>
        /\ started' = started \cup {s}
    BY <1>6 DEF GateStep, StepRaises, Start
  <2>2. clock' \in Nat
    BY <1>6, GraphAssumption DEF GateStep, StepRaises, Start, WorkflowInv, StepsTyped
  <2> QED
    BY <2>1, <2>2, StopKeeps
<1>7. ASSUME NEW s, NEW l \in Labels, BranchStep(s, l)
      PROVE  WorkflowInv'
  <2>1. /\ Fresh(s) /\ s \in Steps /\ Kind[s] = "branch"
        /\ results' = Append(results, s) /\ started' = started \cup {s}
        /\ UNCHANGED <<completed, usage, status, finished>>
    BY <1>7 DEF BranchStep, Start, Fresh
  <2>2. queue' \in Seq(Ids)
    BY <1>7, <2>1, PopFacts, GraphFacts, ConcatProperties DEF BranchStep, Fresh
  <2>3. clock' \in Nat
    BY <1>7, GraphAssumption DEF BranchStep, Start, WorkflowInv, StepsTyped
  <2>4. \A k \in (completed' + 1)..Len(results') : Kind[results'[k]] = "branch"
    <3>1. completed \in 0..Len(results) /\ Len(results) \in Nat
      BY <2>1, ResultFacts DEF WorkflowInv, StepsTyped
    <3>2. ASSUME NEW k \in (completed + 1)..(Len(results) + 1)
          PROVE  Kind[results'[k]] = "branch"
      <4>1. k \in (completed + 1)..Len(results) \/ k = Len(results) + 1
        BY <3>1
      <4>2. ASSUME k \in (completed + 1)..Len(results)
            PROVE  Kind[results'[k]] = "branch"
        <5>1. Kind[results[k]] = "branch"
          BY <4>2 DEF WorkflowInv, StepsTyped
        <5>2. k \in 1..Len(results)
          BY <4>2, <3>1
        <5> QED
          BY <5>1, <5>2, <2>1, ResultFacts
      <4> QED
        BY <4>1, <4>2, <2>1, ResultFacts
    <3> QED
      BY <2>1, <3>2, ResultFacts
  <2>5. completed' \in 0..Len(results')
    BY <2>1, ResultFacts DEF WorkflowInv, StepsTyped
  <2>6. StepsTyped'
    BY <2>1, <2>3, <2>4, <2>5, ResultFacts DEF WorkflowInv, StepsTyped
  <2> QED
    BY <2>1, <2>2, <2>6, ResultFacts DEF WorkflowInv
<1>8. CASE Complete
  <2>1. UNCHANGED <<Executed, queue, visited, results>>
    BY <1>8 DEF Complete, Executed
  <2>2. StepsTyped'
    BY <1>8, <2>1 DEF Complete, WorkflowInv, StepsTyped
  <2> QED
    BY <1>8, <2>1, <2>2 DEF Complete, WorkflowInv
<1>9. CASE UNCHANGED vars
  BY <1>9 DEF vars, WorkflowInv, StepsTyped, Executed
<1> QED
  BY <1>1, <1>2, <1>3, <1>4, <1>5, <1>6, <1>7, <1>8, <1>9 DEF Next

-----------------------------------------------------------------------------
(* The limits.                                                             *)

(* What a step that was let through uses is within the limits but for what *)
(* this one step may add.                                                  *)
LEMMA StepSpends ==
  ASSUME usage \in Usage, clock \in Nat, ~Exhausted(usage, clock),
         NEW t \in TokenCosts \cup {0}, NEW c \in CallCounts \cup {0, 1},
         NEW d \in Durations,
         usage' \in {usage, RecordStep(usage, t, c)}, clock' = clock + d
  PROVE  /\ usage'.steps <= MaxSteps
         /\ usage'.tokens < MaxTokens + t
         /\ usage'.calls < MaxToolCalls + (IF c = 0 THEN 1 ELSE c)
         /\ clock' < MaxWallTime + d
<1>0. TokenCosts \subseteq Nat /\ CallCounts \subseteq Nat /\ Durations \subseteq Nat
  BY AutoAssumption, Zenon DEF Planned!PlanAssumption
<1>1. t \in Nat /\ c \in Nat /\ d \in Nat
  BY <1>0
<1>2. /\ usage.steps \in Nat /\ usage.tokens \in Nat /\ usage.calls \in Nat
      /\ usage.steps < MaxSteps /\ usage.tokens < MaxTokens
      /\ usage.calls < MaxToolCalls /\ clock < MaxWallTime
  BY LimitsAssumption DEF Exhausted, Usage
<1>3. CASE usage' = usage
  BY <1>1, <1>2, <1>3, LimitsAssumption
<1>4. CASE usage' = RecordStep(usage, t, c)
  <2>1. /\ usage'.steps = usage.steps + 1
        /\ usage'.tokens = usage.tokens + t
        /\ usage'.calls = usage.calls + c
    BY <1>4 DEF RecordStep
  <2> QED
    BY <2>1, <1>1, <1>2, LimitsAssumption
<1> QED
  BY <1>3, <1>4

(* What is spent after a step that began below the limits is bounded.      *)
LEMMA SpentAfter ==
  ASSUME usage \in Usage, clock \in Nat, ~Exhausted(usage, clock),
         NEW t \in TokenCosts \cup {0}, NEW c \in CallCounts \cup {0, 1},
         NEW d \in Durations,
         usage' \in {usage, RecordStep(usage, t, c)}, clock' = clock + d
  PROVE  Spent'
<1>1. (IF c = 0 THEN 1 ELSE c) \in CallCounts \cup {1}
  OBVIOUS
<1> QED
  BY <1>1, StepSpends DEF Spent

CallsInv == usage.calls <= MaxToolCalls

(* Every step of a defined workflow keeps its spending bounded.            *)
LEMMA WorkflowSpends ==
  WorkflowInv /\ SpentInv /\ CallsInv /\ [Next]_vars => SpentInv' /\ CallsInv'
<1> SUFFICES ASSUME WorkflowInv, SpentInv, CallsInv, [Next]_vars
             PROVE  SpentInv' /\ CallsInv'
    OBVIOUS
<1>1. usage \in Usage /\ clock \in Nat /\ completed \in Nat
  BY DEF WorkflowInv, StepsTyped
<1>2. ASSUME NEW s, Start(s), NEW t \in TokenCosts \cup {0}, NEW c \in {0, 1},
             usage' \in {usage, RecordStep(usage, t, c)}
      PROVE  SpentInv' /\ CallsInv'
  <2>1. PICK d \in Durations : clock' = clock + d
    BY <1>2 DEF Start
  <2>2. ~Exhausted(usage, clock)
    BY <1>2 DEF Start
  <2>3. Spent'
    BY <1>1, <1>2, <2>1, <2>2, SpentAfter
  <2>4. usage'.calls < MaxToolCalls + 1
    BY <1>1, <1>2, <2>1, <2>2, StepSpends
  <2>5. usage' \in Usage
    BY SMTT(30), <1>1, <1>2, GraphAssumption DEF RecordStep, Usage
  <2> QED
    BY <2>3, <2>4, <2>5, LimitsAssumption DEF SpentInv, CallsInv, Usage
<1>3. ASSUME UNCHANGED <<usage, clock, completed>>
      PROVE  SpentInv' /\ CallsInv'
  BY <1>3 DEF SpentInv, Spent, CallsInv
<1>4. ASSUME NEW s, SkipStep(s) \/ OverLimit(s)
      PROVE  SpentInv' /\ CallsInv'
  BY <1>3, <1>4 DEF SkipStep, OverLimit
<1>5. ASSUME NEW s, LlmStep(s) \/ OtherStep(s) \/ ToolStep(s)
      PROVE  SpentInv' /\ CallsInv'
  BY <1>2, <1>5 DEF LlmStep, OtherStep, ToolStep, FinishStep
<1>6. ASSUME NEW s, NEW l, GateStep(s) \/ StepRaises(s) \/ BranchStep(s, l)
      PROVE  SpentInv' /\ CallsInv'
  BY <1>2, <1>6 DEF GateStep, StepRaises, BranchStep
<1>7. CASE Complete
  BY <1>3, <1>7 DEF Complete
<1>8. CASE UNCHANGED vars
  BY <1>3, <1>8 DEF vars
<1> QED
  BY <1>4, <1>5, <1>6, <1>7, <1>8 DEF Next

-----------------------------------------------------------------------------
(* The execution of a plan.                                                *)

(* The first c elements of a sequence.                                     *)
First(q, c) == SubSeq(q, 1, c)

(* The steps looked at are those executed, while the run goes on, and the  *)
(* detector remembers the latest of them.                                  *)
PlanInv ==
    /\ Planned!PlanTyped
    /\ hashes \in Seq(Actions)
    /\ completed <= Len(plan)
    /\ status = "planning" =>
          plan = <<>> /\ hashes = <<>> /\ completed = 0 /\ usage = NoUsage
    /\ status = "running" =>
          hashes = Planned!Latest(First(plan, completed), 2 * Window)

(* The limits seen from AutoPlan are those of the definition.              *)
LEMMA SameLimits ==
  /\ Planned!Usage = Usage /\ Planned!NoUsage = NoUsage
  /\ \A u, e : Planned!Exhausted(u, e) = Exhausted(u, e)
  /\ \A u, t, c : Planned!RecordStep(u, t, c) = RecordStep(u, t, c)
  BY DEF Planned!Usage, Usage, Planned!NoUsage, NoUsage, Planned!Exhausted,
         Exhausted, Planned!RecordStep, RecordStep

(* What the assumptions say of the constants of a plan.                    *)
LEMMA PlanFacts ==
  /\ MaxPlan \in Nat /\ TokenCosts \subseteq Nat /\ CallCounts \subseteq Nat
  /\ Durations \subseteq Nat
  /\ Window \in Nat \ {0} /\ Threshold \in Nat \ {0}
  /\ 2 * Window \in Nat \ {0}
  BY AutoAssumption DEF Planned!PlanAssumption, Planned!DetectorAssumption

(* Occurrences counts with the cardinality of this module.                 *)
LEMMA OccurrencesCounted ==
  ASSUME NEW s, NEW x
  PROVE  Planned!Occurrences(s, x) = Cardinality({k \in DOMAIN s : s[k] = x})
  BY DEF Planned!Occurrences, Planned!Cardinality, Cardinality

(* The last n elements of a sequence, or all.                              *)
Shorter(m, n) == IF m > n THEN n ELSE m

(* r is the last k elements of q.                                          *)
LastOf(r, q, k) ==
    /\ Len(r) = k /\ DOMAIN r = 1..k
    /\ \A i \in 1..k : r[i] = q[Len(q) - k + i]

(* The latest n elements are the end of the sequence.                      *)
LEMMA LatestFacts ==
  ASSUME NEW X, NEW q \in Seq(X), NEW n \in Nat \ {0}
  PROVE  /\ Planned!Latest(q, n) \in Seq(X)
         /\ LastOf(Planned!Latest(q, n), q, Shorter(Len(q), n))
<1> DEFINE k == Shorter(Len(q), n)
<1>1. PICK a : a = IF Len(q) > n THEN Len(q) - n + 1 ELSE 1
  OBVIOUS
<1>2. PICK m : m = Len(q)
  OBVIOUS
<1>3. /\ m \in Nat /\ DOMAIN q = 1..m /\ \A i \in 1..m : q[i] \in X
      /\ k \in Nat /\ a = m - k + 1 /\ a \in 1..(m + 1)
      /\ (IF a <= m THEN m - a + 1 ELSE 0) = k /\ m - a + 1 = k
  <2>1. m \in Nat /\ DOMAIN q = 1..m /\ \A i \in 1..m : q[i] \in X
    BY <1>2
  <2>2. CASE m > n
    <3>1. a = m - n + 1 /\ k = n
      BY <2>2, <1>1, <1>2 DEF Shorter
    <3> QED
      BY <2>1, <2>2, <3>1
  <2>3. CASE ~(m > n)
    <3>1. a = 1 /\ k = m
      BY <2>3, <1>1, <1>2 DEF Shorter
    <3> QED
      BY <2>1, <2>3, <3>1
  <2> QED
    BY <2>2, <2>3
<1> HIDE DEF k
<1>4. PICK s : s = SubSeq(q, a, m)
  OBVIOUS
<1>5. Planned!Latest(q, n) = s
  BY <1>1, <1>2, <1>4 DEF Planned!Latest
<1>6. /\ s \in Seq(X)
      /\ Len(s) = IF a <= m THEN m - a + 1 ELSE 0
      /\ \A i \in 1..(m - a + 1) : s[i] = q[a + i - 1]
  <2>1. \A i \in a..m : q[i] \in X
    BY <1>3
  <2>2. a \in Int /\ m \in Int
    BY <1>3
  <2> QED
    BY <2>1, <2>2, <1>4, SubSeqProperties
<1>7. Len(s) = k
  BY <1>3, <1>6
<1>8. DOMAIN s = 1..k
  <2>1. DOMAIN s = 1..Len(s)
    BY <1>6
  <2> QED
    BY <2>1, <1>7
<1>9. \A i \in 1..k : s[i] = q[m - k + i]
  <2> SUFFICES ASSUME NEW i \in 1..k PROVE s[i] = q[m - k + i]
    OBVIOUS
  <2>1. i \in 1..(m - a + 1) /\ a + i - 1 = m - k + i
    BY <1>3
  <2> QED
    BY <2>1, <1>6
<1> QED
  BY <1>2, <1>5, <1>6, <1>7, <1>8, <1>9 DEF LastOf, k

(* Forgetting all but the last n elements changes nothing for those of the *)
(* last n and for one more.                                                *)
LEMMA LatestAppend ==
  ASSUME NEW X, NEW q \in Seq(X), NEW x \in X, NEW n \in Nat \ {0}
  PROVE  Planned!Latest(Append(Planned!Latest(q, n), x), n)
            = Planned!Latest(Append(q, x), n)
<1>1. PICK k \in Nat : k = Shorter(Len(q), n)
  BY DEF Shorter
<1>2. PICK l \in Nat : l = Shorter(k + 1, n)
  BY DEF Shorter
<1>3. /\ Len(q) \in Nat /\ k \in Nat /\ l \in Nat /\ k <= Len(q)
      /\ l <= k + 1 /\ l <= Len(q) + 1 /\ l = Shorter(Len(q) + 1, n)
  BY <1>1, <1>2 DEF Shorter
<1>4. PICK r : r = Planned!Latest(q, n)
  OBVIOUS
<1>5. /\ r \in Seq(X) /\ Len(r) = k /\ DOMAIN r = 1..k
      /\ \A i \in 1..k : r[i] = q[Len(q) - k + i]
  <2>1. r \in Seq(X) /\ LastOf(r, q, k)
    BY <1>1, <1>4, LatestFacts
  <2> QED
    BY <2>1 DEF LastOf
<1>6. PICK u : u = Append(r, x)
  OBVIOUS
<1>7. PICK v : v = Append(q, x)
  OBVIOUS
<1>8. /\ u \in Seq(X) /\ Len(u) = k + 1
      /\ \A i \in 1..k : u[i] = r[i]
      /\ u[k + 1] = x
  BY <1>5, <1>6
<1>9. /\ v \in Seq(X) /\ Len(v) = Len(q) + 1
      /\ \A i \in 1..Len(q) : v[i] = q[i]
      /\ v[Len(q) + 1] = x
  BY <1>7
<1>10. PICK a : a = Planned!Latest(u, n)
  OBVIOUS
<1>11. PICK b : b = Planned!Latest(v, n)
  OBVIOUS
<1>12. /\ a \in Seq(X) /\ Len(a) = l /\ DOMAIN a = 1..l
       /\ \A i \in 1..l : a[i] = u[k + 1 - l + i]
  <2>1. a \in Seq(X) /\ LastOf(a, u, l)
    <3>1. l = Shorter(Len(u), n)
      BY <1>2, <1>8
    <3> QED
      BY <3>1, <1>8, <1>10, LatestFacts
  <2>2. Len(u) = k + 1
    BY <1>8
  <2> QED
    BY <2>1, <2>2 DEF LastOf
<1>13. /\ b \in Seq(X) /\ Len(b) = l /\ DOMAIN b = 1..l
       /\ \A i \in 1..l : b[i] = v[Len(q) + 1 - l + i]
  <2>1. b \in Seq(X) /\ LastOf(b, v, l)
    BY <1>3, <1>9, <1>11, LatestFacts
  <2>2. Len(v) = Len(q) + 1
    BY <1>9
  <2> QED
    BY <2>1, <2>2 DEF LastOf
<1>14. ASSUME NEW i \in 1..l
       PROVE  a[i] = b[i]
  <2>1. CASE i = l
    <3>1. a[i] = u[k + 1] /\ b[i] = v[Len(q) + 1]
      <4>1. k + 1 - l + i = k + 1 /\ Len(q) + 1 - l + i = Len(q) + 1
        BY <1>3, <2>1
      <4> QED
        BY <4>1, <1>12, <1>13
    <3> QED
      BY <3>1, <1>8, <1>9
  <2>2. CASE i # l
    <3>1. k + 1 - l + i \in 1..k /\ Len(q) + 1 - l + i \in 1..Len(q)
      BY <1>3, <2>2
    <3>2. a[i] = q[Len(q) - k + (k + 1 - l + i)]
      BY <1>5, <1>8, <1>12, <3>1
    <3>3. b[i] = q[Len(q) + 1 - l + i]
      BY <1>9, <1>13, <3>1
    <3>4. Len(q) - k + (k + 1 - l + i) = Len(q) + 1 - l + i
      BY <1>3
    <3> QED
      BY <3>2, <3>3, <3>4
  <2> QED
    BY <2>1, <2>2
<1>15. a = b
  BY <1>12, <1>13, <1>14, SeqEqual
<1> QED
  BY <1>4, <1>6, <1>7, <1>10, <1>11, <1>15

(* The latest n of the latest m are the latest n, for n up to m.           *)
LEMMA LatestTwice ==
  ASSUME NEW X, NEW q \in Seq(X), NEW n \in Nat \ {0}, NEW m \in Nat \ {0}, n <= m
  PROVE  Planned!Latest(Planned!Latest(q, m), n) = Planned!Latest(q, n)
<1>1. PICK k \in Nat : k = Shorter(Len(q), m)
  BY DEF Shorter
<1>2. PICK l \in Nat : l = Shorter(Len(q), n)
  BY DEF Shorter
<1>3. /\ Len(q) \in Nat /\ k \in Nat /\ l \in Nat /\ l <= k /\ k <= Len(q)
      /\ l = Shorter(k, n)
  BY <1>1, <1>2 DEF Shorter
<1>4. PICK r : r = Planned!Latest(q, m)
  OBVIOUS
<1>5. /\ r \in Seq(X) /\ Len(r) = k /\ DOMAIN r = 1..k
      /\ \A i \in 1..k : r[i] = q[Len(q) - k + i]
  <2>1. r \in Seq(X) /\ LastOf(r, q, k)
    BY <1>1, <1>4, LatestFacts
  <2> QED
    BY <2>1 DEF LastOf
<1>6. PICK a : a = Planned!Latest(r, n)
  OBVIOUS
<1>7. PICK b : b = Planned!Latest(q, n)
  OBVIOUS
<1>8. /\ a \in Seq(X) /\ Len(a) = l /\ DOMAIN a = 1..l
      /\ \A i \in 1..l : a[i] = r[k - l + i]
  <2>1. a \in Seq(X) /\ LastOf(a, r, l)
    BY <1>3, <1>5, <1>6, LatestFacts
  <2>2. Len(r) = k
    BY <1>5
  <2> QED
    BY <2>1, <2>2 DEF LastOf
<1>9. /\ b \in Seq(X) /\ Len(b) = l /\ DOMAIN b = 1..l
      /\ \A i \in 1..l : b[i] = q[Len(q) - l + i]
  <2>1. b \in Seq(X) /\ LastOf(b, q, l)
    BY <1>2, <1>7, LatestFacts
  <2> QED
    BY <2>1 DEF LastOf
<1>10. ASSUME NEW i \in 1..l
       PROVE  a[i] = b[i]
  <2>1. k - l + i \in 1..k /\ Len(q) - k + (k - l + i) = Len(q) - l + i
    BY <1>3
  <2>2. a[i] = q[Len(q) - k + (k - l + i)]
    BY <2>1, <1>5, <1>8
  <2> QED
    BY <2>1, <2>2, <1>9
<1>11. a = b
  BY <1>8, <1>9, <1>10, SeqEqual
<1> QED
  BY <1>4, <1>6, <1>7, <1>11

(* Another element pushes an occurrence out of the last n, or none, and    *)
(* brings none in.                                                         *)
LEMMA OthersOccurLess ==
  ASSUME NEW X, NEW q \in Seq(X), NEW x \in X, NEW y, y # x, NEW n \in Nat \ {0}
  PROVE  Planned!Occurrences(Planned!Latest(Append(q, x), n), y)
            <= Planned!Occurrences(Planned!Latest(q, n), y)
<1>1. PICK k \in Nat : k = Shorter(Len(q), n)
  BY DEF Shorter
<1>2. PICK l \in Nat : l = Shorter(Len(q) + 1, n)
  BY DEF Shorter
<1>3. /\ Len(q) \in Nat /\ k \in Nat /\ l \in Nat /\ k <= Len(q)
      /\ k <= l /\ l <= k + 1
  BY <1>1, <1>2 DEF Shorter
<1>4. PICK v : v = Append(q, x)
  OBVIOUS
<1>5. /\ v \in Seq(X) /\ Len(v) = Len(q) + 1
      /\ \A i \in 1..Len(q) : v[i] = q[i]
      /\ v[Len(q) + 1] = x
  BY <1>4
<1>6. PICK a : a = Planned!Latest(v, n)
  OBVIOUS
<1>7. PICK b : b = Planned!Latest(q, n)
  OBVIOUS
<1>8. /\ a \in Seq(X) /\ Len(a) = l /\ DOMAIN a = 1..l
      /\ \A i \in 1..l : a[i] = v[Len(q) + 1 - l + i]
  <2>1. a \in Seq(X) /\ LastOf(a, v, l)
    <3>1. l = Shorter(Len(v), n)
      BY <1>2, <1>5
    <3> QED
      BY <3>1, <1>5, <1>6, LatestFacts
  <2>2. Len(v) = Len(q) + 1
    BY <1>5
  <2> QED
    BY <2>1, <2>2 DEF LastOf
<1>9. /\ b \in Seq(X) /\ Len(b) = k /\ DOMAIN b = 1..k
      /\ \A i \in 1..k : b[i] = q[Len(q) - k + i]
  <2>1. b \in Seq(X) /\ LastOf(b, q, k)
    BY <1>1, <1>7, LatestFacts
  <2> QED
    BY <2>1 DEF LastOf
<1>10. PICK S : S = {i \in 1..l : a[i] = y}
  OBVIOUS
<1>11. PICK T : T = {i \in 1..k : b[i] = y}
  OBVIOUS
<1> DEFINE f == [i \in S |-> i + (k - l + 1)]
<1>12. ASSUME NEW i \in S
       PROVE  i \in Nat /\ i + (k - l + 1) \in T
  <2>1. i \in 1..l /\ a[i] = y
    BY <1>10
  <2>2. i # l
    <3>1. Len(q) + 1 - l + l = Len(q) + 1
      BY <1>3
    <3> QED
      BY <2>1, <3>1, <1>5, <1>8
  <2>3. i + (k - l + 1) \in 1..k
    BY <1>3, <2>1, <2>2
  <2>4. Len(q) + 1 - l + i \in 1..Len(q) /\ Len(q) - k + (i + (k - l + 1)) = Len(q) + 1 - l + i
    BY <1>3, <2>1, <2>2
  <2>5. a[i] = q[Len(q) + 1 - l + i]
    BY <1>5, <1>8, <2>1, <2>4
  <2>6. b[i + (k - l + 1)] = a[i]
    BY <1>9, <2>3, <2>4, <2>5
  <2> QED
    BY <1>11, <2>1, <2>3, <2>6
<1>13. f \in Injection(S, T)
  <2>1. f \in [S -> T]
    BY <1>12
  <2>2. \A i, j \in S : f[i] = f[j] => i = j
    BY <1>3, <1>12
  <2> QED
    BY <2>1, <2>2 DEF Injection, IsInjective
<1>14. IsFiniteSet(T)
  <2>1. IsFiniteSet(1..k) /\ T \subseteq 1..k
    BY <1>3, <1>11, FS_Interval
  <2> QED
    BY <2>1, FS_Subset
<1>15. Cardinality(S) <= Cardinality(T)
  <2> HIDE DEF f
  <2> QED
    BY <1>13, <1>14, FS_Injection
<1>16. {i \in DOMAIN a : a[i] = y} = S /\ {i \in DOMAIN b : b[i] = y} = T
  BY <1>8, <1>9, <1>10, <1>11
<1>17. /\ Planned!Occurrences(a, y) = Cardinality(S)
       /\ Planned!Occurrences(b, y) = Cardinality(T)
  BY <1>16, OccurrencesCounted
<1> QED
  BY <1>4, <1>6, <1>7, <1>15, <1>17

(* The number of occurrences is a natural number.                          *)
LEMMA OccurrencesNat ==
  ASSUME NEW X, NEW q \in Seq(X), NEW x
  PROVE  Planned!Occurrences(q, x) \in Nat
<1>1. DOMAIN q = 1..Len(q) /\ Len(q) \in Nat
  OBVIOUS
<1>2. PICK T : T = {k \in 1..Len(q) : q[k] = x}
  OBVIOUS
<1>3. IsFiniteSet(1..Len(q)) /\ T \subseteq 1..Len(q)
  BY <1>1, <1>2, FS_Interval
<1>4. Cardinality(T) \in Nat
  BY <1>3, FS_Subset, FS_CardinalityType
<1>5. Planned!Occurrences(q, x) = Cardinality(T)
  <2>1. {k \in DOMAIN q : q[k] = x} = T
    BY <1>1, <1>2
  <2> QED
    BY <2>1, OccurrencesCounted
<1> QED
  BY <1>4, <1>5

(* s is the first c elements of q.                                         *)
FirstOf(s, q, c) == Len(s) = c /\ \A i \in 1..c : s[i] = q[i]

(* The first c elements are the beginning of the sequence.                 *)
LEMMA FirstFacts ==
  ASSUME NEW X, NEW q \in Seq(X), NEW c \in 0..Len(q)
  PROVE  First(q, c) \in Seq(X) /\ FirstOf(First(q, c), q, c)
<1>1. Len(q) \in Nat /\ c \in Int /\ \A i \in 1..Len(q) : q[i] \in X
  OBVIOUS
<1>2. PICK s : s = First(q, c)
  OBVIOUS
<1>3. \A i \in 1..c : q[i] \in X
  BY <1>1
<1>4. /\ s \in Seq(X) /\ Len(s) = IF 1 <= c THEN c - 1 + 1 ELSE 0
      /\ \A i \in 1..(c - 1 + 1) : s[i] = q[1 + i - 1]
  BY <1>1, <1>2, <1>3, SubSeqProperties DEF First
<1>5. \A i \in 1..c : 1 + i - 1 = i /\ i \in 1..(c - 1 + 1)
  BY <1>1
<1>6. Len(s) = c /\ \A i \in 1..c : s[i] = q[i]
  BY <1>1, <1>4, <1>5
<1> QED
  BY <1>2, <1>4, <1>6 DEF FirstOf

(* The first k of the first c are the first k, for k up to c.              *)
LEMMA FirstAgain ==
  ASSUME NEW X, NEW q \in Seq(X), NEW c \in 0..Len(q), NEW k \in 0..c
  PROVE  First(First(q, c), k) = First(q, k)
<1>1. Len(q) \in Nat /\ k \in 0..Len(q)
  OBVIOUS
<1>2. PICK s : s = First(q, c)
  OBVIOUS
<1>3. s \in Seq(X) /\ Len(s) = c /\ \A i \in 1..c : s[i] = q[i]
  <2>1. s \in Seq(X) /\ FirstOf(s, q, c)
    BY <1>2, FirstFacts
  <2> QED
    BY <2>1 DEF FirstOf
<1>4. PICK a : a = First(s, k)
  OBVIOUS
<1>5. a \in Seq(X) /\ Len(a) = k /\ \A i \in 1..k : a[i] = s[i]
  <2>1. a \in Seq(X) /\ FirstOf(a, s, k)
    BY <1>3, <1>4, FirstFacts
  <2> QED
    BY <2>1 DEF FirstOf
<1>6. PICK b : b = First(q, k)
  OBVIOUS
<1>7. b \in Seq(X) /\ Len(b) = k /\ \A i \in 1..k : b[i] = q[i]
  <2>1. b \in Seq(X) /\ FirstOf(b, q, k)
    BY <1>1, <1>6, FirstFacts
  <2> QED
    BY <2>1 DEF FirstOf
<1>8. \A i \in 1..k : i \in 1..c /\ a[i] = b[i]
  BY <1>3, <1>5, <1>7
<1>9. a = b
  BY <1>5, <1>7, <1>8, SeqEqual
<1> QED
  BY <1>2, <1>4, <1>6, <1>9

(* The first c + 1 elements are the first c and the next one.              *)
LEMMA FirstNext ==
  ASSUME NEW X, NEW q \in Seq(X), NEW c \in 0..Len(q), c + 1 <= Len(q)
  PROVE  /\ q[c + 1] \in X
         /\ First(q, c + 1) = Append(First(q, c), q[c + 1])
<1>1. Len(q) \in Nat /\ c + 1 \in 0..Len(q) /\ c + 1 \in 1..Len(q) /\ c \in Nat
  OBVIOUS
<1>2. q[c + 1] \in X
  BY <1>1
<1>3. PICK s : s = First(q, c)
  OBVIOUS
<1>4. s \in Seq(X) /\ Len(s) = c /\ \A i \in 1..c : s[i] = q[i]
  <2>1. s \in Seq(X) /\ FirstOf(s, q, c)
    BY <1>3, FirstFacts
  <2> QED
    BY <2>1 DEF FirstOf
<1>5. PICK a : a = Append(s, q[c + 1])
  OBVIOUS
<1>6. /\ a \in Seq(X) /\ Len(a) = c + 1 /\ a[c + 1] = q[c + 1]
      /\ \A i \in 1..c : a[i] = s[i]
  BY <1>2, <1>4, <1>5
<1>7. PICK b : b = First(q, c + 1)
  OBVIOUS
<1>8. b \in Seq(X) /\ Len(b) = c + 1 /\ \A i \in 1..(c + 1) : b[i] = q[i]
  <2>1. b \in Seq(X) /\ FirstOf(b, q, c + 1)
    BY <1>1, <1>7, FirstFacts
  <2> QED
    BY <2>1 DEF FirstOf
<1>9. \A i \in 1..(c + 1) : i \in 1..c \/ i = c + 1
  BY <1>1
<1>10. \A i \in 1..(c + 1) : a[i] = b[i]
  BY <1>4, <1>6, <1>8, <1>9
<1>11. a = b
  BY <1>6, <1>8, <1>10, SeqEqual
<1> QED
  BY <1>2, <1>3, <1>5, <1>7, <1>11

(* Before the first action nothing has been repeated.                      *)
LEMMA NothingYet ==
  ASSUME NEW X, NEW q \in Seq(X), NEW n \in Nat \ {0}
  PROVE  /\ Planned!Latest(First(q, 0), n) = <<>>
         /\ \A x : Planned!Occurrences(<<>>, x) = 0
<1>1. First(q, 0) = <<>>
  BY SubSeqEmpty DEF First
<1>2. Planned!Latest(<<>>, n) = <<>>
  <2>1. Planned!Latest(<<>>, n) = SubSeq(<<>>, 1, 0)
    BY DEF Planned!Latest
  <2> QED
    BY <2>1, SubSeqEmpty
<1>3. \A x : {k \in DOMAIN <<>> : <<>>[k] = x} = {}
  OBVIOUS
<1>4. \A x : Planned!Occurrences(<<>>, x) = Cardinality({})
  BY <1>3, OccurrencesCounted
<1>5. Cardinality({}) = 0
  BY FS_EmptySet
<1> QED
  BY <1>1, <1>2, <1>4, <1>5

(* No step of the plan's first completed ones came too often.              *)
PlanFresh ==
    \A k \in 0..completed : \A x \in Actions :
        Planned!Occurrences(Planned!Latest(First(plan, k), Window), x) < Threshold

(* The part of the invariant that says that nothing was repeated.          *)
LEMMA PlanFreshImplies ==
  PlanInv /\ PlanFresh => Planned!NoRepetition
<1> SUFFICES ASSUME PlanInv, PlanFresh
             PROVE  Planned!NoRepetition
    OBVIOUS
<1>1. plan \in Seq(Actions) /\ completed \in 0..Len(plan)
  BY DEF PlanInv, Planned!PlanTyped
<1>2. Planned!Done = First(plan, completed)
  BY DEF Planned!Done, First
<1>3. Len(Planned!Done) = completed
  BY <1>1, <1>2, FirstFacts DEF FirstOf
<1>4. ASSUME NEW k \in 0..completed
      PROVE  SubSeq(Planned!Done, 1, k) = First(plan, k)
  <2>1. First(First(plan, completed), k) = First(plan, k)
    BY <1>1, FirstAgain
  <2> QED
    BY <2>1, <1>2 DEF First
<1>5. ASSUME NEW k \in 0..Len(Planned!Done), NEW x \in Actions
      PROVE  Planned!Occurrences(Planned!Latest(SubSeq(Planned!Done, 1, k), Window), x)
                < Threshold
  <2>1. k \in 0..completed
    BY <1>3
  <2>2. SubSeq(Planned!Done, 1, k) = First(plan, k)
    BY <2>1, <1>4
  <2> QED
    BY <2>1, <2>2 DEF PlanFresh
<1> QED
  BY <1>5, Zenon DEF Planned!NoRepetition

(* What looking at the next step of the plan makes the detector remember.  *)
LEMMA LookFacts ==
  ASSUME PlanInv, Planned!Look
  PROVE  /\ status = "running" /\ next = completed + 1 /\ next \in 1..Len(plan)
         /\ Planned!Step \in Actions
         /\ First(plan, completed) \in Seq(Actions)
         /\ First(plan, next) = Append(First(plan, completed), Planned!Step)
         /\ hashes' = Planned!Latest(First(plan, next), 2 * Window)
         /\ hashes' \in Seq(Actions) /\ Len(hashes') <= 2 * Window
<1>1. /\ status = "running" /\ next = completed + 1 /\ next <= Len(plan)
      /\ plan \in Seq(Actions) /\ completed \in Nat /\ Len(plan) \in Nat
      /\ hashes = Planned!Latest(First(plan, completed), 2 * Window)
  BY DEF Planned!Look, Planned!AtStep, PlanInv, Planned!PlanTyped
<1>2. completed \in 0..Len(plan) /\ next \in 1..Len(plan) /\ next \in 0..Len(plan)
  BY <1>1
<1>3. /\ Planned!Step \in Actions
      /\ First(plan, next) = Append(First(plan, completed), Planned!Step)
  BY <1>1, <1>2, FirstNext DEF Planned!Step
<1>4. First(plan, completed) \in Seq(Actions) /\ First(plan, next) \in Seq(Actions)
  BY <1>1, <1>2, FirstFacts
<1>5. hashes' = Planned!Latest(First(plan, next), 2 * Window)
  <2>1. hashes' = Planned!Latest(Append(hashes, Planned!Step), 2 * Window)
    BY DEF Planned!Look, Planned!Remember
  <2>2. hashes' = Planned!Latest(Append(First(plan, completed), Planned!Step), 2 * Window)
    BY <2>1, <1>1, <1>3, <1>4, LatestAppend, PlanFacts
  <2> QED
    BY <2>2, <1>3
<1>6. hashes' \in Seq(Actions) /\ Len(hashes') <= 2 * Window
  <2>1. /\ hashes' \in Seq(Actions)
        /\ LastOf(hashes', First(plan, next), Shorter(Len(First(plan, next)), 2 * Window))
    BY <1>4, <1>5, LatestFacts, PlanFacts
  <2>2. Len(First(plan, next)) = next
    BY <1>1, <1>2, FirstFacts DEF FirstOf
  <2>3. Len(hashes') = Shorter(next, 2 * Window)
    BY <2>1, <2>2 DEF LastOf
  <2> QED
    BY <1>1, <2>1, <2>3, PlanFacts DEF Shorter
<1> QED
  BY <1>1, <1>2, <1>3, <1>4, <1>5, <1>6

(* A plan that is made keeps the invariant.                                *)
LEMMA PlanMadeKeeps ==
  ASSUME PlanInv, SpentInv, Planned!PlanMade
  PROVE  PlanInv' /\ PlanFresh' /\ SpentInv'
<1>1. /\ plan' \in Planned!Plans /\ next' = 1 /\ status' = "running"
      /\ hashes = <<>> /\ completed = 0 /\ hashes' = <<>> /\ completed' = 0
  BY DEF Planned!PlanMade, PlanInv
<1>2. plan' \in Seq(Actions) /\ Len(plan') \in 0..MaxPlan
  <2>1. PICK n \in 0..MaxPlan : plan' \in [1..n -> Actions]
    BY <1>1 DEF Planned!Plans
  <2> QED
    BY <2>1, PlanFacts
<1>3. usage' \in Planned!Usage /\ usage'.steps = 1 /\ clock' \in Nat
  <2>1. PICK t \in TokenCosts : usage' = Planned!RecordStep(usage, t, 0)
    BY DEF Planned!PlanMade
  <2>2. PICK d \in Durations : clock' = clock + d
    BY DEF Planned!PlanMade, Planned!Elapse
  <2>3. usage \in Usage /\ usage.steps = 0 /\ clock \in Nat
    BY SameLimits DEF Planned!PlanMade, PlanInv, Planned!PlanTyped, NoUsage
  <2> QED
    BY <2>1, <2>2, <2>3, SameLimits, PlanFacts DEF RecordStep, Usage
<1>4. Planned!Latest(First(plan', 0), 2 * Window) = <<>> /\ Planned!Latest(First(plan', 0), Window) = <<>>
  BY <1>2, NothingYet, PlanFacts
<1>5. PlanInv'
  BY <1>1, <1>2, <1>3, <1>4, PlanFacts DEF PlanInv, Planned!PlanTyped
<1>6. PlanFresh'
  BY <1>1, <1>2, <1>4, NothingYet, PlanFacts DEF PlanFresh
<1> QED
  BY <1>1, <1>5, <1>6 DEF SpentInv

(* An action that is done, and that the detector let through, keeps it.    *)
LEMMA PlanGoesOn ==
  ASSUME PlanInv, PlanFresh, Planned!Proceed,
         NEW t \in TokenCosts \cup {0}, NEW c \in CallCounts \cup {0, 1},
         Planned!FinishStep(t, c)
  PROVE  PlanInv' /\ PlanFresh' /\ SpentInv'
<1>1. /\ usage' = RecordStep(usage, t, c) /\ completed' = next /\ next' = next + 1
      /\ UNCHANGED <<plan, status>>
  BY SameLimits DEF Planned!FinishStep
<1>2. PICK d \in Durations : clock' = clock + d
  BY DEF Planned!FinishStep, Planned!Elapse
<1>3. Planned!Look /\ ~Planned!Loops(hashes', Planned!Step) /\ ~Exhausted(usage, clock)
  BY SameLimits DEF Planned!Proceed, Planned!Look
<1>4. /\ usage \in Usage /\ clock \in Nat /\ plan \in Seq(Actions) /\ Len(plan) <= MaxPlan
      /\ usage.steps = completed + 1 /\ completed \in 0..Len(plan) /\ Len(plan) \in Nat
  BY <1>3, SameLimits, LookFacts DEF PlanInv, Planned!PlanTyped
<1>5. /\ status = "running" /\ next = completed + 1 /\ next \in 1..Len(plan)
      /\ Planned!Step \in Actions
      /\ First(plan, completed) \in Seq(Actions)
      /\ First(plan, next) = Append(First(plan, completed), Planned!Step)
      /\ hashes' = Planned!Latest(First(plan, next), 2 * Window)
      /\ hashes' \in Seq(Actions) /\ Len(hashes') <= 2 * Window
  BY <1>3, LookFacts
<1>6. usage' \in Usage /\ usage'.steps = usage.steps + 1 /\ clock' \in Nat
  BY SMTT(30), <1>1, <1>2, <1>4, PlanFacts DEF RecordStep, Usage
<1>7. PlanInv'
  <2>1. next' \in 0..(MaxPlan + 1) /\ completed' \in Nat /\ completed' <= Len(plan')
        /\ usage'.steps = completed' + 1 /\ next' = completed' + 1
    BY <1>1, <1>4, <1>5, <1>6, PlanFacts
  <2>2. Planned!PlanTyped'
    BY <2>1, <1>1, <1>4, <1>5, <1>6, SameLimits DEF Planned!PlanTyped
  <2>3. status' = "running" /\ hashes' = Planned!Latest(First(plan', completed'), 2 * Window)
    BY <1>1, <1>5
  <2> QED
    BY <2>1, <2>2, <2>3, <1>5 DEF PlanInv
<1>8. ASSUME NEW x \in Actions
      PROVE  Planned!Occurrences(Planned!Latest(First(plan, next), Window), x) < Threshold
  <2>1. Window <= 2 * Window /\ Threshold \in Nat
    BY PlanFacts
  <2>2. First(plan, next) \in Seq(Actions)
    BY <1>5
  <2>3. /\ Planned!Latest(First(plan, next), Window) \in Seq(Actions)
        /\ Planned!Latest(First(plan, completed), Window) \in Seq(Actions)
    BY <1>5, <2>2, LatestFacts, PlanFacts
  <2>4. /\ Planned!Occurrences(Planned!Latest(First(plan, next), Window), x) \in Nat
        /\ Planned!Occurrences(Planned!Latest(First(plan, completed), Window), x) \in Nat
    BY <2>3, OccurrencesNat
  <2>5. CASE x = Planned!Step
    <3>1. Planned!Latest(hashes', Window) = Planned!Latest(First(plan, next), Window)
      BY <1>5, <2>1, <2>2, LatestTwice, PlanFacts
    <3>2. ~(Planned!Occurrences(Planned!Latest(hashes', Window), x) >= Threshold)
      BY <1>3, <2>5 DEF Planned!Loops
    <3> QED
      BY <2>1, <2>4, <3>1, <3>2
  <2>6. CASE x # Planned!Step
    <3>1. Planned!Occurrences(Planned!Latest(Append(First(plan, completed), Planned!Step), Window), x)
            <= Planned!Occurrences(Planned!Latest(First(plan, completed), Window), x)
      BY <1>5, <2>6, OthersOccurLess, PlanFacts
    <3>2. Planned!Occurrences(Planned!Latest(First(plan, completed), Window), x) < Threshold
      <4>1. completed \in 0..completed
        BY <1>4
      <4> QED
        BY <4>1 DEF PlanFresh
    <3>3. Planned!Occurrences(Planned!Latest(First(plan, next), Window), x)
            <= Planned!Occurrences(Planned!Latest(First(plan, completed), Window), x)
      BY <3>1, <1>5
    <3> QED
      BY <2>1, <2>4, <3>2, <3>3
  <2> QED
    BY <2>5, <2>6
<1>9. PlanFresh'
  <2>1. \A k \in 0..next : k \in 0..completed \/ k = next
    BY <1>4, <1>5
  <2>2. ASSUME NEW k \in 0..next, NEW x \in Actions
        PROVE  Planned!Occurrences(Planned!Latest(First(plan, k), Window), x) < Threshold
    BY <2>1, <1>8 DEF PlanFresh
  <2> QED
    BY <2>2, <1>1 DEF PlanFresh
<1>10. Spent'
  <2>1. usage' \in {usage, RecordStep(usage, t, c)}
    BY <1>1
  <2> QED
    BY <2>1, <1>2, <1>3, <1>4, SpentAfter
<1> QED
  BY <1>7, <1>9, <1>10 DEF SpentInv

(* A step that ends the run leaves what has been done as it is.            *)
LEMMA PlanEnds ==
  ASSUME PlanInv, PlanFresh, UNCHANGED <<plan, next, usage, completed>>,
         clock' \in Nat, hashes' \in Seq(Actions), Len(hashes') <= 2 * Window,
         status' \in {"awaiting", "completed", "failed", "raised"},
         status = "running" \/ status' = "raised",
         status' = "completed" => completed = Len(plan)
  PROVE  PlanInv' /\ PlanFresh'
  BY DEF PlanInv, PlanFresh, Planned!PlanTyped

(* Every step of a plan keeps the invariant.                               *)
LEMMA PlanStep ==
  PlanInv /\ PlanFresh /\ SpentInv /\ [Planned!Next]_(Planned!vars)
    => PlanInv' /\ PlanFresh' /\ SpentInv'
<1> SUFFICES ASSUME PlanInv, PlanFresh, SpentInv, [Planned!Next]_(Planned!vars)
             PROVE  PlanInv' /\ PlanFresh' /\ SpentInv'
    OBVIOUS
<1>1. /\ usage \in Usage /\ clock \in Nat /\ hashes \in Seq(Actions)
      /\ Len(hashes) <= 2 * Window
  BY SameLimits DEF PlanInv, Planned!PlanTyped
<1>2. CASE Planned!PlanMade
  BY <1>2, PlanMadeKeeps
<1>3. ASSUME UNCHANGED <<usage, clock, completed>>
      PROVE  SpentInv'
  BY <1>3 DEF SpentInv, Spent
<1>4. CASE Planned!PlannerRaises
  BY <1>1, <1>3, <1>4, PlanEnds DEF Planned!PlannerRaises
<1>5. CASE Planned!OverLimit
  BY <1>1, <1>3, <1>5, PlanEnds DEF Planned!OverLimit, Planned!AtStep
<1>6. CASE Planned!LoopFound
  <2>1. Planned!Look
    BY <1>6 DEF Planned!LoopFound
  <2> QED
    BY <2>1, <1>1, <1>3, <1>6, LookFacts, PlanEnds DEF Planned!LoopFound
<1>7. CASE Planned!MalformedStep
  <2>1. Planned!Look
    BY <1>7 DEF Planned!MalformedStep, Planned!Proceed
  <2> QED
    BY <2>1, <1>1, <1>3, <1>7, LookFacts, PlanEnds DEF Planned!MalformedStep
<1>8. CASE Planned!LlmStep
  BY <1>8, PlanGoesOn DEF Planned!LlmStep
<1>9. CASE Planned!ToolStep
  BY <1>9, PlanGoesOn DEF Planned!ToolStep
<1>10. CASE Planned!OtherStep
  BY <1>10, PlanGoesOn DEF Planned!OtherStep
<1>11. CASE Planned!GateStep \/ Planned!StepRaises
  <2>1. /\ Planned!Look /\ Planned!Elapse /\ UNCHANGED <<plan, next, usage, completed>>
        /\ status' \in {"awaiting", "failed"}
    BY <1>11 DEF Planned!GateStep, Planned!StepRaises, Planned!Proceed
  <2>2. PICK d \in Durations : clock' = clock + d
    BY <2>1 DEF Planned!Elapse
  <2>3. clock' \in Nat
    BY <2>2, <1>1, PlanFacts
  <2>4. ~Exhausted(usage, clock)
    BY <2>1, SameLimits DEF Planned!Look
  <2>5. Spent'
    <3>1. 0 \in TokenCosts \cup {0} /\ 0 \in CallCounts \cup {0, 1}
      OBVIOUS
    <3>2. usage' \in {usage, RecordStep(usage, 0, 0)}
      BY <2>1
    <3> QED
      BY <3>1, <3>2, <1>1, <2>2, <2>4, SpentAfter
  <2>6. PlanInv' /\ PlanFresh'
    BY <2>1, <2>3, LookFacts, PlanEnds
  <2> QED
    BY <2>5, <2>6 DEF SpentInv
<1>12. CASE Planned!Complete
  <2>1. completed = Len(plan)
    BY <1>12 DEF Planned!Complete, PlanInv, Planned!PlanTyped
  <2> QED
    BY <2>1, <1>1, <1>3, <1>12, PlanEnds DEF Planned!Complete
<1>13. CASE UNCHANGED Planned!vars
  BY <1>13 DEF Planned!vars, PlanInv, PlanFresh, SpentInv, Spent, Planned!PlanTyped
<1> QED
  BY <1>2, <1>4, <1>5, <1>6, <1>7, <1>8, <1>9, <1>10, <1>11, <1>12, <1>13
     DEF Planned!Next

-----------------------------------------------------------------------------
(* The whole engine.                                                       *)

EngineInv ==
    /\ mode \in {"workflow", "auto", "triage"}
    /\ mode = "workflow" => WorkflowInv /\ SpentInv /\ CallsInv
    /\ mode = "auto" => PlanInv /\ PlanFresh /\ SpentInv

(* The invariant holds at the start of each of the three kinds of run.     *)
LEMMA EngineStart == EngineInit => EngineInv
<1> SUFFICES ASSUME EngineInit PROVE EngineInv
    OBVIOUS
<1>1. CASE WorkflowInit
  <2>1. /\ mode = "workflow" /\ queue = EntryPoints /\ visited = {} /\ results = <<>>
        /\ completed = 0 /\ usage = NoUsage /\ clock = 0 /\ status = "running"
        /\ started = {} /\ finished = {}
    BY <1>1 DEF WorkflowInit, Init
  <2>2. Executed = {} /\ results \in Seq(Steps) /\ Len(results) = 0 /\ IsInjective(results)
    BY <2>1 DEF Executed, Range, IsInjective
  <2>3. queue \in Seq(Ids)
    BY <2>1, EntryFacts, SeqMonotonic DEF Ids
  <2>4. usage \in Usage /\ usage.calls <= MaxToolCalls
    BY <2>1, LimitsAssumption DEF NoUsage, Usage
  <2>5. StepsTyped
    BY <2>1, <2>2, <2>4 DEF StepsTyped
  <2> QED
    BY <2>1, <2>2, <2>3, <2>4, <2>5 DEF EngineInv, WorkflowInv, SpentInv, CallsInv
<1>2. CASE AutoInit
  <2>1. /\ mode = "auto" /\ plan = <<>> /\ next = 0 /\ hashes = <<>>
        /\ usage = NoUsage /\ clock = 0 /\ completed = 0 /\ status = "planning"
    BY <1>2, SameLimits DEF AutoInit, Planned!Init
  <2>2. usage \in Usage
    BY <2>1 DEF NoUsage, Usage
  <2>3. PlanInv
    BY <2>1, <2>2, SameLimits, PlanFacts DEF PlanInv, Planned!PlanTyped
  <2>4. ASSUME NEW k \in 0..0, NEW x \in Actions
        PROVE  Planned!Occurrences(Planned!Latest(First(<<>>, k), Window), x) < Threshold
    <3>1. k = 0 /\ <<>> \in Seq(Actions)
      OBVIOUS
    <3>2. Planned!Latest(First(<<>>, 0), Window) = <<>> /\ Planned!Occurrences(<<>>, x) = 0
      BY <3>1, NothingYet, PlanFacts
    <3> QED
      BY <3>1, <3>2, PlanFacts
  <2>5. PlanFresh
    BY <2>1, <2>4 DEF PlanFresh
  <2> QED
    BY <2>1, <2>3, <2>5 DEF EngineInv, SpentInv
<1>3. CASE TriageInit
  BY <1>3 DEF TriageInit, EngineInv
<1> QED
  BY <1>1, <1>2, <1>3 DEF EngineInit, RunInit

(* Every step of each of the three kinds of run keeps it.                  *)
LEMMA EngineStep == EngineInv /\ [EngineNext]_runVars => EngineInv'
<1> SUFFICES ASSUME EngineInv, [EngineNext]_runVars PROVE EngineInv'
    OBVIOUS
<1>1. CASE WorkflowNext
  <2>1. mode = "workflow" /\ mode' = mode /\ [Next]_vars
    BY <1>1 DEF WorkflowNext
  <2> QED
    BY <2>1, WorkflowStep, WorkflowSpends DEF EngineInv
<1>2. CASE AutoNext
  <2>1. mode = "auto" /\ mode' = mode /\ [Planned!Next]_(Planned!vars)
    BY <1>2 DEF AutoNext
  <2> QED
    BY <2>1, PlanStep DEF EngineInv
<1>3. CASE TriageNext
  BY <1>3 DEF TriageNext, EngineInv
<1>4. CASE UNCHANGED runVars
  <2>1. UNCHANGED <<vars, Planned!vars, mode>>
    BY <1>4 DEF runVars, planVars, vars, Planned!vars
  <2> QED
    BY <2>1, WorkflowStep, WorkflowSpends, PlanStep DEF EngineInv
<1> QED
  BY <1>1, <1>2, <1>3, <1>4 DEF EngineNext, RunNext

(* So it holds throughout.                                                 *)
LEMMA EngineInvariant == EngineSpec => []EngineInv
  BY EngineStart, EngineStep, PTL DEF EngineSpec

(* Whatever the definition or the plan, the results are of steps of the    *)
(* definition, none twice, and the committed count falls behind them by    *)
(* branch steps only.                                                      *)
THEOREM EngineTyped == EngineSpec => []TypeOK
<1>1. EngineInv => TypeOK
  BY DEF EngineInv, TypeOK, WorkflowInv, PlanInv
<1> QED
  BY <1>1, EngineInvariant, PTL

(* For every limit, cost and duration: no step is begun past a limit.      *)
THEOREM EngineHoldsLimits == EngineSpec => []LimitsHold
<1>1. EngineInv => LimitsHold
  <2> SUFFICES ASSUME EngineInv PROVE LimitsHold
    OBVIOUS
  <2>1. mode = "workflow" => usage.calls <= MaxToolCalls
    BY DEF EngineInv, CallsInv
  <2>2. mode \in {"workflow", "auto"} /\ completed > 0 => Spent
    BY DEF EngineInv, SpentInv
  <2> QED
    BY <2>1, <2>2 DEF LimitsHold, Spent
<1> QED
  BY <1>1, EngineInvariant, PTL

(* For every window and threshold, the detector that forgets lets no step  *)
(* through that the one that remembers everything would stop.              *)
THEOREM EngineNeverRepeats == EngineSpec => []NoRepetition
<1>1. EngineInv => NoRepetition
  BY PlanFreshImplies DEF EngineInv, NoRepetition
<1> QED
  BY <1>1, EngineInvariant, PTL

-----------------------------------------------------------------------------
(* The refinement: the engine walks the graph.                             *)

Ready == (Range(queue) \cap Steps) \ visited

(* A step that is begun is at the head of the queue.                       *)
LEMMA FreshFacts ==
  ASSUME WorkflowInv, NEW s, Fresh(s)
  PROVE  /\ s \in Steps /\ s \in Ready /\ status = "running"
         /\ visited' = visited \cup {s}
         /\ visited' \cap Steps = Executed \cup {s}
         /\ Tail(queue) \in Seq(Ids)
         /\ (Range(Tail(queue)) \cap Steps) \ visited' = Ready \ (Executed \cup {s})
<1>1. /\ s \in Steps /\ s \notin visited /\ status = "running"
      /\ visited' = visited \cup {s} /\ visited \cap Steps = Executed
  BY DEF Fresh, Pop, WorkflowInv
<1>2. Tail(queue) \in Seq(Ids) /\ Range(queue) = {s} \cup Range(Tail(queue))
  BY PopFacts DEF Fresh
<1>3. PICK T : T = Range(Tail(queue))
  OBVIOUS
<1>4. (T \cap Steps) \ visited' = Ready \ (Executed \cup {s})
  BY <1>1, <1>2, <1>3 DEF Ready
<1>5. s \in Ready
  BY <1>1, <1>2 DEF Ready
<1> QED
  BY <1>1, <1>2, <1>3, <1>4, <1>5

(* What is appended to the rest of the queue is what becomes ready.        *)
LEMMA ReadyAfter ==
  ASSUME WorkflowInv, NEW s, Fresh(s), NEW q \in Seq(Ids),
         queue' = Tail(queue) \o q
  PROVE  Ready' = (Ready \cup (Range(q) \cap Steps)) \ (Executed \cup {s})
<1>1. Range(queue') = Range(Tail(queue)) \cup Range(q)
  <2>1. Tail(queue) \in Seq(Ids)
    BY FreshFacts
  <2> QED
    BY ZenonT(60), <2>1, RangeConcatenation
<1>2. PICK T : T = Range(Tail(queue))
  OBVIOUS
<1>3. /\ visited' \cap Steps = Executed \cup {s}
      /\ (T \cap Steps) \ visited' = Ready \ (Executed \cup {s})
  BY <1>2, FreshFacts
<1>4. Ready' = ((T \cup Range(q)) \cap Steps) \ visited'
  BY <1>1, <1>2 DEF Ready
<1>5. Ready' = ((T \cap Steps) \ visited') \cup ((Range(q) \cap Steps) \ visited')
  BY <1>4
<1>6. (Range(q) \cap Steps) \ visited' = (Range(q) \cap Steps) \ (Executed \cup {s})
  BY <1>3
<1> QED
  BY <1>3, <1>5, <1>6

(* Following the edges of a step makes ready its successors not run yet.   *)
LEMMA FollowReady ==
  ASSUME WorkflowInv, NEW s, Fresh(s), Follow(s)
  PROVE  Ready' = (Ready \cup (Range(Adjacency[s]) \cap Steps)) \ (Executed \cup {s})
<1>1. Adjacency[s] \in Seq(Ids)
  BY GraphFacts DEF Fresh
<1>2. PICK q : q = Without(Adjacency[s], visited')
  OBVIOUS
<1>3. q \in Seq(Ids) /\ Range(q) = Range(Adjacency[s]) \ visited'
  BY <1>1, <1>2, WithoutKeeps
<1>4. Ready' = (Ready \cup (Range(q) \cap Steps)) \ (Executed \cup {s})
  BY <1>2, <1>3, ReadyAfter DEF Follow
<1>5. visited' \cap Steps = Executed \cup {s}
  BY FreshFacts
<1> QED
  BY <1>3, <1>4, <1>5

(* What a step of the definition is in the walk.                           *)
WalkStep ==
    \/ UNCHANGED <<Executed, Ready, status>>
    \/ \E s \in Steps :
          /\ status = "running" /\ UNCHANGED status /\ s \in Ready
          /\ Executed' = Executed \cup {s}
          /\ \E r \in RoutesOf(s) : Ready' = (Ready \cup r) \ (Executed \cup {s})
    \/ /\ status = "running" /\ status' \in {"awaiting", "failed"}
       /\ Ready' \subseteq Ready /\ UNCHANGED Executed
    \/ /\ status = "running" /\ status' = "completed"
       /\ Ready = {} /\ UNCHANGED <<Executed, Ready>>

(* Every step of a defined workflow is one of the walk, or none.           *)
LEMMA WorkflowWalks == WorkflowInv /\ [Next]_vars => WalkStep
<1> SUFFICES ASSUME WorkflowInv, [Next]_vars PROVE WalkStep
    OBVIOUS
<1>1. ASSUME NEW s, SkipStep(s)
      PROVE  WalkStep
  <2>1. PICK T : T = Range(Tail(queue))
    OBVIOUS
  <2>2. Range(queue) = {s} \cup T /\ Range(queue') = T /\ visited' = visited \cup {s}
    BY <1>1, <2>1, PopFacts DEF SkipStep, Pop
  <2>3. Ready' = Ready
    BY <1>1, <2>2 DEF SkipStep, Ready
  <2> QED
    BY <1>1, <2>3 DEF WalkStep, SkipStep, Executed
<1>2. ASSUME NEW s, Fresh(s), queue' = Tail(queue), results' = results,
             status' \in {"awaiting", "failed"}
      PROVE  WalkStep
  <2>1. Ready' \subseteq Ready
    BY <1>2, FreshFacts DEF Ready
  <2> QED
    BY <1>2, <2>1, FreshFacts DEF WalkStep, Executed
<1>3. ASSUME NEW s, OverLimit(s) \/ GateStep(s) \/ StepRaises(s)
      PROVE  WalkStep
  BY <1>2, <1>3 DEF OverLimit, GateStep, StepRaises, Start
<1>4. ASSUME NEW s, Fresh(s), results' = Append(results, s), UNCHANGED status,
             NEW r \in RoutesOf(s), Ready' = (Ready \cup r) \ (Executed \cup {s})
      PROVE  WalkStep
  BY <1>4, FreshFacts, ResultFacts DEF WalkStep
<1>5. ASSUME NEW s, LlmStep(s) \/ OtherStep(s) \/ ToolStep(s)
      PROVE  WalkStep
  <2>1. /\ Fresh(s) /\ results' = Append(results, s) /\ UNCHANGED status
        /\ Follow(s) /\ Kind[s] # "branch"
    BY <1>5 DEF LlmStep, OtherStep, ToolStep, Start, FinishStep
  <2>2. Range(Adjacency[s]) \cap Steps \in RoutesOf(s)
    BY <2>1 DEF RoutesOf
  <2> QED
    BY <1>4, <2>1, <2>2, FollowReady
<1>6. ASSUME NEW s, NEW l \in Labels, BranchStep(s, l)
      PROVE  WalkStep
  <2>1. /\ Fresh(s) /\ results' = Append(results, s) /\ UNCHANGED status
        /\ Kind[s] = "branch" /\ queue' = Tail(queue) \o Labelled[s][l]
    BY <1>6 DEF BranchStep, Start
  <2>2. Labelled[s][l] \in Seq(Ids)
    BY <2>1, GraphFacts DEF Fresh
  <2>3. Range(Labelled[s][l]) \cap Steps \in RoutesOf(s)
    BY <2>1 DEF RoutesOf
  <2> QED
    BY <1>4, <2>1, <2>2, <2>3, ReadyAfter
<1>7. CASE Complete
  <2>1. Range(queue) = {}
    BY <1>7 DEF Complete, Range
  <2> QED
    BY <1>7, <2>1 DEF Complete, WalkStep, Ready, Executed
<1>8. CASE UNCHANGED vars
  BY <1>8 DEF vars, WalkStep, Ready, Executed
<1> QED
  BY <1>1, <1>3, <1>5, <1>6, <1>7, <1>8 DEF Next

(* A run begins where the walk begins.                                     *)
LEMMA WalkStart == EngineInit => Graph!WalkInit
<1> SUFFICES ASSUME EngineInit PROVE Graph!WalkInit
    OBVIOUS
<1>1. CASE mode = "workflow"
  <2>1. queue = EntryPoints /\ visited = {} /\ results = <<>> /\ status = "running"
    BY <1>1 DEF EngineInit, RunInit, WorkflowInit, AutoInit, TriageInit, Init
  <2>2. Executed = {}
    BY <2>1 DEF Executed, Range
  <2>3. Range(EntryPoints) \subseteq Steps
    BY EntryFacts, RangeOfSeq
  <2>4. Outcome = "running"
    BY <1>1, <2>1 DEF Outcome
  <2> QED
    BY <1>1, <2>1, <2>2, <2>3, <2>4 DEF Graph!WalkInit
<1>2. CASE mode # "workflow"
  BY <1>2 DEF Graph!WalkInit, Outcome
<1> QED
  BY <1>1, <1>2

(* Every step of every run is one of the walk, or none.                    *)
LEMMA EngineWalks ==
  EngineInv /\ [EngineNext]_runVars => [Graph!WalkNext]_(Graph!walkVars)
<1> SUFFICES ASSUME EngineInv, [EngineNext]_runVars
             PROVE  [Graph!WalkNext]_(Graph!walkVars)
    OBVIOUS
<1>1. CASE mode # "workflow"
  <2>1. mode' = mode
    BY <1>1 DEF EngineNext, RunNext, WorkflowNext, AutoNext, TriageNext, runVars
  <2> QED
    BY <1>1, <2>1 DEF Graph!walkVars, Outcome
<1>2. CASE mode = "workflow"
  <2>1. mode' = mode /\ [Next]_vars
    BY <1>2 DEF EngineNext, RunNext, WorkflowNext, AutoNext, TriageNext, runVars
  <2>2. WalkStep
    BY <1>2, <2>1, WorkflowWalks DEF EngineInv
  <2>3. CASE UNCHANGED <<Executed, Ready, status>>
    BY <1>2, <2>1, <2>3 DEF Graph!walkVars, Outcome, Ready
  <2>4. ASSUME NEW s \in Steps, status = "running", UNCHANGED status, s \in Ready,
               Executed' = Executed \cup {s}, NEW r \in RoutesOf(s),
               Ready' = (Ready \cup r) \ (Executed \cup {s})
        PROVE  Graph!WalkNext
    <3>1. Graph!RunNode(s)
      BY <1>2, <2>1, <2>4 DEF Graph!RunNode, Outcome, Ready
    <3> QED
      BY <3>1 DEF Graph!WalkNext
  <2>5. CASE /\ status = "running" /\ status' \in {"awaiting", "failed"}
             /\ Ready' \subseteq Ready /\ UNCHANGED Executed
    <3>1. Graph!Stop
      BY <1>2, <2>1, <2>5 DEF Graph!Stop, Outcome, Ready
    <3> QED
      BY <3>1 DEF Graph!WalkNext
  <2>6. CASE /\ status = "running" /\ status' = "completed"
             /\ Ready = {} /\ UNCHANGED <<Executed, Ready>>
    <3>1. Graph!Finish
      BY <1>2, <2>1, <2>6 DEF Graph!Finish, Outcome, Ready
    <3> QED
      BY <3>1 DEF Graph!WalkNext
  <2> QED
    BY <2>2, <2>3, <2>4, <2>5, <2>6 DEF WalkStep
<1> QED
  BY <1>1, <1>2

(* For every definition, cycles and dangling edges included: the queue and *)
(* the set of visited ids implement the walk of the graph.                 *)
THEOREM EngineImplementsWalk == EngineSpec => ImplementsWalk
<1>1. EngineInit /\ [][EngineNext]_runVars /\ []EngineInv => Graph!Walk
  BY WalkStart, EngineWalks, PTL DEF Graph!Walk
<1> QED
  BY <1>1, EngineInvariant, PTL DEF EngineSpec, ImplementsWalk

-----------------------------------------------------------------------------
(* The triage: the one order in which its steps give results, whichever    *)
(* way the decision goes and wherever the run stops, and what waits in the *)
(* queue after each number of them.                                        *)

TriageOrder ==
    <<"receive_alert", "acknowledge_pd", "enrich_metrics", "enrich_pods",
      "diagnose", "enrich_logs", "branch_decision", "create_jira",
      "notify_engineer", "kpi_update">>

TriageWaits ==
    <<<<"receive_alert">>, <<"acknowledge_pd">>,
      <<"enrich_metrics", "enrich_pods">>, <<"enrich_pods", "diagnose">>,
      <<"diagnose", "enrich_logs">>, <<"enrich_logs", "branch_decision">>,
      <<"branch_decision">>, <<"create_jira", "notify_engineer">>,
      <<"notify_engineer", "kpi_update">>, <<"kpi_update", "kpi_update">>,
      <<"kpi_update">>>>

TriageDone(n) == {TriageOrder[i] : i \in 1..n}

(* An approved resolution is stopped at its gate after the decision; the   *)
(* second kpi_update is looked at and dropped.                             *)
TriageQueue(n) ==
    \/ queue = TriageWaits[n + 1]
    \/ n = 7 /\ queue = <<"approval_gate">>
    \/ n = 10 /\ queue = <<>>

TriageAfter(n) ==
    /\ Len(results) = n
    /\ \A i \in 1..n : results[i] = TriageOrder[i]
    /\ status = "running" => visited = TriageDone(n) /\ TriageQueue(n)

TriageInv == results \in Seq(TriageSteps) /\ \E n \in 0..10 : TriageAfter(n)

(* One element, of two or of none.                                         *)
LEMMA WithoutShort ==
  ASSUME NEW x, NEW y, NEW seen
  PROVE  /\ Without(<<>>, seen) = <<>>
         /\ Without(<<x>>, seen) = IF x \in seen THEN <<>> ELSE <<x>>
         /\ x \notin seen /\ y \notin seen => Without(<<x, y>>, seen) = <<x, y>>
<1>1. Without(<<>>, seen) = <<>>
  <2>1. PICK g : Filtering(<<>>, seen, 0, g) /\ Without(<<>>, seen) = g[0]
    <3>1. Len(<<>>) = 0 /\ 0 \in Nat
      OBVIOUS
    <3> QED
      BY <3>1, WithoutFunction, Zenon
  <2>2. g = [i \in 0..0 |-> IF i = 0 THEN <<>> ELSE KeptNext(<<>>, seen, g[i - 1], i)]
    BY <2>1, Zenon DEF Filtering
  <2>3. 0 \in 0..0
    OBVIOUS
  <2> QED
    BY <2>1, <2>2, <2>3
<1>2. Without(<<x>>, seen) = IF x \in seen THEN <<>> ELSE <<x>>
  <2>1. PICK g : Filtering(<<x>>, seen, 1, g) /\ Without(<<x>>, seen) = g[1]
    <3>1. Len(<<x>>) = 1 /\ 1 \in Nat
      OBVIOUS
    <3> QED
      BY <3>1, WithoutFunction, Zenon
  <2>2. \A i \in 0..1 : g[i] = IF i = 0 THEN <<>> ELSE KeptNext(<<x>>, seen, g[i - 1], i)
    BY <2>1, Zenon DEF Filtering
  <2>3. g[0] = <<>> /\ g[1] = KeptNext(<<x>>, seen, g[0], 1)
    BY <2>2
  <2> QED
    BY <2>1, <2>3 DEF KeptNext
<1>3. ASSUME x \notin seen, y \notin seen PROVE Without(<<x, y>>, seen) = <<x, y>>
  <2>1. PICK g : Filtering(<<x, y>>, seen, 2, g) /\ Without(<<x, y>>, seen) = g[2]
    <3>1. Len(<<x, y>>) = 2 /\ 2 \in Nat
      OBVIOUS
    <3> QED
      BY <3>1, WithoutFunction, Zenon
  <2>2. \A i \in 0..2 : g[i] = IF i = 0 THEN <<>> ELSE KeptNext(<<x, y>>, seen, g[i - 1], i)
    BY <2>1, Zenon DEF Filtering
  <2>3. /\ g[0] = <<>> /\ g[1] = KeptNext(<<x, y>>, seen, g[0], 1)
        /\ g[2] = KeptNext(<<x, y>>, seen, g[1], 2)
    BY <2>2
  <2> QED
    BY <2>1, <2>3, <1>3 DEF KeptNext
<1> QED
  BY <1>1, <1>2, <1>3

(* Two sequences of one element make one of two.                           *)
LEMMA JoinOnes ==
  ASSUME NEW x, NEW y
  PROVE  <<x>> \o <<y>> = <<x, y>>
<1>1. <<x>> \in Seq({x, y}) /\ <<y>> \in Seq({x, y}) /\ <<x, y>> \in Seq({x, y})
  OBVIOUS
<1> DEFINE j == <<x>> \o <<y>>
<1>2. j \in Seq({x, y}) /\ Len(j) = 2 /\ j[1] = x /\ j[2] = y
  BY <1>1
<1>3. \A i \in 1..Len(j) : j[i] = <<x, y>>[i]
  BY <1>2
<1>4. Len(j) = Len(<<x, y>>)
  BY <1>2
<1> HIDE DEF j
<1>5. j = <<x, y>>
  BY <1>1, <1>2, <1>3, <1>4, SeqEqual
<1> QED
  BY <1>5 DEF j

(* The instance filters as the module does.                                *)
LEMMA SameWithout ==
  ASSUME NEW q, NEW seen
  PROVE  Triage!Without(q, seen) = Without(q, seen)
BY Zenon DEF Triage!Without, Without

(* What the table says of the steps one after the other.                   *)
LEMMA TriageTable ==
  ASSUME NEW n \in 0..9
  PROVE  /\ TriageOrder[n + 1] \in TriageSteps
         /\ TriageOrder[n + 1] \notin TriageDone(n)
         /\ TriageDone(n + 1) = TriageDone(n) \cup {TriageOrder[n + 1]}
         /\ TriageWaits[n + 1] # <<>>
         /\ Head(TriageWaits[n + 1]) = TriageOrder[n + 1]
<1>1. TriageDone(n + 1) = TriageDone(n) \cup {TriageOrder[n + 1]}
  BY DEF TriageDone
<1>2. TriageOrder[n + 1] \notin TriageDone(n)
  <2>1. n = 0 \/ n = 1 \/ n = 2 \/ n = 3 \/ n = 4 \/ n = 5 \/ n = 6 \/ n = 7 \/ n = 8 \/ n = 9
    OBVIOUS
  <2>2. \A i \in 1..n : TriageOrder[i] # TriageOrder[n + 1]
    BY <2>1 DEF TriageOrder
  <2> QED
    BY <2>2 DEF TriageDone
<1>3. TriageWaits[n + 1] # <<>> /\ Head(TriageWaits[n + 1]) = TriageOrder[n + 1]
  <2>1. n = 0 \/ n = 1 \/ n = 2 \/ n = 3 \/ n = 4 \/ n = 5 \/ n = 6 \/ n = 7 \/ n = 8 \/ n = 9
    OBVIOUS
  <2> QED BY <2>1 DEF TriageOrder, TriageWaits
<1>4. TriageOrder[n + 1] \in TriageSteps
  <2>1. n = 0 \/ n = 1 \/ n = 2 \/ n = 3 \/ n = 4 \/ n = 5 \/ n = 6 \/ n = 7 \/ n = 8 \/ n = 9
    OBVIOUS
  <2> QED BY <2>1 DEF TriageOrder, TriageIds, TriageSteps, Range
<1> QED
  BY <1>1, <1>2, <1>3, <1>4

(* Its edges, and what of the targets was not visited before.              *)
LEMMA TriageFollows ==
  ASSUME NEW n \in 0..9, n # 6
  PROVE  /\ TriageKind[TriageOrder[n + 1]] # "branch"
         /\ Tail(TriageWaits[n + 1])
              \o Triage!Without(TriageEdges[TriageOrder[n + 1]], TriageDone(n + 1))
            = TriageWaits[n + 2]
<1> DEFINE s == TriageOrder[n + 1]
<1>1. n = 0 \/ n = 1 \/ n = 2 \/ n = 3 \/ n = 4 \/ n = 5 \/ n = 7 \/ n = 8 \/ n = 9
  OBVIOUS
<1>2. TriageKind[s] # "branch"
  <2>1. s # "branch_decision"
    BY <1>1 DEF TriageOrder
  <2>2. s \in TriageSteps
    BY TriageTable
  <2> QED
    BY <2>1, <2>2 DEF TriageKind
<1>3. \A x \in {"diagnose", "enrich_logs", "enrich_metrics", "enrich_pods",
                "acknowledge_pd", "branch_decision", "kpi_update"} :
         x \in TriageDone(n + 1) <=> \E i \in 1..(n + 1) : TriageOrder[i] = x
  BY DEF TriageDone
<1>4. CASE n = 0
  <2>1. "acknowledge_pd" \notin TriageDone(n + 1)
    BY <1>3, <1>4 DEF TriageOrder
  <2>2. TriageEdges[s] = <<"acknowledge_pd">>
    BY <1>4 DEF TriageOrder, TriageEdges
  <2>3. Triage!Without(TriageEdges[s], TriageDone(n + 1)) = <<"acknowledge_pd">>
    BY <2>1, <2>2, WithoutShort, SameWithout
  <2>4. Tail(TriageWaits[n + 1]) = <<>>
    BY <1>4 DEF TriageWaits
  <2>5. TriageWaits[n + 2] = <<"acknowledge_pd">>
    BY <1>4 DEF TriageWaits
  <2>6. <<>> \o <<"acknowledge_pd">> = <<"acknowledge_pd">>
    OBVIOUS
  <2> QED
    BY <2>3, <2>4, <2>5, <2>6, <1>2
<1>5. CASE n = 1
  <2>1. "enrich_metrics" \notin TriageDone(n + 1) /\ "enrich_pods" \notin TriageDone(n + 1)
    BY <1>3, <1>5 DEF TriageOrder
  <2>2. TriageEdges[s] = <<"enrich_metrics", "enrich_pods">>
    BY <1>5 DEF TriageOrder, TriageEdges
  <2>3. Triage!Without(TriageEdges[s], TriageDone(n + 1)) = <<"enrich_metrics", "enrich_pods">>
    <3>1. Without(<<"enrich_metrics", "enrich_pods">>, TriageDone(n + 1))
            = <<"enrich_metrics", "enrich_pods">>
      BY <2>1, WithoutShort, ZenonT(60)
    <3> QED
      BY <3>1, <2>2, SameWithout
  <2>4. Tail(TriageWaits[n + 1]) = <<>>
    BY <1>5 DEF TriageWaits
  <2>5. TriageWaits[n + 2] = <<"enrich_metrics", "enrich_pods">>
    BY <1>5 DEF TriageWaits
  <2>6. <<>> \o <<"enrich_metrics", "enrich_pods">> = <<"enrich_metrics", "enrich_pods">>
    OBVIOUS
  <2> QED
    BY <2>3, <2>4, <2>5, <2>6, <1>2
<1>6. CASE n = 2
  <2>1. "diagnose" \notin TriageDone(n + 1)
    BY <1>3, <1>6 DEF TriageOrder
  <2>2. TriageEdges[s] = <<"diagnose">>
    BY <1>6 DEF TriageOrder, TriageEdges
  <2>3. Triage!Without(TriageEdges[s], TriageDone(n + 1)) = <<"diagnose">>
    BY <2>1, <2>2, WithoutShort, SameWithout
  <2>4. Tail(TriageWaits[n + 1]) = <<"enrich_pods">>
    BY <1>6 DEF TriageWaits
  <2>5. TriageWaits[n + 2] = <<"enrich_pods", "diagnose">>
    BY <1>6 DEF TriageWaits
  <2>6. <<"enrich_pods">> \o <<"diagnose">> = <<"enrich_pods", "diagnose">>
    BY JoinOnes
  <2> QED
    BY <2>3, <2>4, <2>5, <2>6, <1>2
<1>7. CASE n = 3
  <2>1. "enrich_logs" \notin TriageDone(n + 1)
    BY <1>3, <1>7 DEF TriageOrder
  <2>2. TriageEdges[s] = <<"enrich_logs">>
    BY <1>7 DEF TriageOrder, TriageEdges
  <2>3. Triage!Without(TriageEdges[s], TriageDone(n + 1)) = <<"enrich_logs">>
    BY <2>1, <2>2, WithoutShort, SameWithout
  <2>4. Tail(TriageWaits[n + 1]) = <<"diagnose">>
    BY <1>7 DEF TriageWaits
  <2>5. TriageWaits[n + 2] = <<"diagnose", "enrich_logs">>
    BY <1>7 DEF TriageWaits
  <2>6. <<"diagnose">> \o <<"enrich_logs">> = <<"diagnose", "enrich_logs">>
    BY JoinOnes
  <2> QED
    BY <2>3, <2>4, <2>5, <2>6, <1>2
<1>8. CASE n = 4
  <2>1. "branch_decision" \notin TriageDone(n + 1)
    BY <1>3, <1>8 DEF TriageOrder
  <2>2. TriageEdges[s] = <<"branch_decision">>
    BY <1>8 DEF TriageOrder, TriageEdges
  <2>3. Triage!Without(TriageEdges[s], TriageDone(n + 1)) = <<"branch_decision">>
    BY <2>1, <2>2, WithoutShort, SameWithout
  <2>4. Tail(TriageWaits[n + 1]) = <<"enrich_logs">>
    BY <1>8 DEF TriageWaits
  <2>5. TriageWaits[n + 2] = <<"enrich_logs", "branch_decision">>
    BY <1>8 DEF TriageWaits
  <2>6. <<"enrich_logs">> \o <<"branch_decision">> = <<"enrich_logs", "branch_decision">>
    BY JoinOnes
  <2> QED
    BY <2>3, <2>4, <2>5, <2>6, <1>2
<1>9. CASE n = 5
  <2>1. "diagnose" \in TriageDone(n + 1)
    BY <1>3, <1>9 DEF TriageOrder
  <2>2. TriageEdges[s] = <<"diagnose">>
    BY <1>9 DEF TriageOrder, TriageEdges
  <2>3. Triage!Without(TriageEdges[s], TriageDone(n + 1)) = <<>>
    BY <2>1, <2>2, WithoutShort, SameWithout
  <2>4. Tail(TriageWaits[n + 1]) = <<"branch_decision">>
    BY <1>9 DEF TriageWaits
  <2>5. TriageWaits[n + 2] = <<"branch_decision">>
    BY <1>9 DEF TriageWaits
  <2>6. <<"branch_decision">> \o <<>> = <<"branch_decision">>
    OBVIOUS
  <2> QED
    BY <2>3, <2>4, <2>5, <2>6, <1>2
<1>10. CASE n = 7
  <2>1. "kpi_update" \notin TriageDone(n + 1)
    BY <1>3, <1>10 DEF TriageOrder
  <2>2. TriageEdges[s] = <<"kpi_update">>
    BY <1>10 DEF TriageOrder, TriageEdges
  <2>3. Triage!Without(TriageEdges[s], TriageDone(n + 1)) = <<"kpi_update">>
    BY <2>1, <2>2, WithoutShort, SameWithout
  <2>4. Tail(TriageWaits[n + 1]) = <<"notify_engineer">>
    BY <1>10 DEF TriageWaits
  <2>5. TriageWaits[n + 2] = <<"notify_engineer", "kpi_update">>
    BY <1>10 DEF TriageWaits
  <2>6. <<"notify_engineer">> \o <<"kpi_update">> = <<"notify_engineer", "kpi_update">>
    BY JoinOnes
  <2> QED
    BY <2>3, <2>4, <2>5, <2>6, <1>2
<1>11. CASE n = 8
  <2>1. "kpi_update" \notin TriageDone(n + 1)
    BY <1>3, <1>11 DEF TriageOrder
  <2>2. TriageEdges[s] = <<"kpi_update">>
    BY <1>11 DEF TriageOrder, TriageEdges
  <2>3. Triage!Without(TriageEdges[s], TriageDone(n + 1)) = <<"kpi_update">>
    BY <2>1, <2>2, WithoutShort, SameWithout
  <2>4. Tail(TriageWaits[n + 1]) = <<"kpi_update">>
    BY <1>11 DEF TriageWaits
  <2>5. TriageWaits[n + 2] = <<"kpi_update", "kpi_update">>
    BY <1>11 DEF TriageWaits
  <2>6. <<"kpi_update">> \o <<"kpi_update">> = <<"kpi_update", "kpi_update">>
    BY JoinOnes
  <2> QED
    BY <2>3, <2>4, <2>5, <2>6, <1>2
<1>12. CASE n = 9
  <2>2. TriageEdges[s] = <<>>
    BY <1>12 DEF TriageOrder, TriageEdges
  <2>3. Triage!Without(TriageEdges[s], TriageDone(n + 1)) = <<>>
    BY <2>2, WithoutShort, SameWithout
  <2>4. Tail(TriageWaits[n + 1]) = <<"kpi_update">>
    BY <1>12 DEF TriageWaits
  <2>5. TriageWaits[n + 2] = <<"kpi_update">>
    BY <1>12 DEF TriageWaits
  <2>6. <<"kpi_update">> \o <<>> = <<"kpi_update">>
    OBVIOUS
  <2> QED
    BY <2>3, <2>4, <2>5, <2>6, <1>2
<1> QED
  BY <1>1, <1>4, <1>5, <1>6, <1>7, <1>8, <1>9, <1>10, <1>11, <1>12

(* Only the alert is no step's successor: the triage begins with it.       *)
LEMMA TriageBegins == Triage!EntryPoints = <<"receive_alert">>
<1>1. PICK g : /\ Filtering(TriageIds, Triage!Targets, 15, g)
               /\ Without(TriageIds, Triage!Targets) = g[15]
  <2>1. Len(TriageIds) = 15 /\ 15 \in Nat
    BY DEF TriageIds
  <2> QED
    BY <2>1, WithoutFunction, Zenon
<1>2. \A s \in TriageSteps : Range(TriageEdges[s]) \subseteq Triage!Targets
  BY DEF Triage!Targets, Triage!Steps, TriageSteps, Triage!Range, Range
<1>3. \A i \in 2..15 : TriageIds[i] \in Triage!Targets
  <2>1. "acknowledge_pd" \in Triage!Targets
    <3>1. "receive_alert" \in TriageSteps
      BY DEF TriageSteps, TriageIds, Range
    <3>2. TriageEdges["receive_alert"] = <<"acknowledge_pd">>
      BY DEF TriageEdges
    <3> QED
      BY <3>1, <3>2, <1>2 DEF Range
  <2>2. {"enrich_metrics", "enrich_pods"} \subseteq Triage!Targets
    <3>1. "acknowledge_pd" \in TriageSteps
      BY DEF TriageSteps, TriageIds, Range
    <3>2. TriageEdges["acknowledge_pd"] = <<"enrich_metrics", "enrich_pods">>
      BY DEF TriageEdges
    <3> QED
      BY <3>1, <3>2, <1>2 DEF Range
  <2>3. "enrich_logs" \in Triage!Targets
    <3>1. "enrich_pods" \in TriageSteps
      BY DEF TriageSteps, TriageIds, Range
    <3>2. TriageEdges["enrich_pods"] = <<"enrich_logs">>
      BY DEF TriageEdges
    <3> QED
      BY <3>1, <3>2, <1>2 DEF Range
  <2>4. "diagnose" \in Triage!Targets
    <3>1. "enrich_metrics" \in TriageSteps
      BY DEF TriageSteps, TriageIds, Range
    <3>2. TriageEdges["enrich_metrics"] = <<"diagnose">>
      BY DEF TriageEdges
    <3> QED
      BY <3>1, <3>2, <1>2 DEF Range
  <2>5. "diagnose" \in Triage!Targets
    <3>1. "enrich_logs" \in TriageSteps
      BY DEF TriageSteps, TriageIds, Range
    <3>2. TriageEdges["enrich_logs"] = <<"diagnose">>
      BY DEF TriageEdges
    <3> QED
      BY <3>1, <3>2, <1>2 DEF Range
  <2>6. "branch_decision" \in Triage!Targets
    <3>1. "diagnose" \in TriageSteps
      BY DEF TriageSteps, TriageIds, Range
    <3>2. TriageEdges["diagnose"] = <<"branch_decision">>
      BY DEF TriageEdges
    <3> QED
      BY <3>1, <3>2, <1>2 DEF Range
  <2>7. {"approval_gate", "create_jira", "notify_engineer"} \subseteq Triage!Targets
    <3>1. "branch_decision" \in TriageSteps
      BY DEF TriageSteps, TriageIds, Range
    <3>2. TriageEdges["branch_decision"] = <<"approval_gate", "create_jira", "notify_engineer">>
      BY DEF TriageEdges
    <3> QED
      BY <3>1, <3>2, <1>2 DEF Range
  <2>8. "execute_resolution" \in Triage!Targets
    <3>1. "approval_gate" \in TriageSteps
      BY DEF TriageSteps, TriageIds, Range
    <3>2. TriageEdges["approval_gate"] = <<"execute_resolution">>
      BY DEF TriageEdges
    <3> QED
      BY <3>1, <3>2, <1>2 DEF Range
  <2>9. "verify_resolution" \in Triage!Targets
    <3>1. "execute_resolution" \in TriageSteps
      BY DEF TriageSteps, TriageIds, Range
    <3>2. TriageEdges["execute_resolution"] = <<"verify_resolution">>
      BY DEF TriageEdges
    <3> QED
      BY <3>1, <3>2, <1>2 DEF Range
  <2>10. "close_incident" \in Triage!Targets
    <3>1. "verify_resolution" \in TriageSteps
      BY DEF TriageSteps, TriageIds, Range
    <3>2. TriageEdges["verify_resolution"] = <<"close_incident">>
      BY DEF TriageEdges
    <3> QED
      BY <3>1, <3>2, <1>2 DEF Range
  <2>11. "notify_resolution" \in Triage!Targets
    <3>1. "close_incident" \in TriageSteps
      BY DEF TriageSteps, TriageIds, Range
    <3>2. TriageEdges["close_incident"] = <<"notify_resolution">>
      BY DEF TriageEdges
    <3> QED
      BY <3>1, <3>2, <1>2 DEF Range
  <2>12. "kpi_update" \in Triage!Targets
    <3>1. "notify_resolution" \in TriageSteps
      BY DEF TriageSteps, TriageIds, Range
    <3>2. TriageEdges["notify_resolution"] = <<"kpi_update">>
      BY DEF TriageEdges
    <3> QED
      BY <3>1, <3>2, <1>2 DEF Range
  <2> QED
    BY <2>1, <2>2, <2>3, <2>4, <2>5, <2>6, <2>7, <2>8, <2>9, <2>10, <2>11, <2>12 DEF TriageIds
<1>4. "receive_alert" \notin Triage!Targets
  <2>1. \A s \in TriageSteps : "receive_alert" \notin Range(TriageEdges[s])
    BY DEF TriageSteps, TriageIds, TriageEdges, Range
  <2> QED
    BY <2>1 DEF Triage!Targets, Triage!Steps, TriageSteps, Triage!Range, Range
<1>5. /\ g[0] = <<>>
      /\ \A i \in 1..15 : g[i] = KeptNext(TriageIds, Triage!Targets, g[i - 1], i)
  <2>1. \A i \in 0..15 : g[i] = IF i = 0 THEN <<>>
                                ELSE KeptNext(TriageIds, Triage!Targets, g[i - 1], i)
    BY <1>1, Zenon DEF Filtering
  <2> QED
    BY <2>1
<1>6. g[1] = <<"receive_alert">>
  <2>1. TriageIds[1] = "receive_alert"
    BY DEF TriageIds
  <2>2. g[1] = KeptNext(TriageIds, Triage!Targets, g[0], 1)
    BY <1>5
  <2> QED
    BY <2>1, <2>2, <1>4, <1>5 DEF KeptNext
<1>7. \A i \in 2..15 : g[i] = g[i - 1]
  BY <1>3, <1>5 DEF KeptNext
<1>8. g[15] = <<"receive_alert">>
  BY <1>6, <1>7
<1> QED
  BY <1>1, <1>8, SameWithout DEF Triage!EntryPoints

(* It begins with the alert and without results.                           *)
LEMMA TriageStart == Triage!Init => TriageInv
<1> SUFFICES ASSUME Triage!Init PROVE TriageInv
    OBVIOUS
<1>1. queue = <<"receive_alert">> /\ visited = {} /\ results = <<>>
  BY TriageBegins DEF Triage!Init
<1>2. TriageAfter(0)
  BY <1>1 DEF TriageAfter, TriageQueue, TriageDone, TriageWaits
<1>3. results \in Seq(TriageSteps)
  BY <1>1
<1> QED
  BY <1>2, <1>3 DEF TriageInv

(* A step that ends the run leaves the results as they are.                *)
LEMMA TriageStops ==
  ASSUME TriageInv, results' = results, status' # "running"
  PROVE  TriageInv'
BY DEF TriageInv, TriageAfter

(* One that returns a result is the next one in the order.                 *)
LEMMA TriageResult ==
  ASSUME NEW n \in 0..9, NEW s, TriageAfter(n), results \in Seq(TriageSteps),
         s = TriageOrder[n + 1], results' = Append(results, s), status' = status,
         visited' = visited \cup {s}, status = "running",
         \/ queue' = TriageWaits[n + 2]
         \/ n + 1 = 7 /\ queue' = <<"approval_gate">>
  PROVE  TriageInv'
<1>1. /\ results' \in Seq(TriageSteps) /\ Len(results') = n + 1
      /\ \A i \in 1..n : results'[i] = results[i]
      /\ results'[n + 1] = s
  BY TriageTable DEF TriageAfter
<1>2. \A i \in 1..(n + 1) : results'[i] = TriageOrder[i]
  BY <1>1 DEF TriageAfter
<1>3. visited' = TriageDone(n + 1)
  BY TriageTable DEF TriageAfter
<1>4. n + 1 \in 0..10 /\ (n + 1) + 1 = n + 2
  OBVIOUS
<1>5. TriageAfter(n + 1)'
  BY <1>1, <1>2, <1>3, <1>4 DEF TriageAfter, TriageQueue
<1> QED
  BY <1>1, <1>4, <1>5 DEF TriageInv

(* The head of the queue, for each number of results.                      *)
LEMMA TriageHead ==
  ASSUME NEW n \in 0..10, NEW s, TriageAfter(n), Triage!Pop(s)
  PROVE  /\ status = "running" /\ visited = TriageDone(n)
         /\ visited' = visited \cup {s}
         /\ \/ n \in 0..9 /\ queue = TriageWaits[n + 1] /\ s = TriageOrder[n + 1]
            \/ n = 7 /\ s = "approval_gate"
            \/ n = 10 /\ s = "kpi_update" /\ queue = <<"kpi_update">>
<1>1. status = "running" /\ queue # <<>> /\ s = Head(queue) /\ visited' = visited \cup {s}
  BY DEF Triage!Pop
<1>2. visited = TriageDone(n) /\ TriageQueue(n)
  BY <1>1 DEF TriageAfter
<1>3. CASE queue = TriageWaits[n + 1]
  <2>1. CASE n \in 0..9
    BY <2>1, <1>1, <1>2, <1>3, TriageTable
  <2>2. CASE n = 10
    <3>1. TriageWaits[n + 1] = <<"kpi_update">>
      BY <2>2 DEF TriageWaits
    <3> QED
      BY <3>1, <2>2, <1>1, <1>2, <1>3
  <2> QED
    BY <2>1, <2>2
<1>4. CASE n = 7 /\ queue = <<"approval_gate">>
  BY <1>1, <1>2, <1>4
<1>5. CASE n = 10 /\ queue = <<>>
  BY <1>1, <1>5
<1> QED
  BY <1>2, <1>3, <1>4, <1>5 DEF TriageQueue

(* Each step of the triage keeps the order.                                *)
LEMMA TriageKeeps ==
  ASSUME TriageInv, Triage!Next
  PROVE  TriageInv'
<1>1. PICK n \in 0..10 : TriageAfter(n)
  BY DEF TriageInv
<1>2. results \in Seq(TriageSteps) /\ Triage!Steps = TriageSteps
  BY DEF TriageInv, Triage!Steps, TriageSteps, Triage!Range, Range
<1>3. "kpi_update" \in TriageDone(10)
  BY DEF TriageDone, TriageOrder
<1>4. ASSUME NEW s, Triage!SkipStep(s)
      PROVE  TriageInv'
  <2>1. /\ Triage!Pop(s) /\ queue' = Tail(queue)
        /\ s \in visited \/ s \notin TriageSteps
        /\ UNCHANGED <<results, status>>
    BY <1>2, <1>4 DEF Triage!SkipStep
  <2>2. "approval_gate" \in TriageSteps /\ "approval_gate" \notin TriageDone(7)
    <3>1. "approval_gate" \in TriageSteps
      BY DEF TriageSteps, TriageIds, Range
    <3>2. \A i \in 1..7 : TriageOrder[i] # "approval_gate"
      BY DEF TriageOrder
    <3> QED
      BY <3>1, <3>2 DEF TriageDone
  <2>3. n = 10 /\ s = "kpi_update" /\ queue = <<"kpi_update">> /\ visited = TriageDone(10)
    BY <2>1, <2>2, <1>1, TriageHead, TriageTable
  <2>4. queue' = <<>> /\ visited' = TriageDone(10)
    BY <2>1, <2>3, <1>3 DEF Triage!Pop
  <2>5. TriageAfter(10)'
    BY <2>1, <2>3, <2>4, <1>1 DEF TriageAfter, TriageQueue
  <2> QED
    BY <2>1, <2>5, <1>2 DEF TriageInv
<1>5. ASSUME NEW s \in Triage!Steps,
             Triage!OverLimit(s) \/ Triage!GateStep(s) \/ Triage!StepRaises(s)
      PROVE  TriageInv'
  BY <1>5, TriageStops DEF Triage!OverLimit, Triage!GateStep, Triage!StepRaises
<1>6. ASSUME NEW s \in Triage!Steps,
             Triage!LlmStep(s) \/ Triage!OtherStep(s) \/ Triage!ToolStep(s)
      PROVE  TriageInv'
  <2>1. /\ Triage!Pop(s) /\ s \notin visited
        /\ results' = Append(results, s) /\ Triage!Follow(s) /\ status' = status
        /\ TriageKind[s] \in {"llm", "other", "tool"}
    BY <1>6 DEF Triage!LlmStep, Triage!OtherStep, Triage!ToolStep, Triage!Start,
                Triage!Fresh, Triage!FinishStep
  <2>2. TriageKind["approval_gate"] = "approval"
    BY DEF TriageKind, TriageSteps, TriageIds, Range
  <2>3. TriageKind["branch_decision"] = "branch" /\ TriageOrder[7] = "branch_decision"
    BY DEF TriageKind, TriageSteps, TriageIds, Range, TriageOrder
  <2>4. /\ n \in 0..9 /\ n # 6 /\ s = TriageOrder[n + 1] /\ queue = TriageWaits[n + 1]
        /\ status = "running" /\ visited' = visited \cup {s}
        /\ visited = TriageDone(n)
    <3>1. n # 6 \/ s # TriageOrder[n + 1]
      BY <2>1, <2>3
    <3>2. s # "approval_gate"
      BY <2>1, <2>2
    <3> QED
      BY <3>1, <3>2, <2>1, <1>1, <1>3, TriageHead
  <2>5. visited' = TriageDone(n + 1)
    BY <2>4, TriageTable
  <2>6. queue' = TriageWaits[n + 2]
    BY <2>1, <2>4, <2>5, TriageFollows DEF Triage!Follow
  <2> QED
    BY <2>1, <2>4, <2>6, <1>1, <1>2, TriageResult
<1>7. ASSUME NEW s \in Triage!Steps, NEW l \in {"auto_resolve", "escalate"},
             Triage!BranchStep(s, l)
      PROVE  TriageInv'
  <2>1. /\ Triage!Pop(s) /\ s \notin visited
        /\ results' = Append(results, s) /\ status' = status
        /\ queue' = Tail(queue) \o TriageBranches[s][l]
        /\ TriageKind[s] = "branch"
    BY <1>7 DEF Triage!BranchStep, Triage!Start, Triage!Fresh
  <2>2. s = "branch_decision"
    BY <2>1, <1>2 DEF TriageKind
  <2>3. \A i \in 1..10 : TriageOrder[i] = "branch_decision" => i = 7
    BY DEF TriageOrder
  <2>4. /\ n = 6 /\ s = TriageOrder[n + 1] /\ queue = TriageWaits[7]
        /\ status = "running" /\ visited' = visited \cup {s}
    BY <2>1, <2>2, <2>3, <1>1, TriageHead
  <2>5. queue' = <<"approval_gate">> \/ queue' = <<"create_jira", "notify_engineer">>
    <3>1. Tail(queue) = <<>>
      BY <2>4 DEF TriageWaits
    <3>2. \/ TriageBranches[s][l] = <<"approval_gate">>
          \/ TriageBranches[s][l] = <<"create_jira", "notify_engineer">>
      BY <2>2 DEF TriageBranches
    <3> DEFINE b == TriageBranches[s][l]
    <3>3. queue' = <<>> \o b
      BY <3>1, <2>1
    <3> HIDE DEF b
    <3>4. CASE b = <<"approval_gate">>
      BY <3>3, <3>4
    <3>5. CASE b = <<"create_jira", "notify_engineer">>
      BY <3>3, <3>5
    <3> QED
      BY <3>2, <3>4, <3>5 DEF b
  <2>6. queue' = TriageWaits[8] \/ queue' = <<"approval_gate">>
    BY <2>5 DEF TriageWaits
  <2>7. n \in 0..9 /\ n + 1 = 7 /\ n + 2 = 8
    BY <2>4
  <2> QED
    BY <2>1, <2>4, <2>6, <2>7, <1>1, <1>2, TriageResult
<1>8. ASSUME Triage!Complete
      PROVE  TriageInv'
  BY <1>8, TriageStops DEF Triage!Complete
<1> QED
  BY <1>4, <1>5, <1>6, <1>7, <1>8 DEF Triage!Next

(* What the templates of each step name comes before it in the order, the  *)
(* logs of the diagnosis excepted, and nothing comes after the count.      *)
LEMMA TriageNames ==
  ASSUME NEW k \in 1..10
  PROVE  /\ \A s \in Names(TriageOrder[k]) :
               \/ \E j \in 1..(k - 1) : TriageOrder[j] = s
               \/ TriageOrder[k] = "diagnose" /\ s = "enrich_logs"
         /\ \A j \in 1..(k - 1) : TriageOrder[j] # "kpi_update"
<1>1. k = 1 \/ k = 2 \/ k = 3 \/ k = 4 \/ k = 5 \/ k = 6 \/ k = 7 \/ k = 8 \/ k = 9 \/ k = 10
  OBVIOUS
<1>2. \A j \in 1..9 : TriageOrder[j] # "kpi_update"
  BY DEF TriageOrder
<1>3. CASE k = 1
  <2>1. TriageOrder[k] = "receive_alert"
    BY <1>3 DEF TriageOrder
  <2> QED
    BY <2>1, <1>3, <1>2 DEF Names, TriageOrder
<1>4. CASE k = 2
  <2>1. TriageOrder[k] = "acknowledge_pd"
    BY <1>4 DEF TriageOrder
  <2> QED
    BY <2>1, <1>4, <1>2 DEF Names, TriageOrder
<1>5. CASE k = 3
  <2>1. TriageOrder[k] = "enrich_metrics"
    BY <1>5 DEF TriageOrder
  <2> QED
    BY <2>1, <1>5, <1>2 DEF Names, TriageOrder
<1>6. CASE k = 4
  <2>1. TriageOrder[k] = "enrich_pods"
    BY <1>6 DEF TriageOrder
  <2> QED
    BY <2>1, <1>6, <1>2 DEF Names, TriageOrder
<1>7. CASE k = 5
  <2>1. TriageOrder[k] = "diagnose"
    BY <1>7 DEF TriageOrder
  <2> QED
    BY <2>1, <1>7, <1>2 DEF Names, TriageOrder
<1>8. CASE k = 6
  <2>1. TriageOrder[k] = "enrich_logs"
    BY <1>8 DEF TriageOrder
  <2> QED
    BY <2>1, <1>8, <1>2 DEF Names, TriageOrder
<1>9. CASE k = 7
  <2>1. TriageOrder[k] = "branch_decision"
    BY <1>9 DEF TriageOrder
  <2> QED
    BY <2>1, <1>9, <1>2 DEF Names, TriageOrder
<1>10. CASE k = 8
  <2>1. TriageOrder[k] = "create_jira"
    BY <1>10 DEF TriageOrder
  <2> QED
    BY <2>1, <1>10, <1>2 DEF Names, TriageOrder
<1>11. CASE k = 9
  <2>1. TriageOrder[k] = "notify_engineer"
    BY <1>11 DEF TriageOrder
  <2> QED
    BY <2>1, <1>11, <1>2 DEF Names, TriageOrder
<1>12. CASE k = 10
  <2>1. TriageOrder[k] = "kpi_update"
    BY <1>12 DEF TriageOrder
  <2> QED
    BY <2>1, <1>12, <1>2 DEF Names, TriageOrder
<1> QED
  BY <1>1, <1>3, <1>4, <1>5, <1>6, <1>7, <1>8, <1>9, <1>10, <1>11, <1>12

(* Throughout an execution of the engine a triage is at one of its stages. *)
EngineTriages == mode = "triage" => TriageInv

(* The executions of other kinds say nothing of it.                        *)
LEMMA EngineTriageStart == EngineInit => EngineTriages
BY TriageStart DEF EngineInit, RunInit, WorkflowInit, AutoInit, TriageInit, EngineTriages

(* No execution becomes a triage on its way.                               *)
LEMMA EngineTriageStep == EngineTriages /\ [EngineNext]_runVars => EngineTriages'
<1> SUFFICES ASSUME EngineTriages, [EngineNext]_runVars PROVE EngineTriages'
    OBVIOUS
<1>1. CASE RunNext
  BY <1>1 DEF RunNext, WorkflowNext, AutoNext, EngineTriages
<1>2. CASE TriageNext
  BY <1>2, TriageKeeps DEF TriageNext, EngineTriages
<1>3. CASE UNCHANGED runVars
  <2>1. UNCHANGED <<mode, results, status, visited, queue>>
    BY <1>3 DEF runVars, vars
  <2> QED
    BY <2>1 DEF EngineTriages, TriageInv, TriageAfter, TriageQueue
<1> QED
  BY <1>1, <1>2, <1>3 DEF EngineNext

(* For every duration of its steps, and whatever the calls return, the     *)
(* decision is or a limit ends, a step of the triage finds the results its *)
(* templates name, the diagnosis excepted, and the count comes last.       *)
THEOREM TriageRunsInOrder == EngineSpec => []TriageInOrder
<1>1. EngineTriages => TriageInOrder
  <2> SUFFICES ASSUME mode = "triage", EngineTriages, NEW k \in 1..Len(results)
               PROVE  /\ \A s \in Names(results[k]) :
                            \/ RanBefore(s, k)
                            \/ results[k] = "diagnose" /\ s = "enrich_logs"
                      /\ ~RanBefore("kpi_update", k)
    BY DEF TriageInOrder
  <2>1. PICK n \in 0..10 : TriageAfter(n)
    BY DEF EngineTriages, TriageInv
  <2>2. k \in 1..10 /\ \A j \in 1..k : results[j] = TriageOrder[j]
    BY <2>1 DEF TriageAfter
  <2>3. results[k] = TriageOrder[k] /\ \A j \in 1..(k - 1) : results[j] = TriageOrder[j]
    BY <2>2
  <2>4. \A s : RanBefore(s, k) <=> \E j \in 1..(k - 1) : TriageOrder[j] = s
    BY <2>3 DEF RanBefore
  <2> QED
    BY <2>2, <2>3, <2>4, TriageNames
<1> QED
  BY <1>1, EngineTriageStart, EngineTriageStep, PTL DEF EngineSpec
=============================================================================
