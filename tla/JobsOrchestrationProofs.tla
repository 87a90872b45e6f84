---------------------- MODULE JobsOrchestrationProofs ----------------------
(***************************************************************************)
(* The jobs of the builders are jobs Jobs may run, and the reduce step of  *)
(* any of them comes last.                                                 *)
(***************************************************************************)
EXTENDS JobsOrchestration, JobsProofs, FiniteSetTheorems, WellFoundedInduction

LEMMA Least ==
  ASSUME NEW S \in SUBSET Nat, S # {}
  PROVE  \E x \in S : \A y \in S : x <= y
<1> DEFINE R == OpToRel(<, Nat)
<1>1. R = {ss \in Nat \X Nat : ss[1] < ss[2]}
  BY DEF OpToRel
<1>2. PICK x \in S : \A y \in S : <<y, x>> \notin R
  <2>1. IsWellFoundedOn(R, Nat)
    BY NatLessThanWellFounded
  <2> QED
    BY <2>1, WFMin, Zenon
<1>3. ASSUME NEW y \in S
      PROVE  x <= y
  <2>1. x \in Nat /\ y \in Nat
    OBVIOUS
  <2>2. ~(y < x)
    BY <1>1, <1>2, <2>1
  <2> QED
    BY <2>1, <2>2
<1> QED
  BY <1>3

\* Steps that wait for earlier ones only wait in no circle.
LEMMA BackwardIsAcyclic ==
  ASSUME NEW n \in Nat, NEW d \in [1 .. n -> SUBSET (1 .. n)],
         \A s \in 1 .. n : \A t \in d[s] : t < s
  PROVE  \A S \in (SUBSET (1 .. n)) \ {{}} : \E s \in S : d[s] \cap S = {}
<1> SUFFICES ASSUME NEW S \in (SUBSET (1 .. n)) \ {{}}
             PROVE  \E s \in S : d[s] \cap S = {}
  OBVIOUS
<1>1. S \subseteq Nat /\ S # {}
  OBVIOUS
<1>2. PICK s \in S : \A t \in S : s <= t
  BY <1>1, Least
<1>3. \A t \in d[s] \cap S : FALSE
  BY <1>1, <1>2
<1> QED
  BY <1>2, <1>3

\* What Jobs assumes of the dependencies of a job of n steps.
Acyclic(n, d) ==
  /\ d \in [1 .. n -> SUBSET (1 .. n)]
  /\ \A S \in (SUBSET (1 .. n)) \ {{}} : \E s \in S : d[s] \cap S = {}

\* For any number of tasks or items and any window, chain, enqueueMany and
\* mapReduce build jobs without a circle, which validation would refuse and which
\* would never end.
THEOREM BuildersAcyclic ==
  ASSUME NEW n \in Nat, NEW max \in Nat \ {0}
  PROVE  /\ Acyclic(n, ChainDependencies(n))
         /\ Acyclic(n, EnqueueManyDependencies(n, max))
         /\ Acyclic(n + 1, MapReduceDependencies(n, max))
<1>1. ASSUME NEW k \in Nat, NEW d,
             d \in [1 .. k -> SUBSET (1 .. k)],
             \A s \in 1 .. k : \A t \in d[s] : t < s
      PROVE  Acyclic(k, d)
  BY <1>1, BackwardIsAcyclic DEF Acyclic
<1>2. Acyclic(n, ChainDependencies(n))
  <2>1. ChainDependencies(n) \in [1 .. n -> SUBSET (1 .. n)]
    BY DEF ChainDependencies
  <2>2. \A s \in 1 .. n : \A t \in ChainDependencies(n)[s] : t < s
    BY DEF ChainDependencies
  <2> QED
    BY <1>1, <2>1, <2>2
<1>3. Acyclic(n, EnqueueManyDependencies(n, max))
  <2>1. EnqueueManyDependencies(n, max) \in [1 .. n -> SUBSET (1 .. n)]
    BY DEF EnqueueManyDependencies, WindowDependencies
  <2>2. \A s \in 1 .. n : \A t \in EnqueueManyDependencies(n, max)[s] : t < s
    BY DEF EnqueueManyDependencies, WindowDependencies
  <2> QED
    BY <1>1, <2>1, <2>2
<1>4. Acyclic(n + 1, MapReduceDependencies(n, max))
  <2>1. MapReduceDependencies(n, max) \in [1 .. (n + 1) -> SUBSET (1 .. (n + 1))]
    BY DEF MapReduceDependencies, WindowDependencies
  <2>2. \A s \in 1 .. (n + 1) : \A t \in MapReduceDependencies(n, max)[s] : t < s
    BY DEF MapReduceDependencies, WindowDependencies
  <2> QED
    BY <1>1, <2>1, <2>2
<1> QED
  BY <1>2, <1>3, <1>4

\* Whatever fails, the summary of a job that mapReduce has built never reports the
\* reduce stage as begun before the map stage is completed.
THEOREM ReduceLast ==
  ASSUME NumSteps > 1, DependsOn = MapReduceDependencies(NumSteps - 1, MaxConcurrency)
  PROVE  Spec => []ReduceAfterMap
<1>1. DependencyOrder /\ TypeOK => ReduceAfterMap
  <2> SUFFICES ASSUME DependencyOrder, TypeOK,
                      AggregatedStatus(record, {Reduce}) \in {"running", "completed", "failed"}
               PROVE  AggregatedStatus(record, Maps) = "completed"
    BY DEF ReduceAfterMap
  <2>1. NumSteps \in Nat \ {0} /\ Reduce \in Steps
    BY JobsAssumption DEF Steps, Reduce
  <2>2. DependsOn[Reduce] = Maps
    BY <2>1 DEF MapReduceDependencies, Maps, Steps, Reduce
  <2>3. record.state[Reduce] \in {"running", "completed", "failed"}
    BY <2>1 DEF AggregatedStatus, TypeOK, JobRecord, StepState
  <2>4. \A s \in Maps : record.state[s] = "completed"
    BY <2>1, <2>2, <2>3 DEF DependencyOrder, InOrder
  <2>5. 1 \in Maps
    BY <2>1 DEF Maps, Steps, Reduce
  <2> QED
    BY <2>4, <2>5 DEF AggregatedStatus
<1> QED
  BY <1>1, DependenciesFirst, TypeCorrect, PTL

----------------------------------------------------------------------------
(* The window of mapReduce.  The items that wait for one another form as   *)
(* many lanes as the window is wide: item s is in lane r when it is q      *)
(* windows behind the first item of the lane, s = r + q * max.             *)

InLane(s, r, max) == \E q \in Nat : s = r + q * max

LEMMA LaneExists ==
  ASSUME NEW s \in Nat \ {0}, NEW max \in Nat \ {0}
  PROVE  \E r \in 1 .. max : InLane(s, r, max)
<1> DEFINE Firsts == {x \in Nat \ {0} : InLane(s, x, max)}
<1>1. s \in Firsts
  <2>1. s = s + 0 * max
    OBVIOUS
  <2> QED
    BY <2>1 DEF InLane
<1>2. PICK r \in Firsts : \A y \in Firsts : r <= y
  <2>1. Firsts \in SUBSET Nat /\ Firsts # {}
    BY <1>1
  <2> HIDE DEF Firsts
  <2> QED
    BY <2>1, Least
<1>3. PICK q \in Nat : s = r + q * max
  BY <1>2 DEF InLane
<1>4. r <= max
  <2> SUFFICES ASSUME r > max
               PROVE  FALSE
    BY <1>2
  <2>1. (q + 1) * max = q * max + max /\ q * max \in Nat
    OBVIOUS
  <2>2. s = (r - max) + (q + 1) * max
    BY <1>2, <1>3, <2>1
  <2>3. r - max \in Nat \ {0} /\ r - max < r /\ q + 1 \in Nat
    BY <1>2
  <2>4. r - max \in Firsts
    BY <2>2, <2>3 DEF InLane
  <2> QED
    BY <1>2, <2>3, <2>4
<1> QED
  BY <1>2, <1>4

\* Of one lane, no two items run at a time: the later one, and every one between
\* them that has begun, waits for the one before it to complete.
LEMMA OnePerLane ==
  ASSUME NumSteps > 1, DependsOn = MapReduceDependencies(NumSteps - 1, MaxConcurrency),
         DependencyOrder, TypeOK,
         NEW s \in Maps, NEW t \in Maps, NEW r \in 1 .. MaxConcurrency,
         InLane(s, r, MaxConcurrency), InLane(t, r, MaxConcurrency), s < t,
         record.state[s] = "running", record.state[t] = "running"
  PROVE  FALSE
<1> DEFINE max     == MaxConcurrency
           Item(q) == r + q * max
           Begun   == {q \in Nat : /\ s < Item(q)
                                   /\ Item(q) \in Maps
                                   /\ record.state[Item(q)] \in {"running", "completed", "failed"}}
<1>1. max \in Nat \ {0} /\ NumSteps \in Nat \ {0}
  BY ConcurrencyAssumption, JobsAssumption
<1>2. PICK q1 \in Nat : s = Item(q1)
  BY DEF InLane
<1>3. PICK q2 \in Nat : t = Item(q2)
  BY DEF InLane
<1>4. q2 \in Begun
  BY <1>3
<1>5. PICK q \in Begun : \A k \in Begun : q <= k
  <2>1. Begun \in SUBSET Nat /\ Begun # {}
    BY <1>4
  <2> HIDE DEF Begun
  <2> QED
    BY <2>1, Least
<1>6. q \in Nat /\ q1 < q
  <2>1. q \in Nat /\ q1 * max < q * max
    BY <1>1, <1>2, <1>5
  <2>2. CASE q <= q1
    <3>1. q1 * max = q * max + (q1 - q) * max /\ (q1 - q) * max >= 0
      BY <1>1, <2>1, <2>2
    <3> QED
      BY <1>1, <2>1, <3>1
  <2> QED
    BY <2>1, <2>2
<1>7. Item(q) = Item(q - 1) + max /\ q - 1 \in Nat
  BY <1>1, <1>6
<1>8. Item(q - 1) >= r /\ Item(q - 1) \in Nat
  BY <1>1, <1>7
<1>9. DependsOn[Item(q)] = {Item(q - 1)} /\ Item(q) \in Steps /\ Item(q - 1) \in Maps
  <2> DEFINE a == Item(q)
             b == Item(q - 1)
  <2>1. a \in Maps /\ a = b + max /\ b \in Nat /\ b >= r
    BY <1>5, <1>7, <1>8
  <2> HIDE DEF a, b
  <2>2. a \in 1 .. (NumSteps - 1) /\ a \in Steps /\ ~(a <= max) /\ b \in Maps
    BY <1>1, <2>1 DEF Maps, Steps, Reduce
  <2>3. DependsOn[a] = {a - max}
    BY <1>1, <2>2 DEF MapReduceDependencies, WindowDependencies
  <2> QED
    BY <1>1, <2>1, <2>2, <2>3 DEF a, b
<1>10. record.state[Item(q - 1)] = "completed"
  BY <1>5, <1>9 DEF DependencyOrder, InOrder
<1>11. CASE q - 1 = q1
  BY <1>2, <1>10, <1>11
<1>12. CASE q - 1 # q1
  <2>1. q1 < q - 1
    BY <1>6, <1>12
  <2>2. s < Item(q - 1)
    <3>1. (q - 1) * max = q1 * max + ((q - 1) - q1) * max
      BY <1>1, <1>6
    <3>2. ((q - 1) - q1) * max > 0
      BY <1>1, <1>6, <2>1
    <3> QED
      BY <1>1, <1>2, <1>6, <3>1, <3>2
  <2>3. q - 1 \in Begun
    BY <1>7, <1>9, <1>10, <2>2
  <2> QED
    BY <1>5, <1>6, <2>3
<1> QED
  BY <1>11, <1>12

\* For any number of items and any window, no more items than maxConcurrency are
\* under way in a job that mapReduce has built, the ones counted whose execution
\* has died.
THEOREM WindowHolds ==
  ASSUME NumSteps > 1, DependsOn = MapReduceDependencies(NumSteps - 1, MaxConcurrency)
  PROVE  Spec => []WindowBounded
<1>1. DependencyOrder /\ TypeOK => WindowBounded
  <2> SUFFICES ASSUME DependencyOrder, TypeOK
               PROVE  WindowBounded
    OBVIOUS
  <2> DEFINE max     == MaxConcurrency
             UnderWay == {s \in Maps : record.state[s] = "running"}
             LaneOf    == [s \in UnderWay |-> CHOOSE r \in 1 .. max : InLane(s, r, max)]
  <2>1. max \in Nat \ {0} /\ NumSteps \in Nat \ {0}
    BY ConcurrencyAssumption, JobsAssumption
  <2>2. ASSUME NEW s \in UnderWay
        PROVE  LaneOf[s] \in 1 .. max /\ InLane(s, LaneOf[s], max)
    <3>1. s \in Nat \ {0}
      BY <2>1 DEF Maps, Steps
    <3>2. \E r \in 1 .. max : InLane(s, r, max)
      BY <2>1, <3>1, LaneExists
    <3> QED
      BY <3>2
  <2>3. ASSUME NEW s \in UnderWay, NEW t \in UnderWay, LaneOf[s] = LaneOf[t]
        PROVE  s = t
    <3>1. s \in Maps /\ t \in Maps /\ s \in Nat /\ t \in Nat
      BY <2>1 DEF Maps, Steps
    <3>2. PICK r \in 1 .. max : InLane(s, r, max) /\ InLane(t, r, max)
      BY <2>2, <2>3
    <3>3. ~(s < t)
      BY <3>1, <3>2, OnePerLane
    <3>4. ~(t < s)
      BY <3>1, <3>2, OnePerLane
    <3> QED
      BY <3>1, <3>3, <3>4
  <2>4. LaneOf \in Injection(UnderWay, 1 .. max)
    BY <2>2, <2>3 DEF Injection, IsInjective
  <2>5. IsFiniteSet(1 .. max) /\ Cardinality(1 .. max) = max
    BY <2>1, FS_Interval
  <2>6. Cardinality(UnderWay) <= max
    <3> HIDE DEF UnderWay, LaneOf
    <3> QED
      BY <2>4, <2>5, FS_Injection
  <2> QED
    BY <2>6 DEF WindowBounded
<1> QED
  BY <1>1, DependenciesFirst, TypeCorrect, PTL

=============================================================================
