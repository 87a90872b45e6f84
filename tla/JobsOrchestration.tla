------------------------- MODULE JobsOrchestration -------------------------
(***************************************************************************)
(* The jobs that AST.Jobs.chain, enqueueMany and mapReduce build, run by   *)
(* Jobs, and the summary they attach.  A builder only decides which step   *)
(* waits for which; payloads and handler names are left out.               *)
(***************************************************************************)
EXTENDS Jobs

CONSTANT MaxConcurrency  \* request.maxConcurrency

\* astJobsNormalizeOrchestrationConcurrency
ASSUME ConcurrencyAssumption == MaxConcurrency \in Nat \ {0}

WindowDependenciesBug(i, max) == IF i <= max + 1 THEN {} ELSE {i - max - 1}

\* An item's step waits for the one that many places before.
WindowDependencies(i, max) == IF i <= max THEN {} ELSE {i - max}

ChainDependencies(n) == [s \in 1 .. n |-> IF s = 1 THEN {} ELSE {s - 1}]

EnqueueManyDependencies(n, max) == [s \in 1 .. n |-> WindowDependencies(s, max)]

MapReduceDependenciesBug(items, max) ==
  [s \in 1 .. (items + 1) |-> IF s <= items THEN WindowDependencies(s, max) ELSE {items}]

\* The reduce step comes last and waits for every item.
MapReduceDependencies(items, max) ==
  [s \in 1 .. (items + 1) |-> IF s <= items THEN WindowDependencies(s, max) ELSE 1 .. items]

\* The status reported of a stage of the job, by the states of its steps.
AggregatedStatus(j, stage) ==
  LET Some(st) == \E s \in stage : j.state[s] = st
      All(st)  == \A s \in stage : j.state[s] = st
  IN IF stage = {} THEN j.status
     ELSE IF Some("failed") THEN "failed"
     ELSE IF Some("running") THEN "running"
     ELSE IF Some("pending") THEN IF j.status \in {"queued", "paused"} THEN j.status ELSE "pending"
     ELSE IF All("canceled") THEN "canceled"
     ELSE IF All("completed") THEN "completed" ELSE "mixed"

----------------------------------------------------------------------------
(* Properties of a job that mapReduce has built.                           *)

Reduce == NumSteps
Maps   == Steps \ {Reduce}

\* No more items than maxConcurrency are ever under way, those included whose
\* execution has died: an item that is stuck holds its place in the window.
WindowBounded ==
  Cardinality({s \in Maps : record.state[s] = "running"}) <= MaxConcurrency

\* Whenever the summary reports the reduce stage as begun it reports the map
\* stage as completed, through failures, take-overs and cancels.
ReduceAfterMap ==
  AggregatedStatus(record, {Reduce}) \in {"running", "completed", "failed"} =>
    AggregatedStatus(record, Maps) = "completed"

=============================================================================
