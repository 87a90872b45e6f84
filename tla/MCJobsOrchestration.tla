------------------------ MODULE MCJobsOrchestration ------------------------
(***************************************************************************)
(* A small instance of JobsOrchestration for TLC: two executions of a job  *)
(* that mapReduce has built for three items, two of them at a time.        *)
(***************************************************************************)
EXTENDS JobsOrchestration

CONSTANTS w1, w2

MCWorkers   == {w1, w2}
MCDependsOn == MapReduceDependencies(NumSteps - 1, MaxConcurrency)
AllFaults   == FaultKinds \X Points

=============================================================================
