------------------------------- MODULE MCJobs -------------------------------
(***************************************************************************)
(* Small instances of Jobs for TLC: two executions of one job.             *)
(***************************************************************************)
EXTENDS JobsRefinement, TLC

CONSTANTS w1, w2

MCWorkers == {w1, w2}

MCSymmetry == Permutations(MCWorkers)

\* The first step waits for the last, so the order of job.steps is not the
\* order of execution.
MCDependsOn ==
  [s \in Steps |-> IF s = 1 /\ NumSteps > 1 THEN {NumSteps} ELSE {}]

\* Every fault at every point.
AllFaults == FaultKinds \X Points

\* The fault that leaves the step it strikes running for ever.
LostHandler == {<<"crash", "handler">>}

=============================================================================
