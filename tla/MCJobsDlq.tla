----------------------------- MODULE MCJobsDlq -----------------------------
(***************************************************************************)
(* Small instances of JobsDlq for TLC: two executions, two jobs.           *)
(***************************************************************************)
EXTENDS JobsDlq, TLC

CONSTANTS c1, c2, j1, j2, k1, k2

MCCallers == {c1, c2}
MCJobs    == {j1, j2}
MCKeys    == {k1, k2}
NoKeys    == {}

Keyless    == [c \in Callers |-> {NoKey}]
OneKeyed  == (c1 :> {k1, NoKey}) @@ (c2 :> {NoKey})

MCSymmetry == Permutations(MCCallers) \cup Permutations(MCJobs)

AllCalls   == CallKinds
ReplayOnly == {"replay"}

AllFaults  == FaultKinds
Throws     == {"throw"}

=============================================================================
