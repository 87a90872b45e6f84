---------------------------- MODULE MCJobStore ----------------------------
(***************************************************************************)
(* Small instances of JobStore for TLC: two executions, two jobs under two *)
(* prefixes or under one.                                                  *)
(***************************************************************************)
EXTENDS JobStoreRefinement, TLC

CONSTANTS c1, c2, j1, j2, p, q

MCCallers  == {c1, c2}
MCJobs     == {j1, j2}
MCPrefixes == {p, q}
MCStatuses == {"queued", "canceled"}
OneStatus  == {"queued"}

TwoPrefixes == (j1 :> p) @@ (j2 :> q)
OnePrefix   == [j \in Jobs |-> p]

MCSymmetry == Permutations(MCCallers)

Nobody     == {}
FirstJob   == {j1}
BothCalls  == {"read", "list"}
ReadCalls  == {"read"}
ListCalls  == {"list"}
BothFaults == {"crash", "throw"}

=============================================================================
