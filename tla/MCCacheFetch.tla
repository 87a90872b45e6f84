---------------------------- MODULE MCCacheFetch ----------------------------
(***************************************************************************)
(* A small instance of CacheFetch for TLC: two executions.                 *)
(***************************************************************************)
EXTENDS CacheFetch, TLC

CONSTANTS p1, p2

MCCallers  == {p1, p2}
MCSymmetry == Permutations(MCCallers)
AllCalls   == CallKinds
AllFaults  == FaultKinds

=============================================================================
