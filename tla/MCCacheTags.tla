---------------------------- MODULE MCCacheTags ----------------------------
(***************************************************************************)
(* A small instance of CacheTags for TLC: two executions, two keys, each   *)
(* entry with one of two tags.                                             *)
(***************************************************************************)
EXTENDS CacheTags, TLC

CONSTANTS c1, c2, k1, k2, x, y

MCCallers  == {c1, c2}
MCKeys     == {k1, k2}
MCTags     == {x, y}
EitherTag  == {{t} : t \in MCTags}
MCSymmetry == Permutations(MCCallers) \cup Permutations(MCKeys) \cup Permutations(MCTags)
AllCalls   == CallKinds

=============================================================================
