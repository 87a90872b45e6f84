----------------------------- MODULE MCTriggers -----------------------------
(***************************************************************************)
(* Small instances of Triggers for TLC: two executions, two definitions.   *)
(***************************************************************************)
EXTENDS Triggers, TLC

CONSTANTS c1, c2, i1, i2

MCCallers == {c1, c2}
MCIds     == {i1, i2}

MCSymmetry == Permutations(MCCallers)

Asked(on, bind, body) == [on |-> on, bind |-> bind, body |-> body]

\* One is asked for enabled, with another schedule, with another payload and
\* disabled, the other in one way only.
MCWants ==
  (i1 :> {Asked(TRUE, 1, 1), Asked(TRUE, 2, 1), Asked(TRUE, 1, 2), Asked(FALSE, 1, 1)})
  @@ (i2 :> {Asked(TRUE, 1, 1)})

AllCalls  == CallKinds
AllFaults == FaultKinds

=============================================================================
