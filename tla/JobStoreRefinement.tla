------------------------- MODULE JobStoreRefinement -------------------------
(***************************************************************************)
(* JobStore implements JobRegister: with the index, its failures and the   *)
(* unlocked readers left out of sight, a write is an atomic                *)
(* compare-and-swap.  This is what module Jobs assumes of each store call. *)
(***************************************************************************)
EXTENDS JobStore

\* Callers whose record is written and whose write has not returned.
Returning == {c \in Callers : kind[c] = "write" /\ pc[c] \in Indexing}

Registers == INSTANCE JobRegister WITH
  Blank <- Absent,
  reg   <- record,
  pend  <- Returning

\* Every behaviour of the store is one of the registers.
ImplementsRegister == Registers!RegisterSpec

=============================================================================
