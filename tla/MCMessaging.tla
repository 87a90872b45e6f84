---------------------------- MODULE MCMessaging ----------------------------
(***************************************************************************)
(* A small instance of Messaging for TLC: two executions, a batch of two   *)
(* messages, a single message and one notice.                              *)
(***************************************************************************)
EXTENDS Messaging, TLC

CONSTANTS c1, c2, batch, single, notice

MCCallers  == {c1, c2}
MCRequests == {batch, single}
MCNotices  == {notice}
MCSize     == (batch :> 2) @@ (single :> 1)
MCSymmetry == Permutations(MCCallers)
AllFaults  == FaultKinds

=============================================================================
