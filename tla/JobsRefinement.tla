-------------------------- MODULE JobsRefinement --------------------------
(***************************************************************************)
(* Jobs implements JobLifecycle: seen through the stored record, any       *)
(* number of racing, crashing and expiring executions do no more than one  *)
(* execution would.  A finished run with a step that failed is never the   *)
(* work of astJobsFinalizeWhenNoRunnableStep, so JobLifecycle has only the *)
(* status "failed" that StepFailed writes.                                 *)
(***************************************************************************)
EXTENDS Jobs

Lifecycle == INSTANCE JobLifecycle WITH
  status   <- record.status,
  state    <- record.state,
  attempts <- record.attempts

\* Every behaviour of the executions, the canceller and the replay is, on the
\* stored record, a behaviour of the sequential job.
ImplementsLifecycle == Lifecycle!LifecycleSpec

=============================================================================
