--------------------------- MODULE JobLifecycle ---------------------------
(***************************************************************************)
(* What a job of AST.Jobs is to its callers: one sequential program whose  *)
(* status, step states and attempt counts change one checkpoint at a time. *)
(* There is no worker, no lease and no version here.  Jobs, where several  *)
(* executions race, implements it (module JobsRefinement).                 *)
(***************************************************************************)
EXTENDS Naturals

CONSTANTS
  NumSteps,
  DependsOn,
  MaxRetries

Steps == 1 .. NumSteps

VARIABLES
  status,    \* job.status
  state,     \* step.state of each step
  attempts   \* step.attempts of each step

lifecycleVars == <<status, state, attempts>>

Start ==
  /\ status = "queued"
  /\ state = [s \in Steps |-> "pending"]
  /\ attempts = [s \in Steps |-> 0]

Ready(s) ==
  /\ state[s] = "pending"
  /\ \A d \in DependsOn[s] : state[d] = "completed"

Goto(st) == status' = st /\ UNCHANGED <<state, attempts>>

\* An execution takes the job up, again if the last one was lost.
TakeUp == status \in {"queued", "paused", "running"} /\ Goto("running")

\* The first ready step in the order of job.steps is started.
BeginStep(s) ==
  /\ status = "running"
  /\ Ready(s)
  /\ \A t \in Steps : Ready(t) => s <= t
  /\ state' = [state EXCEPT ![s] = "running"]
  /\ UNCHANGED <<status, attempts>>

StepDone(s) ==
  /\ status = "running"
  /\ state[s] = "running"
  /\ state' = [state EXCEPT ![s] = "completed"]
  /\ UNCHANGED <<status, attempts>>

\* A failed step is retried by a later execution while retries are left.
StepFailed(s) ==
  /\ status = "running"
  /\ state[s] = "running"
  /\ attempts' = [attempts EXCEPT ![s] = @ + 1]
  /\ LET next == IF attempts[s] < MaxRetries
                 THEN <<"paused", "pending">> ELSE <<"failed", "failed">>
     IN /\ status' = next[1]
        /\ state' = [state EXCEPT ![s] = next[2]]

\* The budget is spent, or what is left waits for a step that never ended.
Pause == status = "running" /\ Goto("paused")

Finish ==
  /\ status = "running"
  /\ \A s \in Steps : state[s] = "completed"
  /\ Goto("completed")

CancelJob ==
  /\ status \in {"queued", "paused", "failed"}
  /\ status' = "canceled"
  /\ state' = [s \in Steps |-> IF state[s] \in {"pending", "running"}
                               THEN "canceled" ELSE state[s]]
  /\ UNCHANGED attempts

\* A replay keeps what was completed and starts the rest over.
Replay ==
  /\ status = "failed"
  /\ status' = "paused"
  /\ LET done == {s \in Steps : state[s] = "completed"}
     IN /\ state' = [s \in Steps |-> IF s \in done THEN "completed" ELSE "pending"]
        /\ attempts' = [s \in Steps |-> IF s \in done THEN attempts[s] ELSE 0]

LifecycleNext ==
  \/ TakeUp
  \/ \E s \in Steps : BeginStep(s) \/ StepDone(s) \/ StepFailed(s)
  \/ Pause
  \/ Finish
  \/ CancelJob
  \/ Replay

LifecycleSpec == Start /\ [][LifecycleNext]_lifecycleVars

=============================================================================
