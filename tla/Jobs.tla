------------------------------- MODULE Jobs -------------------------------
(***************************************************************************)
(* The execution of one persisted job of AST.Jobs: astJobsResume called by *)
(* several Apps Script executions, the lease that keeps them apart, the    *)
(* checkpoints each of them writes with compare-and-swap, and the calls    *)
(* that change the record from outside (cancel, the DLQ's replay reset).   *)
(*                                                                         *)
(* Job records are stored under one script property each and a call        *)
(* touches one record, so one record is the whole shared state.            *)
(*                                                                         *)
(* Versions.  A record's version only grows, by one per write, and is only *)
(* compared for equality with the version a copy was read at.  So instead  *)
(* of the number the model keeps WHO holds the stored version: `current`   *)
(* for the job copy an execution works on, `fresh` for the record a lease  *)
(* operation has read and not yet written.  Every write empties both       *)
(* except for the writer, and a compare-and-swap succeeds exactly for a    *)
(* member.  JobStore keeps the numbers and the lock under this.            *)
(*                                                                         *)
(* Time.  leaseExpiresAt is abstracted to whether it lies in the future;   *)
(* LeaseRunsOut lets it pass.  A lease renewed for a step lasts at least   *)
(* maxRuntimeMs, yet neither that nor anything else stops a handler or a   *)
(* store call from outlasting it: that is the fault "slow".                *)
(***************************************************************************)
EXTENDS Naturals, FiniteSets

CONSTANTS
  Workers,     \* ids of executions (astJobsGenerateWorkerId); reused when forgotten
  NoWorker,    \* leaseOwner = null
  NumSteps,    \* length of job.steps
  DependsOn,   \* step -> the steps it depends on
  MaxRetries,  \* job.options.maxRetries
  ReplayOn,    \* whether astJobsReplayDlq may reset the job once it failed
  Faults,      \* the <<kind, control point>> pairs at which a fault may strike
  MaxFaults    \* bound on the faults of one behaviour

Steps  == 1 .. NumSteps
NoStep == 0

FaultKinds == {"crash", "write", "index", "slow"}

Points == {"idle", "acquire", "start", "loop", "renew", "check", "stepRenew",
           "stepStart", "handler", "final", "release", "releaseWrite"}

\* Points at which an execution holds its job copy inside the while loop.
InLoop == {"loop", "renew", "check", "stepRenew", "stepStart", "handler"}

\* astJobsValidateDependencyGraph: known steps, no self dependency, no cycle.
ASSUME JobsAssumption ==
  /\ NoWorker \notin Workers
  /\ NumSteps \in Nat \ {0}
  /\ DependsOn \in [Steps -> SUBSET Steps]
  /\ \A S \in (SUBSET Steps) \ {{}} : \E s \in S : DependsOn[s] \cap S = {}
  /\ MaxRetries \in Nat
  /\ ReplayOn \in BOOLEAN
  /\ Faults \subseteq (FaultKinds \X Points)
  /\ MaxFaults \in Nat

JobStatus  == {"queued", "running", "paused", "failed", "completed", "canceled"}
StepState  == {"pending", "running", "completed", "failed", "canceled"}

JobRecord == [status   : JobStatus,
              owner    : Workers \cup {NoWorker},
              state    : [Steps -> StepState],
              attempts : [Steps -> 0 .. (MaxRetries + 1)]]

VARIABLES
  record,     \* the stored job record
  leaseLive,  \* leaseExpiresAt of the stored record lies in the future
  pc,         \* control point of each execution
  job,        \* the copy of the record each execution works on
  cur,        \* the last step each execution has picked
  current,    \* executions whose copy carries the stored version
  fresh,      \* executions whose lease read carries the stored version
  faults,     \* faults injected so far
  calls       \* history: handler calls of each step since the last replay

vars == <<record, leaseLive, pc, job, cur, current, fresh, faults, calls>>

----------------------------------------------------------------------------
(* The record astJobsEnqueue persists, and the decisions taken on a copy.  *)

NewJobRecord == [status   |-> "queued",
                 owner    |-> NoWorker,
                 state    |-> [s \in Steps |-> "pending"],
                 attempts |-> [s \in Steps |-> 0]]

TerminalStatusBug == {"completed", "canceled"}

\* No lease is given for these.
TerminalStatus == {"completed", "canceled", "failed"}

RunnableBug(j) == {s \in Steps : j.state[s] = "pending"}

\* Pending steps whose dependencies are all completed.
Runnable(j) ==
  {s \in Steps : /\ j.state[s] = "pending"
                 /\ \A d \in DependsOn[s] : j.state[d] = "completed"}

FindRunnableStepBug(j) ==
  {s \in Runnable(j) : \A t \in Runnable(j) : t <= s}

\* The first of them in the order of job.steps, as a set of at most one.
FindRunnableStep(j) ==
  {s \in Runnable(j) : \A t \in Runnable(j) : s <= t}

Has(j, st) == \E s \in Steps : j.state[s] = st

FinalStatusBug(j) ==
  IF \A s \in Steps : j.state[s] = "completed" THEN "completed"
  ELSE IF Has(j, "failed") \/ Has(j, "pending") THEN "failed" ELSE "paused"

FinalStatusPauses(j) == IF Has(j, "failed") THEN "failed" ELSE "paused"

\* astJobsFinalizeWhenNoRunnableStep.
FinalStatus(j) ==
  IF \A s \in Steps : j.state[s] = "completed" THEN "completed"
  ELSE IF \/ Has(j, "failed")
          \/ Has(j, "pending") /\ ~Has(j, "running") THEN "failed"
  ELSE "paused"

WithStatus(j, st) == [j EXCEPT !.status = st]

Running(j, s) == [j EXCEPT !.state[s] = "running"]

AfterSuccess(j, s) == [j EXCEPT !.state[s] = "completed"]

AfterFailureBug(j, s) ==
  LET spent == j.attempts[s] > MaxRetries
  IN [j EXCEPT !.attempts[s] = @ + 1,
               !.state[s]    = IF spent THEN "failed" ELSE "pending",
               !.status      = IF spent THEN "failed" ELSE "paused"]

\* The catch block of astJobsExecuteStep.
AfterFailure(j, s) ==
  LET attempts == j.attempts[s] + 1
      spent    == attempts > MaxRetries
  IN [status   |-> IF spent THEN "failed" ELSE "paused",
      owner    |-> j.owner,
      state    |-> [j.state EXCEPT ![s] = IF spent THEN "failed" ELSE "pending"],
      attempts |-> [j.attempts EXCEPT ![s] = attempts]]

----------------------------------------------------------------------------
(* One store call of an execution.                                         *)

\* A fault of this kind strikes execution w where it stands.
Inject(kind, w) ==
  /\ <<kind, pc[w]>> \in Faults
  /\ faults < MaxFaults
  /\ faults' = faults + 1

\* The execution goes on with copy j.
GoOn(w, point, j) ==
  /\ pc' = [pc EXCEPT ![w] = point]
  /\ job' = [job EXCEPT ![w] = j]
  /\ UNCHANGED cur

\* The execution is done with its copy, after its last write or an error.
GiveUp(w, point) ==
  /\ pc' = [pc EXCEPT ![w] = point]
  /\ job' = [job EXCEPT ![w] = NewJobRecord]
  /\ cur' = [cur EXCEPT ![w] = NoStep]

\* The stored record becomes r, and only the copies of `holders` are of its
\* version.
Store(r, live, holders) ==
  /\ record' = r
  /\ leaseLive' = live
  /\ current' = holders
  /\ fresh' = {}

\* The caller holds the stored version and the write takes effect.
Swap(holds, r, live, holders) ==
  /\ holds
  /\ Store(r, live, holders)
  /\ UNCHANGED faults

\* The write throws.  Without effect: the version moved on, the script lock
\* timed out, or the value is over the property limit.  Or with effect: the
\* job property is written and the index update behind it throws (an index
\* bucket is over the property limit), so the caller keeps its old version.
SwapThrows(w, holds, r, live) ==
  \/ /\ \/ ~holds /\ UNCHANGED faults
        \/ Inject("write", w)
     /\ current' = current \ {w}
     /\ fresh' = fresh \ {w}
     /\ UNCHANGED <<record, leaseLive>>
  \/ /\ holds
     /\ Inject("index", w)
     /\ Store(r, live, {})

\* A lease operation reads the record.
LeaseRead(w) ==
  /\ fresh' = fresh \cup {w}
  /\ UNCHANGED <<record, leaseLive, current, faults>>

HoldsVersionBug(w) == TRUE
HoldsVersion(w) == w \in current

\* astJobsPersistJob: checkpoint copy j.
Persist(w, j, holders) == Swap(HoldsVersion(w), j, leaseLive, holders)
PersistThrows(w, j) ==
  /\ SwapThrows(w, HoldsVersion(w), j, leaseLive)
  /\ GiveUp(w, "release")

\* The record with the lease given to `owner` or cleared; a lease just given
\* is live.
Leased(r, owner) == [r EXCEPT !.owner = owner]
LeaseSwap(w, owner, holders) ==
  Swap(w \in fresh, Leased(record, owner), owner # NoWorker, holders)
LeaseSwapThrows(w, owner) ==
  SwapThrows(w, w \in fresh, Leased(record, owner), owner # NoWorker)

----------------------------------------------------------------------------
Init ==
  /\ record = NewJobRecord
  /\ leaseLive = FALSE
  /\ pc = [w \in Workers |-> "idle"]
  /\ job = [w \in Workers |-> NewJobRecord]
  /\ cur = [w \in Workers |-> NoStep]
  /\ current = {}
  /\ fresh = {}
  /\ faults = 0
  /\ calls = [s \in Steps |-> 0]

LeaseActive == record.owner # NoWorker /\ leaseLive

\* The guards of astJobsAcquireLease on the record it has read.
Acquirable(w) ==
  /\ record.status \notin TerminalStatus
  /\ LeaseActive => record.owner = w

\* astJobsResume up to the read in astJobsAcquireLease; when the guards fail
\* it throws and nothing happens.  The worker id is new, so it is not the
\* recorded owner's.
ResumeRead(w) ==
  /\ pc[w] = "idle"
  /\ record.owner # w
  /\ Acquirable(w)
  /\ LeaseRead(w)
  /\ pc' = [pc EXCEPT ![w] = "acquire"]
  /\ UNCHANGED <<job, cur, calls>>

AcquireWrite(w) ==
  /\ pc[w] = "acquire"
  /\ \/ LeaseSwap(w, w, {w}) /\ GoOn(w, "start", Leased(record, w))
     \/ LeaseSwapThrows(w, w) /\ GiveUp(w, "idle")
  /\ UNCHANGED calls

\* astJobsEnsureResumableStatus cannot throw here: the status is not terminal
\* and the owner is w.
StartRun(w) ==
  /\ pc[w] = "start"
  /\ LET j == WithStatus(job[w], "running")
     IN \/ Persist(w, j, {w}) /\ GoOn(w, "loop", j)
        \/ PersistThrows(w, j)
  /\ UNCHANGED calls

\* astJobsMaybeRenewLease, the lease has more than the lead time left.
SkipRenew(w) ==
  /\ pc[w] = "loop"
  /\ LeaseActive /\ record.owner = w
  /\ pc' = [pc EXCEPT ![w] = "check"]
  /\ UNCHANGED <<record, leaseLive, job, cur, current, fresh, faults, calls>>

RenewableBug(w) == TRUE

\* astJobsRenewLease asks who owns the lease, not whether it is live.
Renewable(w) == record.owner = w

\* astJobsRenewLease throws.
RenewRefused(w) ==
  /\ ~Renewable(w)
  /\ GiveUp(w, "release")
  /\ current' = current \ {w}
  /\ UNCHANGED <<record, leaseLive, fresh, faults>>

\* The renewed record's version and lease are put on the copy, its steps and
\* status are not (astJobsApplyRenewedLeaseToJob).
RenewWrite(w, point) ==
  \/ LeaseSwap(w, w, {w}) /\ GoOn(w, point, Leased(job[w], w))
  \/ LeaseSwapThrows(w, w) /\ GiveUp(w, "release")

MaybeRenewRead(w) ==
  /\ pc[w] = "loop"
  /\ \/ /\ Renewable(w)
        /\ LeaseRead(w)
        /\ pc' = [pc EXCEPT ![w] = "renew"]
        /\ UNCHANGED <<job, cur>>
     \/ RenewRefused(w)
  /\ UNCHANGED calls

MaybeRenewWrite(w) ==
  /\ pc[w] = "renew"
  /\ RenewWrite(w, "check")
  /\ UNCHANGED calls

\* Pause the job when the runtime budget is spent; the store calls of the first
\* round alone may take that long.
BudgetSpent(w) ==
  /\ pc[w] = "check"
  /\ LET j == WithStatus(job[w], "paused")
     IN \/ Persist(w, j, {}) /\ GiveUp(w, "release")
        \/ PersistThrows(w, j)
  /\ UNCHANGED calls

\* No step to run: settle the status and write the final checkpoint.
NoRunnableStep(w) ==
  /\ pc[w] = "check"
  /\ Runnable(job[w]) = {}
  /\ LET j == WithStatus(job[w], FinalStatus(job[w]))
     IN \/ Persist(w, j, {}) /\ GiveUp(w, "release")
        \/ PersistThrows(w, j)
  /\ UNCHANGED calls

\* Pick a step; astJobsExecuteStep starts by renewing the lease for it.
PickStep(w) ==
  /\ pc[w] = "check"
  /\ \E s \in FindRunnableStep(job[w]) :
       \/ /\ Renewable(w)
          /\ LeaseRead(w)
          /\ pc' = [pc EXCEPT ![w] = "stepRenew"]
          /\ cur' = [cur EXCEPT ![w] = s]
          /\ UNCHANGED job
       \/ RenewRefused(w)
  /\ UNCHANGED calls

StepRenewWrite(w) ==
  /\ pc[w] = "stepRenew"
  /\ RenewWrite(w, "stepStart")
  /\ UNCHANGED calls

\* Checkpoint the step as running, then call its handler.
StepStart(w) ==
  /\ pc[w] = "stepStart"
  /\ LET j == Running(job[w], cur[w])
     IN \/ /\ Persist(w, j, {w})
           /\ GoOn(w, "handler", j)
           /\ calls' = [calls EXCEPT ![cur[w]] = @ + 1]
        \/ PersistThrows(w, j) /\ UNCHANGED calls

\* The handler returns or throws, and the `finally` block checkpoints the
\* outcome; a throw from there replaces the outcome and ends the run.
HandlerReturn(w) ==
  /\ pc[w] = "handler"
  /\ \/ LET j == AfterSuccess(job[w], cur[w])
        IN \/ Persist(w, j, {w}) /\ GoOn(w, "loop", j)
           \/ PersistThrows(w, j)
     \/ LET j == AfterFailure(job[w], cur[w])
        IN \/ Persist(w, j, {w}) /\ GoOn(w, "final", j)
           \/ PersistThrows(w, j)
  /\ UNCHANGED calls

\* After a failed step the loop is left and the same copy written once more.
FinalPersist(w) ==
  /\ pc[w] = "final"
  /\ \/ Persist(w, job[w], {}) /\ GiveUp(w, "release")
     \/ PersistThrows(w, job[w])
  /\ UNCHANGED calls

ReleasableBug(w) == record.owner # NoWorker

\* astJobsReleaseLease goes on to clear a lease that is w's own, or anybody's
\* once it has expired.
Releasable(w) ==
  /\ record.owner # NoWorker
  /\ LeaseActive => record.owner = w

\* The read of astJobsReleaseLease; its errors are swallowed.
ReleaseRead(w) ==
  /\ pc[w] = "release"
  /\ \/ /\ Releasable(w)
        /\ LeaseRead(w)
        /\ pc' = [pc EXCEPT ![w] = "releaseWrite"]
     \/ /\ ~Releasable(w)
        /\ pc' = [pc EXCEPT ![w] = "idle"]
        /\ UNCHANGED <<record, leaseLive, current, fresh, faults>>
  /\ UNCHANGED <<job, cur, calls>>

ReleaseWrite(w) ==
  /\ pc[w] = "releaseWrite"
  /\ \/ LeaseSwap(w, NoWorker, {})
     \/ LeaseSwapThrows(w, NoWorker)
  /\ GiveUp(w, "idle")
  /\ UNCHANGED calls

\* The execution is killed (Apps Script's own time limit, a lost process).
Crash(w) ==
  /\ Inject("crash", w)
  /\ GiveUp(w, "idle")
  /\ current' = current \ {w}
  /\ fresh' = fresh \ {w}
  /\ UNCHANGED <<record, leaseLive, calls>>

\* The lease expires.  That its owner is still at work is a fault.
LeaseRunsOut ==
  /\ LeaseActive
  /\ leaseLive' = FALSE
  /\ \/ pc[record.owner] = "idle" /\ UNCHANGED faults
     \/ Inject("slow", record.owner)
  /\ UNCHANGED <<record, pc, job, cur, current, fresh, calls>>

\* Not the caller's to cancel while it runs.
Cancelable == record.status \notin {"completed", "canceled", "running"}

Canceled(r) ==
  [r EXCEPT !.status = "canceled",
            !.state  = [s \in Steps |-> IF @[s] \in {"pending", "running"}
                                        THEN "canceled" ELSE @[s]]]

\* astJobsCancel.  It reads, then compares and swaps: with a write in between
\* it throws and has no effect, so it takes effect on what it has read.
Cancel ==
  /\ Cancelable
  /\ Store(Canceled(record), leaseLive, {})
  /\ UNCHANGED <<pc, job, cur, faults, calls>>

\* astJobsResetJobForReplay: completed steps are kept, the others start over.
Replayed(r) ==
  LET done(s) == r.state[s] = "completed"
  IN [status   |-> "paused",
      owner    |-> NoWorker,
      state    |-> [s \in Steps |-> IF done(s) THEN "completed" ELSE "pending"],
      attempts |-> [s \in Steps |-> IF done(s) THEN r.attempts[s] ELSE 0]]

\* astJobsReplayDlq resets a failed job, by read and compare-and-swap too.
ReplayReset ==
  /\ ReplayOn
  /\ record.status = "failed"
  /\ Store(Replayed(record), FALSE, {})
  /\ calls' = [s \in Steps |-> IF record.state[s] = "completed"
                               THEN calls[s] ELSE 0]
  /\ UNCHANGED <<pc, job, cur, faults>>

\* Completed or canceled and all executions gone: the system may stop.
Settled ==
  /\ record.status \in {"completed", "canceled"}
  /\ \A w \in Workers : pc[w] = "idle"
  /\ UNCHANGED vars

Work(w) ==
  \/ AcquireWrite(w)
  \/ StartRun(w)
  \/ SkipRenew(w)
  \/ MaybeRenewRead(w)
  \/ MaybeRenewWrite(w)
  \/ BudgetSpent(w)
  \/ NoRunnableStep(w)
  \/ PickStep(w)
  \/ StepRenewWrite(w)
  \/ StepStart(w)
  \/ HandlerReturn(w)
  \/ FinalPersist(w)
  \/ ReleaseRead(w)
  \/ ReleaseWrite(w)

Next ==
  \/ \E w \in Workers : ResumeRead(w) \/ Work(w) \/ Crash(w)
  \/ LeaseRunsOut
  \/ Cancel
  \/ ReplayReset
  \/ Settled

Spec == Init /\ [][Next]_vars

\* A started execution runs on; a resume loop keeps calling astJobsResume; an
\* abandoned lease expires; and an execution is not out of budget before its
\* first step for ever.
Fairness ==
  /\ \A w \in Workers : WF_vars(Work(w))
  /\ WF_vars(\E w \in Workers : ResumeRead(w))
  /\ SF_vars(\E w \in Workers : PickStep(w) \/ NoRunnableStep(w))
  /\ WF_vars(LeaseRunsOut)

FairSpec == Spec /\ Fairness

----------------------------------------------------------------------------
(* What a correct job promises.                                            *)

TypeOK ==
  /\ record \in JobRecord
  /\ leaseLive \in BOOLEAN
  /\ pc \in [Workers -> Points]
  /\ job \in [Workers -> JobRecord]
  /\ cur \in [Workers -> Steps \cup {NoStep}]
  /\ current \in SUBSET Workers
  /\ fresh \in SUBSET Workers
  /\ faults \in 0 .. MaxFaults
  /\ calls \in [Steps -> Nat]

\* Points at which an execution's copy is the one it will write.
Holding == InLoop \cup {"start", "final"}

\* A copy that would pass the version check is the stored record: adopting
\* the renewed version without the renewed content
\* (astJobsApplyRenewedLeaseToJob) never hides somebody else's write.
Coherent ==
  \A w \in current : pc[w] \in Holding /\ job[w] = record

\* The lease fences: an execution still in its loop whose id is on the record
\* holds the stored version, so nobody wrote between its checkpoints.
OwnerIsCurrent ==
  \A w \in Workers : pc[w] \in InLoop /\ record.owner = w => w \in current

InOrder(r) ==
  \A s \in Steps :
    r.state[s] \in {"running", "completed", "failed"} =>
      \A d \in DependsOn[s] : r.state[d] = "completed"

\* A step starts, completes or fails only after all its dependencies have
\* completed, and no later write takes a dependency back.
DependencyOrder == InOrder(record)

StatusFits(r) ==
  /\ r.status = "completed" => \A s \in Steps : r.state[s] = "completed"
  /\ r.status = "failed" => Has(r, "failed")
  /\ Has(r, "failed") => r.status \in {"failed", "canceled"}
  /\ Has(r, "canceled") => r.status = "canceled"

\* The stored status agrees with the steps: completed means all steps are,
\* failed means that a step used up its retries, and such a step never leaves
\* the job waiting.  So the branch of astJobsFinalizeWhenNoRunnableStep for
\* unmet dependencies is never taken.
StatusMatchesSteps == StatusFits(record)

\* A handler is called at most maxRetries + 1 times between two replays,
\* whatever is lost, retried or taken over.
RetryBudget ==
  \A s \in Steps : calls[s] <= MaxRetries + 1

\* Two executions are never in the handler of the same step.
HandlerExclusive ==
  \A v, w \in Workers :
    pc[v] = "handler" /\ pc[w] = "handler" /\ cur[v] = cur[w] => v = w

\* A completed step is never run or reset again.
CheckpointMonotone ==
  [][\A s \in Steps :
       record.state[s] = "completed" => record'.state[s] = "completed"]_vars

\* Completed and canceled are final; a failed job is only canceled or replayed.
TerminalFinal ==
  [][/\ record.status \in {"completed", "canceled"} =>
          record' = [record EXCEPT !.owner = record'.owner]
     /\ record.status = "failed" /\ record'.status # "failed" =>
          Cancel \/ ReplayReset]_vars

\* Only the execution whose id is on the record changes its steps or its
\* status, besides cancel and replay: a worker that lost the lease cannot
\* overwrite its successor.
FencedWrites ==
  [][\/ /\ record'.state = record.state
        /\ record'.attempts = record.attempts
        /\ record'.status = record.status
     \/ \E w \in Workers : record.owner = w /\ record'.owner = w /\ Work(w)
     \/ Cancel
     \/ ReplayReset]_vars

\* A live lease leaves its owner's hands only by the owner's own release, by
\* expiry or by a replay.
LeaseRespected ==
  [][LeaseActive /\ record'.owner # record.owner =>
       ReleaseWrite(record.owner) \/ ReplayReset]_vars

\* A job that some loop keeps resuming comes to an end.
Settles ==
  (record.status \notin TerminalStatus) ~> (record.status \in TerminalStatus)

\* A step is stored as running and nobody will ever store its outcome: its
\* execution died, lost its copy of the record or could not write it.
Abandoned ==
  \E s \in Steps :
    /\ record.state[s] = "running"
    /\ \A w \in Workers : pc[w] = "handler" /\ cur[w] = s => w \notin current

\* Whatever fails, a job that some loop keeps resuming comes to an end and stays
\* there, but for an abandoned step: no other loss, take-over or half-done write
\* blocks it.
SettlesUnlessAbandoned ==
  <>[](record.status \in TerminalStatus \/ Abandoned)

----------------------------------------------------------------------------
(* The inductive invariant: what holds of the stored record, and of an     *)
(* execution that could still write it.                                    *)

\* Only a failed step has used up its retries.
AttemptsLeft(r) ==
  \A s \in Steps : r.state[s] # "failed" => r.attempts[s] <= MaxRetries

\* Every handler call is an attempt counted as failed, or the one that runs,
\* has succeeded or was abandoned by a cancel.
Accounts(n, r) ==
  \A s \in Steps :
    n[s] <= r.attempts[s] +
            (IF r.state[s] \in {"running", "completed", "canceled"} THEN 1 ELSE 0)

CallsAccounted == Accounts(calls, record)

\* Where an execution with a current copy stands.
Position(w) ==
  /\ record.owner = w
  /\ pc[w] = "start" => record.status \notin TerminalStatus
  /\ pc[w] \in InLoop => record.status = "running"
  /\ pc[w] = "final" => record.status \in {"paused", "failed"}
  /\ pc[w] \in {"stepRenew", "stepStart"} => cur[w] \in FindRunnableStep(record)
  /\ pc[w] = "handler" => cur[w] \in Steps /\ record.state[cur[w]] = "running"

Reading == {"acquire", "renew", "stepRenew", "releaseWrite"}

\* What an execution whose lease read is up to date may rely on.
FreshRead(w) ==
  /\ pc[w] \in Reading
  /\ pc[w] = "acquire" => Acquirable(w)
  /\ pc[w] = "releaseWrite" => Releasable(w)
  /\ pc[w] \in InLoop => record.owner = w /\ w \in current

IInv ==
  /\ TypeOK
  /\ AttemptsLeft(record)
  /\ DependencyOrder
  /\ StatusMatchesSteps
  /\ CallsAccounted
  /\ Coherent
  /\ OwnerIsCurrent
  /\ \A w \in current : Position(w)
  /\ \A w \in fresh : FreshRead(w)

\* A step whose handler runs stays out of everybody's reach, unless a replay
\* makes it pending again.
HandlerPinned ==
  /\ \A w \in Workers :
       pc[w] = "handler" =>
         cur[w] \in Steps /\ record.state[cur[w]] \in {"running", "canceled"}
  /\ HandlerExclusive

=============================================================================
