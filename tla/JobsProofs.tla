---------------------------- MODULE JobsProofs ----------------------------
(***************************************************************************)
(* Proofs about Jobs, and that it implements JobLifecycle, for any number  *)
(* of executions, steps, retries and faults, with and without replays.     *)
(***************************************************************************)
EXTENDS JobsRefinement, TLAPS

\* The part of the inductive invariant that is about one record.
RecordOK(r) ==
  /\ r \in JobRecord
  /\ AttemptsLeft(r)
  /\ InOrder(r)
  /\ StatusFits(r)

\* A new job is in order.
LEMMA NewOK == RecordOK(NewJobRecord)
  BY JobsAssumption DEF RecordOK, NewJobRecord, JobRecord, JobStatus, StepState,
     AttemptsLeft, InOrder, StatusFits, Has, Steps

\* Taking, renewing or clearing the lease touches nothing else.
LEMMA LeasedOK ==
  ASSUME NEW r, RecordOK(r), NEW owner \in Workers \cup {NoWorker}
  PROVE  RecordOK(Leased(r, owner))
  BY DEF RecordOK, Leased, JobRecord, AttemptsLeft, InOrder, StatusFits, Has

\* A job that is not over may be set running or paused.
LEMMA WithStatusOK ==
  ASSUME NEW r, RecordOK(r), r.status \notin TerminalStatus,
         NEW st \in {"running", "paused"}
  PROVE  RecordOK(WithStatus(r, st))
  BY DEF RecordOK, WithStatus, JobRecord, JobStatus, TerminalStatus, AttemptsLeft,
         InOrder, StatusFits, Has

\* With no step to run, a running job has completed or waits for a step that
\* is running: the dependency graph has no cycle to leave steps pending.
LEMMA FinalStatusOK ==
  ASSUME NEW r, RecordOK(r), r.status = "running", Runnable(r) = {}
  PROVE  /\ FinalStatus(r) \in {"completed", "paused"}
         /\ RecordOK(WithStatus(r, FinalStatus(r)))
<1> DEFINE waiting == {s \in Steps : r.state[s] = "pending"}
<1>1. r.state \in [Steps -> StepState]
  BY DEF RecordOK, JobRecord
<1>2. \A s \in Steps : r.state[s] \in {"pending", "running", "completed"}
  BY <1>1 DEF RecordOK, StatusFits, Has, StepState
<1>3. waiting # {} => Has(r, "running")
  <2> SUFFICES ASSUME waiting # {} PROVE Has(r, "running")
    OBVIOUS
  <2>1. PICK s \in waiting : DependsOn[s] \cap waiting = {}
    <3>1. waiting \in (SUBSET Steps) \ {{}}
      OBVIOUS
    <3> QED BY <3>1, JobsAssumption
  <2>2. PICK d \in DependsOn[s] : r.state[d] # "completed"
    BY <2>1 DEF Runnable
  <2>3. d \in Steps
    BY <2>1, <2>2, JobsAssumption
  <2>4. r.state[d] = "running"
    BY <1>2, <2>1, <2>2, <2>3
  <2> QED BY <2>3, <2>4 DEF Has
<1>4. Has(r, "pending") => Has(r, "running")
  BY <1>3 DEF Has
<1>5. FinalStatus(r) \in {"completed", "paused"}
  BY <1>2, <1>4 DEF FinalStatus, Has
<1>6. FinalStatus(r) = "completed" => \A s \in Steps : r.state[s] = "completed"
  BY <1>2, <1>4 DEF FinalStatus, Has
<1>7. RecordOK(WithStatus(r, FinalStatus(r)))
  BY <1>1, <1>2, <1>5, <1>6 DEF RecordOK, WithStatus, JobRecord, JobStatus,
     AttemptsLeft, InOrder, StatusFits, Has
<1> QED BY <1>5, <1>7

\* A runnable step may be started.
LEMMA RunningOK ==
  ASSUME NEW r, RecordOK(r), r.status = "running", NEW s \in FindRunnableStep(r)
  PROVE  RecordOK(Running(r, s))
  BY JobsAssumption DEF RecordOK, Running, FindRunnableStep, Runnable, JobRecord,
     JobStatus, StepState, AttemptsLeft, InOrder, StatusFits, Has

\* A running step may complete,
LEMMA AfterSuccessOK ==
  ASSUME NEW r, RecordOK(r), r.status = "running",
         NEW s \in Steps, r.state[s] = "running"
  PROVE  RecordOK(AfterSuccess(r, s))
  BY JobsAssumption DEF RecordOK, AfterSuccess, JobRecord,
     JobStatus, StepState, AttemptsLeft, InOrder, StatusFits, Has

\* or fail, which counts one attempt and ends the job with the last one.
LEMMA AfterFailureOK ==
  ASSUME NEW r, RecordOK(r), r.status = "running",
         NEW s \in Steps, r.state[s] = "running"
  PROVE  /\ RecordOK(AfterFailure(r, s))
         /\ AfterFailure(r, s).status \in {"paused", "failed"}
<1> DEFINE f == AfterFailure(r, s)
           spent == r.attempts[s] + 1 > MaxRetries
<1>1. /\ r \in JobRecord
      /\ r.attempts[s] \in 0 .. MaxRetries
  BY JobsAssumption DEF RecordOK, AttemptsLeft, JobRecord
<1>2. f = [status   |-> IF spent THEN "failed" ELSE "paused",
           owner    |-> r.owner,
           state    |-> [r.state EXCEPT ![s] = IF spent THEN "failed" ELSE "pending"],
           attempts |-> [r.attempts EXCEPT ![s] = @ + 1]]
  BY <1>1 DEF AfterFailure, JobRecord
<1>3. f \in JobRecord
  BY <1>1, <1>2, JobsAssumption DEF JobRecord, JobStatus, StepState
<1>4. AttemptsLeft(f)
  BY <1>1, <1>2, JobsAssumption DEF RecordOK, AttemptsLeft, JobRecord
<1>5. InOrder(f)
  BY <1>1, <1>2, JobsAssumption DEF RecordOK, InOrder, JobRecord
<1>6. StatusFits(f)
  <2>1. /\ f.state[s] = IF spent THEN "failed" ELSE "pending"
        /\ \A t \in Steps \ {s} : f.state[t] = r.state[t]
    BY <1>1, <1>2 DEF JobRecord
  <2>2. \A t \in Steps : r.state[t] \notin {"failed", "canceled"}
    BY DEF RecordOK, StatusFits, Has
  <2> HIDE DEF f
  <2> QED BY <1>2, <2>1, <2>2 DEF StatusFits, Has
<1> HIDE DEF f
<1>7. RecordOK(f) /\ f.status \in {"paused", "failed"}
  BY <1>2, <1>3, <1>4, <1>5, <1>6 DEF RecordOK
<1> QED BY <1>7 DEF f

\* A cancel leaves nothing pending or running.
LEMMA CanceledOK ==
  ASSUME NEW r, RecordOK(r), r.status # "completed"
  PROVE  RecordOK(Canceled(r))
  BY JobsAssumption DEF RecordOK, Canceled, JobRecord,
     JobStatus, StepState, AttemptsLeft, InOrder, StatusFits, Has

\* A replay keeps the completed steps, and with them every dependency.
LEMMA ReplayedOK ==
  ASSUME NEW r, RecordOK(r), r.status = "failed"
  PROVE  RecordOK(Replayed(r))
<1>1. r \in JobRecord
  BY DEF RecordOK
<1>2. Replayed(r) =
        [status   |-> "paused",
         owner    |-> NoWorker,
         state    |-> [s \in Steps |-> IF r.state[s] = "completed"
                                       THEN "completed" ELSE "pending"],
         attempts |-> [s \in Steps |-> IF r.state[s] = "completed"
                                       THEN r.attempts[s] ELSE 0]]
  BY <1>1 DEF Replayed, JobRecord
<1>3. Replayed(r) \in JobRecord
  BY <1>1, <1>2, JobsAssumption DEF JobRecord, JobStatus, StepState
<1>4. AttemptsLeft(Replayed(r)) /\ InOrder(Replayed(r)) /\ StatusFits(Replayed(r))
  BY <1>1, <1>2, JobsAssumption
     DEF RecordOK, JobRecord, AttemptsLeft, InOrder, StatusFits, Has
<1> QED BY <1>3, <1>4 DEF RecordOK

\* None of the writes that call no handler unsettles the account of the calls;
LEMMA AccountsKept ==
  ASSUME NEW n \in [Steps -> Nat], NEW r, RecordOK(r), Accounts(n, r)
  PROVE  /\ \A owner : Accounts(n, Leased(r, owner))
         /\ \A st : Accounts(n, WithStatus(r, st))
         /\ \A s \in Steps : Accounts(n, Running(r, s))
         /\ Accounts(n, Canceled(r))
<1> USE JobsAssumption DEF RecordOK, JobRecord, Accounts
<1>1. \A owner : Accounts(n, Leased(r, owner))
  BY DEF Leased
<1>2. \A st : Accounts(n, WithStatus(r, st))
  BY DEF WithStatus
<1>3. \A s \in Steps : Accounts(n, Running(r, s))
  BY DEF Running
<1>4. Accounts(n, Canceled(r))
  BY DEF Canceled
<1> QED BY <1>1, <1>2, <1>3, <1>4

\* the call of a runnable step's handler is accounted for while it runs,
LEMMA AccountsCall ==
  ASSUME NEW n \in [Steps -> Nat], NEW r, RecordOK(r), Accounts(n, r),
         NEW s \in FindRunnableStep(r)
  PROVE  Accounts([n EXCEPT ![s] = @ + 1], Running(r, s))
  BY JobsAssumption
     DEF RecordOK, JobRecord, Accounts, Running, FindRunnableStep, Runnable

\* when it has returned,
LEMMA AccountsReturn ==
  ASSUME NEW n \in [Steps -> Nat], NEW r, RecordOK(r), Accounts(n, r),
         NEW s \in Steps, r.state[s] = "running"
  PROVE  /\ Accounts(n, AfterSuccess(r, s))
         /\ Accounts(n, AfterFailure(r, s))
<1>1. Accounts(n, AfterSuccess(r, s))
  BY JobsAssumption DEF RecordOK, JobRecord, Accounts, AfterSuccess
<1>2. Accounts(n, AfterFailure(r, s))
  BY JobsAssumption DEF RecordOK, JobRecord, Accounts, AfterFailure
<1> QED BY <1>1, <1>2

\* and a replay starts the account anew with the retries.
LEMMA AccountsReplay ==
  ASSUME NEW n \in [Steps -> Nat], NEW r, RecordOK(r), Accounts(n, r)
  PROVE  Accounts([s \in Steps |-> IF r.state[s] = "completed" THEN n[s] ELSE 0],
                  Replayed(r))
  BY JobsAssumption DEF RecordOK, JobRecord, Accounts, Replayed

----------------------------------------------------------------------------
(* What every kind of step does to the invariant.  Records are handled     *)
(* only through the lemmas above.                                          *)

\* Only execution w moves.
Alone(w) ==
  /\ pc' \in [Workers -> Points]
  /\ job' \in [Workers -> JobRecord]
  /\ cur' \in [Workers -> Steps \cup {NoStep}]
  /\ \A v \in Workers \ {w} :
       pc'[v] = pc[v] /\ job'[v] = job[v] /\ cur'[v] = cur[v]

\* The invariant's typed part, spelled out once.
LEMMA IInvRecord == IInv <=>
  /\ TypeOK
  /\ RecordOK(record)
  /\ CallsAccounted
  /\ Coherent
  /\ OwnerIsCurrent
  /\ \A w \in current : Position(w)
  /\ \A w \in fresh : FreshRead(w)
  BY DEF IInv, RecordOK, TypeOK, DependencyOrder, StatusMatchesSteps

\* An execution goes on,
LEMMA GoOnAlone ==
  ASSUME TypeOK, NEW w \in Workers, NEW point \in Points, NEW j \in JobRecord,
         GoOn(w, point, j)
  PROVE  Alone(w) /\ pc'[w] = point /\ job'[w] = j /\ cur'[w] = cur[w]
  BY DEF TypeOK, GoOn, Alone

\* or gives up.
LEMMA GiveUpAlone ==
  ASSUME TypeOK, NEW w \in Workers, NEW point \in Points, GiveUp(w, point)
  PROVE  Alone(w) /\ pc'[w] = point
  BY NewOK DEF TypeOK, GiveUp, Alone, NoStep, RecordOK

\* An injected fault is counted.
LEMMA InjectCounts ==
  ASSUME TypeOK, NEW kind, NEW w, Inject(kind, w)
  PROVE  faults' \in 0 .. MaxFaults
  BY JobsAssumption DEF TypeOK, Inject

\* An execution writes a record that is its own or nobody's: everybody else's
\* version is old, and the writer goes on with what it wrote or leaves its loop.
LEMMA Writes ==
  ASSUME IInv, NEW w \in Workers, Alone(w),
         RecordOK(record'), record'.owner \in {w, NoWorker}, leaseLive' \in BOOLEAN,
         fresh' = {}, current' \in {{w}, {}}, faults' \in 0 .. MaxFaults,
         calls' \in [Steps -> Nat], CallsAccounted',
         w \in current' =>
           pc'[w] \in Holding /\ job'[w] = record' /\ Position(w)',
         pc'[w] \in InLoop => w \in current'
  PROVE  IInv'
<1>1. TypeOK'
  BY DEF Alone, TypeOK, RecordOK
<1>2. OwnerIsCurrent'
  BY JobsAssumption DEF OwnerIsCurrent
<1>3. Coherent' /\ (\A v \in current : Position(v))' /\ (\A v \in fresh : FreshRead(v))'
  BY DEF Coherent
<1> QED BY <1>1, <1>2, <1>3 DEF IInv, RecordOK, DependencyOrder, StatusMatchesSteps

\* An execution drops its version and leaves its loop; the store is untouched.
LEMMA Drops ==
  ASSUME IInv, NEW w \in Workers, Alone(w), pc'[w] \in {"idle", "release"},
         UNCHANGED <<record, leaseLive, calls>>,
         current' = current \ {w}, fresh' = fresh \ {w}, faults' \in 0 .. MaxFaults
  PROVE  IInv'
<1>1. TypeOK'
  BY DEF Alone, TypeOK, IInv
<1>2. RecordOK(record)' /\ CallsAccounted'
  BY IInvRecord DEF CallsAccounted, Accounts, RecordOK, AttemptsLeft, InOrder, StatusFits, Has
<1>3. OwnerIsCurrent'
  BY DEF IInv, OwnerIsCurrent, Alone, InLoop
<1>4. \A v \in current' : v \in current /\ v \in Workers \ {w}
  BY DEF IInv, TypeOK
<1>5. \A v \in fresh' : v \in fresh /\ v \in Workers \ {w}
  BY DEF IInv, TypeOK
<1>6. Coherent' /\ (\A v \in current : Position(v))'
  BY <1>4 DEF IInv, Coherent, Position, Alone, FindRunnableStep, Runnable
<1>7. (\A v \in fresh : FreshRead(v))'
  BY <1>5 DEF IInv, FreshRead, Alone, Acquirable, Releasable, LeaseActive, InLoop
<1> QED BY <1>1, <1>2, <1>3, <1>6, <1>7 DEF IInv, RecordOK, DependencyOrder, StatusMatchesSteps

\* A write that throws: without effect, or after the record r was stored.
LEMMA Throws ==
  ASSUME IInv, NEW w \in Workers, NEW holds, NEW r, NEW live \in BOOLEAN,
         NEW point \in {"idle", "release"},
         SwapThrows(w, holds, r, live), GiveUp(w, point), UNCHANGED calls,
         holds => /\ RecordOK(r)
                  /\ r.owner \in {w, NoWorker}
                  /\ Accounts(calls, r)
  PROVE  IInv'
<1>1. TypeOK /\ Alone(w) /\ pc'[w] = point
  BY GiveUpAlone DEF IInv, Points
<1>2. faults' \in 0 .. MaxFaults
  BY <1>1, InjectCounts DEF SwapThrows, TypeOK
<1>3. CASE /\ current' = current \ {w} /\ fresh' = fresh \ {w}
           /\ UNCHANGED <<record, leaseLive>>
  BY <1>1, <1>2, <1>3, Drops
<1>4. CASE holds /\ Store(r, live, {})
  <2>1. CallsAccounted' /\ calls' \in [Steps -> Nat]
    BY <1>1, <1>4 DEF CallsAccounted, Accounts, Store, TypeOK
  <2> QED BY <1>1, <1>2, <1>4, <2>1, Writes DEF Store, InLoop
<1> QED BY <1>3, <1>4 DEF SwapThrows

\* A lease operation reads the record and goes on.
LEMMA Reads ==
  ASSUME IInv, NEW w \in Workers, Alone(w), LeaseRead(w), UNCHANGED <<job, calls>>,
         \A v \in current : Position(v)',
         FreshRead(w)',
         w \in current => pc'[w] \in Holding,
         pc'[w] \in InLoop => pc[w] \in InLoop
  PROVE  IInv'
<1>1. TypeOK'
  BY DEF Alone, TypeOK, IInv, LeaseRead
<1>2. RecordOK(record)' /\ CallsAccounted'
  BY IInvRecord DEF CallsAccounted, Accounts, RecordOK, AttemptsLeft, InOrder,
     StatusFits, Has, LeaseRead
<1>3. OwnerIsCurrent'
  BY DEF IInv, OwnerIsCurrent, Alone, LeaseRead
<1>4. Coherent' /\ (\A v \in current : Position(v))'
  BY DEF IInv, TypeOK, Coherent, Alone, LeaseRead
<1>5. (\A v \in fresh : FreshRead(v))'
  BY DEF IInv, TypeOK, FreshRead, Alone, LeaseRead, Acquirable, Releasable, LeaseActive
<1> QED BY <1>1, <1>2, <1>3, <1>4, <1>5
        DEF IInv, RecordOK, DependencyOrder, StatusMatchesSteps

\* A checkpoint that throws.
LEMMA PersistThrowsStep ==
  ASSUME IInv, NEW w \in Workers, NEW r, PersistThrows(w, r), UNCHANGED calls,
         w \in current => RecordOK(r) /\ r.owner = w /\ Accounts(calls, r)
  PROVE  IInv'
  BY Throws DEF PersistThrows, HoldsVersion, IInv, TypeOK

\* A checkpoint r the execution goes on from, at `point`.
LEMMA PersistGoesOn ==
  ASSUME IInv, NEW w \in Workers, NEW r, NEW point \in Points \cap Holding,
         Persist(w, r, {w}), GoOn(w, point, r), Position(w)',
         RecordOK(r), r.owner = w, calls' \in [Steps -> Nat], Accounts(calls', r)
  PROVE  IInv'
<1>1. TypeOK /\ r \in JobRecord
  BY DEF IInv, RecordOK
<1>2. Alone(w) /\ pc'[w] = point /\ job'[w] = r
  BY <1>1, GoOnAlone
<1>3. /\ record' = r /\ leaseLive' \in BOOLEAN /\ fresh' = {} /\ current' = {w}
      /\ faults' \in 0 .. MaxFaults /\ CallsAccounted'
  BY <1>1 DEF Persist, Swap, Store, TypeOK, CallsAccounted
<1> QED BY <1>2, <1>3, Writes

\* The last checkpoint of an execution.
LEMMA PersistEnds ==
  ASSUME IInv, NEW w \in Workers, NEW r, Persist(w, r, {}), GiveUp(w, "release"),
         UNCHANGED calls, RecordOK(r), r.owner = w, Accounts(calls, r)
  PROVE  IInv'
<1>1. TypeOK /\ Alone(w) /\ pc'[w] = "release"
  BY GiveUpAlone DEF IInv, Points
<1>2. /\ record' = r /\ leaseLive' \in BOOLEAN /\ fresh' = {} /\ current' = {}
      /\ faults' \in 0 .. MaxFaults /\ CallsAccounted' /\ calls' \in [Steps -> Nat]
  BY <1>1 DEF Persist, Swap, Store, TypeOK, CallsAccounted, Accounts
<1> QED BY <1>1, <1>2, Writes DEF InLoop

\* What is known of an execution that holds the stored version.
LEMMA HolderFacts ==
  ASSUME IInv, NEW w \in current
  PROVE  /\ w \in Workers
         /\ job[w] = record
         /\ Position(w)
         /\ RecordOK(record)
         /\ calls \in [Steps -> Nat]
         /\ Accounts(calls, record)
  BY IInvRecord DEF IInv, TypeOK, Coherent, CallsAccounted

----------------------------------------------------------------------------
(* One lemma per action.                                                   *)

LEMMA ResumeReadStep ==
  ASSUME IInv, NEW w \in Workers, ResumeRead(w)
  PROVE  IInv'
<1>1. Alone(w) /\ pc'[w] = "acquire"
  BY DEF IInv, TypeOK, ResumeRead, Alone, Points
<1>2. w \notin current
  BY DEF IInv, Coherent, Holding, InLoop, ResumeRead
<1>3. \A v \in current : Position(v)'
  BY <1>1, <1>2 DEF IInv, TypeOK, Position, Alone, ResumeRead, LeaseRead,
     FindRunnableStep, Runnable
<1>4. FreshRead(w)'
  BY <1>1 DEF FreshRead, Reading, InLoop, ResumeRead, LeaseRead, Acquirable,
     LeaseActive
<1> QED BY <1>1, <1>2, <1>3, <1>4, Reads DEF ResumeRead, InLoop

LEMMA AcquireWriteStep ==
  ASSUME IInv, NEW w \in Workers, AcquireWrite(w)
  PROVE  IInv'
<1> DEFINE r == Leased(record, w)
<1>1. /\ RecordOK(r) /\ r \in JobRecord /\ r.owner = w
      /\ r.status = record.status /\ Accounts(calls, r)
  BY IInvRecord, LeasedOK, AccountsKept
     DEF RecordOK, TypeOK, CallsAccounted, Leased, JobRecord
<1>2. TypeOK /\ calls' \in [Steps -> Nat] /\ UNCHANGED calls /\ pc[w] = "acquire"
  BY DEF IInv, TypeOK, AcquireWrite
<1>3. CASE LeaseSwap(w, w, {w}) /\ GoOn(w, "start", r)
  <2>1. Alone(w) /\ pc'[w] = "start" /\ job'[w] = r
    BY <1>1, <1>2, <1>3, GoOnAlone DEF Points
  <2>2. record.status \notin TerminalStatus
    BY <1>2, <1>3 DEF LeaseSwap, Swap, IInv, FreshRead, Acquirable
  <2>3. /\ record' = r /\ leaseLive' \in BOOLEAN /\ fresh' = {} /\ current' = {w}
        /\ faults' \in 0 .. MaxFaults
    BY <1>2, <1>3 DEF LeaseSwap, Swap, Store, TypeOK
  <2>4. Position(w)'
    BY <1>1, <2>1, <2>2, <2>3 DEF Position, InLoop
  <2>5. CallsAccounted'
    BY <1>1, <1>2, <2>3 DEF CallsAccounted
  <2> HIDE DEF r
  <2> QED BY <1>1, <1>2, <2>1, <2>3, <2>4, <2>5, Writes DEF Holding, InLoop
<1>4. CASE LeaseSwapThrows(w, w) /\ GiveUp(w, "idle")
  BY <1>1, <1>2, <1>4, Throws DEF LeaseSwapThrows
<1> QED BY <1>3, <1>4 DEF AcquireWrite

LEMMA StartRunStep ==
  ASSUME IInv, NEW w \in Workers, StartRun(w)
  PROVE  IInv'
<1> DEFINE r == WithStatus(job[w], "running")
<1>1. ASSUME w \in current
      PROVE  /\ RecordOK(r) /\ r.owner = w /\ r.status = "running"
             /\ Accounts(calls, r)
  BY <1>1, HolderFacts, WithStatusOK, AccountsKept
     DEF Position, StartRun, RecordOK, WithStatus, JobRecord
<1>2. calls' = calls /\ calls \in [Steps -> Nat]
  BY DEF StartRun, IInv, TypeOK
<1>3. CASE Persist(w, r, {w}) /\ GoOn(w, "loop", r)
  <2>1. w \in current /\ record' = r
    BY <1>3 DEF Persist, Swap, Store, HoldsVersion
  <2>2. pc'[w] = "loop"
    BY <1>3 DEF GoOn, IInv, TypeOK
  <2>3. Position(w)'
    BY <1>1, <2>1, <2>2 DEF Position, InLoop
  <2> HIDE DEF r
  <2> QED BY <1>1, <1>2, <1>3, <2>1, <2>3, PersistGoesOn DEF Points, Holding, InLoop
<1>4. CASE PersistThrows(w, r)
  BY <1>1, <1>2, <1>4, PersistThrowsStep
<1> QED BY <1>3, <1>4 DEF StartRun

LEMMA SkipRenewStep ==
  ASSUME IInv, NEW w \in Workers, SkipRenew(w)
  PROVE  IInv'
<1>1. TypeOK'
  BY DEF IInv, TypeOK, SkipRenew, Points
<1>2. RecordOK(record)' /\ CallsAccounted'
  BY IInvRecord DEF CallsAccounted, Accounts, RecordOK, AttemptsLeft, InOrder,
     StatusFits, Has, SkipRenew
<1>3. w \in current /\ pc[w] = "loop" /\ pc'[w] = "check"
  BY DEF IInv, TypeOK, OwnerIsCurrent, SkipRenew, InLoop
<1>4. Coherent' /\ OwnerIsCurrent' /\ (\A v \in current : Position(v))'
  BY <1>3 DEF IInv, TypeOK, Coherent, OwnerIsCurrent, Position, SkipRenew, Holding,
     InLoop, FindRunnableStep, Runnable
<1>5. (\A v \in fresh : FreshRead(v))'
  BY <1>3 DEF IInv, TypeOK, FreshRead, SkipRenew, Reading, InLoop, Acquirable,
     Releasable, LeaseActive
<1> QED BY <1>1, <1>2, <1>4, <1>5 DEF IInv, RecordOK, DependencyOrder, StatusMatchesSteps

\* A renewal that is refused at its read,
LEMMA RenewRefusedStep ==
  ASSUME IInv, NEW w \in Workers, pc[w] \in {"loop", "check"}, RenewRefused(w),
         UNCHANGED calls
  PROVE  IInv'
<1>1. w \notin fresh
  BY DEF IInv, FreshRead, Reading
<1>2. Alone(w) /\ pc'[w] = "release"
  BY GiveUpAlone DEF RenewRefused, IInv, Points
<1>3. fresh' = fresh \ {w} /\ faults' \in 0 .. MaxFaults
  BY <1>1 DEF RenewRefused, IInv, TypeOK
<1> QED BY <1>2, <1>3, Drops DEF RenewRefused

\* one that goes on to its write,
LEMMA RenewReadStep ==
  ASSUME IInv, NEW w \in Workers, NEW point \in {"renew", "stepRenew"},
         pc[w] \in {"loop", "check"}, Renewable(w), LeaseRead(w),
         pc' = [pc EXCEPT ![w] = point], cur' \in [Workers -> Steps \cup {NoStep}],
         \A v \in Workers \ {w} : cur'[v] = cur[v],
         point = "stepRenew" => cur'[w] \in FindRunnableStep(job[w]),
         UNCHANGED <<job, calls>>
  PROVE  IInv'
<1>1. Alone(w) /\ pc'[w] = point
  BY DEF IInv, TypeOK, Alone, Points
<1>2. w \in current /\ job[w] = record
  BY DEF IInv, Coherent, OwnerIsCurrent, Renewable, InLoop
<1>3. \A v \in current : Position(v)'
  BY <1>1, <1>2 DEF IInv, TypeOK, Position, Alone, LeaseRead, InLoop,
     FindRunnableStep, Runnable
<1>4. FreshRead(w)'
  BY <1>1, <1>2 DEF FreshRead, Reading, InLoop, LeaseRead, Renewable
<1> QED BY <1>1, <1>2, <1>3, <1>4, Reads DEF Holding, InLoop

\* and the write, which puts the new version on the old copy.
LEMMA RenewWriteStep ==
  ASSUME IInv, NEW w \in Workers, NEW point \in {"check", "stepStart"},
         pc[w] \in {"renew", "stepRenew"}, RenewWrite(w, point), UNCHANGED calls,
         point = "stepStart" => pc[w] = "stepRenew"
  PROVE  IInv'
<1> DEFINE r == Leased(record, w)
<1>1. RecordOK(r) /\ r.owner = w /\ Accounts(calls, r)
  BY IInvRecord, LeasedOK, AccountsKept
     DEF RecordOK, TypeOK, CallsAccounted, Leased, JobRecord
<1>2. TypeOK /\ calls' \in [Steps -> Nat]
  BY DEF IInv, TypeOK
<1>3. CASE LeaseSwap(w, w, {w}) /\ GoOn(w, point, Leased(job[w], w))
  <2>1. w \in current /\ job[w] = record /\ Position(w) /\ record \in JobRecord
    BY <1>3, HolderFacts DEF LeaseSwap, Swap, IInv, FreshRead, InLoop, RecordOK
  <2>2. r = record
    BY <2>1 DEF Position, Leased, JobRecord
  <2>3. Alone(w) /\ pc'[w] = point /\ job'[w] = record /\ cur'[w] = cur[w]
    BY <1>2, <1>3, <2>1, <2>2, GoOnAlone DEF Points
  <2>4. /\ record' = record /\ leaseLive' \in BOOLEAN /\ fresh' = {}
        /\ current' = {w} /\ faults' \in 0 .. MaxFaults
    BY <1>2, <1>3, <2>2 DEF LeaseSwap, Swap, Store, TypeOK
  <2>5. Position(w)'
    BY <2>1, <2>3, <2>4 DEF Position, InLoop, FindRunnableStep, Runnable
  <2>6. CallsAccounted'
    BY <1>1, <2>2, <2>4 DEF CallsAccounted, Accounts
  <2> HIDE DEF r
  <2> QED BY <1>1, <1>2, <2>2, <2>3, <2>4, <2>5, <2>6, Writes DEF Holding, InLoop
<1>4. CASE LeaseSwapThrows(w, w) /\ GiveUp(w, "release")
  BY <1>1, <1>2, <1>4, Throws DEF LeaseSwapThrows
<1> QED BY <1>3, <1>4 DEF RenewWrite

LEMMA MaybeRenewReadStep ==
  ASSUME IInv, NEW w \in Workers, MaybeRenewRead(w)
  PROVE  IInv'
<1>1. CASE Renewable(w)
  BY <1>1, RenewReadStep DEF MaybeRenewRead, RenewRefused, IInv, TypeOK
<1>2. CASE RenewRefused(w)
  BY <1>2, RenewRefusedStep DEF MaybeRenewRead
<1> QED BY <1>1, <1>2 DEF MaybeRenewRead

LEMMA MaybeRenewWriteStep ==
  ASSUME IInv, NEW w \in Workers, MaybeRenewWrite(w)
  PROVE  IInv'
  BY RenewWriteStep DEF MaybeRenewWrite

LEMMA BudgetSpentStep ==
  ASSUME IInv, NEW w \in Workers, BudgetSpent(w)
  PROVE  IInv'
<1> DEFINE r == WithStatus(job[w], "paused")
<1>1. ASSUME w \in current
      PROVE  RecordOK(r) /\ r.owner = w /\ Accounts(calls, r)
  BY <1>1, HolderFacts, WithStatusOK, AccountsKept
     DEF Position, BudgetSpent, RecordOK, WithStatus, JobRecord, InLoop, TerminalStatus
<1>2. CASE Persist(w, r, {}) /\ GiveUp(w, "release")
  <2> HIDE DEF r
  <2> QED BY <1>1, <1>2, PersistEnds DEF BudgetSpent, Persist, Swap, HoldsVersion
<1>3. CASE PersistThrows(w, r)
  BY <1>1, <1>3, PersistThrowsStep DEF BudgetSpent
<1> QED BY <1>2, <1>3 DEF BudgetSpent

LEMMA NoRunnableStepStep ==
  ASSUME IInv, NEW w \in Workers, NoRunnableStep(w)
  PROVE  IInv'
<1> DEFINE r == WithStatus(job[w], FinalStatus(job[w]))
<1>1. ASSUME w \in current
      PROVE  RecordOK(r) /\ r.owner = w /\ Accounts(calls, r)
  <2>1. /\ job[w].status = "running" /\ RecordOK(job[w])
        /\ Runnable(job[w]) = {}
    BY <1>1, HolderFacts DEF Position, NoRunnableStep, InLoop
  <2> QED BY <1>1, <2>1, HolderFacts, FinalStatusOK, AccountsKept
          DEF Position, RecordOK, WithStatus, JobRecord
<1>2. CASE Persist(w, r, {}) /\ GiveUp(w, "release")
  <2> HIDE DEF r
  <2> QED BY <1>1, <1>2, PersistEnds DEF NoRunnableStep, Persist, Swap, HoldsVersion
<1>3. CASE PersistThrows(w, r)
  BY <1>1, <1>3, PersistThrowsStep DEF NoRunnableStep
<1> QED BY <1>2, <1>3 DEF NoRunnableStep

LEMMA PickStepStep ==
  ASSUME IInv, NEW w \in Workers, PickStep(w)
  PROVE  IInv'
<1>1. PICK s \in FindRunnableStep(job[w]) :
        \/ /\ Renewable(w)
           /\ LeaseRead(w)
           /\ pc' = [pc EXCEPT ![w] = "stepRenew"]
           /\ cur' = [cur EXCEPT ![w] = s]
           /\ UNCHANGED job
        \/ RenewRefused(w)
  BY DEF PickStep
<1>2. s \in Steps
  BY DEF FindRunnableStep, Runnable
<1>3. CASE Renewable(w)
  BY <1>1, <1>2, <1>3, RenewReadStep DEF PickStep, RenewRefused, IInv, TypeOK
<1>4. CASE RenewRefused(w)
  BY <1>4, RenewRefusedStep DEF PickStep
<1> QED BY <1>1, <1>3, <1>4

LEMMA StepRenewWriteStep ==
  ASSUME IInv, NEW w \in Workers, StepRenewWrite(w)
  PROVE  IInv'
  BY RenewWriteStep DEF StepRenewWrite

LEMMA StepStartStep ==
  ASSUME IInv, NEW w \in Workers, StepStart(w)
  PROVE  IInv'
<1> DEFINE s == cur[w]
           r == Running(job[w], s)
<1>1. ASSUME w \in current
      PROVE  /\ RecordOK(r) /\ r.owner = w /\ r.status = "running"
             /\ s \in Steps /\ r.state[s] = "running" /\ Accounts(calls, r)
             /\ Accounts([calls EXCEPT ![s] = @ + 1], r)
  <2>1. /\ RecordOK(job[w]) /\ job[w].owner = w /\ job[w].status = "running"
        /\ s \in FindRunnableStep(job[w])
        /\ calls \in [Steps -> Nat] /\ Accounts(calls, job[w])
    BY <1>1, HolderFacts DEF Position, StepStart, InLoop
  <2>2. s \in Steps
    BY <2>1 DEF FindRunnableStep, Runnable
  <2>3. r.owner = w /\ r.status = "running" /\ r.state[s] = "running"
    BY <2>1, <2>2 DEF RecordOK, Running, JobRecord
  <2> QED BY <2>1, <2>2, <2>3, RunningOK, AccountsKept, AccountsCall
<1>2. TypeOK /\ calls \in [Steps -> Nat]
  BY DEF IInv, TypeOK
<1>3. CASE /\ Persist(w, r, {w})
           /\ GoOn(w, "handler", r)
           /\ calls' = [calls EXCEPT ![s] = @ + 1]
  <2>1. w \in current /\ record' = r
    BY <1>3 DEF Persist, Swap, Store, HoldsVersion
  <2>2. pc'[w] = "handler" /\ cur'[w] = s
    BY <1>2, <1>3 DEF GoOn, TypeOK
  <2>3. Position(w)'
    BY <1>1, <2>1, <2>2 DEF Position, InLoop
  <2>4. calls' \in [Steps -> Nat] /\ Accounts(calls', r)
    BY <1>1, <1>2, <1>3, <2>1
  <2> HIDE DEF r
  <2> QED BY <1>1, <1>3, <2>1, <2>3, <2>4, PersistGoesOn DEF Points, Holding, InLoop
<1>4. CASE PersistThrows(w, r) /\ UNCHANGED calls
  BY <1>1, <1>4, PersistThrowsStep
<1> QED BY <1>3, <1>4 DEF StepStart

LEMMA HandlerReturnStep ==
  ASSUME IInv, NEW w \in Workers, HandlerReturn(w)
  PROVE  IInv'
<1> DEFINE s == cur[w]
           done == AfterSuccess(job[w], s)
           lost == AfterFailure(job[w], s)
<1>1. ASSUME w \in current
      PROVE  /\ RecordOK(done) /\ done.owner = w /\ done.status = "running"
             /\ Accounts(calls, done)
             /\ RecordOK(lost) /\ lost.owner = w /\ lost.status \in {"paused", "failed"}
             /\ Accounts(calls, lost)
  <2>1. /\ RecordOK(job[w]) /\ job[w].owner = w /\ job[w].status = "running"
        /\ s \in Steps /\ job[w].state[s] = "running"
        /\ calls \in [Steps -> Nat] /\ Accounts(calls, job[w])
    BY <1>1, HolderFacts DEF Position, HandlerReturn, InLoop
  <2>2. done.owner = w /\ done.status = "running"
    BY <2>1 DEF RecordOK, AfterSuccess, JobRecord
  <2>3. lost.owner = w
    BY <2>1 DEF AfterFailure
  <2> QED BY <2>1, <2>2, <2>3, AfterSuccessOK, AfterFailureOK, AccountsReturn
<1>2. TypeOK /\ calls \in [Steps -> Nat] /\ UNCHANGED calls /\ pc[w] = "handler"
  BY DEF IInv, TypeOK, HandlerReturn
<1> HIDE DEF done, lost
<1>3. CASE Persist(w, done, {w}) /\ GoOn(w, "loop", done)
  <2>1. w \in current /\ record' = done
    BY <1>3 DEF Persist, Swap, Store, HoldsVersion
  <2>2. pc'[w] = "loop"
    BY <1>2, <1>3 DEF GoOn, TypeOK
  <2>3. Position(w)'
    BY <1>1, <2>1, <2>2 DEF Position, InLoop
  <2> QED BY <1>1, <1>2, <1>3, <2>1, <2>3, PersistGoesOn DEF Points, Holding, InLoop
<1>4. CASE Persist(w, lost, {w}) /\ GoOn(w, "final", lost)
  <2>1. w \in current /\ record' = lost
    BY <1>4 DEF Persist, Swap, Store, HoldsVersion
  <2>2. pc'[w] = "final"
    BY <1>2, <1>4 DEF GoOn, TypeOK
  <2>3. Position(w)'
    BY <1>1, <2>1, <2>2 DEF Position, InLoop
  <2> QED BY <1>1, <1>2, <1>4, <2>1, <2>3, PersistGoesOn DEF Points, Holding, InLoop
<1>5. CASE PersistThrows(w, done)
  BY <1>1, <1>2, <1>5, PersistThrowsStep
<1>6. CASE PersistThrows(w, lost)
  BY <1>1, <1>2, <1>6, PersistThrowsStep
<1> QED BY <1>3, <1>4, <1>5, <1>6 DEF HandlerReturn, done, lost

LEMMA FinalPersistStep ==
  ASSUME IInv, NEW w \in Workers, FinalPersist(w)
  PROVE  IInv'
<1>1. ASSUME w \in current
      PROVE  RecordOK(job[w]) /\ job[w].owner = w /\ Accounts(calls, job[w])
  BY <1>1, HolderFacts DEF Position
<1>2. CASE Persist(w, job[w], {}) /\ GiveUp(w, "release")
  BY <1>1, <1>2, PersistEnds DEF FinalPersist, Persist, Swap, HoldsVersion
<1>3. CASE PersistThrows(w, job[w])
  BY <1>1, <1>3, PersistThrowsStep DEF FinalPersist
<1> QED BY <1>2, <1>3 DEF FinalPersist

LEMMA ReleaseReadStep ==
  ASSUME IInv, NEW w \in Workers, ReleaseRead(w)
  PROVE  IInv'
<1>1. w \notin current /\ pc[w] = "release"
  BY DEF IInv, Coherent, Holding, InLoop, ReleaseRead
<1>2. w \notin fresh
  BY <1>1 DEF IInv, FreshRead, Reading
<1>3. Alone(w)
  BY DEF IInv, TypeOK, ReleaseRead, Alone, Points
<1>4. CASE Releasable(w) /\ LeaseRead(w) /\ pc' = [pc EXCEPT ![w] = "releaseWrite"]
  <2>1. pc'[w] = "releaseWrite"
    BY <1>4 DEF IInv, TypeOK
  <2>2. \A v \in current : Position(v)'
    BY <1>1, <1>3, <1>4 DEF IInv, TypeOK, Position, Alone, LeaseRead,
       FindRunnableStep, Runnable
  <2>3. FreshRead(w)'
    BY <1>4, <2>1 DEF FreshRead, Reading, InLoop, LeaseRead, Releasable, LeaseActive
  <2> QED BY <1>1, <1>3, <1>4, <2>1, <2>2, <2>3, Reads DEF ReleaseRead, InLoop
<1>5. CASE /\ pc' = [pc EXCEPT ![w] = "idle"]
           /\ UNCHANGED <<record, leaseLive, current, fresh, faults>>
  <2>1. pc'[w] = "idle" /\ current' = current \ {w} /\ fresh' = fresh \ {w}
    BY <1>1, <1>2, <1>5 DEF IInv, TypeOK
  <2>2. faults' \in 0 .. MaxFaults
    BY <1>5 DEF IInv, TypeOK
  <2> QED BY <1>3, <1>5, <2>1, <2>2, Drops DEF ReleaseRead
<1> QED BY <1>4, <1>5 DEF ReleaseRead

LEMMA ReleaseWriteStep ==
  ASSUME IInv, NEW w \in Workers, ReleaseWrite(w)
  PROVE  IInv'
<1> DEFINE r == Leased(record, NoWorker)
<1>1. RecordOK(r) /\ r.owner = NoWorker /\ Accounts(calls, r)
  BY IInvRecord, LeasedOK, AccountsKept
     DEF RecordOK, TypeOK, CallsAccounted, Leased, JobRecord
<1>2. /\ TypeOK /\ calls' \in [Steps -> Nat] /\ UNCHANGED calls
      /\ GiveUp(w, "idle")
  BY DEF IInv, TypeOK, ReleaseWrite
<1>3. CASE LeaseSwap(w, NoWorker, {})
  <2>1. Alone(w) /\ pc'[w] = "idle"
    BY <1>2, GiveUpAlone DEF Points
  <2>2. /\ record' = r /\ leaseLive' \in BOOLEAN /\ fresh' = {} /\ current' = {}
        /\ faults' \in 0 .. MaxFaults
    BY <1>2, <1>3 DEF LeaseSwap, Swap, Store, TypeOK
  <2>3. CallsAccounted'
    BY <1>1, <1>2, <2>2 DEF CallsAccounted
  <2> HIDE DEF r
  <2> QED BY <1>1, <1>2, <2>1, <2>2, <2>3, Writes DEF InLoop
<1>4. CASE LeaseSwapThrows(w, NoWorker)
  BY <1>1, <1>2, <1>4, Throws DEF LeaseSwapThrows
<1> QED BY <1>3, <1>4 DEF ReleaseWrite

LEMMA CrashStep ==
  ASSUME IInv, NEW w \in Workers, Crash(w)
  PROVE  IInv'
<1>1. TypeOK /\ Alone(w) /\ pc'[w] = "idle"
  BY GiveUpAlone DEF IInv, Crash, Points
<1> QED BY <1>1, InjectCounts, Drops DEF Crash

LEMMA LeaseRunsOutStep ==
  ASSUME IInv, LeaseRunsOut
  PROVE  IInv'
<1>1. TypeOK /\ faults' \in 0 .. MaxFaults
  BY InjectCounts DEF IInv, TypeOK, LeaseRunsOut
<1>2. TypeOK'
  BY <1>1 DEF TypeOK, LeaseRunsOut
<1>3. RecordOK(record)' /\ CallsAccounted' /\ Coherent' /\ OwnerIsCurrent'
  BY IInvRecord DEF CallsAccounted, Accounts, RecordOK, AttemptsLeft, InOrder,
     StatusFits, Has, Coherent, OwnerIsCurrent, LeaseRunsOut
<1>4. (\A v \in current : Position(v))' /\ (\A v \in fresh : FreshRead(v))'
  BY DEF IInv, Position, FreshRead, Acquirable, Releasable, LeaseActive,
     FindRunnableStep, Runnable, LeaseRunsOut
<1> QED BY <1>2, <1>3, <1>4 DEF IInv, RecordOK, DependencyOrder, StatusMatchesSteps

\* Cancel and replay find no execution in its loop under the recorded id.
LEMMA OutsideWrites ==
  ASSUME IInv, RecordOK(record'), calls' \in [Steps -> Nat], CallsAccounted',
         record.status # "running", record'.owner \in {record.owner, NoWorker},
         leaseLive' \in BOOLEAN, current' = {}, fresh' = {},
         UNCHANGED <<pc, job, cur, faults>>
  PROVE  IInv'
<1>1. TypeOK'
  BY DEF IInv, TypeOK, RecordOK
<1>2. OwnerIsCurrent'
  BY JobsAssumption DEF IInv, OwnerIsCurrent, Position
<1> QED BY <1>1, <1>2
        DEF IInv, RecordOK, DependencyOrder, StatusMatchesSteps, Coherent

LEMMA CancelStep ==
  ASSUME IInv, Cancel
  PROVE  IInv'
<1>1. /\ RecordOK(record) /\ TypeOK /\ Accounts(calls, record)
      /\ record.status \notin {"completed", "running"}
  BY IInvRecord DEF Cancel, Cancelable, CallsAccounted
<1>2. RecordOK(Canceled(record)) /\ Canceled(record).owner = record.owner
  BY <1>1, CanceledOK DEF Canceled, RecordOK, JobRecord
<1>3. Accounts(calls, Canceled(record)) /\ calls \in [Steps -> Nat]
  BY <1>1, AccountsKept DEF TypeOK
<1>4. /\ record' = Canceled(record) /\ leaseLive' \in BOOLEAN /\ calls' = calls
      /\ current' = {} /\ fresh' = {} /\ UNCHANGED <<pc, job, cur, faults>>
  BY <1>1 DEF Cancel, Store, TypeOK
<1> QED BY <1>1, <1>2, <1>3, <1>4, OutsideWrites DEF CallsAccounted

LEMMA ReplayResetStep ==
  ASSUME IInv, ReplayReset
  PROVE  IInv'
<1>1. RecordOK(record) /\ TypeOK /\ Accounts(calls, record) /\ record.status = "failed"
  BY IInvRecord DEF ReplayReset, CallsAccounted
<1>2. RecordOK(Replayed(record)) /\ Replayed(record).owner = NoWorker
  BY <1>1, ReplayedOK DEF Replayed
<1>3. /\ record' = Replayed(record) /\ leaseLive' \in BOOLEAN
      /\ calls' = [s \in Steps |-> IF record.state[s] = "completed"
                                   THEN calls[s] ELSE 0]
      /\ current' = {} /\ fresh' = {} /\ UNCHANGED <<pc, job, cur, faults>>
  BY DEF ReplayReset, Store
<1>4. calls' \in [Steps -> Nat] /\ Accounts(calls', Replayed(record))
  BY <1>1, <1>3, AccountsReplay DEF TypeOK
<1> QED BY <1>1, <1>2, <1>3, <1>4, OutsideWrites DEF CallsAccounted

----------------------------------------------------------------------------
(* The invariance theorems.                                                *)

LEMMA InitIInv == Init => IInv
<1> SUFFICES ASSUME Init PROVE IInv
  OBVIOUS
<1>1. TypeOK
  <2>1. NewJobRecord \in JobRecord
    BY NewOK DEF RecordOK
  <2>2. faults \in 0 .. MaxFaults /\ calls \in [Steps -> Nat]
    BY JobsAssumption DEF Init
  <2>3. pc \in [Workers -> Points] /\ cur \in [Workers -> Steps \cup {NoStep}]
    BY DEF Init, Points
  <2> QED BY <2>1, <2>2, <2>3 DEF Init, TypeOK
<1>2. RecordOK(record) /\ CallsAccounted
  BY NewOK DEF Init, CallsAccounted, Accounts, NewJobRecord
<1>3. OwnerIsCurrent /\ Coherent
  BY DEF Init, OwnerIsCurrent, Coherent, InLoop
<1> QED BY <1>1, <1>2, <1>3, IInvRecord DEF Init

LEMMA WorkIInv ==
  ASSUME IInv, NEW w \in Workers, Work(w)
  PROVE  IInv'
<1>1. CASE AcquireWrite(w) BY <1>1, AcquireWriteStep
<1>2. CASE StartRun(w) BY <1>2, StartRunStep
<1>3. CASE SkipRenew(w) BY <1>3, SkipRenewStep
<1>4. CASE MaybeRenewRead(w) BY <1>4, MaybeRenewReadStep
<1>5. CASE MaybeRenewWrite(w) BY <1>5, MaybeRenewWriteStep
<1>6. CASE BudgetSpent(w) BY <1>6, BudgetSpentStep
<1>7. CASE NoRunnableStep(w) BY <1>7, NoRunnableStepStep
<1>8. CASE PickStep(w) BY <1>8, PickStepStep
<1>9. CASE StepRenewWrite(w) BY <1>9, StepRenewWriteStep
<1>10. CASE StepStart(w) BY <1>10, StepStartStep
<1>11. CASE HandlerReturn(w) BY <1>11, HandlerReturnStep
<1>12. CASE FinalPersist(w) BY <1>12, FinalPersistStep
<1>13. CASE ReleaseRead(w) BY <1>13, ReleaseReadStep
<1>14. CASE ReleaseWrite(w) BY <1>14, ReleaseWriteStep
<1> QED BY <1>1, <1>2, <1>3, <1>4, <1>5, <1>6, <1>7, <1>8, <1>9, <1>10, <1>11,
           <1>12, <1>13, <1>14 DEF Work

LEMMA UnchangedIInv == IInv /\ UNCHANGED vars => IInv'
<1> SUFFICES ASSUME IInv, UNCHANGED vars PROVE IInv'
  OBVIOUS
<1>1. TypeOK'
  BY DEF IInv, TypeOK, vars
<1>2. RecordOK(record)' /\ CallsAccounted' /\ Coherent' /\ OwnerIsCurrent'
  BY IInvRecord DEF CallsAccounted, Accounts, RecordOK, AttemptsLeft, InOrder,
     StatusFits, Has, Coherent, OwnerIsCurrent, vars
<1>3. (\A v \in current : Position(v))' /\ (\A v \in fresh : FreshRead(v))'
  BY DEF IInv, Position, FreshRead, Acquirable, Releasable, LeaseActive,
     FindRunnableStep, Runnable, vars
<1> QED BY <1>1, <1>2, <1>3 DEF IInv, RecordOK, DependencyOrder, StatusMatchesSteps

LEMMA NextIInv == IInv /\ [Next]_vars => IInv'
<1> SUFFICES ASSUME IInv, [Next]_vars PROVE IInv'
  OBVIOUS
<1>1. CASE \E w \in Workers : ResumeRead(w) \/ Work(w) \/ Crash(w)
  BY <1>1, ResumeReadStep, WorkIInv, CrashStep
<1>2. CASE LeaseRunsOut
  BY <1>2, LeaseRunsOutStep
<1>3. CASE Cancel
  BY <1>3, CancelStep
<1>4. CASE ReplayReset
  BY <1>4, ReplayResetStep
<1>5. CASE Settled
  BY <1>5, UnchangedIInv DEF Settled
<1>6. CASE UNCHANGED vars
  BY <1>6, UnchangedIInv
<1> QED BY <1>1, <1>2, <1>3, <1>4, <1>5, <1>6 DEF Next

\* The inductive invariant holds of every run of any number of executions.
THEOREM Invariance == Spec => []IInv
  BY InitIInv, NextIInv, PTL DEF Spec

\* Types are kept: attempts, above all, never exceed maxRetries + 1.
THEOREM TypeCorrect == Spec => []TypeOK
<1>1. IInv => TypeOK
  BY DEF IInv
<1> QED BY <1>1, Invariance, PTL

\* A copy that would pass the version check is the stored record, so renewing
\* the lease in the loop never lets a stale copy overwrite a newer record.
THEOREM Coherence == Spec => []Coherent
<1>1. IInv => Coherent
  BY DEF IInv
<1> QED BY <1>1, Invariance, PTL

\* No step starts before its dependencies have completed.
THEOREM DependenciesFirst == Spec => []DependencyOrder
<1>1. IInv => DependencyOrder
  BY DEF IInv
<1> QED BY <1>1, Invariance, PTL

\* The status a caller reads agrees with the steps, whatever was interrupted.
THEOREM StatusTruthful == Spec => []StatusMatchesSteps
<1>1. IInv => StatusMatchesSteps
  BY DEF IInv
<1> QED BY <1>1, Invariance, PTL

\* Handlers are called at most maxRetries + 1 times per replay.
THEOREM RetriesBounded == Spec => []RetryBudget
<1>1. IInv => RetryBudget
  <2> SUFFICES ASSUME IInv, NEW s \in Steps PROVE calls[s] <= MaxRetries + 1
    BY DEF RetryBudget
  <2>1. /\ record.attempts[s] \in 0 .. (MaxRetries + 1)
        /\ record.state[s] # "failed" => record.attempts[s] <= MaxRetries
        /\ calls[s] \in Nat
    BY DEF IInv, TypeOK, JobRecord, AttemptsLeft
  <2>2. calls[s] <= record.attempts[s] +
          (IF record.state[s] \in {"running", "completed", "canceled"} THEN 1 ELSE 0)
    BY DEF IInv, CallsAccounted, Accounts
  <2> QED BY <2>1, <2>2, JobsAssumption
<1> QED BY <1>1, Invariance, PTL

----------------------------------------------------------------------------
(* What one step can do to the stored record, and the action properties    *)
(* that follow.                                                            *)

\* Nothing, or a change of the lease's owner only.
LeaseOnly == record' = Leased(record, record'.owner)

\* A checkpoint of the execution whose id is on the record.
Checkpoint(w, r) ==
  \/ r.status \notin TerminalStatus /\ record' = WithStatus(r, "running")
  \/ /\ r.status = "running"
     /\ \/ record' = WithStatus(r, "paused")
        \/ Runnable(r) = {} /\ record' = WithStatus(r, FinalStatus(r))
        \/ \E s \in FindRunnableStep(r) : record' = Running(r, s)
        \/ /\ pc[w] = "handler" /\ cur[w] \in Steps
           /\ r.state[cur[w]] = "running"
           /\ record' \in {AfterSuccess(r, cur[w]), AfterFailure(r, cur[w])}

OwnCheckpoint ==
  \E w \in Workers :
    Work(w) /\ record.owner = w /\ record'.owner = w /\ Checkpoint(w, record)

\* A checkpoint that is attempted leaves the record alone or is stored over
\* the record it was made from.
LEMMA PersistEffect ==
  ASSUME IInv, NEW w \in Workers, NEW r, NEW holders,
         Persist(w, r, holders) \/ PersistThrows(w, r)
  PROVE  \/ record' = record
         \/ w \in current /\ record' = r
  BY DEF Persist, PersistThrows, Swap, SwapThrows, Store, HoldsVersion

\* A lease operation changes the lease only.
LEMMA LeaseEffect ==
  ASSUME IInv, NEW w \in Workers, NEW owner, NEW holders,
         LeaseSwap(w, owner, holders) \/ LeaseSwapThrows(w, owner)
  PROVE  LeaseOnly
<1>1. record \in JobRecord
  BY DEF IInv, TypeOK
<1>2. record' = record \/ record' = Leased(record, owner)
  BY DEF LeaseSwap, LeaseSwapThrows, Swap, SwapThrows, Store
<1> QED BY <1>1, <1>2 DEF LeaseOnly, Leased, JobRecord

\* A step that leaves the record alone.
LEMMA SameRecord == IInv /\ record' = record => LeaseOnly
  BY DEF IInv, TypeOK, LeaseOnly, Leased, JobRecord

LEMMA WorkEffect ==
  ASSUME IInv, NEW w \in Workers, Work(w)
  PROVE  LeaseOnly \/ OwnCheckpoint
<1>1. CASE AcquireWrite(w) \/ MaybeRenewWrite(w) \/ StepRenewWrite(w) \/ ReleaseWrite(w)
  BY <1>1, LeaseEffect DEF AcquireWrite, MaybeRenewWrite, StepRenewWrite, RenewWrite,
     ReleaseWrite
<1>2. CASE SkipRenew(w) \/ MaybeRenewRead(w) \/ PickStep(w) \/ ReleaseRead(w)
  BY <1>2, SameRecord DEF SkipRenew, MaybeRenewRead, PickStep, ReleaseRead, LeaseRead,
     RenewRefused
<1>3. CASE StartRun(w)
  <2>1. \/ record' = record
        \/ w \in current /\ record' = WithStatus(job[w], "running")
    BY <1>3, PersistEffect DEF StartRun
  <2>2. ASSUME w \in current, record' = WithStatus(job[w], "running")
        PROVE  OwnCheckpoint
    BY <1>3, <2>2, HolderFacts DEF StartRun, Position, OwnCheckpoint, Checkpoint,
       RecordOK, WithStatus, JobRecord
  <2> QED BY <2>1, <2>2, SameRecord
<1>4. CASE BudgetSpent(w)
  <2>1. \/ record' = record
        \/ w \in current /\ record' = WithStatus(job[w], "paused")
    BY <1>4, PersistEffect DEF BudgetSpent
  <2>2. ASSUME w \in current, record' = WithStatus(job[w], "paused")
        PROVE  OwnCheckpoint
    BY <1>4, <2>2, HolderFacts DEF BudgetSpent, Position, OwnCheckpoint, Checkpoint,
       RecordOK, WithStatus, JobRecord, InLoop
  <2> QED BY <2>1, <2>2, SameRecord
<1>5. CASE NoRunnableStep(w)
  <2>1. \/ record' = record
        \/ w \in current /\ record' = WithStatus(job[w], FinalStatus(job[w]))
    BY <1>5, PersistEffect DEF NoRunnableStep
  <2>2. ASSUME w \in current, record' = WithStatus(job[w], FinalStatus(job[w]))
        PROVE  OwnCheckpoint
    BY <1>5, <2>2, HolderFacts DEF NoRunnableStep, Position, OwnCheckpoint, Checkpoint,
       RecordOK, WithStatus, JobRecord, InLoop
  <2> QED BY <2>1, <2>2, SameRecord
<1>6. CASE StepStart(w)
  <2>1. \/ record' = record
        \/ w \in current /\ record' = Running(job[w], cur[w])
    BY <1>6, PersistEffect DEF StepStart
  <2>2. ASSUME w \in current, record' = Running(job[w], cur[w])
        PROVE  OwnCheckpoint
    <3>1. /\ cur[w] \in FindRunnableStep(record) /\ record.owner = w
          /\ record.status = "running" /\ record' = Running(record, cur[w])
      BY <1>6, <2>2, HolderFacts DEF StepStart, Position, InLoop
    <3>2. record'.owner = w
      BY <3>1, HolderFacts, <2>2 DEF RecordOK, Running, JobRecord
    <3> QED BY <3>1, <3>2 DEF OwnCheckpoint, Checkpoint
  <2> QED BY <2>1, <2>2, SameRecord
<1>7. CASE HandlerReturn(w)
  <2>1. \/ record' = record
        \/ /\ w \in current
           /\ record' \in {AfterSuccess(job[w], cur[w]), AfterFailure(job[w], cur[w])}
    BY <1>7, PersistEffect DEF HandlerReturn
  <2>2. ASSUME w \in current,
               record' \in {AfterSuccess(job[w], cur[w]), AfterFailure(job[w], cur[w])}
        PROVE  OwnCheckpoint
    <3>1. /\ cur[w] \in Steps /\ record.state[cur[w]] = "running" /\ record.owner = w
          /\ pc[w] = "handler"
          /\ record.status = "running" /\ record \in JobRecord
          /\ record' \in {AfterSuccess(record, cur[w]), AfterFailure(record, cur[w])}
      BY <1>7, <2>2, HolderFacts DEF HandlerReturn, Position, InLoop, RecordOK
    <3>2. record'.owner = w
      BY <3>1 DEF AfterSuccess, AfterFailure, JobRecord
    <3> QED BY <3>1, <3>2 DEF OwnCheckpoint, Checkpoint
  <2> QED BY <2>1, <2>2, SameRecord
<1>8. CASE FinalPersist(w)
  <2>1. record' = record \/ (w \in current /\ record' = job[w])
    BY <1>8, PersistEffect DEF FinalPersist
  <2> QED BY <2>1, HolderFacts, SameRecord
<1> QED BY <1>1, <1>2, <1>3, <1>4, <1>5, <1>6, <1>7, <1>8 DEF Work

\* Every step of the system leaves status and steps alone, is a checkpoint of
\* the recorded owner, a cancel or a replay.
LEMMA StepEffect ==
  ASSUME IInv, [Next]_vars
  PROVE  LeaseOnly \/ OwnCheckpoint \/ Cancel \/ ReplayReset
<1>1. CASE \E w \in Workers : Work(w)
  BY <1>1, WorkEffect
<1>2. CASE \E w \in Workers : ResumeRead(w) \/ Crash(w)
  BY <1>2, SameRecord DEF ResumeRead, LeaseRead, Crash
<1>3. CASE LeaseRunsOut \/ Settled \/ UNCHANGED vars
  BY <1>3, SameRecord DEF LeaseRunsOut, Settled, vars
<1> QED BY <1>1, <1>2, <1>3 DEF Next

\* Only the recorded owner's executions change the steps or the status: a
\* worker that lost the lease cannot overwrite its successor.
THEOREM Fencing == Spec => FencedWrites
<1> DEFINE Same == /\ record'.state = record.state
                   /\ record'.attempts = record.attempts
                   /\ record'.status = record.status
           Fenced == \/ Same
                     \/ \E w \in Workers :
                          record.owner = w /\ record'.owner = w /\ Work(w)
                     \/ Cancel
                     \/ ReplayReset
<1>1. IInv /\ [Next]_vars => Fenced
  <2> SUFFICES ASSUME IInv, [Next]_vars PROVE Fenced
    OBVIOUS
  <2>1. LeaseOnly => Same
    BY DEF IInv, TypeOK, LeaseOnly, Leased, JobRecord
  <2> QED BY <2>1, StepEffect DEF OwnCheckpoint
<1>2. IInv /\ [Next]_vars => [Fenced]_vars
  BY <1>1
<1> QED BY <1>2, Invariance, PTL DEF Spec, FencedWrites

\* Completed steps stay completed through retries, takeovers and replays.
THEOREM Monotone == Spec => CheckpointMonotone
<1> DEFINE Kept == \A s \in Steps :
                     record.state[s] = "completed" => record'.state[s] = "completed"
<1>1. IInv /\ [Next]_vars => Kept
  <2> SUFFICES ASSUME IInv, [Next]_vars PROVE Kept
    OBVIOUS
  <2>1. record \in JobRecord
    BY DEF IInv, TypeOK
  <2>2. CASE LeaseOnly
    BY <2>1, <2>2 DEF LeaseOnly, Leased, JobRecord
  <2>3. CASE \E w \in Workers : Checkpoint(w, record)
    BY <2>1, <2>3 DEF Checkpoint, WithStatus, Running, AfterSuccess, AfterFailure,
       FindRunnableStep, Runnable, JobRecord
  <2>4. CASE Cancel
    BY <2>1, <2>4 DEF Cancel, Store, Canceled, JobRecord
  <2>5. CASE ReplayReset
    BY <2>1, <2>5 DEF ReplayReset, Store, Replayed
  <2> QED BY <2>2, <2>3, <2>4, <2>5, StepEffect DEF OwnCheckpoint
<1>2. IInv /\ [Next]_vars => [Kept]_vars
  BY <1>1
<1> QED BY <1>2, Invariance, PTL DEF Spec, CheckpointMonotone

\* Nobody reopens a completed or canceled job, and a failed one is reopened by
\* a replay only.
THEOREM Finality == Spec => TerminalFinal
<1> DEFINE Final ==
      /\ record.status \in {"completed", "canceled"} =>
           record' = [record EXCEPT !.owner = record'.owner]
      /\ record.status = "failed" /\ record'.status # "failed" =>
           Cancel \/ ReplayReset
<1>1. IInv /\ [Next]_vars => Final
  <2> SUFFICES ASSUME IInv, [Next]_vars PROVE Final
    OBVIOUS
  <2>1. record \in JobRecord
    BY DEF IInv, TypeOK
  <2>2. CASE LeaseOnly
    BY <2>1, <2>2 DEF LeaseOnly, Leased, JobRecord
  <2>3. CASE OwnCheckpoint
    BY <2>3 DEF OwnCheckpoint, Checkpoint, TerminalStatus
  <2>4. CASE Cancel \/ ReplayReset
    BY <2>4 DEF Cancel, Cancelable, ReplayReset
  <2> QED BY <2>2, <2>3, <2>4, StepEffect
<1>2. IInv /\ [Next]_vars => [Final]_vars
  BY <1>1
<1> QED BY <1>2, Invariance, PTL DEF Spec, TerminalFinal

\* A live lease is taken from nobody but its owner.
THEOREM LeaseHolds == Spec => LeaseRespected
<1> DEFINE Held == LeaseActive /\ record'.owner # record.owner =>
                     ReleaseWrite(record.owner) \/ ReplayReset
<1>1. IInv /\ [Next]_vars => Held
  <2> SUFFICES ASSUME IInv, [Next]_vars, LeaseActive, record'.owner # record.owner
               PROVE  ReleaseWrite(record.owner) \/ ReplayReset
    OBVIOUS
  <2>1. record \in JobRecord
    BY DEF IInv, TypeOK
  <2>3. CASE Cancel
    BY <2>1, <2>3 DEF Cancel, Store, Canceled, JobRecord
  <2>4. CASE \E w \in Workers : Work(w)
    <3>1. PICK w \in Workers : Work(w)
      BY <2>4
    <3>2. CASE AcquireWrite(w)
      BY <2>1, <2>4, <3>2 DEF AcquireWrite, LeaseSwap, LeaseSwapThrows, Swap, SwapThrows,
         Store, Leased, JobRecord, IInv, FreshRead, Acquirable
    <3>3. CASE MaybeRenewWrite(w) \/ StepRenewWrite(w)
      BY <2>1, <2>4, <3>3 DEF MaybeRenewWrite, StepRenewWrite, RenewWrite, LeaseSwap,
         LeaseSwapThrows, Swap, SwapThrows, Store, Leased, JobRecord, IInv, FreshRead,
         InLoop
    <3>4. CASE ReleaseWrite(w)
      BY <2>1, <2>4, <3>4 DEF ReleaseWrite, LeaseSwap, LeaseSwapThrows, Swap, SwapThrows,
         Store, IInv, FreshRead, Releasable
    <3>5. CASE SkipRenew(w) \/ MaybeRenewRead(w) \/ PickStep(w) \/ ReleaseRead(w)
      BY <2>4, <3>5 DEF SkipRenew, MaybeRenewRead, PickStep, ReleaseRead, LeaseRead,
         RenewRefused
    <3>6. CASE \/ StartRun(w) \/ BudgetSpent(w) \/ NoRunnableStep(w) \/ StepStart(w)
               \/ HandlerReturn(w) \/ FinalPersist(w)
      <4>1. job[w] \in JobRecord
        BY DEF IInv, TypeOK
      <4>2. PICK r : /\ r.owner = job[w].owner
                     /\ (\E holders : Persist(w, r, holders)) \/ PersistThrows(w, r)
        BY <3>6, <4>1 DEF StartRun, BudgetSpent, NoRunnableStep, StepStart,
           HandlerReturn, FinalPersist, WithStatus, Running, AfterSuccess,
           AfterFailure, JobRecord
      <4>3. w \in current /\ record' = r
        BY <4>2, PersistEffect
      <4> QED BY <4>2, <4>3, HolderFacts
    <3> QED BY <3>1, <3>2, <3>3, <3>4, <3>5, <3>6 DEF Work
  <2>5. (\E w \in Workers : Work(w)) \/ Cancel \/ ReplayReset
    BY DEF Next, ResumeRead, LeaseRead, Crash, LeaseRunsOut, Settled, vars
  <2> QED BY <2>3, <2>4, <2>5
<1>2. IInv /\ [Next]_vars => [Held]_vars
  BY <1>1
<1> QED BY <1>2, Invariance, PTL DEF Spec, LeaseRespected

----------------------------------------------------------------------------
(* One handler per step.                                                   *)

LEMMA WorkAlone ==
  ASSUME IInv, NEW w \in Workers, Work(w) \/ ResumeRead(w) \/ Crash(w)
  PROVE  /\ \A v \in Workers \ {w} : pc'[v] = pc[v] /\ cur'[v] = cur[v]
         /\ pc'[w] = "handler" => pc[w] = "stepStart" /\ cur'[w] = cur[w]
<1>1. pc \in [Workers -> Points] /\ cur \in [Workers -> Steps \cup {NoStep}]
  BY DEF IInv, TypeOK
<1>2. CASE ResumeRead(w) \/ Crash(w)
  BY <1>1, <1>2 DEF ResumeRead, Crash, GiveUp
<1>3. CASE AcquireWrite(w) \/ StartRun(w) \/ SkipRenew(w) \/ MaybeRenewRead(w)
  BY <1>1, <1>3 DEF AcquireWrite, StartRun, SkipRenew, MaybeRenewRead, RenewRefused,
     GoOn, GiveUp, PersistThrows
<1>4. CASE MaybeRenewWrite(w) \/ BudgetSpent(w) \/ NoRunnableStep(w)
  BY <1>1, <1>4 DEF MaybeRenewWrite, RenewWrite, BudgetSpent, NoRunnableStep,
     GoOn, GiveUp, PersistThrows
<1>5. CASE PickStep(w)
  BY <1>1, <1>5 DEF PickStep, RenewRefused, GiveUp
<1>6. CASE StepRenewWrite(w) \/ StepStart(w) \/ HandlerReturn(w)
  BY <1>1, <1>6 DEF StepRenewWrite, RenewWrite, StepStart, HandlerReturn,
     GoOn, GiveUp, PersistThrows
<1>7. CASE FinalPersist(w) \/ ReleaseRead(w) \/ ReleaseWrite(w)
  BY <1>1, <1>7 DEF FinalPersist, ReleaseRead, ReleaseWrite, GiveUp, PersistThrows
<1> QED BY <1>2, <1>3, <1>4, <1>5, <1>6, <1>7 DEF Work

LEMMA StepStartPins ==
  ASSUME IInv, NEW w \in Workers, StepStart(w), pc'[w] = "handler"
  PROVE  /\ cur[w] \in Steps
         /\ record.state[cur[w]] = "pending"
         /\ record' = Running(record, cur[w])
<1>1. w \in current /\ record' = Running(job[w], cur[w])
  BY DEF StepStart, Persist, PersistThrows, Swap, Store, HoldsVersion, GiveUp,
     IInv, TypeOK
<1>2. job[w] = record /\ cur[w] \in FindRunnableStep(record)
  BY <1>1, HolderFacts DEF StepStart, Position
<1> QED BY <1>1, <1>2 DEF FindRunnableStep, Runnable

\* While a step's handler runs, nobody but the execution that runs it changes
\* the step, except a cancel.
LEMMA PinnedStep ==
  ASSUME IInv, HandlerPinned, [Next]_vars, ~ReplayOn
  PROVE  HandlerPinned'
<1> DEFINE Pinned(v) == cur[v] \in Steps /\ record.state[cur[v]] \in {"running", "canceled"}
<1>1. record \in JobRecord
  BY DEF IInv, TypeOK
<1>2. ASSUME NEW w \in Workers, Work(w) \/ ResumeRead(w) \/ Crash(w)
      PROVE  HandlerPinned'
  <2>1. \A v \in Workers \ {w} : pc'[v] = pc[v] /\ cur'[v] = cur[v]
    BY <1>2, WorkAlone
  <2>2. ASSUME NEW v \in Workers \ {w}, pc[v] = "handler"
        PROVE  record'.state[cur[v]] \in {"running", "canceled"}
    <3>1. Pinned(v)
      BY <2>2 DEF HandlerPinned
    <3>2. CASE LeaseOnly
      BY <1>1, <3>1, <3>2 DEF LeaseOnly, Leased, JobRecord
    <3>3. CASE OwnCheckpoint
      <4>1. PICK u \in Workers : Work(u) /\ record.owner = u /\ Checkpoint(u, record)
        BY <3>3 DEF OwnCheckpoint
      <4>2. CASE pc[u] = "handler" /\ u = v
        BY <1>2, <2>1, <2>2, <4>1, <4>2, WorkAlone DEF Work, AcquireWrite, StartRun,
           SkipRenew, MaybeRenewRead, MaybeRenewWrite, BudgetSpent, NoRunnableStep,
           PickStep, StepRenewWrite, StepStart, HandlerReturn, FinalPersist,
           ReleaseRead, ReleaseWrite, GoOn, PersistThrows, GiveUp, IInv, TypeOK
      <4>3. CASE pc[u] = "handler" /\ u # v
        <5>1. cur[u] # cur[v]
          BY <2>2, <4>3 DEF HandlerPinned, HandlerExclusive
        <5> QED BY <1>1, <3>1, <4>1, <5>1 DEF Checkpoint, WithStatus, Running,
                AfterSuccess, AfterFailure, FindRunnableStep, Runnable, JobRecord
      <4>4. CASE pc[u] # "handler"
        BY <1>1, <3>1, <4>1, <4>4 DEF Checkpoint, WithStatus, Running,
           FindRunnableStep, Runnable, JobRecord
      <4> QED BY <4>2, <4>3, <4>4
    <3>4. CASE Cancel
      BY <1>1, <3>1, <3>4 DEF Cancel, Store, Canceled, JobRecord
    <3>5. ~ReplayReset
      BY DEF ReplayReset
    <3> QED BY <3>2, <3>3, <3>4, <3>5, StepEffect
  <2>3. CASE pc'[w] # "handler"
    BY <2>1, <2>2, <2>3 DEF HandlerPinned, HandlerExclusive
  <2>4. CASE pc'[w] = "handler"
    <3>1. pc[w] = "stepStart" /\ cur'[w] = cur[w]
      BY <1>2, <2>4, WorkAlone
    <3>2. StepStart(w)
      BY <1>2, <2>4, <3>1 DEF Work, ResumeRead, Crash, AcquireWrite, StartRun, SkipRenew,
         MaybeRenewRead, MaybeRenewWrite, BudgetSpent, NoRunnableStep, PickStep,
         StepRenewWrite, HandlerReturn, FinalPersist, ReleaseRead, ReleaseWrite,
         GiveUp, IInv, TypeOK
    <3>3. /\ cur[w] \in Steps /\ record.state[cur[w]] = "pending"
          /\ record'.state[cur[w]] = "running"
      BY <1>1, <2>4, <3>2, StepStartPins DEF Running, JobRecord
    <3>4. \A v \in Workers \ {w} : pc[v] = "handler" => cur[v] # cur[w]
      BY <3>3 DEF HandlerPinned
    <3> QED BY <2>1, <2>2, <3>1, <3>3, <3>4 DEF HandlerPinned, HandlerExclusive
  <2> QED BY <2>3, <2>4
<1>3. CASE LeaseRunsOut \/ Settled \/ UNCHANGED vars
  BY <1>3 DEF HandlerPinned, HandlerExclusive, LeaseRunsOut, Settled, vars
<1>4. CASE Cancel
  BY <1>1, <1>4 DEF HandlerPinned, HandlerExclusive, Cancel, Store, Canceled, JobRecord
<1>5. CASE ReplayReset
  BY <1>5 DEF ReplayReset
<1> QED BY <1>2, <1>3, <1>4, <1>5 DEF Next

\* Where failed jobs are not replayed, no step's handler is ever run by two
\* executions at once, even when leases expire under running handlers.
THEOREM OneHandlerPerStep == ~ReplayOn /\ Spec => []HandlerExclusive
<1>1. Init => HandlerPinned
  BY DEF Init, HandlerPinned, HandlerExclusive
<1>2. ~ReplayOn /\ IInv /\ HandlerPinned /\ [Next]_vars => HandlerPinned'
  BY PinnedStep
<1>3. HandlerPinned => HandlerExclusive
  BY DEF HandlerPinned
<1>4. CASE ~ReplayOn
  <2>1. IInv /\ HandlerPinned /\ [Next]_vars => HandlerPinned'
    BY <1>2, <1>4
  <2> QED BY <1>1, <1>3, <2>1, Invariance, PTL DEF Spec
<1> QED BY <1>4

----------------------------------------------------------------------------
(* Jobs implements JobLifecycle.                                           *)

\* A new job is the sequential job's initial state.
LEMMA InitRefines == Init => Lifecycle!Start
  BY DEF Init, NewJobRecord, Lifecycle!Start, Steps, Lifecycle!Steps

\* A lease operation is invisible.
LEMMA LeaseStutters ==
  ASSUME record \in JobRecord, LeaseOnly
  PROVE  UNCHANGED Lifecycle!lifecycleVars
  BY DEF LeaseOnly, Leased, JobRecord, Lifecycle!lifecycleVars

\* A checkpoint of any execution is a step of the sequential job.
LEMMA CheckpointRefines ==
  ASSUME RecordOK(record), NEW w \in Workers, Checkpoint(w, record)
  PROVE  Lifecycle!LifecycleNext
<1> USE DEF Steps, Lifecycle!Steps
<1>1. record \in JobRecord
  BY DEF RecordOK
<1>2. CASE record.status \notin TerminalStatus /\ record' = WithStatus(record, "running")
  <2>1. Lifecycle!TakeUp
    BY <1>1, <1>2 DEF Lifecycle!TakeUp, Lifecycle!Goto, TerminalStatus, WithStatus,
       JobRecord, JobStatus
  <2> QED BY <2>1 DEF Lifecycle!LifecycleNext
<1>3. CASE record.status = "running" /\ record' = WithStatus(record, "paused")
  <2>1. Lifecycle!Pause
    BY <1>1, <1>3 DEF Lifecycle!Pause, Lifecycle!Goto, WithStatus, JobRecord
  <2> QED BY <2>1 DEF Lifecycle!LifecycleNext
<1>4. CASE /\ record.status = "running" /\ Runnable(record) = {}
           /\ record' = WithStatus(record, FinalStatus(record))
  <2>1. FinalStatus(record) \in {"completed", "paused"}
    BY <1>4, FinalStatusOK
  <2>2. CASE FinalStatus(record) = "paused"
    <3>1. Lifecycle!Pause
      BY <1>1, <1>4, <2>2 DEF Lifecycle!Pause, Lifecycle!Goto, WithStatus, JobRecord
    <3> QED BY <3>1 DEF Lifecycle!LifecycleNext
  <2>3. CASE FinalStatus(record) = "completed"
    <3>1. StatusFits(WithStatus(record, "completed"))
      BY <1>4, <2>3, FinalStatusOK DEF RecordOK
    <3>2. \A s \in Steps : record.state[s] = "completed"
      BY <1>1, <3>1 DEF StatusFits, WithStatus, JobRecord
    <3>3. Lifecycle!Finish
      BY <1>1, <1>4, <2>3, <3>2 DEF Lifecycle!Finish, Lifecycle!Goto, WithStatus,
         JobRecord
    <3> QED BY <3>3 DEF Lifecycle!LifecycleNext
  <2> QED BY <2>1, <2>2, <2>3
<1>5. ASSUME record.status = "running", NEW s \in FindRunnableStep(record),
             record' = Running(record, s)
      PROVE  Lifecycle!LifecycleNext
  <2>1. s \in Steps
    BY DEF FindRunnableStep, Runnable
  <2>2. Lifecycle!BeginStep(s)
    BY <1>1, <1>5, <2>1 DEF Lifecycle!BeginStep, Lifecycle!Ready, FindRunnableStep,
       Runnable, Running, JobRecord
  <2> QED BY <2>1, <2>2 DEF Lifecycle!LifecycleNext
<1>6. ASSUME record.status = "running", NEW s \in Steps,
             record.state[s] = "running", record' = AfterSuccess(record, s)
      PROVE  Lifecycle!LifecycleNext
  <2>1. Lifecycle!StepDone(s)
    BY <1>1, <1>6 DEF Lifecycle!StepDone, AfterSuccess, JobRecord
  <2> QED BY <2>1 DEF Lifecycle!LifecycleNext
<1>7. ASSUME record.status = "running", NEW s \in Steps,
             record.state[s] = "running", record' = AfterFailure(record, s)
      PROVE  Lifecycle!LifecycleNext
  <2>1. /\ record.attempts[s] \in Nat
        /\ record.attempts[s] + 1 > MaxRetries <=> ~(record.attempts[s] < MaxRetries)
    BY <1>1, JobsAssumption DEF JobRecord
  <2>2. Lifecycle!StepFailed(s)
    BY <1>1, <1>7, <2>1 DEF Lifecycle!StepFailed, AfterFailure, JobRecord
  <2> QED BY <2>2 DEF Lifecycle!LifecycleNext
<1> QED BY <1>2, <1>3, <1>4, <1>5, <1>6, <1>7 DEF Checkpoint

LEMMA CancelRefines ==
  ASSUME RecordOK(record), Cancel
  PROVE  Lifecycle!LifecycleNext
<1>1. Lifecycle!CancelJob
  BY DEF RecordOK, JobRecord, JobStatus, Cancel, Cancelable, Store, Canceled,
     Lifecycle!CancelJob, Steps, Lifecycle!Steps
<1> QED BY <1>1 DEF Lifecycle!LifecycleNext

LEMMA ReplayRefines ==
  ASSUME RecordOK(record), ReplayReset
  PROVE  Lifecycle!LifecycleNext
<1>1. record' = Replayed(record) /\ record.status = "failed"
  BY DEF ReplayReset, Store
<1>2. Lifecycle!Replay
  BY <1>1 DEF RecordOK, JobRecord, Replayed, Lifecycle!Replay, Steps, Lifecycle!Steps
<1> QED BY <1>2 DEF Lifecycle!LifecycleNext

\* Any number of racing, failing and expiring executions behave, as far as the
\* stored record shows, as one sequential job.
THEOREM Refinement == Spec => ImplementsLifecycle
<1>1. IInv /\ [Next]_vars => [Lifecycle!LifecycleNext]_(Lifecycle!lifecycleVars)
  <2> SUFFICES ASSUME IInv, [Next]_vars
               PROVE  Lifecycle!LifecycleNext \/ UNCHANGED Lifecycle!lifecycleVars
    OBVIOUS
  <2>1. RecordOK(record) /\ record \in JobRecord
    BY IInvRecord DEF RecordOK
  <2>2. CASE LeaseOnly
    BY <2>1, <2>2, LeaseStutters
  <2>3. CASE OwnCheckpoint
    BY <2>1, <2>3, CheckpointRefines DEF OwnCheckpoint
  <2>4. CASE Cancel
    BY <2>1, <2>4, CancelRefines
  <2>5. CASE ReplayReset
    BY <2>1, <2>5, ReplayRefines
  <2> QED BY <2>2, <2>3, <2>4, <2>5, StepEffect
<1> QED BY <1>1, InitRefines, Invariance, PTL
        DEF Spec, ImplementsLifecycle, Lifecycle!LifecycleSpec

=============================================================================
