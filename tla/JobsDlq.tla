------------------------------ MODULE JobsDlq ------------------------------
(***************************************************************************)
(* The dead-letter queue of AST.Jobs: astJobsMoveToDlq, astJobsReplayDlq   *)
(* and astJobsPurgeDlq called by several executions, with jobs that are    *)
(* also resumed and canceled from elsewhere.                               *)
(*                                                                         *)
(* A job is its status and lease here; module Jobs has its execution, of   *)
(* which this one keeps the beginning and the end.  As there, a version is *)
(* whether the copy a caller read is still current.  An entry is its state *)
(* (its counters, errors and times are data) and its place by movedAt.     *)
(***************************************************************************)
EXTENDS Naturals, FiniteSets

CONSTANTS
  Callers,    \* executions
  NoCaller,   \* nobody: the lock is free, the job unleased
  Jobs,
  NoJob,
  Keys,       \* idempotency keys
  NoKey,      \* none is given
  KeysOf,     \* caller -> the keys it may give
  Calls,      \* the calls made, of CallKinds
  Width,      \* the smaller of limit and maxConcurrency
  Faults,     \* the faults that may strike, of FaultKinds
  MaxFaults   \* bound on the faults of a behaviour

CallKinds  == {"replay", "move", "purge", "resume", "cancel"}
FaultKinds == {"crash", "throw", "slow"}

ASSUME JobsDlqAssumption ==
  /\ NoCaller \notin Callers
  /\ IsFiniteSet(Jobs) /\ NoJob \notin Jobs
  /\ NoKey \notin Keys
  /\ KeysOf \in [Callers -> SUBSET (Keys \cup {NoKey})]
  /\ Calls \subseteq CallKinds
  /\ Width \in Nat \ {0}
  /\ Faults \subseteq FaultKinds
  /\ MaxFaults \in Nat

JobStatus  == {"queued", "running", "paused", "failed", "completed", "canceled"}
Ended      == {"completed", "failed", "paused"}
EntryState == {"none", "queued", "replayed"}
Filters    == {"queued", "replayed", "all"}
Points     == {"idle", "select", "item", "reset", "resume", "running", "mark",
               "markIndex", "answer", "purge", "unindex"}

VARIABLES
  status,    \* job.status
  runner,    \* job.leaseOwner while the lease is active
  entry,     \* the state of each job's DLQ entry
  index,     \* the state its summary in the DLQ index has
  rank,      \* the jobs' places by the movedAt of their entries, newest first
  lock,      \* holder of the script lock
  answered,  \* idempotency keys with a stored result
  pc,        \* control point of each caller
  call,      \* the call it makes
  key,       \* normalized.idempotencyKey
  todo,      \* jobs whose entries it has yet to deal with
  cur,       \* the job it deals with
  current,   \* callers whose copy of that job is the latest
  mark,      \* the entry state it is to write; in a purge, its filter
  caught,    \* whether that write is the one of the catch block
  faults,    \* faults so far
  sound,     \* history: jobs whose last entry write or delete was not cut short
  resets,    \* history: the keys with which jobs were reset for a replay, but
             \* for calls that ended without storing their result
  outside    \* history: jobs that a call other than a replay has run

jobVars == <<status, runner, current>>
dlq     == <<entry, index, rank, lock>>
locals  == <<call, key, todo, cur, mark, caught>>
vars    == <<jobVars, dlq, answered, pc, locals, faults, sound, resets, outside>>

----------------------------------------------------------------------------
At(c, p) == pc[c] = p
Goto(c, p) == pc' = [pc EXCEPT ![c] = p]

\* The call ends, by return, exception or death.
Leave(c) ==
  /\ Goto(c, "idle")
  /\ call' = [call EXCEPT ![c] = "none"]
  /\ key' = [key EXCEPT ![c] = NoKey]
  /\ todo' = [todo EXCEPT ![c] = {}]
  /\ cur' = [cur EXCEPT ![c] = NoJob]
  /\ mark' = [mark EXCEPT ![c] = "none"]
  /\ caught' = [caught EXCEPT ![c] = FALSE]

Strike(fault) ==
  /\ fault \in Faults
  /\ faults < MaxFaults
  /\ faults' = faults + 1

\* The job's record is written: older copies of it are out of date.
SetJob(j, st, owner) ==
  /\ status' = [status EXCEPT ![j] = st]
  /\ runner' = [runner EXCEPT ![j] = owner]
  /\ current' = {c \in current : cur[c] # j}

\* Whatever is thrown inside the loop of a replay is caught there, and the
\* entry is written back as queued.
Catch(c) ==
  /\ mark' = [mark EXCEPT ![c] = "queued"]
  /\ caught' = [caught EXCEPT ![c] = TRUE]
  /\ Goto(c, "mark")
  /\ UNCHANGED <<call, key, todo, cur>>

Ranks == {r \in [Jobs -> 1 .. Cardinality(Jobs)] : \A i, j \in Jobs : r[i] = r[j] => i = j}

Init ==
  /\ status \in [Jobs -> {"failed", "paused"}]
  /\ runner = [j \in Jobs |-> NoCaller]
  /\ entry \in [Jobs -> {"none", "queued"}]
  /\ \A j \in Jobs : entry[j] = "queued" => status[j] = "failed"
  /\ index = entry
  /\ rank \in Ranks
  /\ lock = NoCaller
  /\ answered = {}
  /\ pc = [c \in Callers |-> "idle"]
  /\ call = [c \in Callers |-> "none"]
  /\ key = [c \in Callers |-> NoKey]
  /\ todo = [c \in Callers |-> {}]
  /\ cur = [c \in Callers |-> NoJob]
  /\ current = {}
  /\ mark = [c \in Callers |-> "none"]
  /\ caught = [c \in Callers |-> FALSE]
  /\ faults = 0
  /\ sound = Jobs
  /\ resets = {}
  /\ outside = {}

----------------------------------------------------------------------------
(* Replaying: astJobsReplayDlq.                                            *)

AnsweredBug(k) == FALSE
Answered(k) == k \in answered

\* The stored result is returned.
ReplayCached(c, k) ==
  /\ At(c, "idle")
  /\ "replay" \in Calls
  /\ k \in KeysOf[c]
  /\ Answered(k)
  /\ UNCHANGED vars

ReplayBegin(c, k) ==
  /\ At(c, "idle")
  /\ "replay" \in Calls
  /\ k \in KeysOf[c]
  /\ ~Answered(k)
  /\ Goto(c, "select")
  /\ call' = [call EXCEPT ![c] = "replay"]
  /\ key' = [key EXCEPT ![c] = k]
  /\ UNCHANGED <<jobVars, dlq, answered, todo, cur, mark, caught, faults, sound, resets, outside>>

\* Entries with that state, by the index and by themselves.
Listed(filter) ==
  {j \in Jobs : /\ entry[j] # "none" /\ index[j] # "none"
                /\ filter # "all" => index[j] = filter /\ entry[j] = filter}

\* The batch is the newest of the queued entries.
Batch ==
  LET queued == Listed("queued")
  IN {j \in queued : Cardinality({i \in queued : rank[i] < rank[j]}) < Width}

Select(c) ==
  /\ At(c, "select")
  /\ todo' = [todo EXCEPT ![c] = Batch]
  /\ Goto(c, "item")
  /\ UNCHANGED <<jobVars, dlq, answered, call, key, cur, mark, caught, faults, sound, resets, outside>>

RestBug(c, j) == {}
Rest(c, j) == todo[c] \ {j}

\* The job of an entry is read; is it no longer failed, the entry is skipped.
\* In what order the batch is gone through is left open.
NextItem(c, j) ==
  /\ At(c, "item")
  /\ j \in todo[c]
  /\ \/ /\ status[j] = "failed"
        /\ todo' = [todo EXCEPT ![c] = @ \ {j}]
        /\ cur' = [cur EXCEPT ![c] = j]
        /\ current' = current \cup {c}
        /\ caught' = [caught EXCEPT ![c] = FALSE]
        /\ Goto(c, "reset")
     \/ /\ status[j] # "failed"
        /\ todo' = [todo EXCEPT ![c] = Rest(c, j)]
        /\ UNCHANGED <<cur, current, caught, pc>>
  /\ UNCHANGED <<status, runner, dlq, answered, call, key, mark, faults, sound, resets, outside>>

\* The store fails on that read.
NextItemThrows(c, j) ==
  /\ At(c, "item")
  /\ j \in todo[c]
  /\ Strike("throw")
  /\ todo' = [todo EXCEPT ![c] = @ \ {j}]
  /\ cur' = [cur EXCEPT ![c] = j]
  /\ mark' = [mark EXCEPT ![c] = "queued"]
  /\ caught' = [caught EXCEPT ![c] = TRUE]
  /\ Goto(c, "mark")
  /\ UNCHANGED <<jobVars, dlq, answered, call, key, sound, resets, outside>>

VersionMatchesBug(c) == TRUE
VersionMatches(c) == c \in current

\* astJobsResetJobForReplay, stored by compare-and-swap; it frees the lease.
Reset(c) ==
  /\ At(c, "reset")
  /\ VersionMatches(c)
  /\ SetJob(cur[c], "paused", NoCaller)
  /\ resets' = IF key[c] = NoKey THEN resets ELSE resets \cup {<<key[c], cur[c]>>}
  /\ Goto(c, "resume")
  /\ UNCHANGED <<dlq, answered, locals, faults, sound, outside>>

\* A version conflict, or the store fails.
ResetRefused(c) ==
  /\ At(c, "reset")
  /\ \/ ~VersionMatches(c) /\ UNCHANGED faults
     \/ Strike("throw")
  /\ current' = current \ {c}
  /\ Catch(c)
  /\ UNCHANGED <<status, runner, dlq, answered, sound, resets, outside>>

\* The record is written and the store fails on its index.
ResetThrows(c) ==
  /\ At(c, "reset")
  /\ VersionMatches(c)
  /\ Strike("throw")
  /\ SetJob(cur[c], "paused", NoCaller)
  /\ Catch(c)
  /\ UNCHANGED <<dlq, answered, sound, resets, outside>>

Acquirable(j) ==
  /\ status[j] \in {"queued", "paused", "running"}
  /\ runner[j] = NoCaller

\* astJobsResume takes the lease and marks the job as running.
ResumeBegin(c) ==
  /\ At(c, "resume")
  /\ Acquirable(cur[c])
  /\ SetJob(cur[c], "running", c)
  /\ Goto(c, "running")
  /\ UNCHANGED <<dlq, answered, locals, faults, sound, resets, outside>>

\* The exception of a resume.
Thrown(c) ==
  \/ call[c] = "replay" /\ Catch(c)
  \/ call[c] # "replay" /\ Leave(c)

ResumeRefused(c) ==
  /\ At(c, "resume")
  /\ ~Acquirable(cur[c])
  /\ Thrown(c)
  /\ UNCHANGED <<jobVars, dlq, answered, faults, sound, resets, outside>>

\* The store fails before the lease is taken, or after it is, on the index:
\* the lease is then on the record with nobody to release it.
ResumeThrows(c) ==
  /\ At(c, "resume")
  /\ Acquirable(cur[c])
  /\ Strike("throw")
  /\ \/ UNCHANGED jobVars
     \/ SetJob(cur[c], status[cur[c]], c)
  /\ Thrown(c)
  /\ UNCHANGED <<dlq, answered, sound, resets, outside>>

MarkOf(st) == IF st = "failed" THEN "queued" ELSE "replayed"

Ran(c) == outside' = IF call[c] = "replay" THEN outside ELSE outside \cup {cur[c]}

\* The job ends or pauses and its lease is given back.
RunEnd(c, st) ==
  /\ At(c, "running")
  /\ runner[cur[c]] = c
  /\ SetJob(cur[c], st, NoCaller)
  /\ \/ /\ call[c] = "replay"
        /\ mark' = [mark EXCEPT ![c] = MarkOf(st)]
        /\ Goto(c, "mark")
        /\ UNCHANGED <<call, key, todo, cur, caught>>
     \/ call[c] # "replay" /\ Leave(c)
  /\ Ran(c)
  /\ UNCHANGED <<dlq, answered, faults, sound, resets>>

\* The lease was lost, so the next checkpoint is refused.
RunLost(c) ==
  /\ At(c, "running")
  /\ runner[cur[c]] # c
  /\ Thrown(c)
  /\ UNCHANGED <<jobVars, dlq, answered, faults, sound, resets, outside>>

\* The store fails on a checkpoint, before or after the record is written.
RunThrows(c, st) ==
  /\ At(c, "running")
  /\ runner[cur[c]] = c
  /\ Strike("throw")
  /\ SetJob(cur[c], st, NoCaller)
  /\ Thrown(c)
  /\ Ran(c)
  /\ UNCHANGED <<dlq, answered, sound, resets>>

----------------------------------------------------------------------------
(* Writing an entry: astJobsWriteDlqEntry, two writes under the lock.      *)

LockFreeBug(c) == TRUE
LockFree(c) == lock \in {NoCaller, c}

\* The entry is written.
Mark(c) ==
  /\ At(c, "mark")
  /\ LockFree(c)
  /\ lock' = c
  /\ entry' = [entry EXCEPT ![cur[c]] = mark[c]]
  /\ sound' = sound \ {cur[c]}
  /\ Goto(c, "markIndex")
  /\ UNCHANGED <<jobVars, index, rank, answered, locals, faults, resets, outside>>

\* A replay goes on to its next entry.
Written(c) ==
  \/ /\ call[c] = "replay"
     /\ cur' = [cur EXCEPT ![c] = NoJob]
     /\ mark' = [mark EXCEPT ![c] = "none"]
     /\ caught' = [caught EXCEPT ![c] = FALSE]
     /\ Goto(c, "item")
     /\ UNCHANGED <<call, key, todo>>
  \/ call[c] # "replay" /\ Leave(c)

MarkIndex(c) ==
  /\ At(c, "markIndex")
  /\ index' = [index EXCEPT ![cur[c]] = mark[c]]
  /\ lock' = NoCaller
  /\ sound' = sound \cup {cur[c]}
  /\ Written(c)
  /\ UNCHANGED <<jobVars, entry, rank, answered, faults, resets, outside>>

\* The lock is not to be had, or a write fails.  In the catch block that is
\* ignored; before it, it leads there.
MarkThrows(c) ==
  /\ pc[c] \in {"mark", "markIndex"}
  /\ Strike("throw")
  /\ lock' = IF At(c, "markIndex") THEN NoCaller ELSE lock
  /\ \/ call[c] = "replay" /\ ~caught[c] /\ Catch(c)
     \/ (call[c] = "replay" => caught[c]) /\ Written(c)
  /\ UNCHANGED <<jobVars, entry, index, rank, answered, sound, resets, outside>>

\* The result is stored under the idempotency key, if one was given.
ItemsDone(c) ==
  /\ At(c, "item")
  /\ todo[c] = {}
  /\ \/ key[c] # NoKey /\ Goto(c, "answer") /\ UNCHANGED locals
     \/ key[c] = NoKey /\ Leave(c)
  /\ UNCHANGED <<jobVars, dlq, answered, faults, sound, resets, outside>>

Forget(c) == resets' = {r \in resets : r[1] # key[c]}

Answer(c) ==
  /\ At(c, "answer")
  /\ \/ answered' = answered \cup {key[c]} /\ UNCHANGED <<faults, resets, outside>>
     \/ Strike("throw") /\ Forget(c) /\ UNCHANGED answered
  /\ Leave(c)
  /\ UNCHANGED <<jobVars, dlq, sound, outside>>

----------------------------------------------------------------------------
(* The other calls.                                                        *)

\* astJobsMoveToDlq: the job has failed when it is read.  An entry there is
\* already keeps its movedAt; a new one is the newest.
MoveBegin(c, j) ==
  /\ At(c, "idle")
  /\ "move" \in Calls
  /\ status[j] = "failed"
  /\ call' = [call EXCEPT ![c] = "move"]
  /\ cur' = [cur EXCEPT ![c] = j]
  /\ mark' = [mark EXCEPT ![c] = "queued"]
  /\ rank' = IF entry[j] # "none" THEN rank
             ELSE [i \in Jobs |-> IF i = j THEN 1
                                 ELSE IF rank[i] < rank[j] THEN rank[i] + 1 ELSE rank[i]]
  /\ Goto(c, "mark")
  /\ UNCHANGED <<jobVars, entry, index, lock, answered, key, todo, caught, faults,
                 sound, resets, outside>>

\* astJobsPurgeDlq lists the entries of a state, or all, without the lock ...
PurgeBegin(c, filter) ==
  /\ At(c, "idle")
  /\ "purge" \in Calls
  /\ Listed(filter) # {}
  /\ call' = [call EXCEPT ![c] = "purge"]
  /\ mark' = [mark EXCEPT ![c] = filter]
  /\ todo' = [todo EXCEPT ![c] = Listed(filter)]
  /\ Goto(c, "purge")
  /\ UNCHANGED <<jobVars, dlq, answered, key, cur, caught, faults, sound, resets, outside>>

\* ... and deletes them under it, whatever they have become.
PurgeDelete(c, j) ==
  /\ At(c, "purge")
  /\ LockFree(c)
  /\ j \in todo[c]
  /\ lock' = c
  /\ cur' = [cur EXCEPT ![c] = j]
  /\ todo' = [todo EXCEPT ![c] = @ \ {j}]
  /\ entry' = [entry EXCEPT ![j] = "none"]
  /\ sound' = sound \ {j}
  /\ Goto(c, "unindex")
  /\ UNCHANGED <<jobVars, index, rank, answered, call, key, mark, caught, faults, resets, outside>>

PurgeUnindex(c) ==
  /\ At(c, "unindex")
  /\ index' = [index EXCEPT ![cur[c]] = "none"]
  /\ sound' = sound \cup {cur[c]}
  /\ \/ /\ todo[c] # {}
        /\ Goto(c, "purge")
        /\ UNCHANGED <<lock, locals>>
     \/ /\ todo[c] = {}
        /\ lock' = NoCaller
        /\ Leave(c)
  /\ UNCHANGED <<jobVars, entry, rank, answered, faults, resets, outside>>

PurgeThrows(c) ==
  /\ pc[c] \in {"purge", "unindex"}
  /\ Strike("throw")
  /\ lock' = IF lock = c THEN NoCaller ELSE lock
  /\ Leave(c)
  /\ UNCHANGED <<jobVars, entry, index, rank, answered, sound, resets, outside>>

\* astJobsResume called from elsewhere.
OtherResume(c, j) ==
  /\ At(c, "idle")
  /\ "resume" \in Calls
  /\ Acquirable(j)
  /\ call' = [call EXCEPT ![c] = "resume"]
  /\ cur' = [cur EXCEPT ![c] = j]
  /\ Goto(c, "resume")
  /\ UNCHANGED <<jobVars, dlq, answered, key, todo, mark, caught, faults, sound, resets, outside>>

\* astJobsCancel.
Cancel(j) ==
  /\ "cancel" \in Calls
  /\ status[j] \in {"queued", "paused", "failed"}
  /\ SetJob(j, "canceled", runner[j])
  /\ UNCHANGED <<dlq, answered, pc, locals, faults, sound, resets, outside>>

----------------------------------------------------------------------------
(* Faults.                                                                 *)

\* The execution is killed and its script lock released.  Its lease stays on
\* the job until it expires.
Crash(c) ==
  /\ ~At(c, "idle")
  /\ Strike("crash")
  /\ Leave(c)
  /\ lock' = IF lock = c THEN NoCaller ELSE lock
  /\ current' = current \ {c}
  /\ Forget(c)
  /\ UNCHANGED <<status, runner, entry, index, rank, answered, sound, outside>>

\* A lease expires.  That it does under a run is a fault.
LeaseRunsOut(j) ==
  /\ runner[j] # NoCaller
  /\ IF At(runner[j], "running") /\ cur[runner[j]] = j
     THEN Strike("slow") ELSE UNCHANGED faults
  /\ runner' = [runner EXCEPT ![j] = NoCaller]
  /\ UNCHANGED <<status, current, dlq, answered, pc, locals, sound, resets, outside>>

ReplayStep(c) ==
  \/ \E k \in Keys \cup {NoKey} : ReplayBegin(c, k) \/ ReplayCached(c, k)
  \/ Select(c)
  \/ \E j \in Jobs : NextItem(c, j) \/ NextItemThrows(c, j)
  \/ Reset(c)
  \/ ResetRefused(c)
  \/ ResetThrows(c)
  \/ ResumeBegin(c)
  \/ ResumeRefused(c)
  \/ ResumeThrows(c)
  \/ \E st \in Ended : RunEnd(c, st)
  \/ \E st \in Ended \cup {"running"} : RunThrows(c, st)
  \/ RunLost(c)
  \/ Mark(c)
  \/ MarkIndex(c)
  \/ ItemsDone(c)
  \/ Answer(c)

Next ==
  \/ \E c \in Callers :
       \/ ReplayStep(c)
       \/ MarkThrows(c)
       \/ \E j \in Jobs : MoveBegin(c, j) \/ OtherResume(c, j) \/ PurgeDelete(c, j)
       \/ \E filter \in Filters : PurgeBegin(c, filter)
       \/ PurgeUnindex(c)
       \/ PurgeThrows(c)
       \/ Crash(c)
  \/ \E j \in Jobs : Cancel(j) \/ LeaseRunsOut(j)

Spec == Init /\ [][Next]_vars

\* Replays are called for again and again, as from a time-driven trigger, and
\* Apps Script lets each of them run.
FairSpec == Spec /\ \A c \in Callers : WF_vars(ReplayStep(c))

----------------------------------------------------------------------------
(* What the queue promises.                                                *)

RecordsOK ==
  /\ status \in [Jobs -> JobStatus]
  /\ runner \in [Jobs -> Callers \cup {NoCaller}]
  /\ entry \in [Jobs -> EntryState]
  /\ index \in [Jobs -> EntryState]
  /\ rank \in [Jobs -> Nat]
  /\ lock \in Callers \cup {NoCaller}
  /\ answered \in SUBSET Keys
  /\ current \in SUBSET Callers
  /\ faults \in 0 .. MaxFaults
  /\ sound \in SUBSET Jobs
  /\ resets \in SUBSET (Keys \X Jobs)
  /\ outside \in SUBSET Jobs

LocalsOK ==
  /\ pc \in [Callers -> Points]
  /\ call \in [Callers -> CallKinds \cup {"none"}]
  /\ key \in [Callers -> Keys \cup {NoKey}]
  /\ todo \in [Callers -> SUBSET Jobs]
  /\ cur \in [Callers -> Jobs \cup {NoJob}]
  /\ mark \in [Callers -> EntryState \cup Filters]
  /\ caught \in [Callers -> BOOLEAN]

TypeOK == RecordsOK /\ LocalsOK

\* A replay starts a job over only while it is failed, though it read the job
\* earlier and another call may have replayed, resumed or canceled it since.
ResetOnlyFailed ==
  [][\A c \in Callers :
       At(c, "reset") /\ pc'[c] = "resume" => status[cur[c]] = "failed"]_vars

\* A job whose entry says replayed has not failed, unless somebody other than a
\* replay has run it: a replay that failed leaves, or finds, its entry queued.
ReplayedNotFailed ==
  \A j \in Jobs : entry[j] = "replayed" /\ status[j] = "failed" => j \in outside

\* Listings go by the index.  It agrees with an entry unless the write or the
\* delete of the entry was cut short.
EntryListable ==
  \A j \in sound : index[j] = entry[j]

\* A caller that repeats a replay with its idempotency key starts no job over a
\* second time, however often the job has failed since, unless the earlier call
\* ended before it could store its result.
KeyedOnce ==
  [][\A c \in Callers :
       At(c, "reset") /\ pc'[c] = "resume" => <<key[c], cur[c]>> \notin resets]_vars

\* A failed job with a queued entry is replayed in the end.
Drains ==
  \A j \in Jobs :
    status[j] = "failed" /\ entry[j] = "queued" ~> status[j] # "failed"

----------------------------------------------------------------------------
(* The inductive invariant of the proofs.                                  *)

\* Where a caller deals with a job it knows which, and what to write.
Placed(c) ==
  /\ pc[c] \in {"reset", "resume", "running", "mark", "markIndex", "unindex"} => cur[c] \in Jobs
  /\ pc[c] \in {"mark", "markIndex"} => mark[c] \in {"queued", "replayed"}
  /\ pc[c] = "mark" /\ call[c] # "replay" => mark[c] = "queued"
  /\ pc[c] = "answer" => key[c] \in Keys

\* Between its two writes a caller has the lock, and nobody undoes the first.
Writing(c) ==
  /\ pc[c] \in {"markIndex", "unindex"} => lock = c
  /\ pc[c] = "markIndex" => entry[cur[c]] = mark[c]
  /\ pc[c] = "unindex" => entry[cur[c]] = "none"

\* A copy of a job that is still the latest is of a failed one.
CopyFailed(c) ==
  c \in current => pc[c] = "reset" /\ status[cur[c]] = "failed"

\* The replay c has started j over and not yet failed with it.
Replaying(c, j) ==
  /\ call[c] = "replay" /\ cur[c] = j
  /\ pc[c] \in {"resume", "running"} \/ (pc[c] = "mark" /\ mark[c] = "replayed")

\* Only one replay at a time has a job in hand; until it is done with it, the
\* job has not failed, and its entry does not say that it was replayed.
OneReplay(j) ==
  /\ \A c \in Callers : Replaying(c, j) => status[j] # "failed" /\ entry[j] # "replayed"
  /\ \A c, d \in Callers : Replaying(c, j) /\ Replaying(d, j) => c = d

IInv ==
  /\ TypeOK
  /\ EntryListable
  /\ ReplayedNotFailed
  /\ \A c \in Callers : Placed(c) /\ Writing(c) /\ CopyFailed(c)
  /\ \A j \in Jobs \ outside : OneReplay(j)

=============================================================================
