-------------------------- MODULE JobsDlqProofs --------------------------
(***************************************************************************)
(* Proofs about JobsDlq, for any number of callers, jobs, keys and faults  *)
(* and any batch width: the safety properties of dlq_safety, and KeyedOnce *)
(* of callers that share no idempotency key.                               *)
(***************************************************************************)
EXTENDS JobsDlq, FiniteSetTheorems, TLAPS

\* The helpers that end a step of a call keep its variables typed.
LEMMA LeaveLocals ==
  ASSUME LocalsOK, NEW c \in Callers, Leave(c)
  PROVE  LocalsOK'
  BY DEF LocalsOK, Leave, Goto, Points, EntryState

LEMMA CatchLocals ==
  ASSUME LocalsOK, NEW c \in Callers, Catch(c)
  PROVE  LocalsOK'
  BY DEF LocalsOK, Catch, Goto, Points, EntryState

LEMMA ThrownLocals ==
  ASSUME LocalsOK, NEW c \in Callers, Thrown(c)
  PROVE  LocalsOK'
  BY LeaveLocals, CatchLocals DEF Thrown

LEMMA WrittenLocals ==
  ASSUME LocalsOK, NEW c \in Callers, Written(c)
  PROVE  LocalsOK'
<1>1. CASE Leave(c)
  BY <1>1, LeaveLocals
<1>2. CASE ~Leave(c)
  BY <1>2 DEF LocalsOK, Written, Goto, Points, EntryState
<1> QED BY <1>1, <1>2

----------------------------------------------------------------------------
(* Each action preserves the parts of the inductive invariant.             *)

LEMMA ReplayBeginStep ==
  ASSUME IInv, NEW c \in Callers, NEW k \in Keys \cup {NoKey}, ReplayBegin(c, k)
  PROVE  IInv'
<1>1. RecordsOK'
  BY DEF IInv, ReplayBegin, TypeOK, RecordsOK, jobVars, dlq
<1>2. LocalsOK'
  BY DEF IInv, ReplayBegin, TypeOK, LocalsOK, Goto, Points, CallKinds
<1>3. EntryListable'
  BY DEF IInv, ReplayBegin, EntryListable, dlq
<1>4. ReplayedNotFailed'
  BY DEF IInv, ReplayBegin, ReplayedNotFailed, jobVars, dlq
<1>5. (\A d \in Callers : Placed(d))'
  BY DEF IInv, ReplayBegin, Placed, At, Goto
<1>6. (\A d \in Callers : Writing(d))'
  BY DEF IInv, ReplayBegin, Writing, Goto, dlq
<1>7. (\A d \in Callers : CopyFailed(d))'
  BY DEF IInv, ReplayBegin, CopyFailed, At, Goto, jobVars
<1>8. (\A i \in Jobs \ outside : OneReplay(i))'
  BY DEF IInv, ReplayBegin, OneReplay, Replaying, At, Goto, jobVars, dlq
<1> QED BY <1>1, <1>2, <1>3, <1>4, <1>5, <1>6, <1>7, <1>8 DEF IInv, TypeOK

LEMMA SelectStep ==
  ASSUME IInv, NEW c \in Callers, Select(c)
  PROVE  IInv'
<1>1. RecordsOK'
  BY DEF IInv, Select, TypeOK, RecordsOK, jobVars, dlq
<1>2. LocalsOK'
  BY DEF IInv, Select, TypeOK, LocalsOK, Batch, Goto, Points, Listed
<1>3. EntryListable'
  BY DEF IInv, Select, EntryListable, dlq
<1>4. ReplayedNotFailed'
  BY DEF IInv, Select, ReplayedNotFailed, jobVars, dlq
<1>5. (\A d \in Callers : Placed(d))'
  BY DEF IInv, Select, Placed, Goto
<1>6. (\A d \in Callers : Writing(d))'
  BY DEF IInv, Select, Writing, Goto, dlq
<1>7. (\A d \in Callers : CopyFailed(d))'
  BY DEF IInv, Select, CopyFailed, At, Goto, jobVars
<1>8. (\A i \in Jobs \ outside : OneReplay(i))'
  BY DEF IInv, Select, OneReplay, Replaying, Goto, jobVars, dlq
<1> QED BY <1>1, <1>2, <1>3, <1>4, <1>5, <1>6, <1>7, <1>8 DEF IInv, TypeOK

LEMMA NextItemStep ==
  ASSUME IInv, NEW c \in Callers, NEW j \in Jobs, NextItem(c, j)
  PROVE  IInv'
<1>1. RecordsOK'
  BY DEF IInv, NextItem, TypeOK, RecordsOK, dlq
<1>2. LocalsOK'
  <2>1. todo[c] \ {j} \in SUBSET Jobs
    BY DEF IInv, TypeOK, LocalsOK
  <2>2. todo' = [todo EXCEPT ![c] = todo[c] \ {j}]
    BY DEF NextItem, Rest
  <2>3. todo' \in [Callers -> SUBSET Jobs]
    BY <2>1, <2>2 DEF IInv, TypeOK, LocalsOK
  <2>4. pc' \in [Callers -> Points]
    BY DEF IInv, NextItem, TypeOK, LocalsOK, Goto, Points
  <2>5. cur' \in [Callers -> Jobs \cup {NoJob}] /\ caught' \in [Callers -> BOOLEAN]
    BY DEF IInv, NextItem, TypeOK, LocalsOK
  <2> QED BY <2>3, <2>4, <2>5 DEF IInv, NextItem, TypeOK, LocalsOK
<1>3. EntryListable'
  BY DEF IInv, NextItem, EntryListable, dlq
<1>4. ReplayedNotFailed'
  BY DEF IInv, NextItem, ReplayedNotFailed, dlq
<1>5. (\A d \in Callers : Placed(d))'
  BY DEF IInv, NextItem, TypeOK, LocalsOK, Placed, Goto
<1>6. (\A d \in Callers : Writing(d))'
  BY DEF IInv, NextItem, TypeOK, LocalsOK, Writing, Goto, dlq
<1>7. (\A d \in Callers : CopyFailed(d))'
  BY DEF IInv, NextItem, TypeOK, LocalsOK, CopyFailed, Goto
<1>8. (\A i \in Jobs \ outside : OneReplay(i))'
  BY DEF IInv, NextItem, TypeOK, LocalsOK, CopyFailed, OneReplay, Replaying, Goto, Rest,
        dlq, JobStatus
<1> QED BY <1>1, <1>2, <1>3, <1>4, <1>5, <1>6, <1>7, <1>8 DEF IInv, TypeOK

LEMMA NextItemThrowsStep ==
  ASSUME IInv, NEW c \in Callers, NEW j \in Jobs, NextItemThrows(c, j)
  PROVE  IInv'
<1>1. RecordsOK'
  BY JobsDlqAssumption DEF IInv, NextItemThrows, TypeOK, RecordsOK, Strike, jobVars, dlq
<1>2. LocalsOK'
  <2>1. todo' \in [Callers -> SUBSET Jobs]
    BY DEF IInv, NextItemThrows, TypeOK, LocalsOK
  <2>2. cur' \in [Callers -> Jobs \cup {NoJob}] /\ caught' \in [Callers -> BOOLEAN]
    BY DEF IInv, NextItemThrows, TypeOK, LocalsOK
  <2>3. pc' \in [Callers -> Points] /\ mark' \in [Callers -> EntryState \cup Filters]
    BY DEF IInv, NextItemThrows, TypeOK, LocalsOK, Goto, Points, EntryState
  <2> QED BY <2>1, <2>2, <2>3 DEF IInv, NextItemThrows, TypeOK, LocalsOK
<1>3. EntryListable'
  BY DEF IInv, NextItemThrows, EntryListable, dlq
<1>4. ReplayedNotFailed'
  BY DEF IInv, NextItemThrows, ReplayedNotFailed, jobVars, dlq
<1>5. (\A d \in Callers : Placed(d))'
  BY DEF IInv, NextItemThrows, TypeOK, LocalsOK, Placed, Goto
<1>6. (\A d \in Callers : Writing(d))'
  BY DEF IInv, NextItemThrows, TypeOK, LocalsOK, Writing, Goto, dlq
<1>7. (\A d \in Callers : CopyFailed(d))'
  BY DEF IInv, NextItemThrows, TypeOK, LocalsOK, CopyFailed, At, Goto, jobVars
<1>8. (\A i \in Jobs \ outside : OneReplay(i))'
  <2> SUFFICES ASSUME NEW i \in (Jobs \ outside)' PROVE OneReplay(i)'
    OBVIOUS
  <2>1. ASSUME NEW d \in Callers, Replaying(d, i)' PROVE d # c /\ Replaying(d, i)
    BY <2>1 DEF IInv, NextItemThrows, TypeOK, LocalsOK, Replaying, Goto
  <2>2. i \in Jobs \ outside /\ OneReplay(i)
    BY DEF IInv, NextItemThrows
  <2>3. ASSUME NEW d \in Callers, d # c, Replaying(d, i)
        PROVE  status'[i] # "failed" /\ entry'[i] # "replayed"
    BY <2>2, <2>3 DEF IInv, NextItemThrows, OneReplay, jobVars, dlq
  <2> QED BY <2>1, <2>2, <2>3 DEF OneReplay
<1> QED BY <1>1, <1>2, <1>3, <1>4, <1>5, <1>6, <1>7, <1>8 DEF IInv, TypeOK

LEMMA ResetStep ==
  ASSUME IInv, NEW c \in Callers, Reset(c)
  PROVE  IInv'
<1>1. RecordsOK'
  BY DEF IInv, Reset, TypeOK, RecordsOK, LocalsOK, Placed, At, SetJob, dlq, JobStatus
<1>2. LocalsOK'
  BY DEF IInv, Reset, TypeOK, LocalsOK, Goto, locals, Points
<1>3. EntryListable'
  BY DEF IInv, Reset, EntryListable, dlq
<1>4. ReplayedNotFailed'
  BY DEF IInv, Reset, ReplayedNotFailed, SetJob, dlq
<1>5. (\A d \in Callers : Placed(d))'
  BY DEF IInv, Reset, Placed, At, Goto, locals
<1>6. (\A d \in Callers : Writing(d))'
  BY DEF IInv, Reset, Writing, Goto, dlq, locals
<1>7. (\A d \in Callers : CopyFailed(d))'
  BY DEF IInv, Reset, CopyFailed, SetJob, Goto, locals
<1>8. (\A i \in Jobs \ outside : OneReplay(i))'
  BY DEF IInv, Reset, TypeOK, RecordsOK, CopyFailed, OneReplay, ReplayedNotFailed,
        Replaying, VersionMatches, SetJob, Goto, dlq, locals
<1> QED BY <1>1, <1>2, <1>3, <1>4, <1>5, <1>6, <1>7, <1>8 DEF IInv, TypeOK

LEMMA ResetRefusedStep ==
  ASSUME IInv, NEW c \in Callers, ResetRefused(c)
  PROVE  IInv'
<1>1. RecordsOK'
  BY JobsDlqAssumption DEF IInv, ResetRefused, TypeOK, RecordsOK, Strike, dlq
<1>2. LocalsOK'
  BY CatchLocals DEF IInv, ResetRefused, TypeOK
<1>3. EntryListable'
  BY DEF IInv, ResetRefused, EntryListable, dlq
<1>4. ReplayedNotFailed'
  BY DEF IInv, ResetRefused, ReplayedNotFailed, dlq
<1>5. (\A d \in Callers : Placed(d))'
  BY DEF IInv, ResetRefused, TypeOK, LocalsOK, Placed, At, Catch, Goto
<1>6. (\A d \in Callers : Writing(d))'
  BY DEF IInv, ResetRefused, Writing, At, Catch, dlq, Goto
<1>7. (\A d \in Callers : CopyFailed(d))'
  BY DEF IInv, ResetRefused, CopyFailed, Catch, Goto
<1>8. (\A i \in Jobs \ outside : OneReplay(i))'
  <2> SUFFICES ASSUME NEW i \in (Jobs \ outside)' PROVE OneReplay(i)'
    OBVIOUS
  <2>1. ASSUME NEW d \in Callers, Replaying(d, i)' PROVE d # c /\ Replaying(d, i)
    BY <2>1 DEF IInv, ResetRefused, TypeOK, LocalsOK, Replaying, Catch, Goto
  <2>2. i \in Jobs \ outside /\ OneReplay(i)
    BY DEF IInv, ResetRefused
  <2>3. ASSUME NEW d \in Callers, d # c, Replaying(d, i)
        PROVE  status'[i] # "failed" /\ entry'[i] # "replayed"
    BY <2>2, <2>3 DEF IInv, ResetRefused, OneReplay, dlq
  <2> QED BY <2>1, <2>2, <2>3 DEF OneReplay
<1> QED BY <1>1, <1>2, <1>3, <1>4, <1>5, <1>6, <1>7, <1>8 DEF IInv, TypeOK

LEMMA ResetThrowsStep ==
  ASSUME IInv, NEW c \in Callers, ResetThrows(c)
  PROVE  IInv'
<1>1. RecordsOK'
  BY JobsDlqAssumption DEF IInv, ResetThrows, TypeOK, RecordsOK, Placed, At, Strike, SetJob,
        dlq, JobStatus
<1>2. LocalsOK'
  BY CatchLocals DEF IInv, ResetThrows, TypeOK
<1>3. EntryListable'
  BY DEF IInv, ResetThrows, EntryListable, dlq
<1>4. ReplayedNotFailed'
  BY DEF IInv, ResetThrows, ReplayedNotFailed, SetJob, dlq
<1>5. (\A d \in Callers : Placed(d))'
  BY DEF IInv, ResetThrows, TypeOK, LocalsOK, Placed, At, Catch, Goto
<1>6. (\A d \in Callers : Writing(d))'
  BY DEF IInv, ResetThrows, Writing, At, Catch, dlq, Goto
<1>7. (\A d \in Callers : CopyFailed(d))'
  BY DEF IInv, ResetThrows, CopyFailed, SetJob, Catch, Goto
<1>8. (\A i \in Jobs \ outside : OneReplay(i))'
  <2> SUFFICES ASSUME NEW i \in (Jobs \ outside)' PROVE OneReplay(i)'
    OBVIOUS
  <2>1. ASSUME NEW d \in Callers, Replaying(d, i)' PROVE d # c /\ Replaying(d, i)
    BY <2>1 DEF IInv, ResetThrows, TypeOK, LocalsOK, Replaying, Catch, Goto
  <2>2. i \in Jobs \ outside /\ OneReplay(i)
    BY DEF IInv, ResetThrows
  <2>3. ASSUME NEW d \in Callers, d # c, Replaying(d, i)
        PROVE  status'[i] # "failed" /\ entry'[i] # "replayed"
    BY <2>2, <2>3 DEF IInv, ResetThrows, OneReplay, SetJob, dlq
  <2> QED BY <2>1, <2>2, <2>3 DEF OneReplay
<1> QED BY <1>1, <1>2, <1>3, <1>4, <1>5, <1>6, <1>7, <1>8 DEF IInv, TypeOK

LEMMA ResumeBeginStep ==
  ASSUME IInv, NEW c \in Callers, ResumeBegin(c)
  PROVE  IInv'
<1>1. RecordsOK'
  BY DEF IInv, ResumeBegin, TypeOK, RecordsOK, Placed, At, SetJob, dlq, JobStatus
<1>2. LocalsOK'
  BY DEF IInv, ResumeBegin, TypeOK, LocalsOK, Goto, locals, Points
<1>3. EntryListable'
  BY DEF IInv, ResumeBegin, EntryListable, dlq
<1>4. ReplayedNotFailed'
  BY DEF IInv, ResumeBegin, ReplayedNotFailed, SetJob, dlq
<1>5. (\A d \in Callers : Placed(d))'
  BY DEF IInv, ResumeBegin, Placed, At, Goto, locals
<1>6. (\A d \in Callers : Writing(d))'
  BY DEF IInv, ResumeBegin, Writing, Goto, dlq, locals
<1>7. (\A d \in Callers : CopyFailed(d))'
  BY DEF IInv, ResumeBegin, CopyFailed, SetJob, Goto, locals
<1>8. (\A i \in Jobs \ outside : OneReplay(i))'
  BY DEF IInv, ResumeBegin, OneReplay, Replaying, At, SetJob, Goto, dlq, locals
<1> QED BY <1>1, <1>2, <1>3, <1>4, <1>5, <1>6, <1>7, <1>8 DEF IInv, TypeOK

LEMMA ResumeRefusedStep ==
  ASSUME IInv, NEW c \in Callers, ResumeRefused(c)
  PROVE  IInv'
<1>1. RecordsOK'
  BY DEF IInv, ResumeRefused, TypeOK, RecordsOK, jobVars, dlq
<1>2. LocalsOK'
  BY ThrownLocals DEF IInv, ResumeRefused, TypeOK
<1>3. EntryListable'
  BY DEF IInv, ResumeRefused, EntryListable, dlq
<1>4. ReplayedNotFailed'
  BY DEF IInv, ResumeRefused, ReplayedNotFailed, jobVars, dlq
<1>5. (\A d \in Callers : Placed(d))'
  BY DEF IInv, ResumeRefused, TypeOK, LocalsOK, Placed, At, Thrown, Catch, Leave, Goto
<1>6. (\A d \in Callers : Writing(d))'
  BY DEF IInv, ResumeRefused, TypeOK, LocalsOK, Writing, Thrown, dlq, Catch, Leave, Goto
<1>7. (\A d \in Callers : CopyFailed(d))'
  BY DEF IInv, ResumeRefused, TypeOK, LocalsOK, CopyFailed, At, Thrown, jobVars, Catch,
        Leave, Goto
<1>8. (\A i \in Jobs \ outside : OneReplay(i))'
  <2> SUFFICES ASSUME NEW i \in (Jobs \ outside)' PROVE OneReplay(i)'
    OBVIOUS
  <2>1. ASSUME NEW d \in Callers, Replaying(d, i)' PROVE d # c /\ Replaying(d, i)
    BY <2>1 DEF IInv, ResumeRefused, TypeOK, LocalsOK, Replaying, Thrown, Catch, Leave, Goto
  <2>2. i \in Jobs \ outside /\ OneReplay(i)
    BY DEF IInv, ResumeRefused
  <2>3. ASSUME NEW d \in Callers, d # c, Replaying(d, i)
        PROVE  status'[i] # "failed" /\ entry'[i] # "replayed"
    BY <2>2, <2>3 DEF IInv, ResumeRefused, OneReplay, jobVars, dlq
  <2> QED BY <2>1, <2>2, <2>3 DEF OneReplay
<1> QED BY <1>1, <1>2, <1>3, <1>4, <1>5, <1>6, <1>7, <1>8 DEF IInv, TypeOK

LEMMA ResumeThrowsStep ==
  ASSUME IInv, NEW c \in Callers, ResumeThrows(c)
  PROVE  IInv'
<1>1. RecordsOK'
  BY JobsDlqAssumption DEF IInv, ResumeThrows, TypeOK, RecordsOK, Strike, jobVars, SetJob,
        dlq
<1>2. LocalsOK'
  BY ThrownLocals DEF IInv, ResumeThrows, TypeOK
<1>3. EntryListable'
  BY DEF IInv, ResumeThrows, EntryListable, dlq
<1>4. ReplayedNotFailed'
  BY DEF IInv, ResumeThrows, TypeOK, RecordsOK, ReplayedNotFailed, jobVars, SetJob, dlq
<1>5. (\A d \in Callers : Placed(d))'
  BY DEF IInv, ResumeThrows, TypeOK, LocalsOK, Placed, At, Thrown, Catch, Leave, Goto
<1>6. (\A d \in Callers : Writing(d))'
  BY DEF IInv, ResumeThrows, TypeOK, LocalsOK, Writing, Thrown, dlq, Catch, Leave, Goto
<1>7. (\A d \in Callers : CopyFailed(d))'
  BY DEF IInv, ResumeThrows, TypeOK, RecordsOK, LocalsOK, CopyFailed, At, jobVars, SetJob,
        Thrown, Catch, Leave, Goto
<1>8. (\A i \in Jobs \ outside : OneReplay(i))'
  <2> SUFFICES ASSUME NEW i \in (Jobs \ outside)' PROVE OneReplay(i)'
    OBVIOUS
  <2>1. ASSUME NEW d \in Callers, Replaying(d, i)' PROVE d # c /\ Replaying(d, i)
    BY <2>1 DEF IInv, ResumeThrows, TypeOK, LocalsOK, Replaying, Thrown, Catch, Leave, Goto
  <2>2. i \in Jobs \ outside /\ OneReplay(i)
    BY DEF IInv, ResumeThrows
  <2>3. ASSUME NEW d \in Callers, d # c, Replaying(d, i)
        PROVE  status'[i] # "failed" /\ entry'[i] # "replayed"
    BY <2>2, <2>3 DEF IInv, ResumeThrows, TypeOK, RecordsOK, OneReplay, jobVars, SetJob, dlq
  <2> QED BY <2>1, <2>2, <2>3 DEF OneReplay
<1> QED BY <1>1, <1>2, <1>3, <1>4, <1>5, <1>6, <1>7, <1>8 DEF IInv, TypeOK

LEMMA RunEndStep ==
  ASSUME IInv, NEW c \in Callers, NEW st \in Ended, RunEnd(c, st)
  PROVE  IInv'
<1>1. RecordsOK'
  <2>1. cur[c] \in Jobs /\ st \in JobStatus
    BY DEF IInv, Placed, At, RunEnd, JobStatus, Ended
  <2>2. status' \in [Jobs -> JobStatus]
    BY <2>1 DEF IInv, TypeOK, RecordsOK, RunEnd, SetJob
  <2>3. outside' \in SUBSET Jobs
    BY <2>1 DEF IInv, TypeOK, RecordsOK, RunEnd, Ran
  <2> QED BY <2>2, <2>3 DEF IInv, RunEnd, TypeOK, RecordsOK, SetJob, dlq
<1>2. LocalsOK'
  BY LeaveLocals DEF IInv, RunEnd, TypeOK, LocalsOK, MarkOf, Goto, EntryState, Points
<1>3. EntryListable'
  BY DEF IInv, RunEnd, EntryListable, dlq
<1>4. ReplayedNotFailed'
  BY DEF IInv, RunEnd, OneReplay, ReplayedNotFailed, Replaying, At, SetJob, Ran, dlq
<1>5. (\A d \in Callers : Placed(d))'
  BY DEF IInv, RunEnd, TypeOK, LocalsOK, Placed, At, MarkOf, Goto, Leave
<1>6. (\A d \in Callers : Writing(d))'
  BY DEF IInv, RunEnd, TypeOK, LocalsOK, Writing, Goto, Leave, dlq
<1>7. (\A d \in Callers : CopyFailed(d))'
  BY DEF IInv, RunEnd, TypeOK, LocalsOK, CopyFailed, SetJob, Goto, Leave
<1>8. (\A i \in Jobs \ outside : OneReplay(i))'
  <2> SUFFICES ASSUME NEW i \in (Jobs \ outside)' PROVE OneReplay(i)'
    OBVIOUS
  <2>1. ASSUME NEW d \in Callers, Replaying(d, i)'
        PROVE  Replaying(d, i) /\ (d = c => st # "failed")
    BY <2>1 DEF IInv, RunEnd, TypeOK, LocalsOK, Replaying, At, MarkOf, Leave, Goto
  <2>2. i \in Jobs \ outside /\ OneReplay(i) /\ (cur[c] = i => Replaying(c, i))
    BY DEF IInv, RunEnd, Ran, Replaying, At
  <2>3. ASSUME NEW d \in Callers, Replaying(d, i), d = c => st # "failed"
        PROVE  status'[i] # "failed" /\ entry'[i] # "replayed"
    <3>1. cur[c] = i => d = c
      BY <2>2, <2>3 DEF OneReplay
    <3>2. status'[i] = IF cur[c] = i THEN st ELSE status[i]
      BY <2>2 DEF IInv, TypeOK, RecordsOK, RunEnd, SetJob
    <3> QED BY <2>2, <2>3, <3>1, <3>2 DEF OneReplay, RunEnd, dlq
  <2> QED BY <2>1, <2>2, <2>3 DEF OneReplay
<1> QED BY <1>1, <1>2, <1>3, <1>4, <1>5, <1>6, <1>7, <1>8 DEF IInv, TypeOK

LEMMA RunThrowsStep ==
  ASSUME IInv, NEW c \in Callers, NEW st \in Ended \cup {"running"}, RunThrows(c, st)
  PROVE  IInv'
<1>1. RecordsOK'
  <2>1. cur[c] \in Jobs /\ st \in JobStatus
    BY DEF IInv, Placed, At, RunThrows, JobStatus, Ended
  <2>2. status' \in [Jobs -> JobStatus]
    BY <2>1 DEF IInv, TypeOK, RecordsOK, RunThrows, SetJob
  <2>3. outside' \in SUBSET Jobs
    BY <2>1 DEF IInv, TypeOK, RecordsOK, RunThrows, Ran
  <2> QED BY <2>2, <2>3, JobsDlqAssumption DEF IInv, RunThrows, TypeOK, RecordsOK, Strike,
        SetJob, dlq
<1>2. LocalsOK'
  BY ThrownLocals DEF IInv, RunThrows, TypeOK
<1>3. EntryListable'
  BY DEF IInv, RunThrows, EntryListable, dlq
<1>4. ReplayedNotFailed'
  BY DEF IInv, RunThrows, OneReplay, ReplayedNotFailed, Replaying, At, SetJob, Ran, dlq
<1>5. (\A d \in Callers : Placed(d))'
  BY DEF IInv, RunThrows, TypeOK, LocalsOK, Placed, At, Thrown, Catch, Leave, Goto
<1>6. (\A d \in Callers : Writing(d))'
  BY DEF IInv, RunThrows, TypeOK, LocalsOK, Writing, Thrown, dlq, Catch, Leave, Goto
<1>7. (\A d \in Callers : CopyFailed(d))'
  BY DEF IInv, RunThrows, TypeOK, LocalsOK, CopyFailed, SetJob, Thrown, Catch, Leave, Goto
<1>8. (\A i \in Jobs \ outside : OneReplay(i))'
  <2> SUFFICES ASSUME NEW i \in (Jobs \ outside)' PROVE OneReplay(i)'
    OBVIOUS
  <2>1. ASSUME NEW d \in Callers, Replaying(d, i)' PROVE d # c /\ Replaying(d, i)
    BY <2>1 DEF IInv, RunThrows, TypeOK, LocalsOK, Replaying, Thrown, Catch, Leave, Goto
  <2>2. i \in Jobs \ outside /\ OneReplay(i)
    BY DEF IInv, RunThrows, Ran
  <2>3. ASSUME NEW d \in Callers, d # c, Replaying(d, i)
        PROVE  status'[i] # "failed" /\ entry'[i] # "replayed"
    BY <2>2, <2>3 DEF IInv, RunThrows, OneReplay, Replaying, At, SetJob, Ran, dlq
  <2> QED BY <2>1, <2>2, <2>3 DEF OneReplay
<1> QED BY <1>1, <1>2, <1>3, <1>4, <1>5, <1>6, <1>7, <1>8 DEF IInv, TypeOK

LEMMA RunLostStep ==
  ASSUME IInv, NEW c \in Callers, RunLost(c)
  PROVE  IInv'
<1>1. RecordsOK'
  BY DEF IInv, RunLost, TypeOK, RecordsOK, jobVars, dlq
<1>2. LocalsOK'
  BY ThrownLocals DEF IInv, RunLost, TypeOK
<1>3. EntryListable'
  BY DEF IInv, RunLost, EntryListable, dlq
<1>4. ReplayedNotFailed'
  BY DEF IInv, RunLost, ReplayedNotFailed, jobVars, dlq
<1>5. (\A d \in Callers : Placed(d))'
  BY DEF IInv, RunLost, TypeOK, LocalsOK, Placed, At, Thrown, Catch, Leave, Goto
<1>6. (\A d \in Callers : Writing(d))'
  BY DEF IInv, RunLost, TypeOK, LocalsOK, Writing, Thrown, dlq, Catch, Leave, Goto
<1>7. (\A d \in Callers : CopyFailed(d))'
  BY DEF IInv, RunLost, TypeOK, LocalsOK, CopyFailed, At, Thrown, jobVars, Catch, Leave,
        Goto
<1>8. (\A i \in Jobs \ outside : OneReplay(i))'
  <2> SUFFICES ASSUME NEW i \in (Jobs \ outside)' PROVE OneReplay(i)'
    OBVIOUS
  <2>1. ASSUME NEW d \in Callers, Replaying(d, i)' PROVE d # c /\ Replaying(d, i)
    BY <2>1 DEF IInv, RunLost, TypeOK, LocalsOK, Replaying, Thrown, Catch, Leave, Goto
  <2>2. i \in Jobs \ outside /\ OneReplay(i)
    BY DEF IInv, RunLost
  <2>3. ASSUME NEW d \in Callers, d # c, Replaying(d, i)
        PROVE  status'[i] # "failed" /\ entry'[i] # "replayed"
    BY <2>2, <2>3 DEF IInv, RunLost, OneReplay, jobVars, dlq
  <2> QED BY <2>1, <2>2, <2>3 DEF OneReplay
<1> QED BY <1>1, <1>2, <1>3, <1>4, <1>5, <1>6, <1>7, <1>8 DEF IInv, TypeOK

LEMMA MarkStep ==
  ASSUME IInv, NEW c \in Callers, Mark(c)
  PROVE  IInv'
<1>1. RecordsOK'
  BY DEF IInv, Mark, TypeOK, RecordsOK, Placed, At, jobVars, EntryState
<1>2. LocalsOK'
  BY DEF IInv, Mark, TypeOK, LocalsOK, Goto, locals, Points
<1>3. EntryListable'
  BY DEF IInv, Mark, EntryListable
<1>4. ReplayedNotFailed'
  BY DEF IInv, Mark, OneReplay, Placed, ReplayedNotFailed, Replaying, At, jobVars
<1>5. (\A d \in Callers : Placed(d))'
  BY DEF IInv, Mark, Placed, At, Goto, locals
<1>6. (\A d \in Callers : Writing(d))'
  BY JobsDlqAssumption DEF IInv, Mark, TypeOK, RecordsOK, Placed, Writing, At, LockFree,
        Goto, locals
<1>7. (\A d \in Callers : CopyFailed(d))'
  BY DEF IInv, Mark, CopyFailed, At, Goto, jobVars, locals
<1>8. (\A i \in Jobs \ outside : OneReplay(i))'
  <2> SUFFICES ASSUME NEW i \in (Jobs \ outside)' PROVE OneReplay(i)'
    OBVIOUS
  <2>1. ASSUME NEW d \in Callers, Replaying(d, i)' PROVE d # c /\ Replaying(d, i)
    BY <2>1 DEF IInv, Mark, TypeOK, LocalsOK, Replaying, Goto, locals
  <2>2. i \in Jobs \ outside /\ OneReplay(i)
    BY DEF IInv, Mark
  <2>3. ASSUME NEW d \in Callers, d # c, Replaying(d, i)
        PROVE  status'[i] # "failed" /\ entry'[i] # "replayed"
    BY <2>2, <2>3 DEF IInv, Mark, OneReplay, Placed, Replaying, At, jobVars
  <2> QED BY <2>1, <2>2, <2>3 DEF OneReplay
<1> QED BY <1>1, <1>2, <1>3, <1>4, <1>5, <1>6, <1>7, <1>8 DEF IInv, TypeOK

LEMMA MarkIndexStep ==
  ASSUME IInv, NEW c \in Callers, MarkIndex(c)
  PROVE  IInv'
<1>1. RecordsOK'
  BY DEF IInv, MarkIndex, TypeOK, RecordsOK, Placed, At, jobVars, EntryState
<1>2. LocalsOK'
  BY WrittenLocals DEF IInv, MarkIndex, TypeOK
<1>3. EntryListable'
  BY DEF IInv, MarkIndex, TypeOK, RecordsOK, EntryListable, Placed, Writing, At
<1>4. ReplayedNotFailed'
  BY DEF IInv, MarkIndex, ReplayedNotFailed, jobVars
<1>5. (\A d \in Callers : Placed(d))'
  BY DEF IInv, MarkIndex, TypeOK, LocalsOK, Placed, Written, Goto, Leave
<1>6. (\A d \in Callers : Writing(d))'
  BY DEF IInv, MarkIndex, TypeOK, LocalsOK, Writing, At, Written, Goto, Leave
<1>7. (\A d \in Callers : CopyFailed(d))'
  BY DEF IInv, MarkIndex, TypeOK, LocalsOK, CopyFailed, At, Written, jobVars, Goto, Leave
<1>8. (\A i \in Jobs \ outside : OneReplay(i))'
  <2> SUFFICES ASSUME NEW i \in (Jobs \ outside)' PROVE OneReplay(i)'
    OBVIOUS
  <2>1. ASSUME NEW d \in Callers, Replaying(d, i)' PROVE d # c /\ Replaying(d, i)
    BY <2>1 DEF IInv, MarkIndex, TypeOK, LocalsOK, Replaying, Written, Goto, Leave
  <2>2. i \in Jobs \ outside /\ OneReplay(i)
    BY DEF IInv, MarkIndex
  <2>3. ASSUME NEW d \in Callers, d # c, Replaying(d, i)
        PROVE  status'[i] # "failed" /\ entry'[i] # "replayed"
    BY <2>2, <2>3 DEF IInv, MarkIndex, OneReplay, jobVars
  <2> QED BY <2>1, <2>2, <2>3 DEF OneReplay
<1> QED BY <1>1, <1>2, <1>3, <1>4, <1>5, <1>6, <1>7, <1>8 DEF IInv, TypeOK

LEMMA ItemsDoneStep ==
  ASSUME IInv, NEW c \in Callers, ItemsDone(c)
  PROVE  IInv'
<1>1. RecordsOK'
  BY DEF IInv, ItemsDone, TypeOK, RecordsOK, jobVars, dlq
<1>2. LocalsOK'
  BY LeaveLocals DEF IInv, ItemsDone, TypeOK, LocalsOK, Goto, locals, Points
<1>3. EntryListable'
  BY DEF IInv, ItemsDone, EntryListable, dlq
<1>4. ReplayedNotFailed'
  BY DEF IInv, ItemsDone, ReplayedNotFailed, jobVars, dlq
<1>5. (\A d \in Callers : Placed(d))'
  BY DEF IInv, ItemsDone, TypeOK, LocalsOK, Placed, Goto, locals, Leave
<1>6. (\A d \in Callers : Writing(d))'
  BY DEF IInv, ItemsDone, TypeOK, LocalsOK, Writing, Goto, locals, Leave, dlq
<1>7. (\A d \in Callers : CopyFailed(d))'
  BY DEF IInv, ItemsDone, TypeOK, LocalsOK, CopyFailed, At, Goto, locals, Leave, jobVars
<1>8. (\A i \in Jobs \ outside : OneReplay(i))'
  <2> SUFFICES ASSUME NEW i \in (Jobs \ outside)' PROVE OneReplay(i)'
    OBVIOUS
  <2>1. ASSUME NEW d \in Callers, Replaying(d, i)' PROVE d # c /\ Replaying(d, i)
    BY <2>1 DEF IInv, ItemsDone, TypeOK, LocalsOK, Replaying, Goto, locals, Leave
  <2>2. i \in Jobs \ outside /\ OneReplay(i)
    BY DEF IInv, ItemsDone
  <2>3. ASSUME NEW d \in Callers, d # c, Replaying(d, i)
        PROVE  status'[i] # "failed" /\ entry'[i] # "replayed"
    BY <2>2, <2>3 DEF IInv, ItemsDone, OneReplay, jobVars, dlq
  <2> QED BY <2>1, <2>2, <2>3 DEF OneReplay
<1> QED BY <1>1, <1>2, <1>3, <1>4, <1>5, <1>6, <1>7, <1>8 DEF IInv, TypeOK

LEMMA AnswerStep ==
  ASSUME IInv, NEW c \in Callers, Answer(c)
  PROVE  IInv'
<1>1. RecordsOK'
  BY JobsDlqAssumption DEF IInv, Answer, TypeOK, RecordsOK, Placed, At, Strike, Forget,
        jobVars, dlq
<1>2. LocalsOK'
  BY LeaveLocals DEF IInv, Answer, TypeOK
<1>3. EntryListable'
  BY DEF IInv, Answer, EntryListable, dlq
<1>4. ReplayedNotFailed'
  BY DEF IInv, Answer, ReplayedNotFailed, jobVars, dlq
<1>5. (\A d \in Callers : Placed(d))'
  BY DEF IInv, Answer, TypeOK, LocalsOK, Placed, Leave, Goto
<1>6. (\A d \in Callers : Writing(d))'
  BY DEF IInv, Answer, Writing, At, Leave, dlq, Goto
<1>7. (\A d \in Callers : CopyFailed(d))'
  BY DEF IInv, Answer, CopyFailed, At, Leave, jobVars, Goto
<1>8. (\A i \in Jobs \ outside : OneReplay(i))'
  BY JobsDlqAssumption DEF IInv, Answer, OneReplay, Replaying, Leave, jobVars, dlq, Goto
<1> QED BY <1>1, <1>2, <1>3, <1>4, <1>5, <1>6, <1>7, <1>8 DEF IInv, TypeOK

LEMMA MarkThrowsStep ==
  ASSUME IInv, NEW c \in Callers, MarkThrows(c)
  PROVE  IInv'
<1>1. RecordsOK'
  BY JobsDlqAssumption DEF IInv, MarkThrows, TypeOK, RecordsOK, Strike, jobVars
<1>2. LocalsOK'
  BY CatchLocals, WrittenLocals DEF IInv, MarkThrows, TypeOK
<1>3. EntryListable'
  BY DEF IInv, MarkThrows, EntryListable
<1>4. ReplayedNotFailed'
  BY DEF IInv, MarkThrows, ReplayedNotFailed, jobVars
<1>5. (\A d \in Callers : Placed(d))'
  BY DEF IInv, MarkThrows, TypeOK, LocalsOK, Placed, Catch, Written, Goto, Leave
<1>6. (\A d \in Callers : Writing(d))'
  BY DEF IInv, MarkThrows, TypeOK, LocalsOK, Writing, At, Catch, Written, Goto, Leave
<1>7. (\A d \in Callers : CopyFailed(d))'
  BY DEF IInv, MarkThrows, TypeOK, LocalsOK, CopyFailed, Catch, Written, jobVars, Goto,
        Leave
<1>8. (\A i \in Jobs \ outside : OneReplay(i))'
  <2> SUFFICES ASSUME NEW i \in (Jobs \ outside)' PROVE OneReplay(i)'
    OBVIOUS
  <2>1. ASSUME NEW d \in Callers, Replaying(d, i)' PROVE d # c /\ Replaying(d, i)
    BY <2>1 DEF IInv, MarkThrows, TypeOK, LocalsOK, Replaying, Catch, Written, Goto, Leave
  <2>2. i \in Jobs \ outside /\ OneReplay(i)
    BY DEF IInv, MarkThrows
  <2>3. ASSUME NEW d \in Callers, d # c, Replaying(d, i)
        PROVE  status'[i] # "failed" /\ entry'[i] # "replayed"
    BY <2>2, <2>3 DEF IInv, MarkThrows, OneReplay, jobVars
  <2> QED BY <2>1, <2>2, <2>3 DEF OneReplay
<1> QED BY <1>1, <1>2, <1>3, <1>4, <1>5, <1>6, <1>7, <1>8 DEF IInv, TypeOK

LEMMA MoveBeginStep ==
  ASSUME IInv, NEW c \in Callers, NEW j \in Jobs, MoveBegin(c, j)
  PROVE  IInv'
<1>1. RecordsOK'
  BY DEF IInv, MoveBegin, TypeOK, RecordsOK, jobVars
<1>2. LocalsOK'
  BY DEF IInv, MoveBegin, TypeOK, LocalsOK, Goto, EntryState, Points, CallKinds
<1>3. EntryListable'
  BY DEF IInv, MoveBegin, EntryListable
<1>4. ReplayedNotFailed'
  BY DEF IInv, MoveBegin, ReplayedNotFailed, jobVars
<1>5. (\A d \in Callers : Placed(d))'
  BY DEF IInv, MoveBegin, TypeOK, LocalsOK, Placed, Goto
<1>6. (\A d \in Callers : Writing(d))'
  BY DEF IInv, MoveBegin, Writing, At, Goto
<1>7. (\A d \in Callers : CopyFailed(d))'
  BY DEF IInv, MoveBegin, CopyFailed, At, Goto, jobVars
<1>8. (\A i \in Jobs \ outside : OneReplay(i))'
  BY DEF IInv, MoveBegin, TypeOK, LocalsOK, OneReplay, Replaying, Goto, jobVars
<1> QED BY <1>1, <1>2, <1>3, <1>4, <1>5, <1>6, <1>7, <1>8 DEF IInv, TypeOK

LEMMA OtherResumeStep ==
  ASSUME IInv, NEW c \in Callers, NEW j \in Jobs, OtherResume(c, j)
  PROVE  IInv'
<1>1. RecordsOK'
  BY DEF IInv, OtherResume, TypeOK, RecordsOK, jobVars, dlq
<1>2. LocalsOK'
  BY DEF IInv, OtherResume, TypeOK, LocalsOK, Goto, Points, CallKinds
<1>3. EntryListable'
  BY DEF IInv, OtherResume, EntryListable, dlq
<1>4. ReplayedNotFailed'
  BY DEF IInv, OtherResume, ReplayedNotFailed, jobVars, dlq
<1>5. (\A d \in Callers : Placed(d))'
  BY DEF IInv, OtherResume, TypeOK, LocalsOK, Placed, Goto
<1>6. (\A d \in Callers : Writing(d))'
  BY DEF IInv, OtherResume, Writing, At, Goto, dlq
<1>7. (\A d \in Callers : CopyFailed(d))'
  BY DEF IInv, OtherResume, CopyFailed, At, Goto, jobVars
<1>8. (\A i \in Jobs \ outside : OneReplay(i))'
  BY DEF IInv, OtherResume, TypeOK, LocalsOK, OneReplay, Replaying, Goto, jobVars, dlq
<1> QED BY <1>1, <1>2, <1>3, <1>4, <1>5, <1>6, <1>7, <1>8 DEF IInv, TypeOK

LEMMA PurgeDeleteStep ==
  ASSUME IInv, NEW c \in Callers, NEW j \in Jobs, PurgeDelete(c, j)
  PROVE  IInv'
<1>1. RecordsOK'
  BY DEF IInv, PurgeDelete, TypeOK, RecordsOK, jobVars, EntryState
<1>2. LocalsOK'
  BY DEF IInv, PurgeDelete, TypeOK, LocalsOK, Goto, Points
<1>3. EntryListable'
  BY DEF IInv, PurgeDelete, EntryListable
<1>4. ReplayedNotFailed'
  BY DEF IInv, PurgeDelete, ReplayedNotFailed, jobVars
<1>5. (\A d \in Callers : Placed(d))'
  BY DEF IInv, PurgeDelete, TypeOK, LocalsOK, Placed, Goto
<1>6. (\A d \in Callers : Writing(d))'
  BY JobsDlqAssumption DEF IInv, PurgeDelete, TypeOK, RecordsOK, LocalsOK, Writing,
        LockFree, Goto
<1>7. (\A d \in Callers : CopyFailed(d))'
  BY DEF IInv, PurgeDelete, CopyFailed, At, Goto, jobVars
<1>8. (\A i \in Jobs \ outside : OneReplay(i))'
  BY DEF IInv, PurgeDelete, OneReplay, Replaying, At, Goto, jobVars
<1> QED BY <1>1, <1>2, <1>3, <1>4, <1>5, <1>6, <1>7, <1>8 DEF IInv, TypeOK

LEMMA PurgeBeginStep ==
  ASSUME IInv, NEW c \in Callers, NEW filter \in Filters, PurgeBegin(c, filter)
  PROVE  IInv'
<1>1. RecordsOK'
  BY DEF IInv, PurgeBegin, TypeOK, RecordsOK, jobVars, dlq
<1>2. LocalsOK'
  BY DEF IInv, PurgeBegin, TypeOK, LocalsOK, Listed, Goto, Points, CallKinds
<1>3. EntryListable'
  BY DEF IInv, PurgeBegin, EntryListable, dlq
<1>4. ReplayedNotFailed'
  BY DEF IInv, PurgeBegin, ReplayedNotFailed, jobVars, dlq
<1>5. (\A d \in Callers : Placed(d))'
  BY DEF IInv, PurgeBegin, Placed, At, Goto
<1>6. (\A d \in Callers : Writing(d))'
  BY DEF IInv, PurgeBegin, Writing, At, Goto, dlq
<1>7. (\A d \in Callers : CopyFailed(d))'
  BY DEF IInv, PurgeBegin, CopyFailed, At, Goto, jobVars
<1>8. (\A i \in Jobs \ outside : OneReplay(i))'
  BY DEF IInv, PurgeBegin, OneReplay, Replaying, At, Goto, jobVars, dlq
<1> QED BY <1>1, <1>2, <1>3, <1>4, <1>5, <1>6, <1>7, <1>8 DEF IInv, TypeOK

LEMMA PurgeUnindexStep ==
  ASSUME IInv, NEW c \in Callers, PurgeUnindex(c)
  PROVE  IInv'
<1>1. RecordsOK'
  BY DEF IInv, PurgeUnindex, TypeOK, RecordsOK, Placed, At, jobVars, EntryState
<1>2. LocalsOK'
  BY LeaveLocals DEF IInv, PurgeUnindex, TypeOK, LocalsOK, Goto, locals, Points
<1>3. EntryListable'
  BY DEF IInv, PurgeUnindex, TypeOK, RecordsOK, EntryListable, Placed, Writing, At
<1>4. ReplayedNotFailed'
  BY DEF IInv, PurgeUnindex, ReplayedNotFailed, jobVars
<1>5. (\A d \in Callers : Placed(d))'
  BY DEF IInv, PurgeUnindex, TypeOK, LocalsOK, Placed, Goto, locals, Leave
<1>6. (\A d \in Callers : Writing(d))'
  BY DEF IInv, PurgeUnindex, TypeOK, LocalsOK, Writing, At, Goto, Leave
<1>7. (\A d \in Callers : CopyFailed(d))'
  BY DEF IInv, PurgeUnindex, TypeOK, LocalsOK, CopyFailed, At, Goto, locals, Leave, jobVars
<1>8. (\A i \in Jobs \ outside : OneReplay(i))'
  <2> SUFFICES ASSUME NEW i \in (Jobs \ outside)' PROVE OneReplay(i)'
    OBVIOUS
  <2>1. ASSUME NEW d \in Callers, Replaying(d, i)' PROVE d # c /\ Replaying(d, i)
    BY <2>1 DEF IInv, PurgeUnindex, TypeOK, LocalsOK, Replaying, Goto, locals, Leave
  <2>2. i \in Jobs \ outside /\ OneReplay(i)
    BY DEF IInv, PurgeUnindex
  <2>3. ASSUME NEW d \in Callers, d # c, Replaying(d, i)
        PROVE  status'[i] # "failed" /\ entry'[i] # "replayed"
    BY <2>2, <2>3 DEF IInv, PurgeUnindex, OneReplay, jobVars
  <2> QED BY <2>1, <2>2, <2>3 DEF OneReplay
<1> QED BY <1>1, <1>2, <1>3, <1>4, <1>5, <1>6, <1>7, <1>8 DEF IInv, TypeOK

LEMMA PurgeThrowsStep ==
  ASSUME IInv, NEW c \in Callers, PurgeThrows(c)
  PROVE  IInv'
<1>1. RecordsOK'
  BY JobsDlqAssumption DEF IInv, PurgeThrows, TypeOK, RecordsOK, Strike, jobVars
<1>2. LocalsOK'
  BY LeaveLocals DEF IInv, PurgeThrows, TypeOK
<1>3. EntryListable'
  BY DEF IInv, PurgeThrows, EntryListable
<1>4. ReplayedNotFailed'
  BY DEF IInv, PurgeThrows, ReplayedNotFailed, jobVars
<1>5. (\A d \in Callers : Placed(d))'
  BY DEF IInv, PurgeThrows, TypeOK, LocalsOK, Placed, Leave, Goto
<1>6. (\A d \in Callers : Writing(d))'
  BY DEF IInv, PurgeThrows, TypeOK, LocalsOK, Writing, Leave, Goto
<1>7. (\A d \in Callers : CopyFailed(d))'
  BY DEF IInv, PurgeThrows, CopyFailed, Leave, jobVars, Goto
<1>8. (\A i \in Jobs \ outside : OneReplay(i))'
  BY DEF IInv, PurgeThrows, OneReplay, Replaying, Leave, jobVars, Goto
<1> QED BY <1>1, <1>2, <1>3, <1>4, <1>5, <1>6, <1>7, <1>8 DEF IInv, TypeOK

LEMMA CrashStep ==
  ASSUME IInv, NEW c \in Callers, Crash(c)
  PROVE  IInv'
<1>1. RecordsOK'
  BY JobsDlqAssumption DEF IInv, Crash, TypeOK, RecordsOK, Strike, Forget
<1>2. LocalsOK'
  BY LeaveLocals DEF IInv, Crash, TypeOK
<1>3. EntryListable'
  BY DEF IInv, Crash, EntryListable
<1>4. ReplayedNotFailed'
  BY DEF IInv, Crash, ReplayedNotFailed
<1>5. (\A d \in Callers : Placed(d))'
  BY DEF IInv, Crash, TypeOK, LocalsOK, Placed, Leave, Goto
<1>6. (\A d \in Callers : Writing(d))'
  BY DEF IInv, Crash, TypeOK, LocalsOK, Writing, Leave, Goto
<1>7. (\A d \in Callers : CopyFailed(d))'
  BY DEF IInv, Crash, CopyFailed, Leave, Goto
<1>8. (\A i \in Jobs \ outside : OneReplay(i))'
  BY JobsDlqAssumption DEF IInv, Crash, OneReplay, Replaying, Leave, Goto
<1> QED BY <1>1, <1>2, <1>3, <1>4, <1>5, <1>6, <1>7, <1>8 DEF IInv, TypeOK

LEMMA CancelStep ==
  ASSUME IInv, NEW j \in Jobs, Cancel(j)
  PROVE  IInv'
<1>1. RecordsOK'
  BY DEF IInv, Cancel, TypeOK, RecordsOK, SetJob, dlq, JobStatus
<1>2. LocalsOK'
  BY DEF IInv, Cancel, TypeOK, LocalsOK, locals
<1>3. EntryListable'
  BY DEF IInv, Cancel, EntryListable, dlq
<1>4. ReplayedNotFailed'
  BY DEF IInv, Cancel, ReplayedNotFailed, SetJob, dlq
<1>5. (\A d \in Callers : Placed(d))'
  BY DEF IInv, Cancel, Placed, locals
<1>6. (\A d \in Callers : Writing(d))'
  BY DEF IInv, Cancel, Writing, dlq, locals
<1>7. (\A d \in Callers : CopyFailed(d))'
  BY DEF IInv, Cancel, CopyFailed, SetJob, locals
<1>8. (\A i \in Jobs \ outside : OneReplay(i))'
  BY DEF IInv, Cancel, OneReplay, Replaying, SetJob, dlq, locals
<1> QED BY <1>1, <1>2, <1>3, <1>4, <1>5, <1>6, <1>7, <1>8 DEF IInv, TypeOK

LEMMA LeaseRunsOutStep ==
  ASSUME IInv, NEW j \in Jobs, LeaseRunsOut(j)
  PROVE  IInv'
<1>1. RecordsOK'
  BY JobsDlqAssumption DEF IInv, LeaseRunsOut, TypeOK, RecordsOK, Strike, dlq
<1>2. LocalsOK'
  BY DEF IInv, LeaseRunsOut, TypeOK, LocalsOK, locals
<1>3. EntryListable'
  BY DEF IInv, LeaseRunsOut, EntryListable, dlq
<1>4. ReplayedNotFailed'
  BY DEF IInv, LeaseRunsOut, ReplayedNotFailed, dlq
<1>5. (\A d \in Callers : Placed(d))'
  BY DEF IInv, LeaseRunsOut, Placed, locals
<1>6. (\A d \in Callers : Writing(d))'
  BY DEF IInv, LeaseRunsOut, Writing, dlq, locals
<1>7. (\A d \in Callers : CopyFailed(d))'
  BY DEF IInv, LeaseRunsOut, CopyFailed, locals
<1>8. (\A i \in Jobs \ outside : OneReplay(i))'
  BY DEF IInv, LeaseRunsOut, OneReplay, Replaying, dlq, locals
<1> QED BY <1>1, <1>2, <1>3, <1>4, <1>5, <1>6, <1>7, <1>8 DEF IInv, TypeOK

LEMMA InitIInv == Init => IInv
  BY JobsDlqAssumption DEF Init, IInv, Ranks, TypeOK, EntryListable, ReplayedNotFailed,
        Placed, Writing, CopyFailed, OneReplay, RecordsOK, LocalsOK, Replaying, JobStatus,
        EntryState, Points

LEMMA UnchangedIInv == IInv /\ UNCHANGED vars => IInv'
  BY DEF vars, jobVars, dlq, locals, IInv, TypeOK, EntryListable, ReplayedNotFailed, Placed,
        Writing, CopyFailed, OneReplay, RecordsOK, LocalsOK, Replaying

----------------------------------------------------------------------------
(* Every step does, and what follows.                                      *)

LEMMA NextIInv == IInv /\ [Next]_vars => IInv'
<1> SUFFICES ASSUME IInv, [Next]_vars PROVE IInv'
  OBVIOUS
<1>1. ASSUME NEW c \in Callers, ReplayStep(c) PROVE IInv'
  <2>1. ASSUME NEW k \in Keys \cup {NoKey}, ReplayBegin(c, k) PROVE IInv'
    BY <2>1, ReplayBeginStep
  <2>2. CASE Select(c)
    BY <2>2, SelectStep
  <2>3. ASSUME NEW j \in Jobs, NextItem(c, j) PROVE IInv'
    BY <2>3, NextItemStep
  <2>4. CASE Reset(c)
    BY <2>4, ResetStep
  <2>5. CASE ResetRefused(c)
    BY <2>5, ResetRefusedStep
  <2>6. CASE ResetThrows(c)
    BY <2>6, ResetThrowsStep
  <2>7. CASE ResumeBegin(c)
    BY <2>7, ResumeBeginStep
  <2>8. CASE ResumeRefused(c)
    BY <2>8, ResumeRefusedStep
  <2>9. CASE ResumeThrows(c)
    BY <2>9, ResumeThrowsStep
  <2>10. ASSUME NEW st \in Ended, RunEnd(c, st) PROVE IInv'
    BY <2>10, RunEndStep
  <2>11. ASSUME NEW st \in Ended \cup {"running"}, RunThrows(c, st) PROVE IInv'
    BY <2>11, RunThrowsStep
  <2>12. CASE RunLost(c)
    BY <2>12, RunLostStep
  <2>13. CASE Mark(c)
    BY <2>13, MarkStep
  <2>14. CASE MarkIndex(c)
    BY <2>14, MarkIndexStep
  <2>15. CASE ItemsDone(c)
    BY <2>15, ItemsDoneStep
  <2>16. CASE Answer(c)
    BY <2>16, AnswerStep
  <2>17. ASSUME NEW k \in Keys \cup {NoKey}, ReplayCached(c, k) PROVE IInv'
    BY <2>17, UnchangedIInv DEF ReplayCached
  <2>18. ASSUME NEW j \in Jobs, NextItemThrows(c, j) PROVE IInv'
    BY <2>18, NextItemThrowsStep
  <2> QED BY <1>1, <2>1, <2>2, <2>3, <2>4, <2>5, <2>6, <2>7, <2>8, <2>9, <2>10, <2>11,
        <2>12, <2>13, <2>14, <2>15, <2>16, <2>17, <2>18 DEF ReplayStep
<1>2. ASSUME NEW c \in Callers, MarkThrows(c) PROVE IInv'
  BY <1>2, MarkThrowsStep
<1>3. ASSUME NEW c \in Callers, NEW j \in Jobs, MoveBegin(c, j) PROVE IInv'
  BY <1>3, MoveBeginStep
<1>4. ASSUME NEW c \in Callers, NEW j \in Jobs, OtherResume(c, j) PROVE IInv'
  BY <1>4, OtherResumeStep
<1>5. ASSUME NEW c \in Callers, NEW j \in Jobs, PurgeDelete(c, j) PROVE IInv'
  BY <1>5, PurgeDeleteStep
<1>6. ASSUME NEW c \in Callers, NEW filter \in Filters, PurgeBegin(c, filter) PROVE IInv'
  BY <1>6, PurgeBeginStep
<1>7. ASSUME NEW c \in Callers, PurgeUnindex(c) PROVE IInv'
  BY <1>7, PurgeUnindexStep
<1>8. ASSUME NEW c \in Callers, PurgeThrows(c) PROVE IInv'
  BY <1>8, PurgeThrowsStep
<1>9. ASSUME NEW c \in Callers, Crash(c) PROVE IInv'
  BY <1>9, CrashStep
<1>10. ASSUME NEW j \in Jobs, Cancel(j) PROVE IInv'
  BY <1>10, CancelStep
<1>11. ASSUME NEW j \in Jobs, LeaseRunsOut(j) PROVE IInv'
  BY <1>11, LeaseRunsOutStep
<1>12. CASE UNCHANGED vars
  BY <1>12, UnchangedIInv
<1> QED BY <1>1, <1>2, <1>3, <1>4, <1>5, <1>6, <1>7, <1>8, <1>9, <1>10, <1>11, <1>12 DEF Next

\* The inductive invariant holds of every behaviour of the queue.
THEOREM Invariance == Spec => []IInv
BY InitIInv, NextIInv, PTL DEF Spec

\* Every variable keeps its type, so no list, key or job is used where a caller
\* has none.
THEOREM TypeCorrect == Spec => []TypeOK
<1>1. IInv => TypeOK
  BY DEF IInv
<1> QED BY <1>1, Invariance, PTL

\* astJobsWriteDlqEntry and astJobsPurgeDlq leave an entry and its summary in the
\* index in agreement, unless a fault falls between the two writes.
THEOREM EntriesListable == Spec => []EntryListable
<1>1. IInv => EntryListable
  BY DEF IInv
<1> QED BY <1>1, Invariance, PTL

\* astJobsReplayDlq marks no entry as replayed whose job it leaves failed, however
\* replays, moves, purges and cancels of the job interleave.
THEOREM ReplayedHaveRun == Spec => []ReplayedNotFailed
<1>1. IInv => ReplayedNotFailed
  BY DEF IInv
<1> QED BY <1>1, Invariance, PTL

\* Only its own Reset takes a caller from "reset" to "resume".
LEMMA OnlyReset ==
  ASSUME IInv, Next, NEW c \in Callers, At(c, "reset"), pc'[c] = "resume"
  PROVE  Reset(c)
<1>1. ASSUME NEW d \in Callers, ReplayStep(d), ~Reset(c) PROVE FALSE
  <2>1. c # d => pc'[c] = pc[c]
    BY <1>1 DEF IInv, TypeOK, LocalsOK, ReplayStep, ReplayBegin, ReplayCached, Select,
        NextItem, NextItemThrows, Reset, ResetRefused, ResetThrows, ResumeBegin, ResumeRefused,
        ResumeThrows, RunEnd, RunThrows, RunLost, Mark, MarkIndex, ItemsDone, Answer, Leave,
        Catch, Thrown, Written, Goto, vars
  <2>2. c = d => ResetRefused(d) \/ ResetThrows(d)
    BY <1>1 DEF ReplayStep, ReplayBegin, ReplayCached, Select, NextItem, NextItemThrows,
        ResumeBegin, ResumeRefused, ResumeThrows, RunEnd, RunThrows, RunLost, Mark, MarkIndex, ItemsDone,
        Answer, At
  <2>3. ResetRefused(d) \/ ResetThrows(d) => pc'[d] = "mark"
    BY DEF IInv, TypeOK, LocalsOK, ResetRefused, ResetThrows, Catch, Goto
  <2> QED BY <2>1, <2>2, <2>3 DEF At
<1>2. ASSUME NEW d \in Callers,
             \/ MarkThrows(d)
             \/ \E j \in Jobs : MoveBegin(d, j) \/ OtherResume(d, j) \/ PurgeDelete(d, j)
             \/ \E filter \in Filters : PurgeBegin(d, filter)
             \/ PurgeUnindex(d) \/ PurgeThrows(d) \/ Crash(d)
      PROVE  FALSE
  <2>1. c # d => pc'[c] = pc[c]
    BY <1>2 DEF IInv, TypeOK, LocalsOK, MarkThrows, MoveBegin, OtherResume, PurgeDelete,
        PurgeBegin, PurgeUnindex, PurgeThrows, Crash, Leave, Catch, Written, Goto
  <2>2. c = d => Crash(d)
    BY <1>2 DEF MarkThrows, MoveBegin, OtherResume, PurgeDelete, PurgeBegin, PurgeUnindex,
        PurgeThrows, At
  <2>3. Crash(d) => pc'[d] = "idle"
    BY DEF IInv, TypeOK, LocalsOK, Crash, Leave, Goto
  <2> QED BY <2>1, <2>2, <2>3 DEF At
<1>3. ASSUME NEW j \in Jobs, Cancel(j) \/ LeaseRunsOut(j) PROVE FALSE
  BY <1>3 DEF Cancel, LeaseRunsOut, At
<1> QED BY <1>1, <1>2, <1>3 DEF Next

\* The version stored with a job stands between two replays that both read it as
\* failed: the reset of the second is refused.
THEOREM ResetsFailedOnly == Spec => ResetOnlyFailed
<1>1. ASSUME IInv, [Next]_vars, NEW c \in Callers, At(c, "reset"), pc'[c] = "resume"
      PROVE  status[cur[c]] = "failed"
  <2>1. Next
    BY <1>1 DEF vars, At
  <2>2. c \in current
    BY <1>1, <2>1, OnlyReset DEF Reset, VersionMatches
  <2> QED BY <1>1, <2>2 DEF IInv, CopyFailed
<1>2. IInv /\ [Next]_vars =>
        \A c \in Callers : At(c, "reset") /\ pc'[c] = "resume" => status[cur[c]] = "failed"
  BY <1>1
<1> QED BY <1>2, Invariance, PTL DEF Spec, ResetOnlyFailed

----------------------------------------------------------------------------
(* Idempotency keys.                                                       *)

\* No two callers give the same key: the calls made with a key are made one
\* after another, as by a client that waits for a call to end or to die before
\* it repeats it.
Apart ==
  \A c, d \in Callers : c # d => KeysOf[c] \cap KeysOf[d] \subseteq {NoKey}

\* Only a replay has a key, one of its caller's own.
KeyOwn(c) ==
  /\ key[c] \in KeysOf[c] \cup {NoKey}
  /\ pc[c] \in {"idle", "purge", "unindex"} \/ call[c] # "replay" => key[c] = NoKey

\* With its key it has started none of the jobs over that it may yet start over.
Ahead(c) ==
  /\ pc[c] = "select" => \A r \in resets : r[1] # key[c]
  /\ \A j \in todo[c] : <<key[c], j>> \notin resets
  /\ pc[c] = "reset" => cur[c] \notin todo[c] /\ <<key[c], cur[c]>> \notin resets

\* A key with which jobs were started over is in use, or its result is stored.
Accounted ==
  \A r \in resets : r[1] \in answered \/ \E c \in Callers : key[c] = r[1]

KeyInv ==
  /\ \A c \in Callers : KeyOwn(c) /\ Ahead(c)
  /\ Accounted

\* No job was started over without a key.
LEMMA KeylessApart ==
  ASSUME TypeOK, NEW c \in Callers, key[c] = NoKey
  PROVE  (\A j \in Jobs \cup {NoJob} : <<key[c], j>> \notin resets)
         /\ (\A r \in resets : r[1] # key[c])
  BY JobsDlqAssumption DEF TypeOK, RecordsOK

\* A step of one caller that starts nothing over preserves the invariant when
\* it does so for that caller, and no key it gives up is left unaccounted for.
LEMMA OneCaller ==
  ASSUME KeyInv, NEW c \in Callers,
         \A d \in Callers \ {c} :
           /\ pc'[d] = pc[d] /\ call'[d] = call[d] /\ key'[d] = key[d]
           /\ todo'[d] = todo[d] /\ cur'[d] = cur[d],
         resets' \subseteq resets, answered \subseteq answered',
         KeyOwn(c)', Ahead(c)',
         key'[c] = key[c] \/ \A r \in resets' : r[1] = key[c] => r[1] \in answered'
  PROVE  KeyInv'
<1>1. (\A d \in Callers : KeyOwn(d))'
  BY DEF KeyInv, KeyOwn
<1>2. (\A d \in Callers : Ahead(d))'
  BY DEF KeyInv, Ahead
<1>3. Accounted'
  <2> SUFFICES ASSUME NEW r \in resets', r[1] \notin answered'
               PROVE  \E d \in Callers : key'[d] = r[1]
    BY DEF Accounted
  <2>1. PICK d \in Callers : key[d] = r[1]
    BY DEF KeyInv, Accounted
  <2>2. CASE d # c
    BY <2>1, <2>2
  <2>3. CASE d = c
    BY <2>1, <2>3
  <2> QED BY <2>2, <2>3
<1> QED BY <1>1, <1>2, <1>3 DEF KeyInv

\* A call without a key may end, one with a key only once its result is stored
\* or what it did is forgotten.
LEMMA LeavesKeyless ==
  ASSUME TypeOK, KeyInv, NEW c \in Callers, Leave(c), ~At(c, "idle"),
         resets' \subseteq resets, answered \subseteq answered',
         \/ key[c] = NoKey
         \/ \A r \in resets' : r[1] = key[c] => r[1] \in answered'
  PROVE  KeyInv'
<1>1. \A d \in Callers \ {c} :
        /\ pc'[d] = pc[d] /\ call'[d] = call[d] /\ key'[d] = key[d]
        /\ todo'[d] = todo[d] /\ cur'[d] = cur[d]
  BY DEF Leave, Goto, TypeOK, LocalsOK
<1>2. pc'[c] = "idle" /\ key'[c] = NoKey /\ todo'[c] = {}
  BY DEF Leave, Goto, TypeOK, LocalsOK
<1>3. KeyOwn(c)' /\ Ahead(c)'
  BY <1>2 DEF KeyOwn, Ahead
<1>4. key'[c] = key[c] \/ \A r \in resets' : r[1] = key[c] => r[1] \in answered'
  BY <1>2
<1> QED BY <1>1, <1>3, <1>4, OneCaller

\* A step that keeps a caller's call, key and batch, or takes from the batch.
LEMMA GoesOn ==
  ASSUME TypeOK, KeyInv, NEW c \in Callers,
         \A d \in Callers \ {c} : pc'[d] = pc[d] /\ cur'[d] = cur[d] /\ todo'[d] = todo[d],
         UNCHANGED <<call, key, resets, answered>>,
         todo'[c] \subseteq todo[c], ~At(c, "idle"),
         pc'[c] \notin {"select", "reset"},
         pc'[c] \in {"idle", "purge", "unindex"} => key[c] = NoKey
  PROVE  KeyInv'
<1>1. KeyOwn(c)' /\ Ahead(c)'
  BY DEF KeyInv, KeyOwn, Ahead
<1> QED BY <1>1, OneCaller

LEMMA CatchKeys ==
  ASSUME TypeOK, KeyInv, NEW c \in Callers, Catch(c), ~At(c, "idle"),
         UNCHANGED <<resets, answered>>
  PROVE  KeyInv'
<1>1. \A d \in Callers \ {c} : pc'[d] = pc[d] /\ cur'[d] = cur[d] /\ todo'[d] = todo[d]
  BY DEF Catch, Goto, TypeOK, LocalsOK
<1>2. pc'[c] = "mark" /\ todo' = todo
  BY DEF Catch, Goto, TypeOK, LocalsOK
<1> QED BY <1>1, <1>2, GoesOn DEF Catch

LEMMA ThrownKeys ==
  ASSUME TypeOK, KeyInv, NEW c \in Callers, Thrown(c), ~At(c, "idle"),
         UNCHANGED <<resets, answered>>
  PROVE  KeyInv'
<1>1. CASE Catch(c)
  BY <1>1, CatchKeys
<1>2. CASE call[c] # "replay" /\ Leave(c)
  BY <1>2, LeavesKeyless DEF KeyInv, KeyOwn
<1> QED BY <1>1, <1>2 DEF Thrown

LEMMA WrittenKeys ==
  ASSUME TypeOK, KeyInv, NEW c \in Callers, Written(c), ~At(c, "idle"),
         UNCHANGED <<resets, answered>>
  PROVE  KeyInv'
<1>1. CASE call[c] # "replay" /\ Leave(c)
  BY <1>1, LeavesKeyless DEF KeyInv, KeyOwn
<1>2. CASE call[c] = "replay" /\ ~Leave(c)
  <2>1. \A d \in Callers \ {c} : pc'[d] = pc[d] /\ cur'[d] = cur[d] /\ todo'[d] = todo[d]
    BY <1>2 DEF Written, Goto, TypeOK, LocalsOK
  <2>2. pc'[c] = "item" /\ UNCHANGED <<call, key, todo>>
    BY <1>2 DEF Written, Goto, TypeOK, LocalsOK
  <2> QED BY <2>1, <2>2, GoesOn
<1>3. CASE call[c] = "replay" /\ Leave(c)
  <2>1. FALSE
    BY <1>3 DEF Written, Leave, Goto, TypeOK, LocalsOK
  <2> QED BY <2>1
<1> QED BY <1>1, <1>2, <1>3 DEF Written

LEMMA UnchangedKeyInv ==
  ASSUME KeyInv, UNCHANGED <<pc, call, key, todo, cur, resets, answered>>
  PROVE  KeyInv'
  BY DEF KeyInv, KeyOwn, Ahead, Accounted

\* The actions with which a replay passes from one of its entries to the next.
LEMMA ReplayBeginKeys ==
  ASSUME Apart, IInv, KeyInv, NEW c \in Callers, NEW k \in Keys \cup {NoKey}, ReplayBegin(c, k)
  PROVE  KeyInv'
<1>1. \A d \in Callers \ {c} :
        /\ pc'[d] = pc[d] /\ call'[d] = call[d] /\ key'[d] = key[d]
        /\ todo'[d] = todo[d] /\ cur'[d] = cur[d]
  BY DEF ReplayBegin, Goto, IInv, TypeOK, LocalsOK
<1>2. /\ pc'[c] = "select" /\ call'[c] = "replay" /\ key'[c] = k
      /\ UNCHANGED <<todo, resets, answered>>
  BY DEF ReplayBegin, Goto, IInv, TypeOK, LocalsOK
<1>3. key[c] = NoKey
  BY DEF ReplayBegin, At, KeyInv, KeyOwn
<1>4. \A r \in resets : r[1] # k
  <2>1. CASE k = NoKey
    BY <2>1, JobsDlqAssumption DEF IInv, TypeOK, RecordsOK
  <2>2. CASE k # NoKey
    <3> SUFFICES ASSUME NEW r \in resets, r[1] = k PROVE FALSE
      OBVIOUS
    <3>1. PICK d \in Callers : key[d] = k
      BY DEF ReplayBegin, Answered, KeyInv, Accounted
    <3>2. c # d /\ k \in KeysOf[c] /\ k \in KeysOf[d]
      BY <1>3, <2>2, <3>1 DEF ReplayBegin, KeyInv, KeyOwn
    <3> QED BY <2>2, <3>2 DEF Apart
  <2> QED BY <2>1, <2>2
<1>5. \A j \in todo[c] : <<k, j>> \notin resets
  BY <1>4
<1>6. KeyOwn(c)' /\ Ahead(c)'
  BY <1>2, <1>4, <1>5 DEF ReplayBegin, KeyOwn, Ahead
<1>7. \A r \in resets' : r[1] = key[c] => r[1] \in answered'
  BY <1>2, <1>3, KeylessApart DEF IInv
<1> QED BY <1>1, <1>2, <1>6, <1>7, OneCaller

LEMMA SelectKeys ==
  ASSUME IInv, KeyInv, NEW c \in Callers, Select(c)
  PROVE  KeyInv'
<1>1. \A d \in Callers \ {c} :
        /\ pc'[d] = pc[d] /\ call'[d] = call[d] /\ key'[d] = key[d]
        /\ todo'[d] = todo[d] /\ cur'[d] = cur[d]
  BY DEF Select, Goto, IInv, TypeOK, LocalsOK
<1>2. pc'[c] = "item" /\ UNCHANGED <<call, key, resets, answered>>
  BY DEF Select, Goto, IInv, TypeOK, LocalsOK
<1>3. \A j : <<key[c], j>> \notin resets
  BY DEF Select, At, KeyInv, Ahead
<1>4. KeyOwn(c)'
  BY <1>2 DEF Select, At, KeyInv, KeyOwn
<1>5. Ahead(c)'
  BY <1>2, <1>3 DEF Ahead
<1> QED BY <1>1, <1>2, <1>4, <1>5, OneCaller

LEMMA NextItemKeys ==
  ASSUME IInv, KeyInv, NEW c \in Callers, NEW j \in Jobs, NextItem(c, j)
  PROVE  KeyInv'
<1>1. \A d \in Callers \ {c} :
        /\ pc'[d] = pc[d] /\ call'[d] = call[d] /\ key'[d] = key[d]
        /\ todo'[d] = todo[d] /\ cur'[d] = cur[d]
  BY DEF NextItem, Rest, Goto, IInv, TypeOK, LocalsOK
<1>2. /\ todo'[c] = todo[c] \ {j} /\ UNCHANGED <<call, key, resets, answered>>
      /\ \/ pc'[c] = "reset" /\ cur'[c] = j
         \/ pc'[c] = "item"
  BY DEF NextItem, Rest, At, Goto, IInv, TypeOK, LocalsOK
<1>3. pc[c] = "item" /\ j \in todo[c]
  BY DEF NextItem, At
<1>4. KeyOwn(c)' /\ Ahead(c)'
  BY <1>2, <1>3 DEF KeyInv, KeyOwn, Ahead
<1> QED BY <1>1, <1>2, <1>4, OneCaller

\* A job is started over with a key nobody else has, and none of the caller's
\* other jobs is.
LEMMA ResetKeys ==
  ASSUME Apart, IInv, KeyInv, NEW c \in Callers, Reset(c)
  PROVE  KeyInv'
<1>1. /\ pc[c] = "reset" /\ pc'[c] = "resume"
      /\ \A d \in Callers \ {c} : pc'[d] = pc[d]
      /\ UNCHANGED <<call, key, todo, cur, answered>>
  BY DEF Reset, At, Goto, locals, IInv, TypeOK, LocalsOK
<1>2. resets' \subseteq resets \cup {<<key[c], cur[c]>>}
      /\ (key[c] = NoKey => resets' = resets)
  BY DEF Reset
<1>3. \A d \in Callers : KeyOwn(d)'
  BY <1>1 DEF KeyInv, KeyOwn
<1>4. Ahead(c)'
  BY <1>1, <1>2 DEF KeyInv, Ahead
<1>5. ASSUME NEW d \in Callers \ {c} PROVE Ahead(d)'
  <2>1. key[c] # NoKey => key[d] # key[c]
    BY DEF Apart, KeyInv, KeyOwn
  <2>2. \A x : <<key[d], x>> \in resets' => <<key[d], x>> \in resets
    BY <1>2, <2>1
  <2>3. (\A r \in resets : r[1] # key[d]) => \A r \in resets' : r[1] # key[d]
    BY <1>2, <2>1
  <2>4. Ahead(d)
    BY DEF KeyInv
  <2> QED BY <1>1, <2>2, <2>3, <2>4 DEF Ahead
<1>6. Accounted'
  BY <1>1, <1>2 DEF KeyInv, Accounted
<1> QED BY <1>3, <1>4, <1>5, <1>6 DEF KeyInv

LEMMA NextKeyInv == Apart /\ IInv /\ KeyInv /\ [Next]_vars => KeyInv'
<1> SUFFICES ASSUME Apart, IInv, KeyInv, [Next]_vars PROVE KeyInv'
  OBVIOUS
<1>0. TypeOK
  BY DEF IInv
<1> USE <1>0
<1>1. ASSUME NEW c \in Callers, ReplayStep(c) PROVE KeyInv'
  <2>1. ASSUME NEW k \in Keys \cup {NoKey}, ReplayBegin(c, k) PROVE KeyInv'
    BY <2>1, ReplayBeginKeys
  <2>2. CASE Select(c)
    BY <2>2, SelectKeys
  <2>3. ASSUME NEW j \in Jobs, NextItem(c, j) PROVE KeyInv'
    BY <2>3, NextItemKeys
  <2>4. CASE Reset(c)
    BY <2>4, ResetKeys
  <2>5. CASE ResetRefused(c) \/ ResetThrows(c)
    BY <2>5, CatchKeys DEF ResetRefused, ResetThrows, At
  <2>6. CASE ResumeBegin(c)
    <3>1. /\ \A d \in Callers \ {c} : pc'[d] = pc[d] /\ cur'[d] = cur[d] /\ todo'[d] = todo[d]
          /\ UNCHANGED <<call, key, todo, resets, answered>> /\ pc'[c] = "running"
      BY <2>6 DEF ResumeBegin, Goto, locals, TypeOK, LocalsOK
    <3> QED BY <2>6, <3>1, GoesOn DEF ResumeBegin, At
  <2>7. CASE ResumeRefused(c)
    BY <2>7, ThrownKeys DEF ResumeRefused, At
  <2>8. CASE ResumeThrows(c)
    BY <2>8, ThrownKeys DEF ResumeThrows, At
  <2>9. ASSUME NEW st \in Ended, RunEnd(c, st) PROVE KeyInv'
    <3>1. CASE call[c] # "replay" /\ Leave(c)
      BY <2>9, <3>1, LeavesKeyless DEF RunEnd, At, KeyInv, KeyOwn
    <3>2. CASE ~(call[c] # "replay" /\ Leave(c))
      <4>1. /\ \A d \in Callers \ {c} : pc'[d] = pc[d] /\ cur'[d] = cur[d] /\ todo'[d] = todo[d]
            /\ UNCHANGED <<call, key, todo, resets, answered>> /\ pc'[c] = "mark"
        BY <2>9, <3>2 DEF RunEnd, Goto, TypeOK, LocalsOK
      <4> QED BY <2>9, <4>1, GoesOn DEF RunEnd, At
    <3> QED BY <3>1, <3>2
  <2>10. ASSUME NEW st \in Ended \cup {"running"}, RunThrows(c, st) PROVE KeyInv'
    BY <2>10, ThrownKeys DEF RunThrows, At
  <2>11. CASE RunLost(c)
    BY <2>11, ThrownKeys DEF RunLost, At
  <2>12. CASE Mark(c)
    <3>1. /\ \A d \in Callers \ {c} : pc'[d] = pc[d] /\ cur'[d] = cur[d] /\ todo'[d] = todo[d]
          /\ UNCHANGED <<call, key, todo, resets, answered>> /\ pc'[c] = "markIndex"
      BY <2>12 DEF Mark, Goto, locals, TypeOK, LocalsOK
    <3> QED BY <2>12, <3>1, GoesOn DEF Mark, At
  <2>13. CASE MarkIndex(c)
    BY <2>13, WrittenKeys DEF MarkIndex, At
  <2>14. CASE ItemsDone(c)
    <3>1. CASE key[c] = NoKey /\ Leave(c)
      BY <2>14, <3>1, LeavesKeyless DEF ItemsDone, At
    <3>2. CASE ~(key[c] = NoKey /\ Leave(c))
      <4>1. /\ \A d \in Callers \ {c} : pc'[d] = pc[d] /\ cur'[d] = cur[d] /\ todo'[d] = todo[d]
            /\ UNCHANGED <<call, key, todo, resets, answered>> /\ pc'[c] = "answer"
        BY <2>14, <3>2 DEF ItemsDone, Goto, locals, TypeOK, LocalsOK
      <4> QED BY <2>14, <4>1, GoesOn DEF ItemsDone, At
    <3> QED BY <3>1, <3>2
  <2>15. CASE Answer(c)
    <3>1. /\ resets' \subseteq resets /\ answered \subseteq answered'
          /\ \A r \in resets' : r[1] = key[c] => r[1] \in answered'
      BY <2>15 DEF Answer, Forget
    <3> QED BY <2>15, <3>1, LeavesKeyless DEF Answer, At
  <2>16. ASSUME NEW k \in Keys \cup {NoKey}, ReplayCached(c, k) PROVE KeyInv'
    BY <2>16, UnchangedKeyInv DEF ReplayCached, vars, locals
  <2>17. ASSUME NEW j \in Jobs, NextItemThrows(c, j) PROVE KeyInv'
    <3>1. /\ \A d \in Callers \ {c} : pc'[d] = pc[d] /\ cur'[d] = cur[d] /\ todo'[d] = todo[d]
          /\ UNCHANGED <<call, key, resets, answered>>
          /\ todo'[c] \subseteq todo[c] /\ pc'[c] = "mark"
      BY <2>17 DEF NextItemThrows, Goto, TypeOK, LocalsOK
    <3> QED BY <2>17, <3>1, GoesOn DEF NextItemThrows, At
  <2> QED BY <1>1, <2>1, <2>2, <2>3, <2>4, <2>5, <2>6, <2>7, <2>8, <2>9, <2>10, <2>11,
        <2>12, <2>13, <2>14, <2>15, <2>16, <2>17 DEF ReplayStep
<1>2. ASSUME NEW c \in Callers, MarkThrows(c) PROVE KeyInv'
  <2>1. CASE Catch(c)
    BY <1>2, <2>1, CatchKeys DEF MarkThrows, At
  <2>2. CASE Written(c)
    BY <1>2, <2>2, WrittenKeys DEF MarkThrows, At
  <2> QED BY <1>2, <2>1, <2>2 DEF MarkThrows
<1>3. ASSUME NEW c \in Callers, NEW j \in Jobs, MoveBegin(c, j) \/ OtherResume(c, j)
      PROVE  KeyInv'
  <2>1. /\ \A d \in Callers \ {c} : pc'[d] = pc[d] /\ call'[d] = call[d] /\ cur'[d] = cur[d]
        /\ UNCHANGED <<key, todo, resets, answered>>
        /\ pc'[c] \in {"mark", "resume"} /\ key[c] = NoKey
    BY <1>3 DEF MoveBegin, OtherResume, At, Goto, TypeOK, LocalsOK, KeyInv, KeyOwn
  <2>2. KeyOwn(c)' /\ Ahead(c)'
    BY <2>1 DEF KeyInv, KeyOwn, Ahead
  <2> QED BY <2>1, <2>2, OneCaller
<1>4. ASSUME NEW c \in Callers, NEW j \in Jobs, PurgeDelete(c, j) PROVE KeyInv'
  <2>1. /\ \A d \in Callers \ {c} : pc'[d] = pc[d] /\ cur'[d] = cur[d] /\ todo'[d] = todo[d]
        /\ UNCHANGED <<call, key, resets, answered>>
        /\ todo'[c] \subseteq todo[c] /\ pc'[c] = "unindex" /\ key[c] = NoKey
    BY <1>4 DEF PurgeDelete, At, Goto, TypeOK, LocalsOK, KeyInv, KeyOwn
  <2> QED BY <1>4, <2>1, GoesOn DEF PurgeDelete, At
<1>5. ASSUME NEW c \in Callers, NEW filter \in Filters, PurgeBegin(c, filter) PROVE KeyInv'
  <2>1. /\ \A d \in Callers \ {c} :
             /\ pc'[d] = pc[d] /\ call'[d] = call[d] /\ cur'[d] = cur[d] /\ todo'[d] = todo[d]
        /\ UNCHANGED <<key, resets, answered>>
        /\ pc'[c] = "purge" /\ todo'[c] \subseteq Jobs /\ key[c] = NoKey
    BY <1>5 DEF PurgeBegin, Listed, At, Goto, TypeOK, LocalsOK, KeyInv, KeyOwn
  <2>2. \A i \in todo'[c] : <<key'[c], i>> \notin resets'
    BY <2>1, KeylessApart
  <2>3. KeyOwn(c)' /\ Ahead(c)'
    BY <2>1, <2>2 DEF KeyInv, KeyOwn, Ahead
  <2> QED BY <2>1, <2>3, OneCaller
<1>6. ASSUME NEW c \in Callers, PurgeUnindex(c) PROVE KeyInv'
  <2>1. key[c] = NoKey /\ pc[c] = "unindex" /\ UNCHANGED <<resets, answered>>
    BY <1>6 DEF PurgeUnindex, At, KeyInv, KeyOwn
  <2>2. CASE Leave(c)
    BY <2>1, <2>2, LeavesKeyless DEF At
  <2>3. CASE ~Leave(c)
    <3>1. /\ \A d \in Callers \ {c} : pc'[d] = pc[d] /\ cur'[d] = cur[d] /\ todo'[d] = todo[d]
          /\ UNCHANGED <<call, key, todo>> /\ pc'[c] = "purge"
      BY <1>6, <2>3 DEF PurgeUnindex, Goto, locals, TypeOK, LocalsOK
    <3> QED BY <2>1, <3>1, GoesOn DEF At
  <2> QED BY <2>2, <2>3
<1>7. ASSUME NEW c \in Callers, PurgeThrows(c) PROVE KeyInv'
  <2>1. key[c] = NoKey /\ ~At(c, "idle")
    BY <1>7 DEF PurgeThrows, At, KeyInv, KeyOwn
  <2> QED BY <1>7, <2>1, LeavesKeyless DEF PurgeThrows
<1>8. ASSUME NEW c \in Callers, Crash(c) PROVE KeyInv'
  <2>1. resets' \subseteq resets /\ \A r \in resets' : r[1] # key[c]
    BY <1>8 DEF Crash, Forget
  <2> QED BY <1>8, <2>1, LeavesKeyless DEF Crash
<1>9. ASSUME NEW j \in Jobs, Cancel(j) \/ LeaseRunsOut(j) PROVE KeyInv'
  <2>1. UNCHANGED <<pc, call, key, todo, cur, resets, answered>>
    BY <1>9 DEF Cancel, LeaseRunsOut, locals
  <2> QED BY <2>1, UnchangedKeyInv
<1>10. CASE UNCHANGED vars
  BY <1>10, UnchangedKeyInv DEF vars, locals
<1> QED BY <1>1, <1>2, <1>3, <1>4, <1>5, <1>6, <1>7, <1>8, <1>9, <1>10 DEF Next

\* Callers that do not share a key start no job over twice with it: the first
\* call has stored its result, which the second returns, or has not done what it
\* would do again.
THEOREM KeysReplayOnce == Apart => (Spec => KeyedOnce)
<1>1. Init => KeyInv
  BY DEF Init, KeyInv, KeyOwn, Ahead, Accounted
<1>2. ASSUME IInv, KeyInv, [Next]_vars, NEW c \in Callers, At(c, "reset"), pc'[c] = "resume"
      PROVE  <<key[c], cur[c]>> \notin resets
  BY <1>2 DEF At, KeyInv, Ahead
<1>3. IInv /\ KeyInv /\ [Next]_vars =>
        \A c \in Callers :
          At(c, "reset") /\ pc'[c] = "resume" => <<key[c], cur[c]>> \notin resets
  BY <1>2
<1>4. CASE Apart
  <2>1. IInv /\ KeyInv /\ [Next]_vars => KeyInv'
    BY <1>4, NextKeyInv
  <2> QED BY <1>1, <1>3, <2>1, Invariance, PTL DEF Spec, KeyedOnce
<1> QED BY <1>4

=============================================================================
