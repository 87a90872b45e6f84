-------------------------- MODULE JobStoreProofs --------------------------
(***************************************************************************)
(* Proofs about JobStore, for any number of executions, jobs, prefixes,    *)
(* versions and faults, whichever calls are made.                          *)
(***************************************************************************)
EXTENDS JobStoreRefinement, TLAPS

\* The invariant by the state it is about: the store, and each caller.
StoreOK ==
  /\ IndexTrails
  /\ LocatorIndexed
  /\ \A j \in Legacy : Stored(j)

CallerOK(c) == Pointed(c) /\ Swapping(c) /\ Snapped(c) /\ LegacyAccounted(c)

\* Nothing of caller d has changed.
Still(d) ==
  /\ pc'[d] = pc[d]
  /\ kind'[d] = kind[d]
  /\ held'[d] = held[d]
  /\ target'[d] = target[d]
  /\ snap'[d] = snap[d]
  /\ todo'[d] = todo[d]
  /\ scan'[d] = scan[d]

\* What a step of c may do to the store as far as the others can tell.
Tolerable(c) ==
  /\ \A j \in Jobs : index[j].version > 0 => index'[j].version > 0
  /\ \A j \in Jobs :
       \/ record'[j] = record[j]
       \/ pc[c] = "put" /\ record'[j].version = record[j].version + 1
  /\ lock' = lock \/ lock \in {NoCaller, c}
  /\ \A d \in Callers \ {c} : Still(d)

\* Such a step leaves the others what they rely on.
LEMMA OthersOK ==
  ASSUME IInv, NEW c \in Callers, Tolerable(c), TypeOK', NEW d \in Callers \ {c}
  PROVE  CallerOK(d)'
<1>1. CallerOK(d) /\ Pointed(d) /\ Pointed(c) /\ Still(d)
  BY DEF IInv, CallerOK, Tolerable
<1>2. lock' = d \/ pc[d] \notin Locking
  BY <1>1, JobStoreAssumption DEF Pointed, Tolerable
<1>3. pc[d] \in Locking => record' = record
  <2>1. pc[d] \in Locking => pc[c] # "put"
    BY <1>1 DEF Pointed, Locking, Indexing
  <2>2. record \in [Jobs -> Stamped] /\ record' \in [Jobs -> Stamped]
    BY DEF IInv, TypeOK
  <2> QED BY <2>1, <2>2 DEF Tolerable
<1>4. Pointed(d)'
  BY <1>1, <1>2 DEF CallerOK, Pointed, Still
<1>5. Swapping(d)'
  BY <1>1, <1>3 DEF CallerOK, Swapping, Still, Locking, Indexing
<1>6. Snapped(d)'
  <2>1. \A j \in Jobs : /\ snap[d][j].version \in Nat
                        /\ record[j].version \in Nat
                        /\ record'[j].version \in Nat
    BY DEF IInv, TypeOK, Stamped
  <2>2. \A j \in Jobs : record[j].version <= record'[j].version
    BY <2>1 DEF Tolerable
  <2>3. \A j \in Jobs : (pc[d] = "put" => j # target[d]) =>
          snap'[d][j].version <= record'[j].version
    BY <1>1, <2>1, <2>2 DEF CallerOK, Snapped, Still
  <2>4. pc[d] \in Indexing => target[d] \in Jobs
    BY <1>1 DEF Pointed, Locking
  <2> QED BY <1>1, <2>3, <2>4 DEF CallerOK, Snapped, Still, Tolerable, Indexing
<1>7. LegacyAccounted(d)'
  BY <1>1, JobStoreAssumption DEF CallerOK, LegacyAccounted, Still, Tolerable
<1> QED BY <1>4, <1>5, <1>6, <1>7 DEF CallerOK

LEMMA IInvParts ==
  IInv <=> TypeOK /\ StoreOK /\ \A c \in Callers : CallerOK(c)
  BY DEF IInv, StoreOK, CallerOK

LEMMA StepOK ==
  ASSUME IInv, NEW c \in Callers, Tolerable(c), TypeOK', StoreOK', CallerOK(c)'
  PROVE  IInv'
  BY OthersOK DEF IInv, StoreOK, CallerOK

\* A listing's notes stay well-formed.
LEMMA ScanTyped ==
  ASSUME NEW s \in Scan, NEW S \in SUBSET Jobs,
         NEW P \in SUBSET Prefixes, NEW Q \in SUBSET Prefixes, NEW b \in BOOLEAN
  PROVE  /\ [s EXCEPT !.cand = S] \in Scan
         /\ [s EXCEPT !.failed = TRUE] \in Scan
         /\ [s EXCEPT !.prefixes = {}, !.pending = {}, !.failed = FALSE] \in Scan
         /\ [s EXCEPT !.prefixes = P, !.pending = Q, !.boot = TRUE] \in Scan
         /\ [s EXCEPT !.prefixes = P, !.boot = b] \in Scan
  BY DEF Scan

LEMMA NoScanTyped == NoScan \in Scan /\ Absent \in Stamped
  BY JobStoreAssumption DEF Scan, NoScan, Absent, Stamped, AnyStatus

\* A caller that leaves relies on nothing.
LEMMA LeaveOK ==
  ASSUME TypeOK, NEW c \in Callers, Leave(c)
  PROVE  /\ pc' \in [Callers -> Points]
         /\ kind' \in [Callers -> Kinds]
         /\ held' \in [Callers -> Copy]
         /\ target' \in [Callers -> Jobs \cup {NoJob}]
         /\ snap' \in [Callers -> [Jobs -> Stamped]]
         /\ todo' \in [Callers -> SUBSET Jobs]
         /\ seen' \in [Callers -> SUBSET Prefixes]
         /\ scan' \in [Callers -> Scan]
         /\ \A d \in Callers \ {c} : Still(d)
         /\ (\A j \in Jobs : record'[j].version \in Nat) => CallerOK(c)'
<1>1. NoCopy \in Copy /\ Absent.version = 0
  BY DEF NoCopy, Copy, Absent
<1>2. [j \in Jobs |-> Absent] \in [Jobs -> Stamped]
  BY NoScanTyped
<1>3. snap' \in [Callers -> [Jobs -> Stamped]] /\ held' \in [Callers -> Copy]
  BY <1>1, <1>2 DEF Leave, TypeOK
<1>4. \A j \in Jobs : snap'[c][j].version = 0
  BY <1>1 DEF Leave, TypeOK
<1>5. /\ pc'[c] = "idle" /\ kind'[c] = "none" /\ held'[c] = NoCopy
  BY DEF Leave, Goto, TypeOK
<1>6. (\A j \in Jobs : record'[j].version \in Nat) => CallerOK(c)'
  BY <1>4, <1>5 DEF CallerOK, Pointed, Swapping, Snapped, LegacyAccounted, Locking,
     Indexing, Listing
<1>7. \A d \in Callers \ {c} : Still(d)
  BY DEF Leave, Goto, TypeOK, Still
<1> QED BY <1>3, <1>6, <1>7, NoScanTyped DEF Leave, Goto, TypeOK, Points, Kinds

\* What is discarded is gone, the rest stays.
LEMMA DiscardOK ==
  ASSUME TypeOK, NEW c \in Callers, NEW j \in Jobs, Discard(c, j)
  PROVE  /\ target' \in [Callers -> Jobs \cup {NoJob}]
         /\ snap' \in [Callers -> [Jobs -> Stamped]]
         /\ todo' \in [Callers -> SUBSET Jobs]
         /\ snap'[c][j].version = 0
         /\ \A i \in Jobs \ {j} : snap'[c][i] = snap[c][i]
         /\ todo'[c] = todo[c] \ {j}
         /\ \A d \in Callers \ {c} : /\ target'[d] = target[d]
                                     /\ snap'[d] = snap[d]
                                     /\ todo'[d] = todo[d]
<1>1. snap[c] \in [Jobs -> Stamped] /\ snap' = [snap EXCEPT ![c] = [snap[c] EXCEPT ![j] = Absent]]
  BY DEF TypeOK, Discard
<1>2. [snap[c] EXCEPT ![j] = Absent] \in [Jobs -> Stamped]
  BY <1>1, NoScanTyped
<1>3. snap' \in [Callers -> [Jobs -> Stamped]]
  BY <1>1, <1>2 DEF TypeOK
<1>4. snap'[c][j].version = 0
  BY <1>1 DEF TypeOK, Absent
<1> QED BY <1>1, <1>3, <1>4 DEF TypeOK, Discard

LEMMA DiscardBelow ==
  ASSUME IInv, NEW c \in Callers, NEW j \in Jobs, Discard(c, j), pc[c] # "put"
  PROVE  \A i \in Jobs : snap'[c][i].version <= record[i].version
<1>1. \A i \in Jobs : record[i].version \in Nat /\ snap[c][i].version <= record[i].version
  BY DEF IInv, TypeOK, Stamped, Snapped
<1>2. snap'[c][j].version = 0 /\ \A i \in Jobs \ {j} : snap'[c][i] = snap[c][i]
  BY DiscardOK DEF IInv
<1> QED BY <1>1, <1>2

LEMMA SetScan ==
  ASSUME TypeOK, NEW c \in Callers, NEW s \in Scan, scan' = [scan EXCEPT ![c] = s]
  PROVE  scan' \in [Callers -> Scan]
  BY DEF TypeOK

\* Where a caller in the locked region stands.
LEMMA LockingFacts ==
  ASSUME IInv, NEW c \in Callers, pc[c] \in Locking \cup {"fetch"}
  PROVE  /\ target[c] \in Jobs
         /\ snap[c] \in [Jobs -> Stamped]
         /\ snap[c][target[c]] \in Stamped
         /\ held[c] \in Copy
         /\ scan[c] \in Scan
         /\ Prefix[target[c]] \in Prefixes
  BY JobStoreAssumption DEF IInv, TypeOK, Pointed

LEMMA ReadLocateStep ==
  ASSUME IInv, NEW c \in Callers, NEW j \in Jobs, NEW scoped \in BOOLEAN, ReadLocate(c, j, scoped)
  PROVE  IInv'
<1>1. TypeOK'
  BY DEF IInv, ReadLocate, Goto, At, store, locals, TypeOK, Stamped, Points, Locking,
        Indexing, Listing, Kinds, Copy, NoCopy
<1>2. Tolerable(c)
  BY DEF IInv, ReadLocate, Goto, At, store, locals, Snapped, Tolerable, Still
<1>3. StoreOK'
  BY DEF IInv, ReadLocate, Goto, At, store, locals, Stored, AnyStatus, Pointed, Swapping,
        Snapped, StoreOK, IndexTrails, LocatorIndexed
<1>4. Pointed(c)'
  BY DEF IInv, ReadLocate, Goto, At, store, locals, TypeOK, Stamped, Points, Locking,
        Indexing, Listing, Kinds, Copy, Stored, AnyStatus, Pointed
<1>5. Swapping(c)'
  BY DEF IInv, ReadLocate, Goto, At, store, locals, Stored, AnyStatus, Pointed, Swapping
<1>6. Snapped(c)'
  BY DEF IInv, ReadLocate, Goto, At, store, locals, TypeOK, Stamped, Points, Locking,
        Indexing, Listing, Kinds, Copy, Snapped
<1>7. LegacyAccounted(c)'
  BY DEF IInv, ReadLocate, Goto, At, store, locals, Stored, AnyStatus, Pointed, Snapped,
        LegacyAccounted
<1> QED BY <1>1, <1>2, <1>3, <1>4, <1>5, <1>6, <1>7, StepOK DEF CallerOK

LEMMA ReadFetchStep ==
  ASSUME IInv, NEW c \in Callers, ReadFetch(c)
  PROVE  IInv'
<1> DEFINE j == target[c]
<1>1. /\ j \in Jobs /\ snap[c] \in [Jobs -> Stamped] /\ record[j] \in Stamped /\ TypeOK
      /\ pc[c] = "fetch" /\ kind[c] = "read"
      /\ UNCHANGED <<store, lock, faults, whole, steady>>
  BY LockingFacts DEF IInv, TypeOK, ReadFetch, At, Pointed
<1>2. StoreOK' /\ \A i \in Jobs : record'[i].version \in Nat
  BY <1>1 DEF IInv, TypeOK, Stamped, store, StoreOK, IndexTrails, LocatorIndexed, Stored
<1>3. CASE Stored(j)
  <2> DEFINE r == IF j \in todo[c] THEN record[j] ELSE snap[c][j]
  <2>0. /\ snap' = [snap EXCEPT ![c] = [snap[c] EXCEPT ![j] = r]]
        /\ held' = [held EXCEPT ![c] = [job |-> j, version |-> record[j].version]]
        /\ target' = [target EXCEPT ![c] = NoJob]
        /\ pc' = [pc EXCEPT ![c] = "fill"]
        /\ UNCHANGED <<kind, todo, seen, scan>>
    BY <1>3 DEF ReadFetch, Leave, Goto
  <2>1. snap' \in [Callers -> [Jobs -> Stamped]] /\ r \in Stamped
    BY <1>1, <2>0 DEF TypeOK
  <2>2. held' \in [Callers -> Copy] /\ held'[c].job = j
    BY <1>1, <2>0 DEF TypeOK, Copy, Stamped
  <2>3. TypeOK'
    BY <1>1, <2>0, <2>1, <2>2 DEF TypeOK, store, Points
  <2>4. Tolerable(c)
    BY <1>1, <2>0 DEF Tolerable, Still, TypeOK, store
  <2>5. Pointed(c)' /\ Swapping(c)' /\ LegacyAccounted(c)'
    BY <1>1, <2>0, <2>2 DEF Pointed, Swapping, LegacyAccounted, TypeOK, Points, Locking,
       Indexing, Listing
  <2>6. Snapped(c)'
    <3>1. \A i \in Jobs : snap'[c][i] = IF i = j THEN r ELSE snap[c][i]
      BY <1>1, <2>0 DEF TypeOK
    <3>2. \A i \in Jobs : snap[c][i].version <= record[i].version
      BY <1>1 DEF IInv, Snapped
    <3>3. \A i \in todo[c] : i = j
      BY <1>1 DEF IInv, Snapped
    <3> QED BY <1>1, <1>3, <2>0, <2>1, <3>1, <3>2, <3>3 DEF Snapped, TypeOK, Stored, store,
               Stamped, Indexing
  <2> QED BY <1>2, <2>3, <2>4, <2>5, <2>6, StepOK DEF CallerOK
<1>4. CASE ~Stored(j)
  <2>1. Leave(c)
    BY <1>4 DEF ReadFetch
  <2>2. TypeOK' /\ CallerOK(c)' /\ Tolerable(c)
    BY <1>1, <1>2, <2>1, LeaveOK DEF TypeOK, store, Tolerable
  <2> QED BY <1>2, <2>2, StepOK
<1> QED BY <1>3, <1>4

LEMMA EnqueueStep ==
  ASSUME IInv, NEW c \in Callers, NEW j \in Jobs, Enqueue(c, j)
  PROVE  IInv'
<1>1. TypeOK'
  BY DEF IInv, Enqueue, Goto, At, store, locals, TypeOK, Stamped, Points, Locking, Indexing,
        Listing, Kinds, Copy, NoCopy
<1>2. Tolerable(c)
  BY DEF IInv, Enqueue, Goto, At, store, locals, Snapped, Tolerable, Still
<1>3. StoreOK'
  BY DEF IInv, Enqueue, Goto, At, store, locals, Stored, AnyStatus, Pointed, Swapping,
        Snapped, StoreOK, IndexTrails, LocatorIndexed
<1>4. Pointed(c)'
  <2>1. held'[c].job = j /\ pc'[c] = "holding" /\ kind'[c] = kind[c] /\ pc[c] = "idle"
    BY DEF IInv, TypeOK, Enqueue, Goto, At, locals
  <2> QED BY <2>1 DEF IInv, Pointed, Locking, Indexing, Listing
<1>5. Swapping(c)'
  BY DEF IInv, Enqueue, Goto, At, store, locals, Stored, AnyStatus, Pointed, Swapping
<1>6. Snapped(c)'
  BY DEF IInv, Enqueue, Goto, At, store, locals, Indexing, Listing, Kinds, Copy, Snapped
<1>7. LegacyAccounted(c)'
  BY DEF IInv, Enqueue, Goto, At, store, locals, Stored, AnyStatus, Pointed, Snapped,
        LegacyAccounted
<1> QED BY <1>1, <1>2, <1>3, <1>4, <1>5, <1>6, <1>7, StepOK DEF CallerOK

LEMMA ForgetStep ==
  ASSUME IInv, NEW c \in Callers, Forget(c)
  PROVE  IInv'
<1>1. StoreOK' /\ \A i \in Jobs : record'[i].version \in Nat
  BY DEF IInv, TypeOK, Stamped, Forget, store, StoreOK, IndexTrails, LocatorIndexed, Stored
<1>2. TypeOK' /\ CallerOK(c)' /\ Tolerable(c)
  BY <1>1, LeaveOK DEF IInv, TypeOK, Forget, store, Tolerable
<1> QED BY <1>1, <1>2, StepOK

LEMMA WriteBeginStep ==
  ASSUME IInv, NEW c \in Callers, NEW st \in Statuses, WriteBegin(c, st)
  PROVE  IInv'
<1>1. TypeOK'
  <2>0. /\ held[c] \in Copy /\ held[c].job \in Jobs /\ snap[c] \in [Jobs -> Stamped] /\ TypeOK
    BY DEF IInv, TypeOK, WriteBegin, At, Pointed
  <2>1. [version |-> held[c].version + 1, status |-> st] \in Stamped
    BY <2>0 DEF Copy, Stamped
  <2>2. snap' \in [Callers -> [Jobs -> Stamped]]
    BY <2>0, <2>1 DEF WriteBegin, TypeOK
  <2> QED BY <2>0, <2>2 DEF WriteBegin, TypeOK, Points, Locking, Indexing, Listing, Kinds,
        store, locals, Goto, At
<1>2. Tolerable(c)
  BY JobStoreAssumption DEF IInv, WriteBegin, Goto, LockFree, VersionMatches, At, store,
        locals, TypeOK, Stamped, Pointed, Swapping, Snapped, Tolerable, Still
<1>3. StoreOK'
  BY JobStoreAssumption DEF IInv, WriteBegin, store, locals, TypeOK, Stamped, NoScan,
        Absent, Stored, AnyStatus, Pointed, Swapping, Snapped, StoreOK, IndexTrails,
        LocatorIndexed
<1>4. Pointed(c)'
  BY DEF IInv, WriteBegin, Goto, LockFree, VersionMatches, At, store, locals, TypeOK,
        Stamped, Points, Locking, Indexing, Listing, Pointed
<1>5. Swapping(c)'
  BY DEF IInv, WriteBegin, Goto, LockFree, VersionMatches, At, store, locals, TypeOK,
        Stamped, Points, Locking, Indexing, Listing, Pointed, Swapping, Snapped
<1>6. Snapped(c)'
  BY DEF IInv, WriteBegin, Goto, LockFree, VersionMatches, At, store, locals, TypeOK,
        Stamped, Pointed, Swapping, Snapped
<1>7. LegacyAccounted(c)'
  BY DEF IInv, WriteBegin, Goto, LockFree, VersionMatches, At, Points, Locking, Indexing,
        Listing, Pointed, Snapped, LegacyAccounted
<1> QED BY <1>1, <1>2, <1>3, <1>4, <1>5, <1>6, <1>7, StepOK DEF CallerOK

LEMMA WriteRefusedStep ==
  ASSUME IInv, NEW c \in Callers, WriteRefused(c)
  PROVE  IInv'
<1>1. StoreOK' /\ \A i \in Jobs : record'[i].version \in Nat
  BY DEF IInv, TypeOK, Stamped, WriteRefused, store, StoreOK, IndexTrails, LocatorIndexed, Stored
<1>2. TypeOK' /\ CallerOK(c)' /\ Tolerable(c)
  BY <1>1, LeaveOK DEF IInv, TypeOK, WriteRefused, store, Tolerable
<1> QED BY <1>1, <1>2, StepOK

LEMMA PutStep ==
  ASSUME IInv, NEW c \in Callers, Put(c)
  PROVE  IInv'
<1>1. TypeOK'
  BY LockingFacts DEF IInv, Put, TypeOK, Points, Locking, Indexing, Listing, Kinds, store,
        locals, Goto, At
<1>2. Tolerable(c)
  BY DEF IInv, Put, Goto, At, store, locals, Stored, AnyStatus, Pointed, Swapping, Snapped,
        Tolerable, Still
<1>3. StoreOK'
  BY DEF IInv, Put, Goto, At, store, locals, TypeOK, Stamped, Points, Locking, Indexing,
        Listing, Kinds, Copy, Stored, AnyStatus, Pointed, Swapping, Snapped, StoreOK,
        IndexTrails, LocatorIndexed
<1>4. Pointed(c)'
  BY DEF IInv, Put, Goto, At, store, locals, TypeOK, Stamped, Points, Locking, Indexing,
        Listing, Kinds, Copy, Stored, AnyStatus, Pointed
<1>5. Swapping(c)'
  BY DEF IInv, Put, Goto, At, store, locals, TypeOK, Stamped, Points, Locking, Stored,
        AnyStatus, Pointed, Swapping
<1>6. Snapped(c)'
  BY DEF IInv, Put, Goto, At, store, locals, TypeOK, Stamped, Points, Locking, Indexing,
        Listing, Kinds, Copy, Stored, AnyStatus, Pointed, Swapping, Snapped
<1>7. LegacyAccounted(c)'
  BY DEF IInv, Put, At, Goto, Swapping, LegacyAccounted, locals
<1> QED BY <1>1, <1>2, <1>3, <1>4, <1>5, <1>6, <1>7, StepOK DEF CallerOK

LEMMA RegisterStep ==
  ASSUME IInv, NEW c \in Callers, Register(c)
  PROVE  IInv'
<1>1. TypeOK'
  BY DEF IInv, Register, Goto, At, store, locals, TypeOK, Stamped, Points, Locking, Indexing
<1>2. Tolerable(c)
  BY DEF IInv, Register, Goto, At, store, locals, TypeOK, Stamped, Points, Locking, Snapped,
        Tolerable, Still
<1>3. StoreOK'
  BY DEF IInv, Register, Goto, At, store, locals, Stored, AnyStatus, Pointed, Swapping,
        Snapped, StoreOK, IndexTrails, LocatorIndexed
<1>4. Pointed(c)'
  BY DEF IInv, Register, Goto, At, store, locals, TypeOK, Stamped, Points, Locking,
        Indexing, Listing, Kinds, Copy, Stored, AnyStatus, Pointed
<1>5. Swapping(c)'
  BY DEF IInv, Register, Goto, At, store, locals, TypeOK, Stamped, Points, Locking, Stored,
        AnyStatus, Pointed, Swapping
<1>6. Snapped(c)'
  BY DEF IInv, Register, Goto, At, store, locals, TypeOK, Stamped, Points, Locking,
        Indexing, Listing, Kinds, Copy, Snapped
<1>7. LegacyAccounted(c)'
  BY DEF IInv, Register, Goto, At, store, locals, TypeOK, Stamped, Points, Locking,
        Indexing, Listing, Kinds, Copy, LegacyAccounted
<1> QED BY <1>1, <1>2, <1>3, <1>4, <1>5, <1>6, <1>7, StepOK DEF CallerOK

LEMMA RegisterWriteStep ==
  ASSUME IInv, NEW c \in Callers, RegisterWrite(c)
  PROVE  IInv'
<1>1. TypeOK'
  BY LockingFacts DEF IInv, RegisterWrite, TypeOK, Points, Locking, Indexing, Listing,
        Kinds, store, locals, Goto, At
<1>2. Tolerable(c)
  BY DEF IInv, RegisterWrite, Goto, At, store, locals, Snapped, Tolerable, Still
<1>3. StoreOK'
  BY DEF IInv, RegisterWrite, Stored, AnyStatus, Pointed, Swapping, Snapped, StoreOK,
        IndexTrails, LocatorIndexed
<1>4. Pointed(c)'
  BY DEF IInv, RegisterWrite, Goto, At, store, locals, TypeOK, Stamped, Points, Locking,
        Indexing, Listing, Kinds, Copy, Stored, AnyStatus, Pointed
<1>5. Swapping(c)'
  BY DEF IInv, RegisterWrite, Goto, At, store, locals, Indexing, Listing, Kinds, Copy,
        Stored, AnyStatus, Pointed, Swapping
<1>6. Snapped(c)'
  BY DEF IInv, RegisterWrite, Goto, At, store, locals, Indexing, Listing, Kinds, Copy, Snapped
<1>7. LegacyAccounted(c)'
  BY DEF IInv, RegisterWrite, Goto, At, store, locals, Indexing, Listing, Kinds, Copy,
        LegacyAccounted
<1> QED BY <1>1, <1>2, <1>3, <1>4, <1>5, <1>6, <1>7, StepOK DEF CallerOK

LEMMA PutBucketStep ==
  ASSUME IInv, NEW c \in Callers, PutBucket(c)
  PROVE  IInv'
<1>1. TypeOK'
  BY LockingFacts DEF IInv, PutBucket, Summary, TypeOK, Points, Locking, Indexing, Listing,
        Kinds, store, locals, Goto, At
<1>2. Tolerable(c)
  BY DEF IInv, PutBucket, Goto, Summary, At, store, locals, TypeOK, Stamped, Points,
        Locking, Indexing, Listing, Kinds, Swapping, Snapped, Tolerable, Still
<1>3. StoreOK'
  BY JobStoreAssumption DEF IInv, PutBucket, Goto, Summary, At, store, Locking, Indexing,
        Listing, Kinds, Absent, Stored, AnyStatus, Pointed, Swapping, Snapped, StoreOK,
        IndexTrails, LocatorIndexed
<1>4. Pointed(c)'
  BY DEF IInv, PutBucket, Goto, Summary, At, store, locals, TypeOK, Stamped, Points,
        Locking, Indexing, Listing, Kinds, Absent, Stored, AnyStatus, Pointed
<1>5. Swapping(c)'
  BY DEF IInv, PutBucket, Goto, Summary, At, store, locals, TypeOK, Stamped, Points,
        Locking, Indexing, Listing, Kinds, Swapping, Snapped
<1>6. Snapped(c)'
  BY <1>1 DEF IInv, PutBucket, Goto, Summary, At, store, locals, TypeOK, Stamped, Points,
        Locking, Indexing, Listing, Kinds, Swapping, Snapped
<1>7. LegacyAccounted(c)'
  BY DEF IInv, PutBucket, Goto, Summary, At, store, locals, TypeOK, Stamped, Points,
        Locking, Indexing, Listing, Kinds, Snapped, LegacyAccounted
<1> QED BY <1>1, <1>2, <1>3, <1>4, <1>5, <1>6, <1>7, StepOK DEF CallerOK

LEMMA PutLocatorStep ==
  ASSUME IInv, NEW c \in Callers, PutLocator(c)
  PROVE  IInv'
<1> DEFINE j == target[c]
<1>1. /\ j \in Jobs /\ held[c] \in Copy /\ TypeOK /\ pc[c] = "locator"
      /\ pc[c] \in Locking /\ pc[c] \in Indexing /\ lock = c
      /\ index[j].version > 0
      /\ Discard(c, j)
      /\ UNCHANGED <<record, index, registry, legacy, seen, scan, faults, steady>>
      /\ locator' = locator \cup {j} /\ lock' = NoCaller
  BY LockingFacts DEF IInv, PutLocator, At, Pointed, Snapped, Locking, Indexing
<1>2. StoreOK'
  BY <1>1 DEF IInv, TypeOK, StoreOK, IndexTrails, LocatorIndexed, Stored
<1>3. /\ target' \in [Callers -> Jobs \cup {NoJob}]
      /\ snap' \in [Callers -> [Jobs -> Stamped]]
      /\ todo' \in [Callers -> SUBSET Jobs]
      /\ \A i \in Jobs : snap'[c][i].version <= record[i].version
      /\ \A i \in todo'[c] : i # j /\ i \in todo[c] /\ i \in Jobs /\ snap'[c][i] = snap[c][i]
      /\ \A i \in todo[c] : i # j => i \in todo'[c]
  <2>1. \A i \in Jobs : snap'[c][i].version <= record[i].version
    <3>1. pc[c] # "put"
      BY <1>1
    <3> QED BY <1>1, <3>1, DiscardBelow
  <2>2. /\ target' \in [Callers -> Jobs \cup {NoJob}]
        /\ snap' \in [Callers -> [Jobs -> Stamped]]
        /\ todo' \in [Callers -> SUBSET Jobs]
        /\ todo'[c] = todo[c] \ {j}
        /\ \A i \in Jobs \ {j} : snap'[c][i] = snap[c][i]
    BY <1>1, DiscardOK
  <2>3. todo[c] \subseteq Jobs
    BY <1>1 DEF TypeOK
  <2> QED BY <2>1, <2>2, <2>3
<1>4. CASE kind[c] = "write"
  <2>0. /\ held' = [held EXCEPT ![c] = [held[c] EXCEPT !.version = @ + 1]]
        /\ whole' = whole \cup {j}
        /\ kind' = [kind EXCEPT ![c] = "none"]
        /\ pc' = [pc EXCEPT ![c] = "holding"]
    BY <1>4 DEF PutLocator, Goto
  <2>1. [held[c] EXCEPT !.version = @ + 1] \in Copy
    BY <1>1 DEF Copy
  <2>2. held'[c].job = j
    <3>1. held[c].job = j
      BY <1>1, <1>4 DEF IInv, Swapping
    <3> QED BY <1>1, <2>0, <3>1 DEF TypeOK, Copy
  <2>3. TypeOK'
    <3>1. held' \in [Callers -> Copy]
      BY <1>1, <2>0, <2>1 DEF TypeOK
    <3> QED BY <1>1, <1>3, <2>0, <3>1 DEF TypeOK, Points, Kinds
  <2>4. CallerOK(c)'
    BY <1>1, <1>3, <2>0, <2>2 DEF CallerOK, TypeOK, Pointed, Swapping, Snapped,
          LegacyAccounted, Points, Locking, Indexing, Listing
  <2>5. Tolerable(c)
    BY <1>1, <2>0, DiscardOK DEF Tolerable, Still, TypeOK
  <2> QED BY <1>2, <2>3, <2>4, <2>5, StepOK
<1>5. CASE kind[c] # "write"
  <2>0. /\ pc' = [pc EXCEPT ![c] = "fill"] /\ UNCHANGED <<kind, held, whole>>
    BY <1>5 DEF PutLocator, Goto
  <2>1. TypeOK'
    BY <1>1, <1>3, <2>0 DEF TypeOK, Points
  <2>2. Pointed(c)' /\ Swapping(c)'
    BY <1>1, <1>5, <2>0 DEF IInv, TypeOK, Kinds, Pointed, Swapping, Snapped,
          LegacyAccounted, Points, Locking, Indexing, Listing
  <2>3. Snapped(c)'
    BY <1>1, <1>3, <1>5, <2>0 DEF IInv, TypeOK, Snapped, Indexing
  <2>4. LegacyAccounted(c)'
    BY <1>1, <1>3, <2>0, JobStoreAssumption DEF IInv, TypeOK, LegacyAccounted
  <2>5. Tolerable(c)
    BY <1>1, <2>0, DiscardOK DEF Tolerable, Still, TypeOK
  <2> QED BY <1>2, <2>1, <2>2, <2>3, <2>4, <2>5, StepOK DEF CallerOK
<1> QED BY <1>4, <1>5

LEMMA ThrowsStep ==
  ASSUME IInv, NEW c \in Callers, Throws(c)
  PROVE  IInv'
<1> DEFINE j == target[c]
<1>1. /\ j \in Jobs /\ scan[c] \in Scan /\ TypeOK /\ pc[c] \in Locking /\ lock = c
      /\ UNCHANGED <<store, whole, steady>> /\ lock' = NoCaller
  BY LockingFacts DEF IInv, TypeOK, Throws, Pointed
<1>2. StoreOK' /\ \A i \in Jobs : record'[i].version \in Nat
  BY <1>1 DEF IInv, TypeOK, Stamped, store, StoreOK, IndexTrails, LocatorIndexed, Stored
<1>3. faults' \in 0 .. MaxFaults
  BY JobStoreAssumption DEF IInv, TypeOK, Throws, Strike
<1>4. CASE kind[c] = "write"
  <2>1. Leave(c)
    BY <1>4 DEF Throws
  <2>2. TypeOK' /\ CallerOK(c)' /\ Tolerable(c)
    BY <1>1, <1>2, <1>3, <2>1, LeaveOK DEF TypeOK, store, Tolerable
  <2> QED BY <1>2, <2>2, StepOK
<1>5. CASE kind[c] # "write"
  <2>0. /\ Discard(c, j) /\ UNCHANGED <<kind, held>> /\ pc' = [pc EXCEPT ![c] = "fill"]
        /\ seen' = [seen EXCEPT ![c] = {}]
        /\ scan' = [scan EXCEPT ![c] = [scan[c] EXCEPT !.failed = TRUE]]
    BY <1>5 DEF Throws, Goto, Skipped
  <2>1. [scan[c] EXCEPT !.failed = TRUE] \in Scan /\ [scan[c] EXCEPT !.failed = TRUE].failed
    BY <1>1 DEF Scan
  <2>2. scan' \in [Callers -> Scan] /\ scan'[c].failed
    BY <1>1, <2>0, <2>1, SetScan DEF TypeOK
  <2>3. /\ target' \in [Callers -> Jobs \cup {NoJob}]
        /\ snap' \in [Callers -> [Jobs -> Stamped]]
        /\ todo' \in [Callers -> SUBSET Jobs]
        /\ \A i \in todo'[c] : i # j /\ i \in todo[c] /\ i \in Jobs /\ snap'[c][i] = snap[c][i]
    BY <1>1, <2>0, DiscardOK DEF TypeOK
  <2>4. TypeOK'
    BY <1>1, <1>3, <2>0, <2>2, <2>3 DEF TypeOK, store, Points
  <2>5. pc[c] # "put" /\ pc[c] \in Indexing
    BY <1>1, <1>5 DEF IInv, Swapping, Locking
  <2>6. \A i \in Jobs : snap'[c][i].version <= record[i].version
    BY <1>1, <2>0, <2>5, DiscardBelow
  <2>7. CallerOK(c)'
    BY <1>1, <1>5, <2>0, <2>2, <2>3, <2>5, <2>6 DEF IInv, CallerOK, TypeOK, store, Kinds,
          Pointed, Swapping, Snapped, LegacyAccounted, Points, Locking, Indexing, Listing
  <2>8. Tolerable(c)
    BY <1>1, <2>0, DiscardOK DEF Tolerable, Still, TypeOK, store
  <2> QED BY <1>2, <2>4, <2>7, <2>8, StepOK
<1> QED BY <1>4, <1>5

LEMMA FillBeginStep ==
  ASSUME IInv, NEW c \in Callers, FillBegin(c)
  PROVE  IInv'
<1>1. TypeOK'
  BY DEF IInv, FillBegin, Goto, LockFree, At, store, locals, TypeOK, Stamped, Points,
        Locking, Indexing, Listing, Kinds, Copy
<1>2. Tolerable(c)
  BY DEF IInv, FillBegin, Goto, LockFree, At, store, Swapping, Snapped, Tolerable, Still
<1>3. StoreOK'
  BY JobStoreAssumption DEF IInv, FillBegin, Goto, LockFree, At, store, Absent, Stored,
        AnyStatus, Pointed, Swapping, Snapped, StoreOK, IndexTrails, LocatorIndexed
<1>4. Pointed(c)'
  BY DEF IInv, FillBegin, Goto, LockFree, At, store, locals, TypeOK, Stamped, Points,
        Locking, Indexing, Listing, Kinds, Absent, Stored, AnyStatus, Pointed
<1>5. Swapping(c)'
  BY DEF IInv, FillBegin, Goto, LockFree, At, store, Absent, Stored, AnyStatus, Pointed,
        Swapping, Snapped
<1>6. Snapped(c)'
  <2>1. PICK j \in todo[c] : target' = [target EXCEPT ![c] = j]
    BY DEF FillBegin
  <2>2. snap[c][j].version > 0
    <3>1. pc[c] = "fill" /\ j \in Jobs
      BY DEF IInv, TypeOK, FillBegin, At
    <3>2. Snapped(c)
      BY DEF IInv
    <3>3. \A i \in todo[c] : snap[c][i].version > 0
      BY <3>1, <3>2 DEF Snapped
    <3> QED BY <2>1, <3>3
  <2>3. target'[c] = j /\ pc'[c] = "register" /\ snap' = snap /\ todo' = todo /\ record' = record
    BY <2>1 DEF IInv, TypeOK, FillBegin, Goto, store
  <2> QED BY <2>2, <2>3 DEF IInv, FillBegin, At, Snapped, Indexing
<1>7. LegacyAccounted(c)'
  BY DEF IInv, FillBegin, Goto, LockFree, At, store, Snapped, LegacyAccounted
<1> QED BY <1>1, <1>2, <1>3, <1>4, <1>5, <1>6, <1>7, StepOK DEF CallerOK

LEMMA FillRefusedStep ==
  ASSUME IInv, NEW c \in Callers, FillRefused(c)
  PROVE  IInv'
<1>1. TypeOK'
  <2>0. PICK j \in todo[c] : Discard(c, j)
    BY DEF FillRefused
  <2>1. /\ j \in Jobs /\ scan[c] \in Scan /\ snap[c] \in [Jobs -> Stamped] /\ TypeOK
    BY DEF IInv, TypeOK
  <2>2. [scan[c] EXCEPT !.failed = TRUE] \in Scan
    BY <2>1 DEF Scan
  <2>3. scan' \in [Callers -> Scan]
    BY <2>1, <2>2, SetScan DEF FillRefused, Skipped
  <2>4. snap' \in [Callers -> [Jobs -> Stamped]] /\ todo' \in [Callers -> SUBSET Jobs]
    BY <2>0, <2>1, NoScanTyped DEF Discard, TypeOK
  <2> QED BY <2>0, <2>1, <2>3, <2>4 DEF FillRefused, Discard, TypeOK, Points, Locking,
        Indexing, Listing, Kinds, store, locals, Goto, At
<1>2. Tolerable(c)
  BY JobStoreAssumption DEF IInv, FillRefused, Goto, Discard, Skipped, At, store, locals,
        TypeOK, Stamped, Pointed, Swapping, Snapped, Tolerable, Still
<1>3. StoreOK'
  BY JobStoreAssumption DEF IInv, FillRefused, store, locals, TypeOK, Stamped, NoScan,
        Absent, Stored, AnyStatus, Pointed, Swapping, Snapped, StoreOK, IndexTrails,
        LocatorIndexed
<1>4. Pointed(c)'
  BY DEF IInv, FillRefused, Goto, Discard, Skipped, At, Points, Locking, Indexing, Listing, Pointed
<1>5. Swapping(c)'
  BY DEF IInv, FillRefused, Goto, Discard, Skipped, At, Pointed, Swapping, Snapped
<1>6. Snapped(c)'
  <2>1. PICK j \in todo[c] : Discard(c, j)
    BY DEF FillRefused
  <2>2. j \in Jobs /\ pc[c] = "fill" /\ pc'[c] = "fill" /\ record' = record /\ TypeOK
    BY DEF IInv, TypeOK, FillRefused, At, store
  <2>3. \A i \in Jobs : snap'[c][i].version <= record'[i].version
    BY <2>1, <2>2, DiscardBelow
  <2>4. todo'[c] = todo[c] \ {j} /\ \A i \in Jobs \ {j} : snap'[c][i] = snap[c][i]
    BY <2>1, <2>2, DiscardOK
  <2>5. \A i \in todo'[c] : snap'[c][i].version > 0
    BY <2>2, <2>4 DEF IInv, TypeOK, Snapped
  <2> QED BY <2>2, <2>3, <2>5 DEF Snapped, Indexing
<1>7. LegacyAccounted(c)'
  BY DEF IInv, FillRefused, Goto, Discard, Skipped, At, store, locals, TypeOK, Stamped,
        Pointed, Snapped, LegacyAccounted
<1> QED BY <1>1, <1>2, <1>3, <1>4, <1>5, <1>6, <1>7, StepOK DEF CallerOK

LEMMA FillDoneStep ==
  ASSUME IInv, NEW c \in Callers, FillDone(c)
  PROVE  IInv'
<1>1. TypeOK'
  <2>1. CASE kind[c] = "read"
    <3>1. /\ scan' = [scan EXCEPT ![c] = NoScan] /\ kind' = [kind EXCEPT ![c] = "none"]
          /\ pc' = [pc EXCEPT ![c] = "holding"] /\ TypeOK
      BY <2>1 DEF IInv, FillDone, Goto
    <3>2. scan' \in [Callers -> Scan]
      BY <3>1, NoScanTyped, SetScan
    <3> QED BY <3>1, <3>2 DEF FillDone, TypeOK, store, Points, Kinds
  <2>2. CASE kind[c] = "list"
    BY <2>2 DEF IInv, FillDone, TypeOK, Points, Listing, Kinds, store, locals, Goto, At
  <2> QED BY <2>1, <2>2 DEF FillDone
<1>2. Tolerable(c)
  BY DEF IInv, FillDone, Goto, At, store, locals, TypeOK, Stamped, Points, Locking, Snapped,
        Tolerable, Still
<1>3. StoreOK'
  BY DEF IInv, FillDone, Goto, At, store, locals, Stored, AnyStatus, Pointed, Swapping,
        Snapped, StoreOK, IndexTrails, LocatorIndexed
<1>4. Pointed(c)'
  BY DEF IInv, FillDone, Goto, At, store, locals, TypeOK, Stamped, Points, Locking,
        Indexing, Listing, Kinds, Copy, Stored, AnyStatus, Pointed
<1>5. Swapping(c)'
  BY DEF IInv, FillDone, Goto, At, store, locals, TypeOK, Stamped, Points, Locking, Stored,
        AnyStatus, Pointed, Swapping
<1>6. Snapped(c)'
  BY DEF IInv, FillDone, Goto, At, store, locals, TypeOK, Stamped, Points, Locking,
        Indexing, Listing, Kinds, Copy, Snapped
<1>7. LegacyAccounted(c)'
  BY DEF IInv, FillDone, Goto, At, store, locals, TypeOK, Stamped, Points, Locking, LegacyAccounted
<1> QED BY <1>1, <1>2, <1>3, <1>4, <1>5, <1>6, <1>7, StepOK DEF CallerOK

LEMMA ListScopedStep ==
  ASSUME IInv, NEW c \in Callers, NEW st \in Statuses, NEW p \in Prefixes, ListScoped(c, st, p)
  PROVE  IInv'
<1>1. TypeOK'
  BY DEF IInv, ListScoped, Goto, ListBegin, NoScan, At, store, locals, TypeOK, Stamped,
        Points, Locking, Indexing, Listing, Kinds, Copy, NoCopy, Scan, NoScan
<1>2. Tolerable(c)
  <2>1. \A d \in Callers \ {c} : scan'[d] = scan[d] /\ kind'[d] = kind[d] /\ pc'[d] = pc[d]
    BY DEF IInv, TypeOK, ListScoped, ListBegin, Goto
  <2> QED BY <2>1 DEF IInv, TypeOK, ListScoped, ListBegin, store, Tolerable, Still
<1>3. StoreOK'
  BY JobStoreAssumption DEF IInv, ListScoped, Goto, ListBegin, NoScan, At, store, locals,
        TypeOK, Stamped, NoScan, Absent, Stored, AnyStatus, Pointed, Swapping, Snapped,
        StoreOK, IndexTrails, LocatorIndexed
<1>4. Pointed(c)'
  BY DEF IInv, ListScoped, Goto, ListBegin, At, store, locals, TypeOK, Stamped, Points,
        Locking, Indexing, Listing, NoScan, Pointed
<1>5. Swapping(c)'
  BY DEF IInv, ListScoped, Goto, ListBegin, At, NoScan, Pointed, Swapping, Snapped
<1>6. Snapped(c)'
  BY DEF IInv, ListScoped, Goto, ListBegin, At, store, locals, TypeOK, Stamped, Points,
        Locking, Indexing, Listing, NoScan, Pointed, Swapping, Snapped
<1>7. LegacyAccounted(c)'
  BY DEF IInv, ListScoped, Goto, ListBegin, At, store, locals, TypeOK, Stamped, Points,
        Locking, Indexing, Listing, NoScan, Pointed, Snapped, LegacyAccounted
<1> QED BY <1>1, <1>2, <1>3, <1>4, <1>5, <1>6, <1>7, StepOK DEF CallerOK

LEMMA ListAllStep ==
  ASSUME IInv, NEW c \in Callers, NEW st \in Statuses, ListAll(c, st)
  PROVE  IInv'
<1>1. TypeOK'
  BY DEF IInv, ListAll, Goto, ListBegin, NoScan, At, store, locals, TypeOK, Stamped, Points,
        Locking, Indexing, Listing, Kinds, Copy, NoCopy, Scan, NoScan
<1>2. Tolerable(c)
  <2>1. \A d \in Callers \ {c} : scan'[d] = scan[d] /\ kind'[d] = kind[d] /\ pc'[d] = pc[d]
    BY DEF IInv, TypeOK, ListAll, ListBegin, Goto
  <2> QED BY <2>1 DEF IInv, TypeOK, ListAll, ListBegin, store, Tolerable, Still
<1>3. StoreOK'
  BY JobStoreAssumption DEF IInv, ListAll, Goto, ListBegin, NoScan, At, store, locals,
        TypeOK, Stamped, NoScan, Absent, Stored, AnyStatus, Pointed, Swapping, Snapped,
        StoreOK, IndexTrails, LocatorIndexed
<1>4. Pointed(c)'
  BY DEF IInv, ListAll, Goto, ListBegin, At, store, locals, TypeOK, Stamped, Points,
        Locking, Indexing, Listing, NoScan, Pointed
<1>5. Swapping(c)'
  BY DEF IInv, ListAll, Goto, ListBegin, At, NoScan, Pointed, Swapping, Snapped
<1>6. Snapped(c)'
  BY DEF IInv, ListAll, Goto, ListBegin, At, store, locals, TypeOK, Stamped, Points,
        Locking, Indexing, Listing, NoScan, Pointed, Swapping, Snapped
<1>7. LegacyAccounted(c)'
  BY DEF IInv, ListAll, Goto, ListBegin, At, Points, Locking, Indexing, Listing, NoScan,
        Pointed, Snapped, LegacyAccounted
<1> QED BY <1>1, <1>2, <1>3, <1>4, <1>5, <1>6, <1>7, StepOK DEF CallerOK

LEMMA ReadRegistryStep ==
  ASSUME IInv, NEW c \in Callers, ReadRegistry(c)
  PROVE  IInv'
<1> DEFINE found == {Prefix[j] : j \in {k \in Jobs : Stored(k)}} \cup {Default}
           known == registry \cup {Default} \cup scan[c].pending
           b == scan[c].pending # {}
<1>1. /\ scan[c] \in Scan /\ TypeOK /\ pc[c] = "prefixes" /\ kind[c] = "list"
      /\ UNCHANGED <<store, lock, kind, held, target, snap, todo, seen, faults, whole, steady>>
  BY DEF IInv, TypeOK, ReadRegistry, At, Pointed, Listing
<1>2. found \in SUBSET Prefixes /\ known \in SUBSET Prefixes
  BY <1>1, JobStoreAssumption DEF Scan, TypeOK
<1>3. PICK t \in Scan : /\ scan' = [scan EXCEPT ![c] = t]
                       /\ t.pending \subseteq t.prefixes
  <2>1. CASE registry = {}
    <3> DEFINE t == [scan[c] EXCEPT !.prefixes = found, !.pending = found, !.boot = TRUE]
    <3>1. scan' = [scan EXCEPT ![c] = t]
      BY <2>1 DEF ReadRegistry
    <3> HIDE DEF found
    <3>2. t \in Scan /\ t.pending \subseteq t.prefixes
      BY <1>1, <1>2 DEF Scan
    <3> QED BY <3>1, <3>2
  <2>2. CASE registry # {}
    <3> DEFINE t == [scan[c] EXCEPT !.prefixes = known, !.boot = b]
    <3>1. scan' = [scan EXCEPT ![c] = t]
      BY <2>2 DEF ReadRegistry
    <3>2. scan[c].pending \subseteq known
      OBVIOUS
    <3> HIDE DEF known
    <3>3. t \in Scan /\ t.pending \subseteq t.prefixes
      BY <1>1, <1>2, <3>2 DEF Scan
    <3> QED BY <3>1, <3>3
  <2> QED BY <2>1, <2>2
<1>4. \E p \in {"collect", "registry"} : pc' = [pc EXCEPT ![c] = p]
  BY DEF ReadRegistry, Goto
<1>5. TypeOK'
  BY <1>1, <1>3, <1>4, SetScan DEF TypeOK, store, Points, Listing
<1>6. StoreOK'
  BY <1>1 DEF IInv, StoreOK, IndexTrails, LocatorIndexed, Stored, store
<1>7. CallerOK(c)'
  BY <1>1, <1>3, <1>4 DEF IInv, CallerOK, TypeOK, store, Pointed, Swapping, Snapped,
        LegacyAccounted, Points, Locking, Indexing
<1>8. Tolerable(c)
  BY <1>1, <1>3, <1>4 DEF TypeOK, store, Tolerable, Still
<1> QED BY <1>5, <1>6, <1>7, <1>8, StepOK

LEMMA WriteRegistryStep ==
  ASSUME IInv, NEW c \in Callers, WriteRegistry(c)
  PROVE  IInv'
<1>1. TypeOK'
  BY JobStoreAssumption DEF IInv, WriteRegistry, Goto, Strike, At, store, locals, TypeOK,
        Stamped, Points, Locking, Indexing, Listing, Kinds, Copy, NoCopy, Scan, NoScan,
        Absent
<1>2. Tolerable(c)
  BY DEF IInv, WriteRegistry, Goto, Strike, At, store, locals, TypeOK, Stamped, Points,
        Swapping, Snapped, Tolerable, Still
<1>3. StoreOK'
  BY JobStoreAssumption DEF IInv, WriteRegistry, Absent, Stored, AnyStatus, Pointed,
        Swapping, Snapped, StoreOK, IndexTrails, LocatorIndexed
<1>4. Pointed(c)'
  BY DEF IInv, WriteRegistry, Goto, Strike, At, store, locals, TypeOK, Stamped, Points,
        Locking, Indexing, Listing, Kinds, Absent, Stored, AnyStatus, Pointed
<1>5. Swapping(c)'
  BY DEF IInv, WriteRegistry, Goto, Strike, At, store, Locking, Indexing, Listing, Kinds,
        Swapping, Snapped
<1>6. Snapped(c)'
  BY DEF IInv, WriteRegistry, Goto, Strike, At, store, locals, TypeOK, Stamped, Points,
        Locking, Indexing, Listing, Kinds, Swapping, Snapped
<1>7. LegacyAccounted(c)'
  BY DEF IInv, WriteRegistry, Goto, Strike, At, store, locals, TypeOK, Stamped, Points,
        Locking, Indexing, Listing, Kinds, Snapped, LegacyAccounted
<1> QED BY <1>1, <1>2, <1>3, <1>4, <1>5, <1>6, <1>7, StepOK DEF CallerOK

LEMMA CollectStep ==
  ASSUME IInv, NEW c \in Callers, Collect(c)
  PROVE  IInv'
<1>1. TypeOK'
  <2>0. /\ scan[c] \in Scan /\ scan[c].cand \in SUBSET Jobs /\ TypeOK
    BY DEF IInv, TypeOK, Scan
  <2>1. PICK S \in SUBSET Jobs : scan' = [scan EXCEPT ![c] = [scan[c] EXCEPT !.cand = S]]
    <3> DEFINE S == {j \in Jobs : /\ index[j].version > 0
                              /\ index[j].status = scan[c].filter
                              /\ Prefix[j] \in scan[c].prefixes}
    <3>1. S \in SUBSET Jobs
      BY <2>0
    <3>2. scan' = [scan EXCEPT ![c] = [scan[c] EXCEPT !.cand = S]]
      BY DEF Collect
    <3> QED BY <3>1, <3>2
  <2>2. [scan[c] EXCEPT !.cand = S] \in Scan
    BY <2>0 DEF Scan
  <2>3. scan' \in [Callers -> Scan]
    BY <2>0, <2>1, <2>2, SetScan
  <2> QED BY <2>0, <2>3 DEF Collect, TypeOK, Points, Locking, Indexing, Listing, Kinds,
        store, locals, Goto, At
<1>2. Tolerable(c)
  BY DEF IInv, Collect, Goto, At, store, locals, Snapped, Tolerable, Still
<1>3. StoreOK'
  BY DEF IInv, Collect, Goto, At, store, locals, Stored, AnyStatus, Pointed, Swapping,
        Snapped, StoreOK, IndexTrails, LocatorIndexed
<1>4. Pointed(c)'
  BY DEF IInv, Collect, Goto, At, store, locals, TypeOK, Stamped, Points, Locking, Indexing,
        Listing, Kinds, Copy, Stored, AnyStatus, Pointed
<1>5. Swapping(c)'
  BY DEF IInv, Collect, Goto, At, store, locals, Indexing, Listing, Kinds, Copy, Stored,
        AnyStatus, Pointed, Swapping
<1>6. Snapped(c)'
  BY DEF IInv, Collect, Goto, At, store, locals, Indexing, Listing, Kinds, Copy, Snapped
<1>7. LegacyAccounted(c)'
  BY DEF IInv, Collect, Goto, At, store, locals, Indexing, Listing, Kinds, Copy, LegacyAccounted
<1> QED BY <1>1, <1>2, <1>3, <1>4, <1>5, <1>6, <1>7, StepOK DEF CallerOK

LEMMA SnapshotStep ==
  ASSUME IInv, NEW c \in Callers, Snapshot(c)
  PROVE  IInv'
<1>1. TypeOK'
  <2>0. /\ scan[c] \in Scan /\ scan[c].cand \in SUBSET Jobs /\ TypeOK
    BY DEF IInv, TypeOK, Scan
  <2>1. PICK S \in SUBSET Jobs : scan' = [scan EXCEPT ![c] = [scan[c] EXCEPT !.cand = S]]
    <3> DEFINE S == scan[c].cand \cup
               {j \in {i \in Jobs : Stored(i) /\ Prefix[i] \in scan[c].prefixes} :
                  record[j].status = scan[c].filter}
    <3>1. S \in SUBSET Jobs
      BY <2>0
    <3>2. scan' = [scan EXCEPT ![c] = [scan[c] EXCEPT !.cand = S]]
      BY DEF Snapshot
    <3> QED BY <3>1, <3>2
  <2>2. [scan[c] EXCEPT !.cand = S] \in Scan
    BY <2>0 DEF Scan
  <2>3. scan' \in [Callers -> Scan]
    BY <2>0, <2>1, <2>2, SetScan
  <2>4. snap' \in [Callers -> [Jobs -> Stamped]] /\ todo' \in [Callers -> SUBSET Jobs]
    BY <2>0, NoScanTyped DEF Snapshot, TypeOK
  <2> QED BY <2>0, <2>3, <2>4 DEF Snapshot, TypeOK, Points, Locking, Indexing, Listing,
        Kinds, store, locals, Goto, At
<1>2. Tolerable(c)
  BY DEF IInv, Snapshot, Goto, At, store, locals, Snapped, Tolerable, Still
<1>3. StoreOK'
  BY DEF IInv, Snapshot, Goto, At, store, locals, Stored, AnyStatus, Pointed, Swapping,
        Snapped, StoreOK, IndexTrails, LocatorIndexed
<1>4. Pointed(c)'
  BY DEF IInv, Snapshot, Goto, At, store, locals, TypeOK, Stamped, Points, Locking,
        Indexing, Listing, Kinds, Copy, Stored, AnyStatus, Pointed
<1>5. Swapping(c)'
  BY DEF IInv, Snapshot, Goto, At, store, locals, Indexing, Listing, Kinds, Copy, Stored,
        AnyStatus, Pointed, Swapping
<1>6. Snapped(c)'
  BY DEF IInv, Snapshot, Goto, At, store, locals, TypeOK, Stamped, Points, Locking,
        Indexing, Listing, Kinds, Copy, NoCopy, Scan, NoScan, Absent, Stored, AnyStatus,
        Pointed, Swapping, Snapped
<1>7. LegacyAccounted(c)'
  BY JobStoreAssumption DEF IInv, Snapshot, Goto, At, store, locals, TypeOK, Stamped,
        Points, Locking, LegacyAccounted
<1> QED BY <1>1, <1>2, <1>3, <1>4, <1>5, <1>6, <1>7, StepOK DEF CallerOK

LEMMA SettleStep ==
  ASSUME IInv, NEW c \in Callers, Settle(c)
  PROVE  IInv'
<1>1. TypeOK'
  <2>0. /\ scan[c] \in Scan /\ scan[c].pending \in SUBSET Prefixes /\ TypeOK
    BY DEF IInv, TypeOK, Scan
  <2>1. [scan[c] EXCEPT !.prefixes = {}, !.pending = {}, !.failed = FALSE] \in Scan
    BY <2>0 DEF Scan
  <2>2. scan' \in [Callers -> Scan]
    <3>1. scan' = [scan EXCEPT ![c] = [scan[c] EXCEPT
                     !.prefixes = {}, !.pending = {}, !.failed = FALSE]]
      BY DEF Settle
    <3> QED BY <2>0, <2>1, <3>1, SetScan
  <2>3. legacy' \in SUBSET Prefixes
    BY <2>0 DEF Settle, TypeOK
  <2> QED BY <2>0, <2>2, <2>3 DEF Settle, TypeOK, Points, Locking, Indexing, Listing, Kinds,
        store, locals, Goto, At
<1>2. Tolerable(c)
  BY DEF IInv, Settle, Goto, LockFree, At, store, locals, TypeOK, Stamped, Points, Swapping,
        Snapped, Tolerable, Still
<1>3. StoreOK'
  BY JobStoreAssumption DEF IInv, Settle, Absent, Stored, AnyStatus, Pointed, Swapping,
        Snapped, StoreOK, IndexTrails, LocatorIndexed
<1>4. Pointed(c)'
  BY DEF IInv, Settle, Goto, LockFree, At, store, Locking, Indexing, Listing, Kinds, Absent,
        Stored, AnyStatus, Pointed
<1>5. Swapping(c)'
  BY DEF IInv, Settle, Goto, LockFree, At, store, Locking, Indexing, Listing, Kinds,
        Swapping, Snapped
<1>6. Snapped(c)'
  BY DEF IInv, Settle, Goto, LockFree, At, store, Locking, Indexing, Listing, Kinds,
        Swapping, Snapped
<1>7. LegacyAccounted(c)'
  BY DEF IInv, Settle, locals, TypeOK, Stamped, Points, Snapped, LegacyAccounted
<1> QED BY <1>1, <1>2, <1>3, <1>4, <1>5, <1>6, <1>7, StepOK DEF CallerOK

LEMMA PickupStep ==
  ASSUME IInv, NEW c \in Callers, Pickup(c)
  PROVE  IInv'
<1>1. TypeOK'
  <2>0. /\ scan[c] \in Scan /\ scan[c].cand \in SUBSET Jobs /\ TypeOK
    BY DEF IInv, TypeOK, Scan
  <2>1. PICK S \in SUBSET Jobs : scan' = [scan EXCEPT ![c] = [scan[c] EXCEPT !.cand = S]]
    <3> DEFINE S == {j \in scan[c].cand : record[j].status = scan[c].filter}
    <3>1. S \in SUBSET Jobs
      BY <2>0
    <3>2. scan' = [scan EXCEPT ![c] = [scan[c] EXCEPT !.cand = S]]
      BY DEF Pickup
    <3> QED BY <3>1, <3>2
  <2>2. [scan[c] EXCEPT !.cand = S] \in Scan
    BY <2>0 DEF Scan
  <2>3. scan' \in [Callers -> Scan]
    BY <2>0, <2>1, <2>2, SetScan
  <2> QED BY <2>0, <2>3 DEF Pickup, TypeOK, Points, Locking, Indexing, Listing, Kinds,
        store, locals, Goto, At
<1>2. Tolerable(c)
  BY DEF IInv, Pickup, Goto, At, store, locals, Snapped, Tolerable, Still
<1>3. StoreOK'
  BY DEF IInv, Pickup, Goto, At, store, locals, Stored, AnyStatus, Pointed, Swapping,
        Snapped, StoreOK, IndexTrails, LocatorIndexed
<1>4. Pointed(c)'
  BY DEF IInv, Pickup, Goto, At, store, locals, TypeOK, Stamped, Points, Locking, Indexing,
        Listing, Kinds, Copy, Stored, AnyStatus, Pointed
<1>5. Swapping(c)'
  BY DEF IInv, Pickup, Goto, At, store, locals, Indexing, Listing, Kinds, Copy, Stored,
        AnyStatus, Pointed, Swapping
<1>6. Snapped(c)'
  BY DEF IInv, Pickup, Goto, At, store, locals, Indexing, Listing, Kinds, Copy, Snapped
<1>7. LegacyAccounted(c)'
  BY DEF IInv, Pickup, Goto, At, store, locals, Indexing, Listing, Kinds, Copy, LegacyAccounted
<1> QED BY <1>1, <1>2, <1>3, <1>4, <1>5, <1>6, <1>7, StepOK DEF CallerOK

LEMMA ListReturnStep ==
  ASSUME IInv, NEW c \in Callers, ListReturn(c)
  PROVE  IInv'
<1>1. TypeOK'
  BY DEF IInv, ListReturn, Goto, Leave, At, store, locals, TypeOK, Stamped, Points, Locking,
        Indexing, Listing, Kinds, Copy, NoCopy, Scan, NoScan, Absent, Stored, AnyStatus
<1>2. Tolerable(c)
  BY DEF IInv, ListReturn, Goto, Leave, At, store, Swapping, Snapped, Tolerable, Still
<1>3. StoreOK'
  BY JobStoreAssumption DEF IInv, ListReturn, Goto, Leave, At, store, Absent, Stored,
        AnyStatus, Pointed, Swapping, Snapped, StoreOK, IndexTrails, LocatorIndexed
<1>4. Pointed(c)'
  BY DEF IInv, ListReturn, Goto, Leave, At, store, locals, TypeOK, Stamped, Points, Locking,
        Indexing, Listing, Kinds, Absent, Stored, AnyStatus, Pointed
<1>5. Swapping(c)'
  BY DEF IInv, ListReturn, Goto, Leave, At, store, Locking, Indexing, Listing, Kinds,
        Swapping, Snapped
<1>6. Snapped(c)'
  BY DEF IInv, ListReturn, Goto, Leave, At, store, locals, TypeOK, Stamped, Points, Locking,
        Indexing, Listing, Kinds, Absent, Stored, AnyStatus, Pointed, Swapping, Snapped
<1>7. LegacyAccounted(c)'
  BY DEF IInv, ListReturn, Goto, Leave, At, store, Locking, Indexing, Listing, Kinds,
        Snapped, LegacyAccounted
<1> QED BY <1>1, <1>2, <1>3, <1>4, <1>5, <1>6, <1>7, StepOK DEF CallerOK

LEMMA CrashStep ==
  ASSUME IInv, NEW c \in Callers, Crash(c)
  PROVE  IInv'
<1>1. TypeOK'
  BY JobStoreAssumption DEF IInv, Crash, Goto, Leave, Strike, At, store, locals, TypeOK,
        Stamped, Points, Locking, Indexing, Listing, Kinds, Copy, NoCopy, Scan, NoScan,
        Absent, Stored, AnyStatus
<1>2. Tolerable(c)
  BY JobStoreAssumption DEF IInv, Crash, Goto, Leave, Strike, At, store, locals, TypeOK,
        Stamped, Pointed, Swapping, Snapped, Tolerable, Still
<1>3. StoreOK'
  BY JobStoreAssumption DEF IInv, Crash, store, locals, TypeOK, Stamped, NoScan, Absent,
        Stored, AnyStatus, Pointed, Swapping, Snapped, StoreOK, IndexTrails, LocatorIndexed
<1>4. Pointed(c)'
  BY DEF IInv, Crash, Goto, Leave, Strike, At, store, locals, TypeOK, Stamped, Points,
        Locking, Indexing, Listing, Pointed
<1>5. Swapping(c)'
  BY DEF IInv, Crash, Goto, Leave, Strike, At, store, locals, TypeOK, Stamped, Pointed,
        Swapping, Snapped
<1>6. Snapped(c)'
  BY DEF IInv, Crash, Goto, Leave, Strike, At, store, locals, TypeOK, Stamped, Points,
        Locking, Indexing, Listing, NoScan, Absent, Stored, AnyStatus, Pointed, Swapping,
        Snapped
<1>7. LegacyAccounted(c)'
  BY DEF IInv, Crash, Goto, Leave, Strike, At, store, locals, TypeOK, Stamped, Pointed,
        Snapped, LegacyAccounted
<1> QED BY <1>1, <1>2, <1>3, <1>4, <1>5, <1>6, <1>7, StepOK DEF CallerOK

----------------------------------------------------------------------------
LEMMA InitIInv == Init => IInv
<1> SUFFICES ASSUME Init PROVE IInv
  OBVIOUS
<1>1. /\ NoCopy \in Copy /\ NoScan \in Scan /\ Absent \in Stamped /\ Absent.version = 0
      /\ [version : {1}, status : Statuses] \subseteq Stamped
  BY NoScanTyped DEF NoCopy, Copy, Absent, Stamped
<1>2. TypeOK
  <2>1. record \in [Jobs -> Stamped]
    BY <1>1 DEF Init
  <2>2. index \in [Jobs -> Stamped] /\ snap \in [Callers -> [Jobs -> Stamped]]
    BY <1>1 DEF Init
  <2>3. held \in [Callers -> Copy] /\ scan \in [Callers -> Scan]
    BY <1>1 DEF Init
  <2>4. pc \in [Callers -> Points] /\ kind \in [Callers -> Kinds]
    BY DEF Init, Points, Kinds
  <2> QED BY <2>1, <2>2, <2>3, <2>4, JobStoreAssumption DEF Init, TypeOK
<1>3. StoreOK
  <2>1. /\ \A j \in Legacy : j \in Jobs /\ Stored(j)
        /\ \A j \in Jobs : index[j].version = 0
        /\ locator = {}
    BY <1>1, JobStoreAssumption DEF Init
  <2>2. \A j \in Jobs : record[j].version \in Nat
    BY <1>2 DEF TypeOK, Stamped
  <2> QED BY <2>1, <2>2 DEF StoreOK, IndexTrails, LocatorIndexed
<1>4. ASSUME NEW c \in Callers PROVE CallerOK(c)
  <2>1. pc[c] = "idle" /\ kind[c] = "none" /\ held[c] = NoCopy
    BY DEF Init
  <2>2. \A j \in Jobs : snap[c][j].version = 0 /\ record[j].version \in Nat
    BY <1>1, <1>2 DEF Init, TypeOK, Stamped
  <2> QED BY <2>1, <2>2 DEF CallerOK, Pointed, Swapping, Snapped, LegacyAccounted, Locking,
             Indexing, Listing
<1> QED BY <1>2, <1>3, <1>4, IInvParts

LEMMA UnchangedIInv == IInv /\ UNCHANGED vars => IInv'
<1> SUFFICES ASSUME IInv, UNCHANGED vars PROVE IInv'
  OBVIOUS
<1>1. TypeOK' /\ StoreOK'
  BY DEF IInv, TypeOK, StoreOK, IndexTrails, LocatorIndexed, Stored, vars, store, locals
<1>2. ASSUME NEW c \in Callers PROVE CallerOK(c)'
  BY DEF IInv, CallerOK, Pointed, Swapping, Snapped, LegacyAccounted, vars, store, locals
<1> QED BY <1>1, <1>2 DEF IInv, StoreOK, CallerOK

LEMMA NextIInv == IInv /\ [Next]_vars => IInv'
<1> SUFFICES ASSUME IInv, [Next]_vars PROVE IInv'
  OBVIOUS
<1>1. CASE UNCHANGED vars
  BY <1>1, UnchangedIInv
<1>2. ASSUME NEW c \in Callers,
             \/ \E j \in Jobs, scoped \in BOOLEAN : ReadLocate(c, j, scoped)
             \/ ReadFetch(c)
             \/ \E j \in Jobs : Enqueue(c, j)
             \/ Forget(c)
             \/ \E st \in Statuses : WriteBegin(c, st)
             \/ WriteRefused(c)
             \/ Put(c)
             \/ Register(c)
             \/ RegisterWrite(c)
             \/ PutBucket(c)
             \/ PutLocator(c)
             \/ Throws(c)
      PROVE  IInv'
  BY <1>2, ReadLocateStep, ReadFetchStep, EnqueueStep, ForgetStep, WriteBeginStep,
     WriteRefusedStep, PutStep, RegisterStep, RegisterWriteStep, PutBucketStep,
     PutLocatorStep, ThrowsStep
<1>3. ASSUME NEW c \in Callers,
             \/ FillBegin(c)
             \/ FillRefused(c)
             \/ FillDone(c)
             \/ \E st \in Statuses, p \in Prefixes : ListScoped(c, st, p)
             \/ \E st \in Statuses : ListAll(c, st)
             \/ ReadRegistry(c)
             \/ WriteRegistry(c)
             \/ Collect(c)
             \/ Snapshot(c)
             \/ Settle(c)
             \/ Pickup(c)
             \/ ListReturn(c)
             \/ Crash(c)
      PROVE  IInv'
  BY <1>3, FillBeginStep, FillRefusedStep, FillDoneStep, ListScopedStep, ListAllStep,
     ReadRegistryStep, WriteRegistryStep, CollectStep, SnapshotStep, SettleStep,
     PickupStep, ListReturnStep, CrashStep
<1> QED BY <1>1, <1>2, <1>3 DEF Next

\* The inductive invariant holds whatever calls are made and whichever fail.
THEOREM Invariance == Spec => []IInv
  BY InitIInv, NextIInv, PTL DEF Spec

\* The index never names a version that was not stored: astJobsUpsertJobIndexes
\* runs after the record's property is written, or on a record once read.
THEOREM IndexBehind == Spec => []IndexTrails
<1>1. IInv => IndexTrails
  BY DEF IInv
<1> QED BY <1>1, Invariance, PTL

\* A locator is written only after its job is in the index bucket, so a job that
\* reads no longer index is one that listings can find.
THEOREM LocatorsAreIndexed == Spec => []LocatorIndexed
<1>1. IInv => LocatorIndexed
  BY DEF IInv
<1> QED BY <1>1, Invariance, PTL

----------------------------------------------------------------------------
(* What one step does to the record, and the action properties that follow.*)

\* Only Put changes a record, and it writes the next version.
LEMMA PutEffect ==
  ASSUME IInv, NEW c \in Callers, Put(c)
  PROVE  \A j \in Jobs : record'[j] # record[j] => record'[j].version = record[j].version + 1
<1>1. pc[c] = "put" /\ target[c] \in Jobs /\ Swapping(c) /\ record \in [Jobs -> Stamped]
  BY DEF IInv, TypeOK, Put, At, Pointed, Locking
<1>2. snap[c][target[c]].version = record[target[c]].version + 1
  BY <1>1 DEF Swapping
<1> QED BY <1>1, <1>2 DEF Put

LEMMA OthersKeepRecord ==
  ASSUME [Next]_vars, \A c \in Callers : ~Put(c)
  PROVE  record' = record
<1>1. CASE UNCHANGED vars
  BY <1>1 DEF vars, store
<1>2. ASSUME NEW c \in Callers,
             \/ \E j \in Jobs, scoped \in BOOLEAN : ReadLocate(c, j, scoped)
             \/ \E j \in Jobs : Enqueue(c, j)
             \/ \E st \in Statuses : WriteBegin(c, st) \/ ListAll(c, st)
             \/ \E st \in Statuses, p \in Prefixes : ListScoped(c, st, p)
             \/ ReadFetch(c) \/ Forget(c) \/ Throws(c) \/ Crash(c)
      PROVE  record' = record
  BY <1>2 DEF ReadLocate, Enqueue, WriteBegin, ListAll, ListScoped, ListBegin, ReadFetch,
     Forget, Throws, Crash, store
<1>3. ASSUME NEW c \in Callers,
             \/ WriteRefused(c) \/ Register(c) \/ RegisterWrite(c) \/ PutBucket(c)
             \/ PutLocator(c) \/ FillBegin(c) \/ FillRefused(c) \/ FillDone(c)
      PROVE  record' = record
  BY <1>3 DEF WriteRefused, Register, RegisterWrite, PutBucket, PutLocator, FillBegin,
     FillRefused, FillDone, store
<1>4. ASSUME NEW c \in Callers,
             \/ ReadRegistry(c) \/ WriteRegistry(c) \/ Collect(c) \/ Snapshot(c)
             \/ Settle(c) \/ Pickup(c) \/ ListReturn(c)
      PROVE  record' = record
  BY <1>4 DEF ReadRegistry, WriteRegistry, Collect, Snapshot, Settle, Pickup, ListReturn,
     store
<1> QED BY <1>1, <1>2, <1>3, <1>4 DEF Next

\* A record is never overwritten by one made from an older copy, though reads
\* take no lock and a write is several steps.
THEOREM WritesNotLost == Spec => NoLostUpdate
<1>1. IInv /\ [Next]_vars =>
        \A j \in Jobs : record'[j] # record[j] => record'[j].version = record[j].version + 1
  BY PutEffect, OthersKeepRecord
<1> QED BY <1>1, Invariance, PTL DEF Spec, NoLostUpdate

\* Only Settle strikes prefixes off.
LEMMA OthersKeepLegacy ==
  ASSUME [Next]_vars, \A c \in Callers : ~Settle(c)
  PROVE  legacy' = legacy
<1>1. CASE UNCHANGED vars
  BY <1>1 DEF vars, store
<1>2. ASSUME NEW c \in Callers,
             \/ \E j \in Jobs, scoped \in BOOLEAN : ReadLocate(c, j, scoped)
             \/ \E j \in Jobs : Enqueue(c, j)
             \/ \E st \in Statuses : WriteBegin(c, st) \/ ListAll(c, st)
             \/ \E st \in Statuses, p \in Prefixes : ListScoped(c, st, p)
             \/ ReadFetch(c) \/ Forget(c) \/ Throws(c) \/ Crash(c)
      PROVE  legacy' = legacy
  BY <1>2 DEF ReadLocate, Enqueue, WriteBegin, ListAll, ListScoped, ListBegin, ReadFetch,
     Forget, Throws, Crash, store
<1>3. ASSUME NEW c \in Callers,
             \/ WriteRefused(c) \/ Put(c) \/ Register(c) \/ RegisterWrite(c) \/ PutBucket(c)
             \/ PutLocator(c) \/ FillBegin(c) \/ FillRefused(c) \/ FillDone(c)
      PROVE  legacy' = legacy
  BY <1>3 DEF WriteRefused, Put, Register, RegisterWrite, PutBucket, PutLocator, FillBegin,
     FillRefused, FillDone, store
<1>4. ASSUME NEW c \in Callers,
             \/ ReadRegistry(c) \/ WriteRegistry(c) \/ Collect(c) \/ Snapshot(c)
             \/ Pickup(c) \/ ListReturn(c)
      PROVE  legacy' = legacy
  BY <1>4 DEF ReadRegistry, WriteRegistry, Collect, Snapshot, Pickup, ListReturn,
     store
<1> QED BY <1>1, <1>2, <1>3, <1>4 DEF Next

LEMMA SettleEffect ==
  ASSUME IInv, NEW c \in Callers, Settle(c)
  PROVE  \A j \in Legacy : Prefix[j] \in legacy \ legacy' => index[j].version > 0
<1>1. pc[c] = "settle" /\ kind[c] = "list" /\ LegacyAccounted(c)
  BY DEF IInv, Settle, At, Pointed, Listing
<1>2. \A j \in Legacy : \/ Prefix[j] \notin scan[c].pending
                        \/ index[j].version > 0
                        \/ scan[c].failed
  BY <1>1 DEF LegacyAccounted
<1> QED BY <1>2 DEF Settle

\* astJobsSetLegacyScanRequirement forgets a prefix only when no job of it is
\* left that listings could not find.
THEOREM LegacyJobsKept == Spec => LegacyKept
<1>1. IInv /\ [Next]_vars =>
        \A j \in Legacy : Prefix[j] \in legacy \ legacy' => index[j].version > 0
  BY SettleEffect, OthersKeepLegacy
<1> QED BY <1>1, Invariance, PTL DEF Spec, LegacyKept

----------------------------------------------------------------------------
(* The refinement.                                                         *)

\* Nobody but c moves.
Alone(c) ==
  \A d \in Callers \ {c} : pc'[d] = pc[d] /\ kind'[d] = kind[d]

LEMMA ReturningMoves ==
  ASSUME NEW c \in Callers, Alone(c)
  PROVE  /\ kind'[c] = "write" /\ pc'[c] \in Indexing => Returning' = Returning \cup {c}
         /\ ~(kind'[c] = "write" /\ pc'[c] \in Indexing) => Returning' = Returning \ {c}
  BY DEF Alone, Returning

\* A call that ends or dies gives its copy up.
LEMMA LeaveDrops ==
  ASSUME TypeOK, NEW c \in Callers, Leave(c), record' = record
  PROVE  Registers!Drop(c)
<1>1. Alone(c) /\ pc'[c] = "idle" /\ held' = [held EXCEPT ![c] = NoCopy]
  BY DEF TypeOK, Leave, Goto, Alone
<1>2. Returning' = Returning \ {c}
  BY <1>1, ReturningMoves DEF Indexing
<1> QED BY <1>1, <1>2 DEF Registers!Drop, Registers!None, NoCopy

LEMMA ReadFetchRefines ==
  ASSUME IInv, NEW c \in Callers, ReadFetch(c)
  PROVE  \/ Registers!Drop(c)
         \/ \E j \in Jobs : Registers!Fetch(c, j)
<1>1. /\ TypeOK /\ pc[c] = "fetch" /\ held[c] = NoCopy /\ target[c] \in Jobs
      /\ record' = record
  BY DEF IInv, ReadFetch, At, Pointed, store
<1>2. CASE ~Stored(target[c])
  BY <1>1, <1>2, LeaveDrops DEF ReadFetch
<1>3. CASE Stored(target[c])
  <2>1. /\ held' = [held EXCEPT ![c] = [job |-> target[c], version |-> record[target[c]].version]]
        /\ pc' = [pc EXCEPT ![c] = "fill"] /\ kind' = kind
    BY <1>3 DEF ReadFetch, Leave, Goto
  <2>2. Alone(c) /\ pc'[c] = "fill" /\ c \notin Returning
    BY <1>1, <2>1 DEF TypeOK, Alone, Returning, Indexing
  <2>3. Returning' = Returning
    BY <2>2, ReturningMoves DEF Indexing
  <2> QED BY <1>1, <2>1, <2>3 DEF Registers!Fetch, Registers!None, NoCopy
<1> QED BY <1>2, <1>3

LEMMA EnqueueRefines ==
  ASSUME IInv, NEW c \in Callers, NEW j \in Jobs, Enqueue(c, j)
  PROVE  Registers!Fetch(c, j)
<1>1. /\ pc[c] = "idle" /\ held[c] = NoCopy /\ record' = record /\ record[j].version = 0
      /\ held' = [held EXCEPT ![c] = [job |-> j, version |-> 0]]
      /\ Alone(c) /\ pc'[c] = "holding"
  BY DEF IInv, TypeOK, Stamped, Enqueue, Stored, At, Goto, Pointed, store, Alone
<1>2. Returning' = Returning
  BY <1>1, ReturningMoves DEF Returning, Indexing
<1> QED BY <1>1, <1>2 DEF Registers!Fetch, Registers!None, NoCopy

LEMMA PutRefines ==
  ASSUME IInv, NEW c \in Callers, Put(c)
  PROVE  \E st \in Statuses : Registers!Effect(c, st)
<1> DEFINE j == held[c].job
           r == snap[c][j]
<1>1. /\ pc[c] = "put" /\ kind[c] = "write" /\ target[c] = j /\ j \in Jobs
      /\ record[j].version = held[c].version /\ r.version = held[c].version + 1
      /\ r \in Stamped
  BY DEF IInv, TypeOK, Put, At, Pointed, Swapping, Locking
<1>2. r = [version |-> held[c].version + 1, status |-> r.status] /\ r.status \in Statuses
  BY <1>1 DEF Stamped
<1>3. /\ record' = [record EXCEPT ![j] = r] /\ held' = held
      /\ Alone(c) /\ pc'[c] = "register" /\ kind'[c] = "write"
  BY <1>1 DEF IInv, TypeOK, Put, Goto, locals, Alone
<1>4. Returning' = Returning \cup {c} /\ c \notin Returning
  BY <1>1, <1>3, ReturningMoves DEF Returning, Indexing
<1> QED BY <1>1, <1>2, <1>3, <1>4, JobStoreAssumption DEF Registers!Effect

LEMMA PutLocatorRefines ==
  ASSUME IInv, NEW c \in Callers, PutLocator(c)
  PROVE  \/ Registers!Return(c)
         \/ UNCHANGED Registers!registerVars
<1>1. /\ TypeOK /\ pc[c] = "locator" /\ pc[c] \in Indexing /\ record' = record
      /\ kind[c] = "write" => /\ target[c] = held[c].job
                             /\ record[target[c]].version = held[c].version + 1
  BY DEF IInv, PutLocator, At, Swapping, Indexing
<1>2. CASE kind[c] = "write"
  <2>1. /\ held' = [held EXCEPT ![c].version = @ + 1]
        /\ kind' = [kind EXCEPT ![c] = "none"] /\ pc' = [pc EXCEPT ![c] = "holding"]
    BY <1>2 DEF PutLocator, Goto
  <2>2. Alone(c) /\ pc'[c] = "holding" /\ c \in Returning
    BY <1>1, <1>2, <2>1 DEF TypeOK, Alone, Returning
  <2>3. Returning' = Returning \ {c}
    BY <2>2, ReturningMoves DEF Indexing
  <2> QED BY <1>1, <1>2, <2>1, <2>2, <2>3 DEF Registers!Return
<1>3. CASE kind[c] # "write"
  <2>1. UNCHANGED <<kind, held>> /\ pc' = [pc EXCEPT ![c] = "fill"]
    BY <1>3 DEF PutLocator, Goto
  <2>2. Alone(c) /\ pc'[c] = "fill" /\ c \notin Returning
    BY <1>1, <1>3, <2>1 DEF TypeOK, Alone, Returning
  <2>3. Returning' = Returning
    BY <2>2, ReturningMoves DEF Indexing
  <2> QED BY <1>1, <2>1, <2>3 DEF Registers!registerVars
<1> QED BY <1>2, <1>3

LEMMA ThrowsRefines ==
  ASSUME IInv, NEW c \in Callers, Throws(c)
  PROVE  \/ Registers!Drop(c)
         \/ UNCHANGED Registers!registerVars
<1>1. TypeOK /\ record' = record
  BY DEF IInv, Throws, store
<1>2. CASE kind[c] = "write"
  BY <1>1, <1>2, LeaveDrops DEF Throws
<1>3. CASE kind[c] # "write"
  <2>1. UNCHANGED <<kind, held>> /\ pc' = [pc EXCEPT ![c] = "fill"]
    BY <1>3 DEF Throws, Goto
  <2>2. Alone(c) /\ pc'[c] = "fill" /\ c \notin Returning
    BY <1>1, <1>3, <2>1 DEF TypeOK, Alone, Returning
  <2>3. Returning' = Returning
    BY <2>2, ReturningMoves DEF Indexing
  <2> QED BY <1>1, <2>1, <2>3 DEF Registers!registerVars
<1> QED BY <1>2, <1>3

LEMMA LeaversRefine ==
  ASSUME IInv, NEW c \in Callers,
         Forget(c) \/ WriteRefused(c) \/ ListReturn(c) \/ Crash(c)
  PROVE  Registers!Drop(c)
<1>1. TypeOK /\ Leave(c) /\ record' = record
  BY DEF IInv, Forget, WriteRefused, ListReturn, Crash, store
<1> QED BY <1>1, LeaveDrops

\* The other steps of a write stay inside it or before it, and those of a read
\* or a listing are none of a write.
LEMMA OthersRefine ==
  ASSUME IInv, NEW c \in Callers,
         \/ \E j \in Jobs, scoped \in BOOLEAN : ReadLocate(c, j, scoped)
         \/ \E st \in Statuses : WriteBegin(c, st)
         \/ Register(c) \/ RegisterWrite(c) \/ PutBucket(c)
         \/ FillBegin(c) \/ FillRefused(c) \/ FillDone(c)
         \/ \E st \in Statuses, p \in Prefixes : ListScoped(c, st, p)
         \/ \E st \in Statuses : ListAll(c, st)
         \/ ReadRegistry(c) \/ WriteRegistry(c) \/ Collect(c) \/ Snapshot(c)
         \/ Settle(c) \/ Pickup(c)
  PROVE  UNCHANGED Registers!registerVars
<1>1. UNCHANGED <<record, held>>
  BY DEF ReadLocate, WriteBegin, Register, RegisterWrite, PutBucket, FillBegin,
     FillRefused, FillDone, ListScoped, ListAll, ListBegin, ReadRegistry, WriteRegistry,
     Collect, Snapshot, Settle, Pickup, store, locals
<1>2. Alone(c)
  BY DEF IInv, TypeOK, Alone, ReadLocate, WriteBegin, Register, RegisterWrite, PutBucket,
     FillBegin, FillRefused, FillDone, ListScoped, ListAll, ListBegin, ReadRegistry,
     WriteRegistry, Collect, Snapshot, Settle, Pickup, Goto, locals
<1>3. c \in Returning <=> kind'[c] = "write" /\ pc'[c] \in Indexing
  <2>1. CASE Register(c) \/ RegisterWrite(c) \/ PutBucket(c)
    BY <2>1 DEF IInv, TypeOK, Register, RegisterWrite, PutBucket, At, Goto, locals,
       Returning, Indexing
  <2>2. CASE FillBegin(c) \/ FillRefused(c) \/ FillDone(c)
    BY <2>2 DEF IInv, TypeOK, FillBegin, FillRefused, FillDone, At, Goto, Pointed,
       Returning, Indexing
  <2>3. CASE \/ \E j \in Jobs, scoped \in BOOLEAN : ReadLocate(c, j, scoped)
             \/ \E st \in Statuses : WriteBegin(c, st)
    BY <2>3 DEF IInv, TypeOK, ReadLocate, WriteBegin, At, Goto, Returning, Indexing
  <2>4. CASE \/ \E st \in Statuses, p \in Prefixes : ListScoped(c, st, p)
             \/ \E st \in Statuses : ListAll(c, st)
             \/ ReadRegistry(c)
    BY <2>4 DEF IInv, TypeOK, ListScoped, ListAll, ListBegin, ReadRegistry, At, Goto,
       Returning, Indexing
  <2>5. CASE WriteRegistry(c) \/ Collect(c) \/ Snapshot(c) \/ Settle(c) \/ Pickup(c)
    BY <2>5 DEF IInv, TypeOK, WriteRegistry, Collect, Snapshot, Settle, Pickup, At, Goto,
       locals, Returning, Indexing
  <2> QED BY <2>1, <2>2, <2>3, <2>4, <2>5
<1>4. Returning' = Returning
  BY <1>2, <1>3, ReturningMoves
<1> QED BY <1>1, <1>4 DEF Registers!registerVars

LEMMA NextRefines == IInv /\ [Next]_vars => [Registers!RegisterNext]_(Registers!registerVars)
<1> SUFFICES ASSUME IInv, [Next]_vars
             PROVE  Registers!RegisterNext \/ UNCHANGED Registers!registerVars
  OBVIOUS
<1>1. CASE UNCHANGED vars
  BY <1>1 DEF vars, store, locals, Registers!registerVars, Returning
<1>2. ASSUME NEW c \in Callers,
             \/ ReadFetch(c)
             \/ \E j \in Jobs : Enqueue(c, j)
             \/ Put(c) \/ PutLocator(c) \/ Throws(c)
             \/ Forget(c) \/ WriteRefused(c) \/ ListReturn(c) \/ Crash(c)
      PROVE  Registers!RegisterNext \/ UNCHANGED Registers!registerVars
  BY <1>2, ReadFetchRefines, EnqueueRefines, PutRefines, PutLocatorRefines, ThrowsRefines,
     LeaversRefine DEF Registers!RegisterNext
<1> QED BY <1>1, <1>2, OthersRefine DEF Next

LEMMA InitRefines == Init => Registers!Start
  BY DEF Init, Registers!Start, Registers!None, NoCopy, Returning

\* Every behaviour of the store, seen without its index, is one of atomic
\* compare-and-swap registers: what astJobsWriteJobRecordCas promises, and what
\* module Jobs relies on.
THEOREM Refinement == Spec => ImplementsRegister
  BY InitRefines, NextRefines, Invariance, PTL DEF Spec, ImplementsRegister,
     Registers!RegisterSpec

----------------------------------------------------------------------------
(* Listings.  A listing is complete while nothing puts an old summary back *)
(* into the index, which only backfills do: the reads without a prefix of  *)
(* jobs that have no locator, and the listings of one prefix or of a store *)
(* that has no prefix registry yet.                                        *)

NoBackfill ==
  /\ Scoped \subseteq {"read"}
  /\ Unscoped \subseteq {"list"}
  /\ Registered # {}

\* No caller has anything to index but the record it is writing.
Plain(c) ==
  /\ todo[c] = {}
  /\ pc[c] \notin {"registry", "snapshot", "settle"}
  /\ pc[c] = "fill" => kind[c] = "read"
  /\ pc[c] \in Indexing => kind[c] = "write"
  /\ pc[c] \in {"prefixes", "collect"} => scan[c].pending = {} /\ ~scan[c].boot

\* What is written goes into the index as it is.
Faithful(c) ==
  pc[c] \in Indexing =>
    /\ target[c] \notin whole
    /\ snap[c][target[c]] = record[target[c]]
    /\ pc[c] = "registerWrite" => seen[c] = registry
    /\ pc[c] \in {"bucket", "locator"} => Prefix[target[c]] \in registry
    /\ pc[c] = "locator" => index[target[c]] = record[target[c]]

\* A listing has not missed what it has to return.
Complete(c) ==
  \A j \in steady[c] :
    /\ j \in whole
    /\ pc[c] \in {"prefixes", "collect", "pickup", "listed"}
    /\ record[j].status = scan[c].filter
    /\ pc[c] = "collect" => Prefix[j] \in scan[c].prefixes
    /\ pc[c] \in {"pickup", "listed"} => j \in scan[c].cand

Indexed ==
  \A j \in whole : index[j] = record[j] /\ record[j].version > 0 /\ Prefix[j] \in registry

ListInv ==
  /\ registry # {} /\ legacy = {}
  /\ Indexed
  /\ \A c \in Callers : Plain(c) /\ Faithful(c) /\ Complete(c)

\* The other callers are where they were.
Apart(c) ==
  \A d \in Callers \ {c} : Still(d) /\ seen'[d] = seen[d] /\ steady'[d] \subseteq steady[d]

\* What the others rely on outlasts a step that changes nothing they can see, and
\* what a lock holder changes but for jobs that a listing has to return.
LEMMA OthersListing ==
  ASSUME IInv, ListInv, NEW c \in Callers, Apart(c),
         \/ UNCHANGED <<record, index, registry, whole>>
         \/ /\ pc[c] \in Locking
            /\ \A d \in Callers \ {c} : \A j \in steady'[d] :
                 j \in whole => j \in whole' /\ record'[j] = record[j],
         NEW d \in Callers \ {c}
  PROVE  Plain(d)' /\ Faithful(d)' /\ Complete(d)'
<1>1. Plain(d) /\ Faithful(d) /\ Complete(d)
  BY DEF ListInv
<1>2. /\ pc'[d] = pc[d] /\ kind'[d] = kind[d] /\ target'[d] = target[d] /\ snap'[d] = snap[d]
      /\ todo'[d] = todo[d] /\ scan'[d] = scan[d] /\ seen'[d] = seen[d]
      /\ steady'[d] \subseteq steady[d]
  BY DEF Apart, Still
<1>3. Plain(d)'
  BY <1>1, <1>2 DEF Plain
<1>4. CASE UNCHANGED <<record, index, registry, whole>>
  BY <1>1, <1>2, <1>3, <1>4 DEF Faithful, Complete
<1>5. CASE /\ pc[c] \in Locking
           /\ \A e \in Callers \ {c} : \A j \in steady'[e] :
                j \in whole => j \in whole' /\ record'[j] = record[j]
  <2>1. pc[d] \notin Indexing
    BY <1>5 DEF IInv, Pointed, Locking
  <2>2. Faithful(d)'
    BY <1>2, <2>1 DEF Faithful
  <2>3. Complete(d)'
    BY <1>1, <1>2, <1>5 DEF Complete
  <2> QED BY <1>3, <2>2, <2>3
<1> QED BY <1>4, <1>5

\* A step that leaves the store and the finished writes as they are.
LEMMA CalmListing ==
  ASSUME IInv, ListInv, NEW c \in Callers, Apart(c),
         UNCHANGED <<store, whole>>, Plain(c)', Faithful(c)', Complete(c)'
  PROVE  ListInv'
<1>1. \A d \in Callers \ {c} : Plain(d)' /\ Faithful(d)' /\ Complete(d)'
  BY OthersListing DEF store
<1>2. Indexed' /\ registry' # {} /\ legacy' = {}
  BY DEF ListInv, Indexed, store
<1> QED BY <1>1, <1>2 DEF ListInv

\* A caller outside the index and without a listing.
LEMMA AwayListing ==
  ASSUME IInv, ListInv, NEW c \in Callers, Apart(c), UNCHANGED <<store, whole>>,
         pc'[c] \in {"idle", "fetch", "holding", "put"} \/ (pc'[c] = "fill" /\ kind'[c] = "read"),
         todo'[c] = {}, steady'[c] = {}
  PROVE  ListInv'
<1>1. Plain(c)' /\ Faithful(c)' /\ Complete(c)'
  BY DEF Plain, Faithful, Complete, Indexing
<1> QED BY <1>1, CalmListing

LEMMA LeaveListing ==
  ASSUME IInv, ListInv, NEW c \in Callers, Leave(c), UNCHANGED <<store, whole>>,
         \A d \in Callers \ {c} : steady'[d] \subseteq steady[d], steady'[c] = {}
  PROVE  ListInv'
<1>1. Apart(c) /\ pc'[c] = "idle" /\ todo'[c] = {}
  <2>1. \A d \in Callers \ {c} : Still(d)
    BY LeaveOK DEF IInv
  <2> QED BY <2>1 DEF IInv, TypeOK, Leave, Goto, Apart
<1> QED BY <1>1, AwayListing

LEMMA ReadsListing ==
  ASSUME IInv, ListInv, NoBackfill, NEW c \in Callers,
         \/ \E j \in Jobs, scoped \in BOOLEAN : ReadLocate(c, j, scoped)
         \/ ReadFetch(c)
         \/ \E j \in Jobs : Enqueue(c, j)
         \/ \E st \in Statuses : WriteBegin(c, st)
         \/ Forget(c) \/ WriteRefused(c) \/ ListReturn(c) \/ Crash(c) \/ Throws(c)
  PROVE  ListInv'
<1>1. TypeOK /\ Plain(c) /\ Complete(c) /\ Pointed(c)
  BY DEF IInv, ListInv
<1>2. pc[c] \in {"idle", "fetch", "holding", "fill"} \cup Locking => steady[c] = {}
  BY <1>1 DEF Complete, TypeOK, Locking, Indexing
<1>3. ASSUME NEW j \in Jobs, NEW scoped \in BOOLEAN, ReadLocate(c, j, scoped)
      PROVE  ListInv'
  <2>1. scoped
    BY <1>3 DEF ReadLocate, NoBackfill
  <2>2. Apart(c) /\ pc'[c] = "fetch" /\ todo'[c] = {}
    BY <1>1, <1>3, <2>1 DEF ReadLocate, TypeOK, Goto, Apart, Still
  <2> QED BY <1>2, <1>3, <2>2, AwayListing DEF ReadLocate, At
<1>4. ASSUME ReadFetch(c)
      PROVE  ListInv'
  <2>1. CASE Leave(c)
    BY <1>2, <1>4, <2>1, LeaveListing DEF ReadFetch, At
  <2>2. CASE ~Leave(c)
    <3>1. pc' = [pc EXCEPT ![c] = "fill"] /\ UNCHANGED <<kind, todo, seen, scan, steady>>
          /\ target' = [target EXCEPT ![c] = NoJob] /\ kind[c] = "read"
          /\ \A d \in Callers \ {c} : held'[d] = held[d] /\ snap'[d] = snap[d]
      BY <1>1, <1>4, <2>2 DEF ReadFetch, TypeOK, Goto, Pointed, At
    <3>2. Apart(c) /\ pc'[c] = "fill" /\ kind'[c] = "read" /\ todo'[c] = {}
      BY <1>1, <3>1 DEF TypeOK, Apart, Still, Plain
    <3> QED BY <1>2, <1>4, <3>1, <3>2, AwayListing DEF ReadFetch, At
  <2> QED BY <2>1, <2>2
<1>5. ASSUME NEW j \in Jobs, Enqueue(c, j)
      PROVE  ListInv'
  <2>1. Apart(c) /\ pc'[c] = "holding" /\ todo'[c] = {}
    BY <1>1, <1>5 DEF Enqueue, TypeOK, Goto, Apart, Still, Plain
  <2> QED BY <1>2, <1>5, <2>1, AwayListing DEF Enqueue, At
<1>6. ASSUME NEW st \in Statuses, WriteBegin(c, st)
      PROVE  ListInv'
  <2>1. Apart(c) /\ pc'[c] = "put" /\ todo'[c] = {}
    BY <1>1, <1>6 DEF WriteBegin, TypeOK, Goto, Apart, Still, Plain
  <2> QED BY <1>2, <1>6, <2>1, AwayListing DEF WriteBegin, At
<1>7. ASSUME Forget(c) \/ WriteRefused(c)
      PROVE  ListInv'
  BY <1>2, <1>7, LeaveListing DEF Forget, WriteRefused, At
<1>8. ASSUME ListReturn(c) \/ Crash(c)
      PROVE  ListInv'
  <2>1. steady' = [steady EXCEPT ![c] = {}] /\ Leave(c) /\ UNCHANGED <<store, whole>>
    BY <1>8 DEF ListReturn, Crash
  <2>2. steady'[c] = {} /\ \A d \in Callers \ {c} : steady'[d] \subseteq steady[d]
    BY <1>1, <2>1 DEF TypeOK
  <2> QED BY <2>1, <2>2, LeaveListing
<1>9. ASSUME Throws(c)
      PROVE  ListInv'
  <2>1. pc[c] \in Locking /\ UNCHANGED <<store, whole, steady>>
    BY <1>9 DEF Throws
  <2>2. kind[c] = "write"
    BY <1>1, <2>1 DEF IInv, Swapping, Plain, Locking
  <2>3. Leave(c)
    BY <1>9, <2>2 DEF Throws
  <2> QED BY <1>2, <2>1, <2>3, LeaveListing
<1> QED BY <1>3, <1>4, <1>5, <1>6, <1>7, <1>8, <1>9

LEMMA FillsListing ==
  ASSUME IInv, ListInv, NoBackfill, NEW c \in Callers,
         \/ FillBegin(c) \/ FillRefused(c) \/ FillDone(c)
         \/ \E st \in Statuses, p \in Prefixes : ListScoped(c, st, p)
         \/ WriteRegistry(c) \/ Snapshot(c) \/ Settle(c)
  PROVE  ListInv'
<1>1. TypeOK /\ Plain(c) /\ Complete(c)
  BY DEF IInv, ListInv
<1>2. FillDone(c) /\ kind[c] = "read"
  BY <1>1 DEF NoBackfill, Plain, FillBegin, FillRefused, FillDone, ListScoped, WriteRegistry, Snapshot,
     Settle, At
<1>3. /\ pc' = [pc EXCEPT ![c] = "holding"] /\ UNCHANGED <<held, target, snap, todo, seen, steady>>
      /\ UNCHANGED <<store, whole>> /\ pc[c] = "fill"
      /\ \A d \in Callers \ {c} : kind'[d] = kind[d] /\ scan'[d] = scan[d]
  BY <1>1, <1>2 DEF FillDone, Goto, At, TypeOK
<1>4. Apart(c) /\ pc'[c] = "holding" /\ todo'[c] = {} /\ steady'[c] = {}
  BY <1>1, <1>3 DEF TypeOK, Apart, Still, Plain, Complete
<1> QED BY <1>3, <1>4, AwayListing

LEMMA ListsListing ==
  ASSUME IInv, ListInv, NEW c \in Callers,
         \/ \E st \in Statuses : ListAll(c, st)
         \/ ReadRegistry(c) \/ Collect(c) \/ Pickup(c)
  PROVE  ListInv'
<1>1. TypeOK /\ Plain(c) /\ Complete(c) /\ registry # {} /\ legacy = {} /\ Indexed
  BY DEF IInv, ListInv
<1>2. scan[c] \in Scan /\ todo[c] = {} /\ scan \in [Callers -> Scan] /\ NoScan \in Scan
  BY <1>1, NoScanTyped DEF TypeOK, Plain
<1>3. ASSUME NEW st \in Statuses, ListAll(c, st)
      PROVE  ListInv'
  <2>1. /\ pc' = [pc EXCEPT ![c] = "prefixes"] /\ kind' = [kind EXCEPT ![c] = "list"]
        /\ steady' = [steady EXCEPT ![c] =
             {j \in whole : record[j].status = st /\ Prefix[j] \in Prefixes}]
        /\ scan' = [scan EXCEPT ![c] = [NoScan EXCEPT !.filter = st, !.pending = legacy]]
        /\ UNCHANGED <<store, whole>> /\ UNCHANGED <<held, target, snap, todo, seen>>
    BY <1>3 DEF ListAll, ListBegin, Goto
  <2>2. Apart(c)
    BY <1>1, <2>1 DEF TypeOK, Apart, Still
  <2>3. /\ pc'[c] = "prefixes" /\ todo'[c] = {} /\ scan'[c].filter = st
        /\ scan'[c].pending = {} /\ scan'[c].boot = FALSE
        /\ \A j \in steady'[c] : j \in whole /\ record[j].status = st
    BY <1>1, <1>2, <2>1 DEF TypeOK, NoScan, Scan
  <2>4. Plain(c)' /\ Faithful(c)'
    BY <2>3 DEF Plain, Faithful, Indexing
  <2>5. Complete(c)'
    BY <2>1, <2>3 DEF Complete, store
  <2> QED BY <2>1, <2>2, <2>4, <2>5, CalmListing
<1>4. ASSUME ReadRegistry(c)
      PROVE  ListInv'
  <2>1. /\ pc[c] = "prefixes" /\ scan[c].pending = {}
        /\ scan' = [scan EXCEPT ![c] = [scan[c] EXCEPT
                      !.prefixes = registry \cup {Default} \cup scan[c].pending,
                      !.boot = (scan[c].pending # {})]]
        /\ pc' = [pc EXCEPT ![c] = "collect"]
        /\ UNCHANGED <<store, whole>> /\ UNCHANGED <<kind, held, target, snap, todo, seen, steady>>
    BY <1>1, <1>4 DEF ReadRegistry, At, Plain, Goto
  <2>2. Apart(c)
    BY <1>1, <2>1 DEF TypeOK, Apart, Still
  <2>3. /\ pc'[c] = "collect" /\ todo'[c] = {} /\ scan'[c].filter = scan[c].filter
        /\ scan'[c].pending = {} /\ scan'[c].boot = FALSE
        /\ registry \subseteq scan'[c].prefixes
    BY <1>1, <1>2, <2>1 DEF TypeOK, Scan
  <2>4. Plain(c)' /\ Faithful(c)'
    BY <2>3 DEF Plain, Faithful, Indexing
  <2>5. Complete(c)'
    BY <1>1, <2>1, <2>3 DEF Complete, Indexed, store
  <2> QED BY <2>1, <2>2, <2>4, <2>5, CalmListing
<1>5. ASSUME Collect(c)
      PROVE  ListInv'
  <2> DEFINE found == {j \in Jobs : /\ index[j].version > 0
                                    /\ index[j].status = scan[c].filter
                                    /\ Prefix[j] \in scan[c].prefixes}
  <2>1. /\ pc[c] = "collect" /\ ~scan[c].boot
        /\ scan' = [scan EXCEPT ![c] = [scan[c] EXCEPT !.cand = found]]
        /\ pc' = [pc EXCEPT ![c] = "pickup"]
        /\ UNCHANGED <<store, whole>> /\ UNCHANGED <<kind, held, target, snap, todo, seen, steady>>
    BY <1>1, <1>5 DEF Collect, At, Plain, Goto
  <2>2. Apart(c)
    BY <1>1, <2>1 DEF TypeOK, Apart, Still
  <2>3. /\ pc'[c] = "pickup" /\ todo'[c] = {} /\ scan'[c].filter = scan[c].filter
        /\ scan'[c].cand = found
    BY <1>1, <1>2, <2>1 DEF TypeOK, Scan
  <2>4. Plain(c)' /\ Faithful(c)'
    BY <2>3 DEF Plain, Faithful, Indexing
  <2>5. \A j \in steady[c] : j \in found
    BY <1>1, <2>1 DEF Complete, Indexed, TypeOK
  <2>6. Complete(c)'
    BY <1>1, <2>1, <2>3, <2>5 DEF Complete, store
  <2> QED BY <2>1, <2>2, <2>4, <2>6, CalmListing
<1>6. ASSUME Pickup(c)
      PROVE  ListInv'
  <2> DEFINE left == {j \in scan[c].cand : record[j].status = scan[c].filter}
  <2>1. /\ pc[c] = "pickup" /\ scan' = [scan EXCEPT ![c] = [scan[c] EXCEPT !.cand = left]]
        /\ pc' = [pc EXCEPT ![c] = "listed"]
        /\ UNCHANGED <<store, whole>> /\ UNCHANGED <<kind, held, target, snap, todo, seen, steady>>
    BY <1>6 DEF Pickup, At, Goto
  <2>2. Apart(c)
    BY <1>1, <2>1 DEF TypeOK, Apart, Still
  <2>3. /\ pc'[c] = "listed" /\ todo'[c] = {} /\ scan'[c].filter = scan[c].filter
        /\ scan'[c].cand = left
    BY <1>1, <1>2, <2>1 DEF TypeOK, Scan
  <2>4. Plain(c)' /\ Faithful(c)'
    BY <2>3 DEF Plain, Faithful, Indexing
  <2>5. Complete(c)'
    BY <1>1, <2>1, <2>3 DEF Complete, store
  <2> QED BY <2>1, <2>2, <2>4, <2>5, CalmListing
<1> QED BY <1>3, <1>4, <1>5, <1>6

LEMMA WritesListing ==
  ASSUME IInv, ListInv, NEW c \in Callers,
         Put(c) \/ Register(c) \/ RegisterWrite(c) \/ PutBucket(c) \/ PutLocator(c)
  PROVE  ListInv'
<1> DEFINE t == target[c]
<1>1. TypeOK /\ Plain(c) /\ Faithful(c) /\ Complete(c) /\ registry # {} /\ legacy = {} /\ Indexed
  BY DEF IInv, ListInv
<1>2. /\ pc[c] \in Locking /\ t \in Jobs /\ kind[c] = "write" /\ todo[c] = {} /\ steady[c] = {}
  BY <1>1 DEF IInv, Swapping, Pointed, Plain, Complete, TypeOK, Locking, Indexing, Put, Register,
     RegisterWrite, PutBucket, PutLocator, At
<1>3. ASSUME Put(c)
      PROVE  ListInv'
  <2>1. /\ pc[c] = "put" /\ pc' = [pc EXCEPT ![c] = "register"]
        /\ record' = [record EXCEPT ![t] = snap[c][t]] /\ whole' = whole \ {t}
        /\ steady' = [d \in Callers |-> steady[d] \ {t}]
        /\ UNCHANGED <<index, registry, legacy>> /\ UNCHANGED <<kind, held, target, snap, todo, seen, scan>>
    BY <1>3 DEF Put, At, Goto, locals
  <2>2. Apart(c)
    BY <1>1, <2>1 DEF TypeOK, Apart, Still
  <2>3. \A j \in whole' : j \in whole /\ record'[j] = record[j] /\ j # t
    BY <1>1, <1>2, <2>1 DEF TypeOK
  <2>4. \A d \in Callers \ {c} : \A j \in steady'[d] : j \in whole => j \in whole' /\ record'[j] = record[j]
    BY <1>1, <1>2, <2>1 DEF TypeOK
  <2>5. \A d \in Callers \ {c} : Plain(d)' /\ Faithful(d)' /\ Complete(d)'
    BY <1>2, <2>2, <2>4, OthersListing
  <2>6. Indexed'
    BY <1>1, <2>1, <2>3 DEF Indexed
  <2>7. pc'[c] = "register" /\ record'[t] = snap[c][t]
    BY <1>1, <1>2, <2>1 DEF TypeOK
  <2>8. Plain(c)' /\ Faithful(c)' /\ Complete(c)'
    BY <1>2, <2>1, <2>7 DEF Plain, Faithful, Complete, Indexing
  <2> QED BY <1>1, <2>1, <2>5, <2>6, <2>8 DEF ListInv
<1>4. ASSUME Register(c)
      PROVE  ListInv'
  <2>1. /\ pc[c] = "register"
        /\ UNCHANGED <<store, whole>> /\ UNCHANGED <<kind, held, target, snap, todo, scan, steady>>
        /\ \/ /\ Prefix[t] \in registry /\ pc' = [pc EXCEPT ![c] = "bucket"] /\ seen' = seen
           \/ /\ pc' = [pc EXCEPT ![c] = "registerWrite"] /\ seen' = [seen EXCEPT ![c] = registry]
    BY <1>4 DEF Register, At, Goto
  <2>2. Apart(c)
    BY <1>1, <2>1 DEF TypeOK, Apart, Still
  <2>3. \/ pc'[c] = "bucket" /\ Prefix[t] \in registry
        \/ pc'[c] = "registerWrite" /\ seen'[c] = registry
    BY <1>1, <2>1 DEF TypeOK
  <2>4. Plain(c)' /\ Faithful(c)' /\ Complete(c)'
    BY <1>1, <1>2, <2>1, <2>3 DEF Plain, Faithful, Complete, Indexing, store
  <2> QED BY <2>1, <2>2, <2>4, CalmListing
<1>5. ASSUME RegisterWrite(c)
      PROVE  ListInv'
  <2>1. /\ pc[c] = "registerWrite" /\ pc' = [pc EXCEPT ![c] = "bucket"]
        /\ registry' = seen[c] \cup {Prefix[t]} /\ seen' = [seen EXCEPT ![c] = {}]
        /\ UNCHANGED <<record, index, legacy, whole, steady>>
        /\ UNCHANGED <<kind, held, target, snap, todo, scan>>
    BY <1>5 DEF RegisterWrite, At, Goto
  <2>2. Apart(c) /\ pc'[c] = "bucket"
    BY <1>1, <2>1 DEF TypeOK, Apart, Still
  <2>3. \A d \in Callers \ {c} : Plain(d)' /\ Faithful(d)' /\ Complete(d)'
    BY <1>2, <2>1, <2>2, OthersListing
  <2>4. registry \subseteq registry' /\ Prefix[t] \in registry'
    BY <1>1, <2>1 DEF Faithful, Indexing
  <2>5. Indexed' /\ registry' # {} /\ legacy' = {}
    BY <1>1, <2>1, <2>4 DEF Indexed
  <2>6. Plain(c)' /\ Faithful(c)' /\ Complete(c)'
    BY <1>1, <1>2, <2>1, <2>2, <2>4 DEF Plain, Faithful, Complete, Indexing
  <2> QED BY <2>3, <2>5, <2>6 DEF ListInv
<1>6. ASSUME PutBucket(c)
      PROVE  ListInv'
  <2>1. /\ pc[c] = "bucket" /\ pc' = [pc EXCEPT ![c] = "locator"]
        /\ index' = [index EXCEPT ![t] = snap[c][t]]
        /\ UNCHANGED <<record, registry, legacy, whole, steady>>
        /\ UNCHANGED <<kind, held, target, snap, todo, seen, scan>>
    BY <1>6 DEF PutBucket, Summary, At, Goto, locals
  <2>2. Apart(c) /\ pc'[c] = "locator" /\ index'[t] = snap[c][t]
    BY <1>1, <1>2, <2>1 DEF TypeOK, Apart, Still
  <2>3. \A d \in Callers \ {c} : Plain(d)' /\ Faithful(d)' /\ Complete(d)'
    BY <1>2, <2>1, <2>2, OthersListing
  <2>4. t \notin whole
    BY <1>1, <2>1 DEF Faithful, Indexing
  <2>5. \A j \in whole : index'[j] = index[j]
    BY <1>1, <2>1, <2>4 DEF TypeOK
  <2>6. Indexed'
    BY <1>1, <2>1, <2>5 DEF Indexed
  <2>7. Plain(c)' /\ Faithful(c)' /\ Complete(c)'
    BY <1>1, <1>2, <2>1, <2>2 DEF Plain, Faithful, Complete, Indexing
  <2> QED BY <1>1, <2>1, <2>3, <2>6, <2>7 DEF ListInv
<1>7. ASSUME PutLocator(c)
      PROVE  ListInv'
  <2>1. /\ pc[c] = "locator" /\ pc' = [pc EXCEPT ![c] = "holding"] /\ whole' = whole \cup {t}
        /\ kind' = [kind EXCEPT ![c] = "none"] /\ Discard(c, t)
        /\ UNCHANGED <<record, index, registry, legacy, steady>> /\ UNCHANGED <<seen, scan>>
        /\ \A d \in Callers \ {c} : held'[d] = held[d]
    BY <1>1, <1>2, <1>7 DEF PutLocator, At, Goto, TypeOK
  <2>2. /\ todo'[c] = {}
        /\ \A d \in Callers \ {c} : target'[d] = target[d] /\ snap'[d] = snap[d] /\ todo'[d] = todo[d]
    BY <1>1, <1>2, <2>1, DiscardOK
  <2>3. Apart(c) /\ pc'[c] = "holding"
    BY <1>1, <2>1, <2>2 DEF TypeOK, Apart, Still
  <2>4. \A d \in Callers \ {c} : Plain(d)' /\ Faithful(d)' /\ Complete(d)'
    BY <1>2, <2>1, <2>3, OthersListing
  <2>5. Indexed'
    <3>1. index[t] = record[t] /\ Prefix[t] \in registry /\ index[t].version > 0
      BY <1>1, <2>1 DEF IInv, Snapped, Faithful, Indexing
    <3> QED BY <1>1, <2>1, <3>1 DEF Indexed
  <2>6. Plain(c)' /\ Faithful(c)' /\ Complete(c)'
    BY <1>2, <2>1, <2>2, <2>3 DEF Plain, Faithful, Complete, Indexing
  <2> QED BY <1>1, <2>1, <2>4, <2>5, <2>6 DEF ListInv
<1> QED BY <1>3, <1>4, <1>5, <1>6, <1>7

LEMMA InitListing == Init /\ NoBackfill => ListInv
  BY DEF Init, NoBackfill, ListInv, Indexed, Plain, Faithful, Complete, Indexing

LEMMA NextListing == NoBackfill /\ IInv /\ ListInv /\ [Next]_vars => ListInv'
<1> SUFFICES ASSUME NoBackfill, IInv, ListInv, [Next]_vars PROVE ListInv'
  OBVIOUS
<1>1. CASE UNCHANGED vars
  BY <1>1 DEF vars, store, locals, ListInv, Indexed, Plain, Faithful, Complete
<1>2. ASSUME NEW c \in Callers,
             \/ \E j \in Jobs, scoped \in BOOLEAN : ReadLocate(c, j, scoped)
             \/ ReadFetch(c)
             \/ \E j \in Jobs : Enqueue(c, j)
             \/ \E st \in Statuses : WriteBegin(c, st)
             \/ Forget(c) \/ WriteRefused(c) \/ ListReturn(c) \/ Crash(c) \/ Throws(c)
      PROVE  ListInv'
  BY <1>2, ReadsListing
<1>3. ASSUME NEW c \in Callers,
             \/ FillBegin(c) \/ FillRefused(c) \/ FillDone(c)
             \/ \E st \in Statuses, p \in Prefixes : ListScoped(c, st, p)
             \/ WriteRegistry(c) \/ Snapshot(c) \/ Settle(c)
      PROVE  ListInv'
  BY <1>3, FillsListing
<1> QED BY <1>1, <1>2, <1>3, ListsListing, WritesListing DEF Next

\* ListComplete holds of a store whose prefix registry has been written, as long as
\* jobs are read with their prefix and listed without: a listing then returns every
\* job that has had the status asked for since before it began, whatever is written
\* meanwhile and whatever fails.
THEOREM ListingsComplete == NoBackfill => (Spec => []ListComplete)
<1> SUFFICES ASSUME NoBackfill PROVE Spec => []ListComplete
  OBVIOUS
<1>1. Init => ListInv
  BY InitListing
<1>2. IInv /\ ListInv /\ [Next]_vars => ListInv'
  BY NextListing
<1>3. ListInv => ListComplete
  BY DEF ListInv, Complete, ListComplete, At
<1> QED BY <1>1, <1>2, <1>3, Invariance, PTL DEF Spec

=============================================================================
