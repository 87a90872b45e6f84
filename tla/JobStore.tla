----------------------------- MODULE JobStore -----------------------------
(***************************************************************************)
(* The job store of AST.Jobs in the script properties: one property per    *)
(* job record, written by compare-and-swap under the script lock, and      *)
(* behind it an index that a write, a read or a listing brings up to date: *)
(* a bucket of job summaries per prefix, a locator per job, a registry of  *)
(* prefixes and a registry of prefixes still to be scanned for records     *)
(* older than the index.  A property is written at once, a call writes     *)
(* several; reads, and the registry writes of a listing, take no lock.     *)
(*                                                                         *)
(* A summary is the version and status it was made of.  The jobs of a      *)
(* prefix share one bucket here (their ids hash alike); the 16 buckets of  *)
(* the code are as many independent copies of it.                          *)
(***************************************************************************)
EXTENDS Naturals, FiniteSets

CONSTANTS
  Callers,     \* executions using the store
  NoCaller,    \* the lock is free
  Jobs,        \* job ids
  NoJob,
  Prefixes,    \* property prefixes
  Prefix,      \* job -> its property prefix
  Default,     \* the configured property prefix
  Statuses,    \* job statuses told apart
  BucketRoom,  \* summaries that fit into one index bucket
  Legacy,      \* jobs stored before there was an index
  Registered,  \* the prefix registry at the start
  Scoped,      \* calls made with options.propertyPrefix, of {"read", "list"}
  Unscoped,    \* calls made without it
  Faults,      \* the faults that may strike, of {"crash", "throw"}
  MaxFaults,   \* bound on the faults of a behaviour
  MaxVersion   \* bound on the version of a record

ASSUME JobStoreAssumption ==
  /\ NoCaller \notin Callers
  /\ NoJob \notin Jobs
  /\ Prefix \in [Jobs -> Prefixes]
  /\ Default \in Prefixes
  /\ Statuses # {}
  /\ BucketRoom \in Nat
  /\ Legacy \subseteq Jobs
  /\ Registered \subseteq Prefixes
  /\ MaxFaults \in Nat
  /\ MaxVersion \in Nat \ {0}

Stamped == [version : Nat, status : Statuses]
AnyStatus == CHOOSE st \in Statuses : TRUE
Absent == [version |-> 0, status |-> AnyStatus]

\* Points at which a caller is inside astJobsUpsertJobIndexes.
Indexing == {"register", "registerWrite", "bucket", "locator"}

\* Points at which a caller holds the script lock.
Locking == Indexing \cup {"put"}

Listing == {"prefixes", "registry", "collect", "snapshot", "settle", "pickup", "listed"}

Points == {"idle", "fetch", "holding", "fill"} \cup Locking \cup Listing

Kinds == {"none", "read", "write", "list"}

Copy == [job : Jobs \cup {NoJob}, version : Nat]
NoCopy == [job |-> NoJob, version |-> 0]

\* What a listing carries along.
Scan == [filter   : Statuses,
         prefixes : SUBSET Prefixes,   \* those it looks through
         pending  : SUBSET Prefixes,   \* those of the legacy scan registry
         boot     : BOOLEAN,           \* whether it scans all properties too
         failed   : BOOLEAN,           \* whether an index update of it failed
         cand     : SUBSET Jobs]       \* jobs whose summary passed the filter
NoScan == [filter |-> AnyStatus, prefixes |-> {}, pending |-> {},
           boot |-> FALSE, failed |-> FALSE, cand |-> {}]

VARIABLES
  record,    \* the record of each job; version 0 is no record
  index,     \* its summary in the index bucket; version 0 is none
  locator,   \* jobs with a locator
  registry,  \* the prefix registry
  legacy,    \* the legacy scan registry
  lock,      \* holder of the script lock
  pc,        \* control point of each caller
  kind,      \* the call it makes
  held,      \* the copy of a record it has: job and version
  target,    \* the job it reads or indexes
  snap,      \* the records it has read or built
  todo,      \* jobs it has yet to index after a read or in a listing
  seen,      \* the prefix registry as it read it
  scan,      \* the listing it makes
  faults,    \* faults so far
  whole,     \* history: jobs whose last write has returned to its caller
  steady     \* history: jobs each listing has to return

store  == <<record, index, locator, registry, legacy>>
locals == <<kind, held, target, snap, todo, seen, scan>>
vars   == <<store, lock, pc, locals, faults, whole, steady>>

----------------------------------------------------------------------------
At(c, p) == pc[c] = p
Goto(c, p) == pc' = [pc EXCEPT ![c] = p]

\* What was read or built for job j is of no more use.
Discard(c, j) ==
  /\ target' = [target EXCEPT ![c] = NoJob]
  /\ snap' = [snap EXCEPT ![c][j] = Absent]
  /\ todo' = [todo EXCEPT ![c] = @ \ {j}]

\* The call ends or dies.
Leave(c) ==
  /\ Goto(c, "idle")
  /\ kind' = [kind EXCEPT ![c] = "none"]
  /\ held' = [held EXCEPT ![c] = NoCopy]
  /\ target' = [target EXCEPT ![c] = NoJob]
  /\ snap' = [snap EXCEPT ![c] = [j \in Jobs |-> Absent]]
  /\ todo' = [todo EXCEPT ![c] = {}]
  /\ seen' = [seen EXCEPT ![c] = {}]
  /\ scan' = [scan EXCEPT ![c] = NoScan]

Strike(fault) ==
  /\ fault \in Faults
  /\ faults < MaxFaults
  /\ faults' = faults + 1

Stored(j) == record[j].version > 0

Init ==
  /\ record \in [Jobs -> {Absent} \cup [version : {1}, status : Statuses]]
  /\ \A j \in Jobs : Stored(j) <=> j \in Legacy
  /\ index = [j \in Jobs |-> Absent]
  /\ locator = {}
  /\ registry = Registered
  /\ legacy = {}
  /\ lock = NoCaller
  /\ pc = [c \in Callers |-> "idle"]
  /\ kind = [c \in Callers |-> "none"]
  /\ held = [c \in Callers |-> NoCopy]
  /\ target = [c \in Callers |-> NoJob]
  /\ snap = [c \in Callers |-> [j \in Jobs |-> Absent]]
  /\ todo = [c \in Callers |-> {}]
  /\ seen = [c \in Callers |-> {}]
  /\ scan = [c \in Callers |-> NoScan]
  /\ faults = 0
  /\ whole = {}
  /\ steady = [c \in Callers |-> {}]

----------------------------------------------------------------------------
(* Reading a record.                                                       *)

\* astJobsResolveJobLocation.  All of its ways lead to the job's one property;
\* what the call remembers is whether it came by the locator, for without one
\* the read brings the index up to date.
ReadLocate(c, j, scoped) ==
  /\ At(c, "idle")
  /\ "read" \in IF scoped THEN Scoped ELSE Unscoped
  /\ Goto(c, "fetch")
  /\ kind' = [kind EXCEPT ![c] = "read"]
  /\ target' = [target EXCEPT ![c] = j]
  /\ todo' = [todo EXCEPT ![c] = IF scoped \/ j \in locator THEN {} ELSE {j}]
  /\ UNCHANGED <<store, lock, held, snap, seen, scan, faults, whole, steady>>

\* The record is read, or there is none.
ReadFetch(c) ==
  /\ At(c, "fetch")
  /\ LET j == target[c]
     IN \/ /\ Stored(j)
           /\ held' = [held EXCEPT ![c] = [job |-> j, version |-> record[j].version]]
           /\ snap' = [snap EXCEPT ![c][j] = IF j \in todo[c] THEN record[j] ELSE @]
           /\ target' = [target EXCEPT ![c] = NoJob]
           /\ Goto(c, "fill")
           /\ UNCHANGED <<kind, todo, seen, scan>>
        \/ ~Stored(j) /\ Leave(c)
  /\ UNCHANGED <<store, lock, faults, whole, steady>>

\* astJobsEnqueue makes a record with a new id and version 0.
Enqueue(c, j) ==
  /\ At(c, "idle")
  /\ ~Stored(j)
  /\ \A d \in Callers : held[d].job # j
  /\ Goto(c, "holding")
  /\ held' = [held EXCEPT ![c] = [job |-> j, version |-> 0]]
  /\ UNCHANGED <<store, lock, kind, target, snap, todo, seen, scan, faults, whole, steady>>

Forget(c) ==
  /\ At(c, "holding")
  /\ Leave(c)
  /\ UNCHANGED <<store, lock, faults, whole, steady>>

----------------------------------------------------------------------------
(* Writing a record: astJobsWriteJobRecordCas.                             *)

LockFreeBug == TRUE
LockFree == lock = NoCaller

VersionMatchesBug(c) == record[held[c].job].version >= held[c].version
VersionMatches(c) == record[held[c].job].version = held[c].version

\* Take the script lock and compare the versions.
WriteBegin(c, st) ==
  /\ At(c, "holding")
  /\ held[c].version < MaxVersion
  /\ LockFree
  /\ VersionMatches(c)
  /\ lock' = c
  /\ Goto(c, "put")
  /\ kind' = [kind EXCEPT ![c] = "write"]
  /\ target' = [target EXCEPT ![c] = held[c].job]
  /\ snap' = [snap EXCEPT ![c][held[c].job] =
                [version |-> held[c].version + 1, status |-> st]]
  /\ UNCHANGED <<store, held, todo, seen, scan, faults, whole, steady>>

\* A version conflict, or the lock is not to be had in time.
WriteRefused(c) ==
  /\ At(c, "holding")
  /\ Leave(c)
  /\ UNCHANGED <<store, lock, faults, whole, steady>>

\* The record's property is written.
Put(c) ==
  /\ At(c, "put")
  /\ record' = [record EXCEPT ![target[c]] = snap[c][target[c]]]
  /\ whole' = whole \ {target[c]}
  /\ steady' = [d \in Callers |-> steady[d] \ {target[c]}]
  /\ Goto(c, "register")
  /\ UNCHANGED <<index, locator, registry, legacy, lock, locals, faults>>

----------------------------------------------------------------------------
(* Bringing the index up to date: astJobsUpsertJobIndexes, by a caller     *)
(* that holds the lock.                                                    *)

\* Read the bucket, which only a lock holder writes, and the prefix registry,
\* which a listing writes too.
Register(c) ==
  /\ At(c, "register")
  /\ \/ /\ Prefix[target[c]] \in registry
        /\ Goto(c, "bucket")
        /\ UNCHANGED seen
     \/ /\ Prefix[target[c]] \notin registry
        /\ Goto(c, "registerWrite")
        /\ seen' = [seen EXCEPT ![c] = registry]
  /\ UNCHANGED <<store, lock, kind, held, target, snap, todo, scan, faults, whole, steady>>

RegisterWrite(c) ==
  /\ At(c, "registerWrite")
  /\ registry' = seen[c] \cup {Prefix[target[c]]}
  /\ seen' = [seen EXCEPT ![c] = {}]
  /\ Goto(c, "bucket")
  /\ UNCHANGED <<record, index, locator, legacy, lock, kind, held, target, snap, todo,
                 scan, faults, whole, steady>>

\* Entries are replaced but never removed, and a bucket is one property.
Room(j) ==
  \/ index[j].version > 0
  \/ Cardinality({k \in Jobs : index[k].version > 0 /\ Prefix[k] = Prefix[j]})
       < BucketRoom

SummaryBug(c, j) == IF index[j].version > 0 THEN index[j] ELSE snap[c][j]
Summary(c, j) == snap[c][j]

PutBucket(c) ==
  /\ At(c, "bucket")
  /\ Room(target[c])
  /\ index' = [index EXCEPT ![target[c]] = Summary(c, target[c])]
  /\ Goto(c, "locator")
  /\ UNCHANGED <<record, locator, registry, legacy, lock, locals, faults, whole, steady>>

\* The locator is written and the lock released.  A write returns the new
\* version to its caller.
PutLocator(c) ==
  /\ At(c, "locator")
  /\ locator' = locator \cup {target[c]}
  /\ lock' = NoCaller
  /\ \/ /\ kind[c] = "write"
        /\ held' = [held EXCEPT ![c].version = @ + 1]
        /\ whole' = whole \cup {target[c]}
        /\ kind' = [kind EXCEPT ![c] = "none"]
        /\ Goto(c, "holding")
     \/ /\ kind[c] # "write"
        /\ Goto(c, "fill")
        /\ UNCHANGED <<kind, held, whole>>
  /\ Discard(c, target[c])
  /\ UNCHANGED <<record, index, registry, legacy, seen, scan, faults, steady>>

\* The listing notes that it could not index a job.
Skipped(c) == [scan[c] EXCEPT !.failed = TRUE]

\* A property is too large or the service fails: the lock is released.  A
\* write throws, for the record is as it is; a read or a listing goes on.
Throws(c) ==
  /\ pc[c] \in Locking
  /\ \/ At(c, "bucket") /\ ~Room(target[c]) /\ UNCHANGED faults
     \/ ~At(c, "register") /\ Strike("throw")
  /\ lock' = NoCaller
  /\ \/ kind[c] = "write" /\ Leave(c)
     \/ /\ kind[c] # "write"
        /\ Discard(c, target[c])
        /\ seen' = [seen EXCEPT ![c] = {}]
        /\ scan' = [scan EXCEPT ![c] = Skipped(c)]
        /\ Goto(c, "fill")
        /\ UNCHANGED <<kind, held>>
  /\ UNCHANGED <<store, whole, steady>>

----------------------------------------------------------------------------
(* Indexing records as they were read a while ago:                         *)
(* astJobsTryBackfillJobIndexes.                                           *)

FillBegin(c) ==
  /\ At(c, "fill")
  /\ LockFree
  /\ \E j \in todo[c] : target' = [target EXCEPT ![c] = j]
  /\ lock' = c
  /\ Goto(c, "register")
  /\ UNCHANGED <<store, kind, held, snap, todo, seen, scan, faults, whole, steady>>

FillRefusedBug(c) ==
  /\ At(c, "fill")
  /\ \E j \in todo[c] : Discard(c, j)
  /\ UNCHANGED <<store, lock, pc, kind, held, seen, scan, faults, whole, steady>>

\* The lock is not to be had in time.
FillRefused(c) ==
  /\ At(c, "fill")
  /\ \E j \in todo[c] : Discard(c, j)
  /\ scan' = [scan EXCEPT ![c] = Skipped(c)]
  /\ UNCHANGED <<store, lock, pc, kind, held, seen, faults, whole, steady>>

FillDone(c) ==
  /\ At(c, "fill")
  /\ todo[c] = {}
  /\ \/ /\ kind[c] = "read"
        /\ Goto(c, "holding")
        /\ kind' = [kind EXCEPT ![c] = "none"]
        /\ scan' = [scan EXCEPT ![c] = NoScan]
     \/ /\ kind[c] = "list"
        /\ Goto(c, "settle")
        /\ UNCHANGED <<kind, scan>>
  /\ UNCHANGED <<store, lock, held, target, snap, todo, seen, faults, whole, steady>>

----------------------------------------------------------------------------
(* Listing jobs of a status: astJobsListJobRecords.  A bucket and a record *)
(* are read at some moment each; as a job is in one bucket and nothing is  *)
(* said of two jobs at once, all of them are read together.                *)

\* What has to be in the answer: jobs with that status whose last write is
\* over, unless they are written again.
ListBegin(c, st, scope) ==
  /\ At(c, "idle")
  /\ kind' = [kind EXCEPT ![c] = "list"]
  /\ steady' = [steady EXCEPT ![c] =
                  {j \in whole : record[j].status = st /\ Prefix[j] \in scope}]
  /\ UNCHANGED <<store, lock, held, target, snap, todo, seen, faults, whole>>

\* With options.propertyPrefix = p.
ListScoped(c, st, p) ==
  /\ "list" \in Scoped
  /\ ListBegin(c, st, {p})
  /\ scan' = [scan EXCEPT ![c] = [NoScan EXCEPT
                !.filter = st, !.prefixes = {p}, !.pending = {p}, !.boot = TRUE]]
  /\ Goto(c, "collect")

\* Without it; the legacy scan registry is read first.
ListAll(c, st) ==
  /\ "list" \in Unscoped
  /\ ListBegin(c, st, Prefixes)
  /\ scan' = [scan EXCEPT ![c] = [NoScan EXCEPT !.filter = st, !.pending = legacy]]
  /\ Goto(c, "prefixes")

\* Then the prefix registry.  Is it empty, it is made up from all records;
\* otherwise prefixes awaiting a legacy scan are added.
ReadRegistry(c) ==
  /\ At(c, "prefixes")
  /\ LET found == {Prefix[j] : j \in {k \in Jobs : Stored(k)}} \cup {Default}
         known == registry \cup {Default} \cup scan[c].pending
     IN \/ /\ registry = {}
           /\ scan' = [scan EXCEPT ![c].prefixes = found, ![c].pending = found,
                                   ![c].boot = TRUE]
           /\ Goto(c, "registry")
        \/ /\ registry # {}
           /\ scan' = [scan EXCEPT ![c].prefixes = known,
                                   ![c].boot = (scan[c].pending # {})]
           /\ Goto(c, IF scan[c].pending \subseteq registry \cup {Default}
                      THEN "collect" ELSE "registry")
  /\ UNCHANGED <<store, lock, kind, held, target, snap, todo, seen, faults, whole, steady>>

\* The registry is overwritten, without the lock; an error is swallowed.
WriteRegistry(c) ==
  /\ At(c, "registry")
  /\ \/ registry' = scan[c].prefixes /\ UNCHANGED faults
     \/ Strike("throw") /\ UNCHANGED registry
  /\ Goto(c, "collect")
  /\ UNCHANGED <<record, index, locator, legacy, lock, locals, whole, steady>>

\* Candidates by their summaries.
Collect(c) ==
  /\ At(c, "collect")
  /\ scan' = [scan EXCEPT ![c].cand =
                {j \in Jobs : /\ index[j].version > 0
                              /\ index[j].status = scan[c].filter
                              /\ Prefix[j] \in scan[c].prefixes}]
  /\ Goto(c, IF scan[c].boot THEN "snapshot" ELSE "pickup")
  /\ UNCHANGED <<store, lock, kind, held, target, snap, todo, seen, faults, whole, steady>>

\* All properties are read; every record of the prefixes will be indexed as it
\* is now, whether or not it is indexed already.
Snapshot(c) ==
  /\ At(c, "snapshot")
  /\ LET mine == {j \in Jobs : Stored(j) /\ Prefix[j] \in scan[c].prefixes}
     IN /\ snap' = [snap EXCEPT ![c] = [j \in Jobs |-> IF j \in mine THEN record[j]
                                                      ELSE Absent]]
        /\ todo' = [todo EXCEPT ![c] = mine]
        /\ scan' = [scan EXCEPT ![c].cand =
                      @ \cup {j \in mine : record[j].status = scan[c].filter}]
  /\ Goto(c, "fill")
  /\ UNCHANGED <<store, lock, kind, held, target, seen, faults, whole, steady>>

\* astJobsSetLegacyScanRequirement, under the lock or, without it, in vain.
Settle(c) ==
  /\ At(c, "settle")
  /\ \/ /\ LockFree
        /\ legacy' = IF scan[c].failed THEN legacy \cup scan[c].pending
                                       ELSE legacy \ scan[c].pending
     \/ UNCHANGED legacy
  /\ scan' = [scan EXCEPT ![c].prefixes = {}, ![c].pending = {}, ![c].failed = FALSE]
  /\ Goto(c, "pickup")
  /\ UNCHANGED <<record, index, locator, registry, lock, kind, held, target, snap, todo,
                 seen, faults, whole, steady>>

\* The records of the candidates are read and filtered again.
Pickup(c) ==
  /\ At(c, "pickup")
  /\ scan' = [scan EXCEPT ![c].cand = {j \in @ : record[j].status = scan[c].filter}]
  /\ Goto(c, "listed")
  /\ UNCHANGED <<store, lock, kind, held, target, snap, todo, seen, faults, whole, steady>>

ListReturn(c) ==
  /\ At(c, "listed")
  /\ Leave(c)
  /\ steady' = [steady EXCEPT ![c] = {}]
  /\ UNCHANGED <<store, lock, faults, whole>>

----------------------------------------------------------------------------
\* The execution is killed; Apps Script releases its lock.
Crash(c) ==
  /\ ~At(c, "idle")
  /\ Strike("crash")
  /\ Leave(c)
  /\ lock' = IF lock = c THEN NoCaller ELSE lock
  /\ steady' = [steady EXCEPT ![c] = {}]
  /\ UNCHANGED <<store, whole>>

Next ==
  \E c \in Callers :
    \/ \E j \in Jobs, scoped \in BOOLEAN : ReadLocate(c, j, scoped)
    \/ ReadFetch(c)
    \/ \E j \in Jobs : Enqueue(c, j)
    \/ Forget(c)
    \/ \E st \in Statuses : WriteBegin(c, st)
    \/ WriteRefused(c)
    \/ Put(c)
    \/ Register(c)
    \/ RegisterWrite(c)
    \/ PutBucket(c)
    \/ PutLocator(c)
    \/ Throws(c)
    \/ FillBegin(c)
    \/ FillRefused(c)
    \/ FillDone(c)
    \/ \E st \in Statuses, p \in Prefixes : ListScoped(c, st, p)
    \/ \E st \in Statuses : ListAll(c, st)
    \/ ReadRegistry(c)
    \/ WriteRegistry(c)
    \/ Collect(c)
    \/ Snapshot(c)
    \/ Settle(c)
    \/ Pickup(c)
    \/ ListReturn(c)
    \/ Crash(c)

Spec == Init /\ [][Next]_vars

----------------------------------------------------------------------------
(* What the store promises.                                                *)

TypeOK ==
  /\ record \in [Jobs -> Stamped]
  /\ index \in [Jobs -> Stamped]
  /\ locator \in SUBSET Jobs
  /\ registry \in SUBSET Prefixes
  /\ legacy \in SUBSET Prefixes
  /\ lock \in Callers \cup {NoCaller}
  /\ pc \in [Callers -> Points]
  /\ kind \in [Callers -> Kinds]
  /\ held \in [Callers -> Copy]
  /\ target \in [Callers -> Jobs \cup {NoJob}]
  /\ snap \in [Callers -> [Jobs -> Stamped]]
  /\ todo \in [Callers -> SUBSET Jobs]
  /\ seen \in [Callers -> SUBSET Prefixes]
  /\ scan \in [Callers -> Scan]
  /\ faults \in 0 .. MaxFaults
  /\ whole \in SUBSET Jobs
  /\ steady \in [Callers -> SUBSET Jobs]

\* No write is lost: every change of a stored record is the next version of
\* the one before it.
NoLostUpdate ==
  [][\A j \in Jobs :
       record'[j] # record[j] => record'[j].version = record[j].version + 1]_vars

\* The index may fall behind the record but never names a version that was not
\* stored, whatever fails between the two writes.
IndexTrails ==
  \A j \in Jobs : index[j].version <= record[j].version

\* A job with a locator is in its bucket.  Reads that find a locator leave the
\* index alone, so such a job could never be listed again.
LocatorIndexed ==
  \A j \in locator : index[j].version > 0

\* A prefix is struck off the legacy scan registry only when all its jobs that
\* are older than the index have been indexed.
LegacyKept ==
  [][\A j \in Legacy : Prefix[j] \in legacy \ legacy' => index[j].version > 0]_vars

\* A listing returns every job that has had the status asked for since before
\* the listing began.
ListComplete ==
  \A c \in Callers : At(c, "listed") => steady[c] \subseteq scan[c].cand

----------------------------------------------------------------------------
(* The inductive invariant: what a caller relies on where it stands.       *)

Pointed(c) ==
  /\ pc[c] \in {"idle", "fetch"} => held[c] = NoCopy
  /\ pc[c] = "idle" => kind[c] = "none"
  /\ pc[c] = "holding" => held[c].job \in Jobs /\ kind[c] # "write"
  /\ pc[c] = "fetch" => kind[c] = "read"
  /\ pc[c] = "fill" => kind[c] \in {"read", "list"}
  /\ kind[c] = "read" /\ pc[c] # "fetch" => held[c].job \in Jobs
  /\ pc[c] \in Listing => kind[c] = "list"
  /\ pc[c] \in Locking \cup {"fetch"} => target[c] \in Jobs
  /\ pc[c] \in Locking => lock = c /\ kind[c] # "none"

\* From the comparison to the write the record cannot move; from the write to
\* the return it is the one just written.
Swapping(c) ==
  /\ pc[c] = "put" =>
       /\ kind[c] = "write"
       /\ target[c] = held[c].job
       /\ record[target[c]].version = held[c].version
       /\ snap[c][target[c]].version = held[c].version + 1
  /\ pc[c] \in Indexing /\ kind[c] = "write" =>
       /\ target[c] = held[c].job
       /\ record[target[c]].version = held[c].version + 1

\* What is to go into the index was stored at some time.
Snapped(c) ==
  /\ \A j \in Jobs : (pc[c] = "put" => j # target[c]) =>
       snap[c][j].version <= record[j].version
  /\ pc[c] = "fetch" => todo[c] \subseteq {target[c]}
  /\ pc[c] \in Indexing => snap[c][target[c]].version > 0
  /\ pc[c] = "fill" \/ (pc[c] \in Indexing /\ kind[c] # "write") =>
       \A j \in todo[c] : snap[c][j].version > 0
  /\ pc[c] = "locator" => index[target[c]].version > 0

\* A job older than the index is indexed, about to be or known not to be
\* before its prefix is struck off.
LegacyAccounted(c) ==
  /\ pc[c] \in {"collect", "snapshot", "registry"} =>
       scan[c].pending \subseteq scan[c].prefixes
  /\ kind[c] = "list" /\ pc[c] \in {"fill", "settle"} \cup Indexing =>
       \A j \in Legacy : \/ Prefix[j] \notin scan[c].pending
                         \/ j \in todo[c] /\ pc[c] # "settle"
                         \/ index[j].version > 0
                         \/ scan[c].failed

IInv ==
  /\ TypeOK
  /\ IndexTrails
  /\ LocatorIndexed
  /\ \A j \in Legacy : Stored(j)
  /\ \A c \in Callers : Pointed(c) /\ Swapping(c) /\ Snapped(c) /\ LegacyAccounted(c)

=============================================================================
