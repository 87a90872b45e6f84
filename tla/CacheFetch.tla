----------------------------- MODULE CacheFetch -----------------------------
(***************************************************************************)
(* One key of AST.Cache, used by several executions: fetch with its        *)
(* coalescing lease, set, delete, the invalidations and the scoped lock.   *)
(*                                                                         *)
(* A value is the version of the origin it was computed from.  The entries *)
(* of the key are its primary one, its stale copy and, for the two kinds   *)
(* of lease, the owner.  The adapter's operations are atomic: a read, a    *)
(* write or a delete of one entry, or of the several that one call names.  *)
(***************************************************************************)
EXTENDS Naturals, FiniteSets

CONSTANTS
  Callers,     \* executions
  NoCaller,    \* the owner of a lease that is free
  Calls,       \* the calls made, of CallKinds
  MaxVersion,  \* bound on the versions of the origin
  MaxPolls,    \* bound on the polls of one wait
  Faults,      \* the faults that may strike, of FaultKinds
  MaxFaults    \* bound on the faults of a behaviour

\* "fetch" keeps a stale copy, "lean" keeps none (staleTtlSec is 0), "refresh"
\* is a fetch with forceRefresh and "solo" one with coalesce off; "lock" and
\* "loose" are the scoped lock, the latter with lockScope none.
Fetches   == {"fetch", "lean", "refresh", "solo"}
Locks     == {"lock", "loose"}
Writes    == {"set", "delete"}
CallKinds == Fetches \cup Locks \cup Writes \cup {"prefix", "tag", "clear"}

\* The lock service fails, an adapter call throws, the resolver throws, the
\* execution is killed, it takes longer than its lease lasts.
FaultKinds == {"lock", "adapter", "resolver", "crash", "slow"}

ASSUME CacheFetchAssumption ==
  /\ NoCaller \notin Callers
  /\ Calls \subseteq CallKinds
  /\ MaxVersion \in Nat \ {0}
  /\ MaxPolls \in Nat
  /\ Faults \subseteq FaultKinds
  /\ MaxFaults \in Nat

None     == 0
Versions == 1 .. MaxVersion
Slots    == {"lease", "scoped"}
Points   == {"idle", "fresh", "stale", "acquire", "confirm", "look", "take",
             "recheck", "wait", "waitLease", "resolve", "persist", "keep",
             "task", "release", "owner", "free", "done",
             "primary", "clean", "cleanLease", "drop"}

VARIABLES
  origin,   \* the version a resolver or a writer would use now
  primary,  \* the value of the key's entry
  stale,    \* the value of its stale copy
  lease,    \* slot -> the owner it names
  pc,       \* control point of each caller
  call,     \* the call it makes
  round,    \* which attempt to get the lease it is at
  polls,    \* how often its wait has polled
  copy,     \* the stale copy it read
  val,      \* the value it resolved or is to write
  result,   \* the value its fetch is to return
  faults,   \* faults so far
  voided,   \* history: leaders whose lease something else took away
  high,     \* history: the newest value written by a leader under its lease
  floor,    \* history: the version below which a write has put an end to values
  seen,     \* history: floor when its fetch began
  clear     \* history: writers whose removal nothing in flight can undo

entries == <<primary, stale>>
locals  == <<call, round, polls, copy, val, result>>
writers == <<seen, clear>>
history == <<voided, high, floor, writers>>
vars    == <<origin, entries, lease, pc, locals, faults, history>>

----------------------------------------------------------------------------
At(p, point) == pc[p] = point
Goto(p, point) == pc' = [pc EXCEPT ![p] = point]

Slot(p) == IF call[p] \in Locks THEN "scoped" ELSE "lease"
Holds(p) == lease[Slot(p)] = p

\* A caller that was given the lease and has not begun to return it.
Leading(p) ==
  /\ call[p] # "solo"
  /\ pc[p] \in {"resolve", "persist", "keep", "task"}

\* A value was computed and is yet to reach every entry it goes to.
InFlight(p) == pc[p] \in {"persist", "keep", "primary"} /\ call[p] # "delete"

Newest(a, b) == IF a >= b THEN a ELSE b

\* The call ends, by return, exception or death.
Leave(p) ==
  /\ Goto(p, "idle")
  /\ call' = [call EXCEPT ![p] = "none"]
  /\ round' = [round EXCEPT ![p] = 1]
  /\ polls' = [polls EXCEPT ![p] = 0]
  /\ copy' = [copy EXCEPT ![p] = None]
  /\ val' = [val EXCEPT ![p] = None]
  /\ result' = [result EXCEPT ![p] = None]
  /\ seen' = [seen EXCEPT ![p] = None]
  /\ clear' = clear \ {p}

\* The call has its value and is about to return it.
Return(p, value) ==
  /\ Goto(p, "done")
  /\ result' = [result EXCEPT ![p] = value]
  /\ UNCHANGED <<call, round, polls, copy, val, writers>>

\* It goes on to another point of the same call.
Go(p, point) == Goto(p, point) /\ UNCHANGED <<locals, writers>>

Strike(fault) ==
  /\ fault \in Faults
  /\ faults < MaxFaults
  /\ faults' = faults + 1

\* The lease entry names another owner or goes; the leader it named, other
\* than the caller who does that, has lost it.
SetLease(slot, owner, by) ==
  /\ lease' = [lease EXCEPT ![slot] = owner]
  /\ voided' = (voided \cup {q \in Callers : Leading(q) /\ Slot(q) = slot /\ Holds(q)}) \ {by}

\* Under the script lock nobody's lease is taken away.
MoveLease(slot, owner, p) ==
  /\ lease' = [lease EXCEPT ![slot] = owner]
  /\ voided' = voided \ {p}

Init ==
  /\ origin = 1
  /\ primary = None
  /\ stale = None
  /\ lease = [s \in Slots |-> NoCaller]
  /\ pc = [p \in Callers |-> "idle"]
  /\ call = [p \in Callers |-> "none"]
  /\ round = [p \in Callers |-> 1]
  /\ polls = [p \in Callers |-> 0]
  /\ copy = [p \in Callers |-> None]
  /\ val = [p \in Callers |-> None]
  /\ result = [p \in Callers |-> None]
  /\ faults = 0
  /\ voided = {}
  /\ high = None
  /\ floor = None
  /\ seen = [p \in Callers |-> None]
  /\ clear = {}

----------------------------------------------------------------------------
(* Fetching: astCacheFetchValueWithContext.                                *)

BeginFetch(p, kind) ==
  /\ At(p, "idle")
  /\ kind \in Calls \cap Fetches
  /\ call' = [call EXCEPT ![p] = kind]
  /\ Goto(p, IF kind = "refresh" THEN "stale" ELSE "fresh")
  /\ seen' = [seen EXCEPT ![p] = floor]
  /\ UNCHANGED <<origin, entries, lease, round, polls, copy, val, result, faults,
                 voided, high, floor, clear>>

ReadFresh(p) ==
  /\ At(p, "fresh")
  /\ IF primary # None THEN Return(p, primary) ELSE Go(p, "stale")
  /\ UNCHANGED <<origin, entries, lease, faults, voided, high, floor>>

ReadStale(p) ==
  /\ At(p, "stale")
  /\ copy' = [copy EXCEPT ![p] = IF call[p] = "lean" THEN None ELSE stale]
  /\ Goto(p, IF call[p] = "solo" THEN "resolve" ELSE "acquire")
  /\ UNCHANGED <<origin, entries, lease, call, round, polls, val, result, faults, history>>

\* The lease is somebody else's.  A fetch serves its stale copy or waits for
\* the leader; a scoped lock sleeps and tries again until its timeout.
Refused(p) ==
  \/ call[p] \in Fetches /\ copy[p] # None /\ Return(p, copy[p])
  \/ call[p] \in Fetches /\ copy[p] = None /\ Go(p, "wait")
  \/ /\ call[p] \in Locks
     /\ polls[p] < MaxPolls
     /\ polls' = [polls EXCEPT ![p] = @ + 1]
     /\ Goto(p, IF call[p] = "loose" THEN "look" ELSE "acquire")
     /\ UNCHANGED <<call, round, copy, val, result, writers>>
  \/ call[p] \in Locks /\ Leave(p)

Free(p) == lease[Slot(p)] = NoCaller

\* The attempt in one critical section of the script lock: the adapter's write
\* gives that lock back, so the confirming read comes after it.
Acquire(p) ==
  /\ At(p, "acquire")
  /\ IF Free(p) THEN MoveLease(Slot(p), p, p) /\ Go(p, "confirm")
                ELSE Refused(p) /\ UNCHANGED <<lease, voided>>
  /\ UNCHANGED <<origin, entries, faults, high, floor>>

\* Without the lock service the same three calls are made unprotected.
AcquireUnlocked(p) ==
  /\ At(p, "acquire")
  /\ Strike("lock")
  /\ Go(p, "look")
  /\ UNCHANGED <<origin, entries, lease, voided, high, floor>>

Look(p) ==
  /\ At(p, "look")
  /\ IF Free(p) THEN Go(p, "take") ELSE Refused(p)
  /\ UNCHANGED <<origin, entries, lease, faults, voided, high, floor>>

Take(p) ==
  /\ At(p, "take")
  /\ SetLease(Slot(p), p, p)
  /\ Go(p, "recheck")
  /\ UNCHANGED <<origin, entries, faults, high, floor>>

\* The confirming read.
Confirm(p) ==
  /\ pc[p] \in {"confirm", "recheck"}
  /\ IF Holds(p) THEN Go(p, IF call[p] \in Locks THEN "task" ELSE "resolve")
                 ELSE Refused(p)
  /\ UNCHANGED <<origin, entries, lease, faults, voided, high, floor>>

\* Waiting for the leader: its value, its lease and the clock are looked at
\* one after the other.
WaitValue(p) ==
  /\ At(p, "wait")
  /\ IF primary # None THEN Return(p, primary) ELSE Go(p, "waitLease")
  /\ UNCHANGED <<origin, entries, lease, faults, voided, high, floor>>

WaitedBug(p) ==
  /\ round' = [round EXCEPT ![p] = @ + 1]
  /\ polls' = [polls EXCEPT ![p] = 0]
  /\ Goto(p, "acquire")
  /\ UNCHANGED <<call, copy, val, result, writers>>

\* After its first wait a follower tries to lead, after its second it throws.
Waited(p) ==
  \/ /\ round[p] = 1
     /\ round' = [round EXCEPT ![p] = 2]
     /\ polls' = [polls EXCEPT ![p] = 0]
     /\ Goto(p, "acquire")
     /\ UNCHANGED <<call, copy, val, result, writers>>
  \/ round[p] = 2 /\ Leave(p)

WaitLease(p) ==
  /\ At(p, "waitLease")
  /\ \/ Waited(p)
     \/ /\ ~Free(p)
        /\ polls[p] < MaxPolls
        /\ polls' = [polls EXCEPT ![p] = @ + 1]
        /\ Goto(p, "wait")
        /\ UNCHANGED <<call, round, copy, val, result, writers>>
  /\ UNCHANGED <<origin, entries, lease, faults, voided, high, floor>>

----------------------------------------------------------------------------
(* Leading: astCacheFetchResolveAndPersist and the lease's release.        *)

Resolve(p) ==
  /\ At(p, "resolve")
  /\ val' = [val EXCEPT ![p] = origin]
  /\ Goto(p, "persist")
  /\ UNCHANGED <<origin, entries, lease, call, round, polls, copy, result, faults, history>>

\* The fetch has its answer.  A leader gives its lease back before it returns.
Answer(p, value) ==
  /\ result' = [result EXCEPT ![p] = value]
  /\ Goto(p, IF call[p] = "solo" THEN "done" ELSE "release")
  /\ UNCHANGED <<call, round, polls, copy, val, writers>>

\* Whatever is thrown while it resolves and stores, the stale copy that was
\* read before is served, or the error is thrown.
Recover(p) ==
  \/ copy[p] # None /\ Answer(p, copy[p])
  \/ Answer(p, None)

ResolveFailsBug(p) ==
  /\ At(p, "resolve")
  /\ Strike("resolver")
  /\ IF copy[p] = None THEN Recover(p)
     ELSE /\ val' = [val EXCEPT ![p] = copy[p]]
          /\ Goto(p, "persist")
          /\ UNCHANGED <<call, round, polls, copy, result, writers>>
  /\ UNCHANGED <<origin, entries, lease, voided, high, floor>>

ResolveFails(p) ==
  /\ At(p, "resolve")
  /\ Strike("resolver")
  /\ Recover(p)
  /\ UNCHANGED <<origin, entries, lease, voided, high, floor>>

Persist(p) ==
  /\ At(p, "persist")
  /\ primary' = val[p]
  /\ high' = IF Leading(p) /\ Holds(p) THEN val[p] ELSE high
  /\ Go(p, "keep")
  /\ UNCHANGED <<origin, stale, lease, faults, voided, floor>>

Keep(p) ==
  /\ At(p, "keep")
  /\ stale' = IF call[p] = "lean" THEN None ELSE val[p]
  /\ Answer(p, val[p])
  /\ UNCHANGED <<origin, primary, lease, faults, voided, high, floor>>

\* A write that throws is an error of the resolution; a delete of the stale
\* copy that throws is ignored.
PersistFails(p) ==
  /\ pc[p] \in {"persist", "keep"}
  /\ Strike("adapter")
  /\ IF At(p, "keep") /\ call[p] = "lean" THEN Answer(p, val[p]) ELSE Recover(p)
  /\ UNCHANGED <<origin, entries, lease, voided, high, floor>>

\* The task of a scoped lock ends, well or badly.
EndTask(p) ==
  /\ At(p, "task")
  /\ Go(p, "release")
  /\ UNCHANGED <<origin, entries, lease, faults, voided, high, floor>>

ReleaseBug(p) ==
  /\ At(p, "release")
  /\ MoveLease(Slot(p), NoCaller, p)
  /\ Return(p, result[p])
  /\ UNCHANGED <<origin, entries, faults, high, floor>>

\* Owner check and delete in one critical section.
Release(p) ==
  /\ At(p, "release")
  /\ IF Holds(p) THEN MoveLease(Slot(p), NoCaller, p)
                 ELSE voided' = voided \ {p} /\ UNCHANGED lease
  /\ Return(p, result[p])
  /\ UNCHANGED <<origin, entries, faults, high, floor>>

\* A delete that throws is ignored: the lease is left to expire.
ReleaseFails(p) ==
  /\ pc[p] \in {"release", "free"}
  /\ Holds(p)
  /\ Strike("adapter")
  /\ Return(p, result[p])
  /\ UNCHANGED <<origin, entries, lease, voided, high, floor>>

ReleaseUnlocked(p) ==
  /\ At(p, "release")
  /\ Strike("lock")
  /\ Go(p, "owner")
  /\ UNCHANGED <<origin, entries, lease, voided, high, floor>>

ReadOwner(p) ==
  /\ At(p, "owner")
  /\ IF Holds(p) THEN Go(p, "free") /\ UNCHANGED voided
                 ELSE Return(p, result[p]) /\ voided' = voided \ {p}
  /\ UNCHANGED <<origin, entries, lease, faults, high, floor>>

FreeUnlocked(p) ==
  /\ At(p, "free")
  /\ SetLease(Slot(p), NoCaller, p)
  /\ Return(p, result[p])
  /\ UNCHANGED <<origin, entries, faults, high, floor>>

EndCall(p) ==
  /\ At(p, "done")
  /\ Leave(p)
  /\ UNCHANGED <<origin, entries, lease, faults, voided, high, floor>>

----------------------------------------------------------------------------
(* The scoped lock, the writes and the invalidations.                      *)

BeginLock(p, kind) ==
  /\ At(p, "idle")
  /\ kind \in Calls \cap Locks
  /\ call' = [call EXCEPT ![p] = kind]
  /\ Goto(p, IF kind = "loose" THEN "look" ELSE "acquire")
  /\ UNCHANGED <<origin, entries, lease, round, polls, copy, val, result, faults, history>>

Quiet(p) == \A q \in Callers \ {p} : ~InFlight(q)

BeginWrite(p, kind) ==
  /\ At(p, "idle")
  /\ kind \in Calls \cap Writes
  /\ call' = [call EXCEPT ![p] = kind]
  /\ val' = [val EXCEPT ![p] = origin]
  /\ Goto(p, "primary")
  /\ clear' = IF Quiet(p) THEN clear \cup {p} ELSE clear
  /\ UNCHANGED <<origin, entries, lease, round, polls, copy, result, faults,
                 voided, high, floor, seen>>

WritePrimary(p) ==
  /\ At(p, "primary")
  /\ primary' = IF call[p] = "set" THEN val[p] ELSE None
  /\ Go(p, "clean")
  /\ UNCHANGED <<origin, stale, lease, faults, voided, high, floor>>

\* The write is over: unless something was in flight when it began or its
\* cleaning failed, older values are gone.
EndWrite(p, cleaned) ==
  /\ Leave(p)
  /\ floor' = IF p \in clear /\ cleaned THEN Newest(floor, val[p]) ELSE floor

CleanDeleteBug(p) ==
  /\ At(p, "clean")
  /\ call[p] = "delete"
  /\ Go(p, "cleanLease")
  /\ UNCHANGED <<origin, entries, lease, faults, voided, high, floor>>

\* After a set the stale copy and the lease go together, after a delete one
\* after the other; in both a delete that throws is ignored.
CleanSet(p) ==
  /\ At(p, "clean")
  /\ call[p] = "set"
  /\ \/ /\ stale' = None
        /\ SetLease("lease", NoCaller, p)
        /\ EndWrite(p, TRUE)
        /\ UNCHANGED faults
     \/ Strike("adapter") /\ EndWrite(p, FALSE) /\ UNCHANGED <<stale, lease, voided>>
  /\ UNCHANGED <<origin, primary, high>>

CleanDelete(p) ==
  /\ At(p, "clean")
  /\ call[p] = "delete"
  /\ Goto(p, "cleanLease")
  /\ \/ stale' = None /\ UNCHANGED <<faults, clear>>
     \/ Strike("adapter") /\ clear' = clear \ {p} /\ UNCHANGED stale
  /\ UNCHANGED <<origin, primary, lease, locals, voided, high, floor, seen>>

CleanLease(p) ==
  /\ At(p, "cleanLease")
  /\ \/ SetLease("lease", NoCaller, p) /\ UNCHANGED faults
     \/ Strike("adapter") /\ UNCHANGED <<lease, voided>>
  /\ EndWrite(p, TRUE)
  /\ UNCHANGED <<origin, entries, high>>

\* Invalidation by prefix or predicate: the entries are listed, without the
\* internal ones, and those that matched are deleted by their keys.
BeginPrefix(p) ==
  /\ At(p, "idle")
  /\ "prefix" \in Calls
  /\ primary # None
  /\ call' = [call EXCEPT ![p] = "prefix"]
  /\ Goto(p, "drop")
  /\ UNCHANGED <<origin, entries, lease, round, polls, copy, val, result, faults, history>>

DropListed(p) ==
  /\ At(p, "drop")
  /\ \/ primary' = None /\ UNCHANGED faults
     \/ Strike("adapter") /\ UNCHANGED primary
  /\ Leave(p)
  /\ UNCHANGED <<origin, stale, lease, voided, high, floor>>

\* Invalidation by tag takes both entries of the key, clear the leases too.
Invalidate(p, kind) ==
  /\ At(p, "idle")
  /\ kind \in Calls \cap {"tag", "clear"}
  /\ primary' = None
  /\ stale' = None
  /\ IF kind = "tag" THEN UNCHANGED <<lease, voided>>
     ELSE /\ lease' = [s \in Slots |-> NoCaller]
          /\ voided' = {q \in Callers : Leading(q)}
  /\ floor' = IF Quiet(p) THEN origin ELSE floor
  /\ UNCHANGED <<origin, pc, locals, faults, high, writers>>

----------------------------------------------------------------------------
(* Failures, the passing of time and the world outside.                    *)

\* A call of the adapter throws.  In the locked attempt to get the lease the
\* unprotected attempt follows; elsewhere the call of the cache throws.
AdapterThrows(p) ==
  /\ pc[p] \in {"fresh", "stale", "acquire", "confirm", "look", "take", "recheck",
                "wait", "waitLease", "owner", "primary"}
  /\ Strike("adapter")
  /\ IF pc[p] \in {"acquire", "confirm"} THEN Go(p, "look") ELSE Leave(p)
  /\ voided' = voided \ {p}
  /\ UNCHANGED <<origin, entries, lease, high, floor>>

Crash(p) ==
  /\ ~At(p, "idle")
  /\ Strike("crash")
  /\ Leave(p)
  /\ voided' = voided \ {p}
  /\ UNCHANGED <<origin, entries, lease, high, floor>>

\* An entry's time is over, or the namespace was too full to keep it.
ExpirePrimary ==
  /\ primary # None
  /\ primary' = None
  /\ UNCHANGED <<origin, stale, lease, pc, locals, faults, history>>

ExpireStale ==
  /\ stale # None
  /\ stale' = None
  /\ UNCHANGED <<origin, primary, lease, pc, locals, faults, history>>

\* A lease ends by the clock when nobody gives it back; before that only when
\* its owner is slow.
Using(p) ==
  /\ call[p] # "solo"
  /\ pc[p] \in {"confirm", "recheck", "resolve", "persist", "keep", "task",
              "release", "owner", "free"}

ExpireLease(s) ==
  /\ lease[s] # NoCaller
  /\ IF \E p \in Callers : Using(p) /\ Slot(p) = s /\ Holds(p)
       THEN Strike("slow") ELSE UNCHANGED faults
  /\ SetLease(s, NoCaller, NoCaller)
  /\ UNCHANGED <<origin, entries, pc, locals, high, floor, writers>>

OriginChanges ==
  /\ origin < MaxVersion
  /\ origin' = origin + 1
  /\ UNCHANGED <<entries, lease, pc, locals, faults, history>>

Step(p) ==
  \/ ReadFresh(p) \/ ReadStale(p)
  \/ Acquire(p) \/ Look(p) \/ Take(p) \/ Confirm(p)
  \/ WaitValue(p) \/ WaitLease(p)
  \/ Resolve(p) \/ Persist(p) \/ Keep(p)
  \/ EndTask(p) \/ Release(p) \/ ReadOwner(p) \/ FreeUnlocked(p) \/ EndCall(p)
  \/ WritePrimary(p) \/ CleanSet(p) \/ CleanDelete(p) \/ CleanLease(p)
  \/ DropListed(p)

Fault(p) ==
  \/ AcquireUnlocked(p) \/ ReleaseUnlocked(p) \/ ReleaseFails(p)
  \/ ResolveFails(p) \/ PersistFails(p) \/ AdapterThrows(p) \/ Crash(p)

Begin(p) ==
  \/ \E kind \in Calls \cap Fetches : BeginFetch(p, kind)
  \/ \E kind \in Calls \cap Locks : BeginLock(p, kind)
  \/ \E kind \in Calls \cap Writes : BeginWrite(p, kind)
  \/ \E kind \in Calls \cap {"tag", "clear"} : Invalidate(p, kind)
  \/ BeginPrefix(p)

Time == ExpirePrimary \/ ExpireStale \/ OriginChanges \/ \E s \in Slots : ExpireLease(s)

Next == Time \/ \E p \in Callers : Begin(p) \/ Step(p) \/ Fault(p)

Spec == Init /\ [][Next]_vars

----------------------------------------------------------------------------
(* Properties.                                                             *)

TypeOK ==
  /\ origin \in Versions
  /\ {primary, stale, high, floor} \subseteq 0 .. origin
  /\ lease \in [Slots -> Callers \cup {NoCaller}]
  /\ pc \in [Callers -> Points]
  /\ call \in [Callers -> CallKinds \cup {"none"}]
  /\ round \in [Callers -> {1, 2}]
  /\ polls \in [Callers -> 0 .. MaxPolls]
  /\ copy \in [Callers -> 0 .. origin]
  /\ val \in [Callers -> 0 .. origin]
  /\ result \in [Callers -> 0 .. origin]
  /\ faults \in 0 .. MaxFaults
  /\ voided \subseteq Callers /\ clear \subseteq Callers
  /\ seen \in [Callers -> 0 .. origin]

\* A leader's lease is taken from it only by the clock, by a set, delete or
\* clear of the key, or by a caller that works without the lock service: never
\* by another fetch's acquisition or release.
LeaderHoldsLease ==
  \A p \in Callers : Leading(p) /\ p \notin voided => Holds(p)

\* While its lease lasts, a leader's value is not older than any that another
\* leader stored under its own: leases order the stores of leaders, however
\* many of them were lost to time, crashes or writes in between.
LeasedInOrder ==
  \A p \in Callers : At(p, "persist") /\ Leading(p) /\ Holds(p) => val[p] >= high

\* Once a set, a delete or an invalidation by tag has returned, with nothing
\* in flight when it began and its cleaning done, no fetch that begins later
\* returns a value from before it: neither from the entry nor from the stale
\* copy, whether it leads, follows or recovers from an error.
WrittenIsFinal ==
  \A p \in Callers : result[p] # None => result[p] >= seen[p]

----------------------------------------------------------------------------
(* The inductive invariant of the proofs.                                  *)

\* No value from before the floor is stored or on its way to be.
Floored ==
  /\ primary # None => primary >= floor
  /\ stale # None => stale >= floor
  /\ \A p \in Callers : InFlight(p) => val[p] >= floor

\* Which call stands where.
Placed(p) ==
  /\ pc[p] \in {"fresh", "stale", "wait", "waitLease", "resolve", "persist", "keep"} =>
       call[p] \in Fetches
  /\ pc[p] \in {"acquire", "confirm", "look", "take", "recheck"} =>
       call[p] \in Fetches \cup Locks
  /\ pc[p] \in {"primary", "clean", "cleanLease"} => call[p] \in Writes

\* A fetch never holds a value from before the floor it began with.
Served(p) ==
  /\ seen[p] <= floor
  /\ pc[p] = "idle" => copy[p] = None /\ result[p] = None
  /\ copy[p] # None => copy[p] >= seen[p]
  /\ pc[p] \in {"persist", "keep"} => val[p] >= seen[p]
  /\ result[p] # None => result[p] >= seen[p]

\* What a writer that began alone has removed does not come back: all that has
\* come into flight since is at least as new as what it writes.
Clearing(p) ==
  p \in clear =>
    /\ pc[p] \in {"primary", "clean", "cleanLease"}
    /\ \A q \in Callers \ {p} : InFlight(q) => val[q] >= val[p]
    /\ pc[p] # "primary" => primary = None \/ primary >= val[p]
    /\ pc[p] = "cleanLease" => stale = None \/ stale >= val[p]

IInv ==
  /\ TypeOK
  /\ LeaderHoldsLease
  /\ LeasedInOrder
  /\ Floored
  /\ \A p \in Callers : Placed(p) /\ Served(p) /\ Clearing(p)

=============================================================================
