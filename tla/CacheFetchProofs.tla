-------------------------- MODULE CacheFetchProofs --------------------------
(***************************************************************************)
(* Proofs about CacheFetch, for any number of callers, slots, versions and *)
(* faults, whichever calls are made.                                       *)
(***************************************************************************)
EXTENDS CacheFetch, TLAPS

LEMMA BeginFetchStep ==
  ASSUME IInv, NEW p \in Callers, NEW kind \in CallKinds, BeginFetch(p, kind)
  PROVE  IInv'
<1>1. TypeOK'
  BY DEF IInv, BeginFetch, TypeOK, Goto, entries, Points
<1>2. LeaderHoldsLease'
  BY DEF IInv, BeginFetch, LeaderHoldsLease, At, Goto, Leading, Holds, Slot
<1>3. LeasedInOrder'
  BY DEF IInv, BeginFetch, LeasedInOrder, At, Goto, Leading, Holds, Slot
<1>4. Floored'
  BY DEF IInv, BeginFetch, TypeOK, Floored, Goto, entries, InFlight
<1>5. (\A x \in Callers : Placed(x))'
  BY DEF IInv, BeginFetch, TypeOK, Placed, Goto
<1>6. (\A x \in Callers : Served(x))'
  BY DEF IInv, BeginFetch, TypeOK, Served, At, Goto
<1>7. (\A x \in Callers : Clearing(x))'
  BY DEF IInv, BeginFetch, Clearing, At, Goto, entries, InFlight
<1> QED BY <1>1, <1>2, <1>3, <1>4, <1>5, <1>6, <1>7 DEF IInv

LEMMA ReadFreshStep ==
  ASSUME IInv, NEW p \in Callers, ReadFresh(p)
  PROVE  IInv'
<1>1. TypeOK'
  BY DEF IInv, ReadFresh, TypeOK, Return, Go, entries, Points, Goto, writers, locals
<1>2. LeaderHoldsLease'
  BY DEF IInv, ReadFresh, TypeOK, LeaderHoldsLease, Return, Go, Leading, Holds, Goto,
        locals, Slot
<1>3. LeasedInOrder'
  BY DEF IInv, ReadFresh, TypeOK, LeasedInOrder, At, Return, Go, Leading, Holds, Goto,
        locals, Slot
<1>4. Floored'
  BY DEF IInv, ReadFresh, TypeOK, Floored, Return, Go, entries, InFlight, Goto, locals
<1>5. (\A x \in Callers : Placed(x))'
  BY DEF IInv, ReadFresh, TypeOK, Placed, At, Return, Go, Goto, locals
<1>6. (\A x \in Callers : Served(x))'
  BY DEF IInv, ReadFresh, TypeOK, Served, Floored, Return, Go, Goto, writers, locals
<1>7. (\A x \in Callers : Clearing(x))'
  BY DEF IInv, ReadFresh, TypeOK, Clearing, At, Return, Go, entries, InFlight, Goto,
        writers, locals
<1> QED BY <1>1, <1>2, <1>3, <1>4, <1>5, <1>6, <1>7 DEF IInv

LEMMA ReadStaleStep ==
  ASSUME IInv, NEW p \in Callers, ReadStale(p)
  PROVE  IInv'
<1>1. TypeOK'
  BY DEF IInv, ReadStale, TypeOK, None, Goto, entries, history, Versions, Points, writers
<1>2. LeaderHoldsLease'
  BY DEF IInv, ReadStale, LeaderHoldsLease, Goto, history, Leading, Holds, Slot
<1>3. LeasedInOrder'
  BY DEF IInv, ReadStale, LeasedInOrder, At, Goto, history, Leading, Holds, Slot
<1>4. Floored'
  BY DEF IInv, ReadStale, Floored, Goto, entries, history, InFlight
<1>5. (\A x \in Callers : Placed(x))'
  BY DEF IInv, ReadStale, Placed, At, Goto
<1>6. (\A x \in Callers : Served(x))'
  BY DEF IInv, ReadStale, TypeOK, Served, Floored, Goto, history, writers
<1>7. (\A x \in Callers : Clearing(x))'
  BY DEF IInv, ReadStale, Clearing, At, Goto, entries, history, InFlight, writers
<1> QED BY <1>1, <1>2, <1>3, <1>4, <1>5, <1>6, <1>7 DEF IInv

LEMMA AcquireStep ==
  ASSUME IInv, NEW p \in Callers, Acquire(p)
  PROVE  IInv'
<1>1. TypeOK'
  BY CacheFetchAssumption DEF IInv, Acquire, TypeOK, MoveLease, Go, Refused, entries,
        Versions, Points, None, Goto, locals, writers, Return, Leave
<1>2. LeaderHoldsLease'
  BY CacheFetchAssumption DEF IInv, Acquire, TypeOK, LeaderHoldsLease, Free, MoveLease,
        Slot, Go, Refused, Slots, Leading, Holds, Goto, locals, Return, Leave
<1>3. LeasedInOrder'
  BY DEF IInv, Acquire, TypeOK, LeasedInOrder, At, MoveLease, Slot, Go, Refused, Slots,
        Leading, Holds, Goto, locals, Return, Leave
<1>4. Floored'
  BY DEF IInv, Acquire, TypeOK, Floored, Go, Refused, entries, InFlight, Goto, locals,
        Return, Leave
<1>5. (\A x \in Callers : Placed(x))'
  BY DEF IInv, Acquire, TypeOK, Placed, At, Go, Refused, Goto, locals, Return, Leave
<1>6. (\A x \in Callers : Served(x))'
  BY DEF IInv, Acquire, TypeOK, Served, Go, Refused, None, Goto, locals, writers, Return,
        Leave
<1>7. (\A x \in Callers : Clearing(x))'
  BY DEF IInv, Acquire, TypeOK, Clearing, At, Go, Refused, entries, InFlight, Goto, locals,
        writers, Return, Leave
<1> QED BY <1>1, <1>2, <1>3, <1>4, <1>5, <1>6, <1>7 DEF IInv

LEMMA AcquireUnlockedStep ==
  ASSUME IInv, NEW p \in Callers, AcquireUnlocked(p)
  PROVE  IInv'
<1>1. TypeOK'
  BY CacheFetchAssumption DEF IInv, AcquireUnlocked, TypeOK, Strike, Go, entries, Points,
        Goto, locals, writers
<1>2. LeaderHoldsLease'
  BY DEF IInv, AcquireUnlocked, LeaderHoldsLease, Go, Leading, Holds, Goto, locals, Slot
<1>3. LeasedInOrder'
  BY DEF IInv, AcquireUnlocked, LeasedInOrder, At, Go, Leading, Holds, Goto, locals, Slot
<1>4. Floored'
  BY DEF IInv, AcquireUnlocked, Floored, Go, entries, InFlight, Goto, locals
<1>5. (\A x \in Callers : Placed(x))'
  BY DEF IInv, AcquireUnlocked, Placed, At, Go, Goto, locals
<1>6. (\A x \in Callers : Served(x))'
  BY DEF IInv, AcquireUnlocked, Served, Go, Goto, locals, writers
<1>7. (\A x \in Callers : Clearing(x))'
  BY DEF IInv, AcquireUnlocked, Clearing, At, Go, entries, InFlight, Goto, locals, writers
<1> QED BY <1>1, <1>2, <1>3, <1>4, <1>5, <1>6, <1>7 DEF IInv

LEMMA LookStep ==
  ASSUME IInv, NEW p \in Callers, Look(p)
  PROVE  IInv'
<1>1. TypeOK'
  BY CacheFetchAssumption DEF IInv, Look, TypeOK, Go, Refused, entries, Versions, Points,
        None, Goto, locals, writers, Return, Leave
<1>2. LeaderHoldsLease'
  BY DEF IInv, Look, TypeOK, LeaderHoldsLease, Go, Refused, Leading, Holds, Slot, Goto,
        locals, Return, Leave
<1>3. LeasedInOrder'
  BY DEF IInv, Look, TypeOK, LeasedInOrder, At, Go, Refused, Leading, Holds, Slot, Goto,
        locals, Return, Leave
<1>4. Floored'
  BY DEF IInv, Look, TypeOK, Floored, Go, Refused, entries, InFlight, Goto, locals, Return,
        Leave
<1>5. (\A x \in Callers : Placed(x))'
  BY DEF IInv, Look, TypeOK, Placed, At, Go, Refused, Goto, locals, Return, Leave
<1>6. (\A x \in Callers : Served(x))'
  BY DEF IInv, Look, TypeOK, Served, Go, Refused, None, Goto, locals, writers, Return, Leave
<1>7. (\A x \in Callers : Clearing(x))'
  BY DEF IInv, Look, TypeOK, Clearing, At, Go, Refused, entries, InFlight, Goto, locals,
        writers, Return, Leave
<1> QED BY <1>1, <1>2, <1>3, <1>4, <1>5, <1>6, <1>7 DEF IInv

LEMMA TakeStep ==
  ASSUME IInv, NEW p \in Callers, Take(p)
  PROVE  IInv'
<1>1. TypeOK'
  BY DEF IInv, Take, TypeOK, SetLease, Slot, Go, entries, Slots, Points, Goto, locals,
        writers
<1>2. LeaderHoldsLease'
  BY DEF IInv, Take, LeaderHoldsLease, At, SetLease, Slot, Go, Leading, Holds, Goto, locals
<1>3. LeasedInOrder'
  BY DEF IInv, Take, LeasedInOrder, At, SetLease, Slot, Go, Leading, Holds, Goto, locals
<1>4. Floored'
  BY DEF IInv, Take, Floored, Go, entries, InFlight, Goto, locals
<1>5. (\A x \in Callers : Placed(x))'
  BY DEF IInv, Take, Placed, At, Go, Goto, locals
<1>6. (\A x \in Callers : Served(x))'
  BY DEF IInv, Take, Served, Go, Goto, locals, writers
<1>7. (\A x \in Callers : Clearing(x))'
  BY DEF IInv, Take, Clearing, At, Go, entries, InFlight, Goto, locals, writers
<1> QED BY <1>1, <1>2, <1>3, <1>4, <1>5, <1>6, <1>7 DEF IInv

LEMMA ConfirmStep ==
  ASSUME IInv, NEW p \in Callers, Confirm(p)
  PROVE  IInv'
<1>1. TypeOK'
  BY CacheFetchAssumption DEF IInv, Confirm, TypeOK, Go, Refused, entries, Versions, Points,
        None, Goto, locals, writers, Return, Leave
<1>2. LeaderHoldsLease'
  BY DEF IInv, Confirm, TypeOK, LeaderHoldsLease, Holds, Go, Refused, Leading, Slot, Goto,
        locals, Return, Leave
<1>3. LeasedInOrder'
  BY DEF IInv, Confirm, TypeOK, LeasedInOrder, Holds, Go, Refused, At, Leading, Slot, Goto,
        locals, Return, Leave
<1>4. Floored'
  BY DEF IInv, Confirm, TypeOK, Floored, Go, Refused, entries, InFlight, Goto, locals,
        Return, Leave
<1>5. (\A x \in Callers : Placed(x))'
  BY DEF IInv, Confirm, TypeOK, Placed, Go, Refused, Goto, locals, Return, Leave
<1>6. (\A x \in Callers : Served(x))'
  BY DEF IInv, Confirm, TypeOK, Served, Go, Refused, None, Goto, locals, writers, Return,
        Leave
<1>7. (\A x \in Callers : Clearing(x))'
  BY DEF IInv, Confirm, TypeOK, Clearing, Go, Refused, entries, InFlight, Goto, locals,
        writers, Return, Leave
<1> QED BY <1>1, <1>2, <1>3, <1>4, <1>5, <1>6, <1>7 DEF IInv

LEMMA WaitValueStep ==
  ASSUME IInv, NEW p \in Callers, WaitValue(p)
  PROVE  IInv'
<1>1. TypeOK'
  BY DEF IInv, WaitValue, TypeOK, Return, Go, entries, Points, Goto, writers, locals
<1>2. LeaderHoldsLease'
  BY DEF IInv, WaitValue, TypeOK, LeaderHoldsLease, Return, Go, Leading, Holds, Goto,
        locals, Slot
<1>3. LeasedInOrder'
  BY DEF IInv, WaitValue, TypeOK, LeasedInOrder, At, Return, Go, Leading, Holds, Goto,
        locals, Slot
<1>4. Floored'
  BY DEF IInv, WaitValue, TypeOK, Floored, Return, Go, entries, InFlight, Goto, locals
<1>5. (\A x \in Callers : Placed(x))'
  BY DEF IInv, WaitValue, TypeOK, Placed, At, Return, Go, Goto, locals
<1>6. (\A x \in Callers : Served(x))'
  BY DEF IInv, WaitValue, TypeOK, Served, Floored, Return, Go, Goto, writers, locals
<1>7. (\A x \in Callers : Clearing(x))'
  BY DEF IInv, WaitValue, TypeOK, Clearing, At, Return, Go, entries, InFlight, Goto,
        writers, locals
<1> QED BY <1>1, <1>2, <1>3, <1>4, <1>5, <1>6, <1>7 DEF IInv

LEMMA WaitLeaseStep ==
  ASSUME IInv, NEW p \in Callers, WaitLease(p)
  PROVE  IInv'
<1>1. TypeOK'
  BY CacheFetchAssumption DEF IInv, WaitLease, TypeOK, Waited, Goto, writers, entries,
        Versions, Points, None, Leave
<1>2. LeaderHoldsLease'
  BY DEF IInv, WaitLease, TypeOK, LeaderHoldsLease, Waited, Goto, Leading, Holds, Leave,
        Slot
<1>3. LeasedInOrder'
  BY DEF IInv, WaitLease, TypeOK, LeasedInOrder, At, Waited, Goto, Leading, Holds, Leave,
        Slot
<1>4. Floored'
  BY DEF IInv, WaitLease, TypeOK, Floored, Waited, Goto, entries, InFlight, Leave
<1>5. (\A x \in Callers : Placed(x))'
  BY DEF IInv, WaitLease, TypeOK, Placed, At, Waited, Goto, Leave
<1>6. (\A x \in Callers : Served(x))'
  BY DEF IInv, WaitLease, TypeOK, Served, Waited, Goto, writers, None, Leave
<1>7. (\A x \in Callers : Clearing(x))'
  BY DEF IInv, WaitLease, TypeOK, Clearing, At, Waited, Goto, writers, entries, InFlight,
        Leave
<1> QED BY <1>1, <1>2, <1>3, <1>4, <1>5, <1>6, <1>7 DEF IInv

LEMMA ResolveStep ==
  ASSUME IInv, NEW p \in Callers, Resolve(p)
  PROVE  IInv'
<1>1. TypeOK'
  BY DEF IInv, Resolve, TypeOK, Goto, entries, history, Versions, Points, writers
<1>2. LeaderHoldsLease'
  BY DEF IInv, Resolve, LeaderHoldsLease, At, Goto, history, Leading, Holds, Slot
<1>3. LeasedInOrder'
  BY DEF IInv, Resolve, TypeOK, LeasedInOrder, At, Goto, history, Leading, Holds, Slot
<1>4. Floored'
  BY DEF IInv, Resolve, TypeOK, Floored, Goto, entries, history, InFlight
<1>5. (\A x \in Callers : Placed(x))'
  BY DEF IInv, Resolve, Placed, At, Goto
<1>6. (\A x \in Callers : Served(x))'
  BY DEF IInv, Resolve, TypeOK, Served, Goto, history, writers
<1>7. (\A x \in Callers : Clearing(x))'
  BY DEF IInv, Resolve, TypeOK, Clearing, At, Goto, entries, history, InFlight, writers
<1> QED BY <1>1, <1>2, <1>3, <1>4, <1>5, <1>6, <1>7 DEF IInv

LEMMA ResolveFailsStep ==
  ASSUME IInv, NEW p \in Callers, ResolveFails(p)
  PROVE  IInv'
<1>1. TypeOK'
  BY CacheFetchAssumption DEF IInv, ResolveFails, TypeOK, Strike, Recover, entries,
        Versions, Points, None, Answer, Goto, writers
<1>2. LeaderHoldsLease'
  BY DEF IInv, ResolveFails, TypeOK, LeaderHoldsLease, Recover, Leading, Holds, Answer,
        Slot, Goto
<1>3. LeasedInOrder'
  BY DEF IInv, ResolveFails, TypeOK, LeasedInOrder, At, Recover, Leading, Holds, Answer,
        Slot, Goto
<1>4. Floored'
  BY DEF IInv, ResolveFails, TypeOK, Floored, Recover, entries, InFlight, Answer, Goto
<1>5. (\A x \in Callers : Placed(x))'
  BY DEF IInv, ResolveFails, TypeOK, Placed, Recover, Answer, Goto
<1>6. (\A x \in Callers : Served(x))'
  BY DEF IInv, ResolveFails, TypeOK, Served, Recover, Answer, Goto, writers
<1>7. (\A x \in Callers : Clearing(x))'
  BY DEF IInv, ResolveFails, TypeOK, Clearing, At, Recover, entries, InFlight, Answer, Goto,
        writers
<1> QED BY <1>1, <1>2, <1>3, <1>4, <1>5, <1>6, <1>7 DEF IInv

LEMMA PersistStep ==
  ASSUME IInv, NEW p \in Callers, Persist(p)
  PROVE  IInv'
<1>1. TypeOK'
  BY DEF IInv, Persist, TypeOK, Go, Points, Goto, locals, writers
<1>2. LeaderHoldsLease'
  BY DEF IInv, Persist, LeaderHoldsLease, At, Leading, Holds, Go, Slot, Goto, locals
<1>3. LeasedInOrder'
  BY DEF IInv, Persist, TypeOK, LeasedInOrder, Placed, At, Leading, Holds, Go, Fetches,
        Locks, Slot, Goto, locals
<1>4. Floored'
  BY DEF IInv, Persist, Floored, Placed, At, Go, InFlight, Fetches, Goto, locals
<1>5. (\A x \in Callers : Placed(x))'
  BY DEF IInv, Persist, Placed, At, Go, Goto, locals
<1>6. (\A x \in Callers : Served(x))'
  BY DEF IInv, Persist, Served, At, Go, Goto, locals, writers
<1>7. (\A x \in Callers : Clearing(x))'
  BY DEF IInv, Persist, Clearing, Placed, At, Go, InFlight, Fetches, Goto, locals, writers
<1> QED BY <1>1, <1>2, <1>3, <1>4, <1>5, <1>6, <1>7 DEF IInv

LEMMA KeepStep ==
  ASSUME IInv, NEW p \in Callers, Keep(p)
  PROVE  IInv'
<1>1. TypeOK'
  BY DEF IInv, Keep, TypeOK, None, Answer, Versions, Points, Goto, writers
<1>2. LeaderHoldsLease'
  BY DEF IInv, Keep, LeaderHoldsLease, Answer, Leading, Holds, Goto, Slot
<1>3. LeasedInOrder'
  BY DEF IInv, Keep, LeasedInOrder, At, Answer, Leading, Holds, Goto, Slot
<1>4. Floored'
  BY DEF IInv, Keep, Floored, Placed, At, Answer, InFlight, Fetches, Goto
<1>5. (\A x \in Callers : Placed(x))'
  BY DEF IInv, Keep, Placed, Answer, Goto
<1>6. (\A x \in Callers : Served(x))'
  BY DEF IInv, Keep, Served, At, Answer, Goto, writers
<1>7. (\A x \in Callers : Clearing(x))'
  BY DEF IInv, Keep, Clearing, Placed, At, Answer, InFlight, Fetches, Goto, writers
<1> QED BY <1>1, <1>2, <1>3, <1>4, <1>5, <1>6, <1>7 DEF IInv

LEMMA PersistFailsStep ==
  ASSUME IInv, NEW p \in Callers, PersistFails(p)
  PROVE  IInv'
<1>1. TypeOK'
  BY CacheFetchAssumption DEF IInv, PersistFails, TypeOK, Strike, Answer, Recover, entries,
        Versions, Points, None, Goto, writers
<1>2. LeaderHoldsLease'
  BY DEF IInv, PersistFails, TypeOK, LeaderHoldsLease, Answer, Recover, Leading, Holds,
        Goto, Slot
<1>3. LeasedInOrder'
  BY DEF IInv, PersistFails, TypeOK, LeasedInOrder, At, Answer, Recover, Leading, Holds,
        Goto, Slot
<1>4. Floored'
  BY DEF IInv, PersistFails, TypeOK, Floored, Answer, Recover, entries, InFlight, Goto
<1>5. (\A x \in Callers : Placed(x))'
  BY DEF IInv, PersistFails, TypeOK, Placed, Answer, Recover, Goto
<1>6. (\A x \in Callers : Served(x))'
  BY DEF IInv, PersistFails, TypeOK, Served, Answer, Recover, Goto, writers
<1>7. (\A x \in Callers : Clearing(x))'
  BY DEF IInv, PersistFails, TypeOK, Clearing, Answer, Recover, entries, InFlight, Goto,
        writers
<1> QED BY <1>1, <1>2, <1>3, <1>4, <1>5, <1>6, <1>7 DEF IInv

LEMMA EndTaskStep ==
  ASSUME IInv, NEW p \in Callers, EndTask(p)
  PROVE  IInv'
<1>1. TypeOK'
  BY DEF IInv, EndTask, TypeOK, Go, entries, Points, Goto, locals, writers
<1>2. LeaderHoldsLease'
  BY DEF IInv, EndTask, LeaderHoldsLease, Go, Leading, Holds, Goto, locals, Slot
<1>3. LeasedInOrder'
  BY DEF IInv, EndTask, LeasedInOrder, At, Go, Leading, Holds, Goto, locals, Slot
<1>4. Floored'
  BY DEF IInv, EndTask, Floored, Go, entries, InFlight, Goto, locals
<1>5. (\A x \in Callers : Placed(x))'
  BY DEF IInv, EndTask, Placed, Go, Goto, locals
<1>6. (\A x \in Callers : Served(x))'
  BY DEF IInv, EndTask, Served, Go, Goto, locals, writers
<1>7. (\A x \in Callers : Clearing(x))'
  BY DEF IInv, EndTask, Clearing, At, Go, entries, InFlight, Goto, locals, writers
<1> QED BY <1>1, <1>2, <1>3, <1>4, <1>5, <1>6, <1>7 DEF IInv

LEMMA ReleaseStep ==
  ASSUME IInv, NEW p \in Callers, Release(p)
  PROVE  IInv'
<1>1. TypeOK'
  BY DEF IInv, Release, TypeOK, MoveLease, Return, entries, Points, Goto, writers
<1>2. LeaderHoldsLease'
  BY DEF IInv, Release, TypeOK, LeaderHoldsLease, Holds, MoveLease, Slot, Return, Slots,
        Leading, Goto
<1>3. LeasedInOrder'
  BY CacheFetchAssumption DEF IInv, Release, TypeOK, LeasedInOrder, At, Holds, MoveLease,
        Slot, Return, Slots, Leading, Goto
<1>4. Floored'
  BY DEF IInv, Release, Floored, Return, entries, InFlight, Goto
<1>5. (\A x \in Callers : Placed(x))'
  BY DEF IInv, Release, Placed, Return, Goto
<1>6. (\A x \in Callers : Served(x))'
  BY DEF IInv, Release, Served, Return, Goto, writers
<1>7. (\A x \in Callers : Clearing(x))'
  BY DEF IInv, Release, Clearing, At, Return, entries, InFlight, Goto, writers
<1> QED BY <1>1, <1>2, <1>3, <1>4, <1>5, <1>6, <1>7 DEF IInv

LEMMA ReleaseFailsStep ==
  ASSUME IInv, NEW p \in Callers, ReleaseFails(p)
  PROVE  IInv'
<1>1. TypeOK'
  BY CacheFetchAssumption DEF IInv, ReleaseFails, TypeOK, Strike, Return, entries, Points,
        Goto, writers
<1>2. LeaderHoldsLease'
  BY DEF IInv, ReleaseFails, LeaderHoldsLease, Holds, Return, Leading, Slot, Goto
<1>3. LeasedInOrder'
  BY DEF IInv, ReleaseFails, LeasedInOrder, Holds, Return, At, Leading, Slot, Goto
<1>4. Floored'
  BY DEF IInv, ReleaseFails, Floored, Return, entries, InFlight, Goto
<1>5. (\A x \in Callers : Placed(x))'
  BY DEF IInv, ReleaseFails, Placed, Return, Goto
<1>6. (\A x \in Callers : Served(x))'
  BY DEF IInv, ReleaseFails, Served, Return, Goto, writers
<1>7. (\A x \in Callers : Clearing(x))'
  BY DEF IInv, ReleaseFails, Clearing, Return, entries, InFlight, Goto, writers
<1> QED BY <1>1, <1>2, <1>3, <1>4, <1>5, <1>6, <1>7 DEF IInv

LEMMA ReleaseUnlockedStep ==
  ASSUME IInv, NEW p \in Callers, ReleaseUnlocked(p)
  PROVE  IInv'
<1>1. TypeOK'
  BY CacheFetchAssumption DEF IInv, ReleaseUnlocked, TypeOK, Strike, Go, entries, Points,
        Goto, locals, writers
<1>2. LeaderHoldsLease'
  BY DEF IInv, ReleaseUnlocked, LeaderHoldsLease, Go, Leading, Holds, Goto, locals, Slot
<1>3. LeasedInOrder'
  BY DEF IInv, ReleaseUnlocked, LeasedInOrder, At, Go, Leading, Holds, Goto, locals, Slot
<1>4. Floored'
  BY DEF IInv, ReleaseUnlocked, Floored, Go, entries, InFlight, Goto, locals
<1>5. (\A x \in Callers : Placed(x))'
  BY DEF IInv, ReleaseUnlocked, Placed, Go, Goto, locals
<1>6. (\A x \in Callers : Served(x))'
  BY DEF IInv, ReleaseUnlocked, Served, Go, Goto, locals, writers
<1>7. (\A x \in Callers : Clearing(x))'
  BY DEF IInv, ReleaseUnlocked, Clearing, At, Go, entries, InFlight, Goto, locals, writers
<1> QED BY <1>1, <1>2, <1>3, <1>4, <1>5, <1>6, <1>7 DEF IInv

LEMMA ReadOwnerStep ==
  ASSUME IInv, NEW p \in Callers, ReadOwner(p)
  PROVE  IInv'
<1>1. TypeOK'
  BY DEF IInv, ReadOwner, TypeOK, Go, Return, entries, Points, Goto, locals, writers
<1>2. LeaderHoldsLease'
  BY DEF IInv, ReadOwner, TypeOK, LeaderHoldsLease, Holds, Go, Return, Leading, Slot, Goto,
        locals
<1>3. LeasedInOrder'
  BY DEF IInv, ReadOwner, TypeOK, LeasedInOrder, At, Holds, Go, Return, Leading, Slot, Goto,
        locals
<1>4. Floored'
  BY DEF IInv, ReadOwner, TypeOK, Floored, Go, Return, entries, InFlight, Goto, locals
<1>5. (\A x \in Callers : Placed(x))'
  BY DEF IInv, ReadOwner, TypeOK, Placed, Go, Return, Goto, locals
<1>6. (\A x \in Callers : Served(x))'
  BY DEF IInv, ReadOwner, TypeOK, Served, Go, Return, Goto, locals, writers
<1>7. (\A x \in Callers : Clearing(x))'
  BY DEF IInv, ReadOwner, TypeOK, Clearing, At, Go, Return, entries, InFlight, Goto, locals,
        writers
<1> QED BY <1>1, <1>2, <1>3, <1>4, <1>5, <1>6, <1>7 DEF IInv

LEMMA FreeUnlockedStep ==
  ASSUME IInv, NEW p \in Callers, FreeUnlocked(p)
  PROVE  IInv'
<1>1. TypeOK'
  BY DEF IInv, FreeUnlocked, TypeOK, SetLease, Slot, Return, entries, Slots, Points, Goto,
        writers
<1>2. LeaderHoldsLease'
  BY DEF IInv, FreeUnlocked, LeaderHoldsLease, At, SetLease, Slot, Return, Leading, Holds,
        Goto
<1>3. LeasedInOrder'
  BY CacheFetchAssumption DEF IInv, FreeUnlocked, LeasedInOrder, At, SetLease, Slot, Return,
        Leading, Holds, Goto
<1>4. Floored'
  BY DEF IInv, FreeUnlocked, Floored, Return, entries, InFlight, Goto
<1>5. (\A x \in Callers : Placed(x))'
  BY DEF IInv, FreeUnlocked, Placed, Return, Goto
<1>6. (\A x \in Callers : Served(x))'
  BY DEF IInv, FreeUnlocked, Served, Return, Goto, writers
<1>7. (\A x \in Callers : Clearing(x))'
  BY DEF IInv, FreeUnlocked, Clearing, At, Return, entries, InFlight, Goto, writers
<1> QED BY <1>1, <1>2, <1>3, <1>4, <1>5, <1>6, <1>7 DEF IInv

LEMMA EndCallStep ==
  ASSUME IInv, NEW p \in Callers, EndCall(p)
  PROVE  IInv'
<1>1. TypeOK'
  BY CacheFetchAssumption DEF IInv, EndCall, TypeOK, Leave, entries, Versions, Points, None,
        Goto
<1>2. LeaderHoldsLease'
  BY DEF IInv, EndCall, TypeOK, LeaderHoldsLease, Leave, Leading, Holds, Goto, Slot
<1>3. LeasedInOrder'
  BY DEF IInv, EndCall, LeasedInOrder, At, Leave, Leading, Holds, Goto, Slot
<1>4. Floored'
  BY DEF IInv, EndCall, TypeOK, Floored, Leave, entries, InFlight, Goto
<1>5. (\A x \in Callers : Placed(x))'
  BY DEF IInv, EndCall, Placed, At, Leave, Goto
<1>6. (\A x \in Callers : Served(x))'
  BY DEF IInv, EndCall, TypeOK, Served, Leave, None, Goto
<1>7. (\A x \in Callers : Clearing(x))'
  BY DEF IInv, EndCall, TypeOK, Clearing, Leave, entries, InFlight, Goto
<1> QED BY <1>1, <1>2, <1>3, <1>4, <1>5, <1>6, <1>7 DEF IInv

LEMMA BeginLockStep ==
  ASSUME IInv, NEW p \in Callers, NEW kind \in CallKinds, BeginLock(p, kind)
  PROVE  IInv'
<1>1. TypeOK'
  BY DEF IInv, BeginLock, TypeOK, Goto, entries, history, Points, writers
<1>2. LeaderHoldsLease'
  BY DEF IInv, BeginLock, TypeOK, LeaderHoldsLease, Goto, history, Leading, Holds, Slot
<1>3. LeasedInOrder'
  BY DEF IInv, BeginLock, LeasedInOrder, At, Goto, history, Leading, Holds, Slot
<1>4. Floored'
  BY DEF IInv, BeginLock, Floored, At, Goto, entries, history, InFlight
<1>5. (\A x \in Callers : Placed(x))'
  BY DEF IInv, BeginLock, TypeOK, Placed, Goto
<1>6. (\A x \in Callers : Served(x))'
  BY DEF IInv, BeginLock, Served, Goto, history, writers
<1>7. (\A x \in Callers : Clearing(x))'
  BY DEF IInv, BeginLock, Clearing, At, Goto, entries, history, InFlight, writers
<1> QED BY <1>1, <1>2, <1>3, <1>4, <1>5, <1>6, <1>7 DEF IInv

LEMMA BeginWriteStep ==
  ASSUME IInv, NEW p \in Callers, NEW kind \in CallKinds, BeginWrite(p, kind)
  PROVE  IInv'
<1>1. TypeOK'
  BY DEF IInv, BeginWrite, TypeOK, Goto, entries, Versions, Points
<1>2. LeaderHoldsLease'
  BY DEF IInv, BeginWrite, TypeOK, LeaderHoldsLease, Goto, Leading, Holds, Slot
<1>3. LeasedInOrder'
  BY DEF IInv, BeginWrite, LeasedInOrder, At, Goto, Leading, Holds, Slot
<1>4. Floored'
  BY DEF IInv, BeginWrite, TypeOK, Floored, Goto, entries, InFlight
<1>5. (\A x \in Callers : Placed(x))'
  BY DEF IInv, BeginWrite, TypeOK, Placed, Goto
<1>6. (\A x \in Callers : Served(x))'
  BY DEF IInv, BeginWrite, TypeOK, Served, Goto
<1>7. (\A x \in Callers : Clearing(x))'
  BY DEF IInv, BeginWrite, TypeOK, Clearing, At, Goto, Quiet, entries, InFlight
<1> QED BY <1>1, <1>2, <1>3, <1>4, <1>5, <1>6, <1>7 DEF IInv

LEMMA WritePrimaryStep ==
  ASSUME IInv, NEW p \in Callers, WritePrimary(p)
  PROVE  IInv'
<1>1. TypeOK'
  BY DEF IInv, WritePrimary, TypeOK, None, Go, Versions, Points, Goto, locals, writers
<1>2. LeaderHoldsLease'
  BY DEF IInv, WritePrimary, LeaderHoldsLease, Go, Leading, Holds, Goto, locals, Slot
<1>3. LeasedInOrder'
  BY DEF IInv, WritePrimary, LeasedInOrder, At, Go, Leading, Holds, Goto, locals, Slot
<1>4. Floored'
  BY DEF IInv, WritePrimary, Floored, At, Go, InFlight, Goto, locals
<1>5. (\A x \in Callers : Placed(x))'
  BY DEF IInv, WritePrimary, Placed, At, Go, Goto, locals
<1>6. (\A x \in Callers : Served(x))'
  BY DEF IInv, WritePrimary, Served, Go, Goto, locals, writers
<1>7. (\A x \in Callers : Clearing(x))'
  BY DEF IInv, WritePrimary, TypeOK, Clearing, At, Go, InFlight, Goto, locals, writers
<1> QED BY <1>1, <1>2, <1>3, <1>4, <1>5, <1>6, <1>7 DEF IInv

LEMMA CleanSetStep ==
  ASSUME IInv, NEW p \in Callers, CleanSet(p)
  PROVE  IInv'
<1>1. TypeOK'
  BY CacheFetchAssumption DEF IInv, CleanSet, TypeOK, None, SetLease, EndWrite, Strike,
        Versions, Points, Leave, Newest, Goto
<1>2. LeaderHoldsLease'
  BY DEF IInv, CleanSet, TypeOK, LeaderHoldsLease, SetLease, EndWrite, Slots, Leading,
        Holds, Slot, Leave, Goto
<1>3. LeasedInOrder'
  BY CacheFetchAssumption DEF IInv, CleanSet, TypeOK, LeasedInOrder, Placed, At, SetLease,
        EndWrite, Leading, Holds, Fetches, Locks, Slot, Leave, Goto
<1>4. Floored'
  BY DEF IInv, CleanSet, TypeOK, Floored, Clearing, At, EndWrite, InFlight, Leave, Newest,
        Goto
<1>5. (\A x \in Callers : Placed(x))'
  BY DEF IInv, CleanSet, TypeOK, Placed, EndWrite, Leave, Goto
<1>6. (\A x \in Callers : Served(x))'
  BY DEF IInv, CleanSet, TypeOK, Served, None, EndWrite, Leave, Newest, Goto
<1>7. (\A x \in Callers : Clearing(x))'
  BY DEF IInv, CleanSet, TypeOK, Clearing, EndWrite, InFlight, Leave, Goto
<1> QED BY <1>1, <1>2, <1>3, <1>4, <1>5, <1>6, <1>7 DEF IInv

LEMMA CleanDeleteStep ==
  ASSUME IInv, NEW p \in Callers, CleanDelete(p)
  PROVE  IInv'
<1>1. TypeOK'
  BY CacheFetchAssumption DEF IInv, CleanDelete, TypeOK, Goto, None, Strike, locals,
        Versions, Points
<1>2. LeaderHoldsLease'
  BY DEF IInv, CleanDelete, LeaderHoldsLease, Goto, locals, Leading, Holds, Slot
<1>3. LeasedInOrder'
  BY DEF IInv, CleanDelete, LeasedInOrder, At, Goto, locals, Leading, Holds, Slot
<1>4. Floored'
  BY DEF IInv, CleanDelete, Floored, Goto, locals, InFlight
<1>5. (\A x \in Callers : Placed(x))'
  BY DEF IInv, CleanDelete, Placed, At, Goto, locals
<1>6. (\A x \in Callers : Served(x))'
  BY DEF IInv, CleanDelete, Served, Goto, locals
<1>7. (\A x \in Callers : Clearing(x))'
  BY DEF IInv, CleanDelete, Clearing, At, Goto, locals, InFlight
<1> QED BY <1>1, <1>2, <1>3, <1>4, <1>5, <1>6, <1>7 DEF IInv

LEMMA CleanLeaseStep ==
  ASSUME IInv, NEW p \in Callers, CleanLease(p)
  PROVE  IInv'
<1>1. TypeOK'
  BY CacheFetchAssumption DEF IInv, CleanLease, TypeOK, SetLease, Strike, EndWrite, entries,
        Versions, Points, None, Leave, Newest, Goto
<1>2. LeaderHoldsLease'
  BY DEF IInv, CleanLease, TypeOK, LeaderHoldsLease, SetLease, EndWrite, Slots, Leading,
        Holds, Slot, Leave, Goto
<1>3. LeasedInOrder'
  BY CacheFetchAssumption DEF IInv, CleanLease, TypeOK, LeasedInOrder, Placed, At, SetLease,
        EndWrite, Leading, Holds, Fetches, Locks, Slot, Leave, Goto
<1>4. Floored'
  BY DEF IInv, CleanLease, Floored, Clearing, At, EndWrite, entries, InFlight, Leave,
        Newest, Goto
<1>5. (\A x \in Callers : Placed(x))'
  BY DEF IInv, CleanLease, TypeOK, Placed, EndWrite, Leave, Goto
<1>6. (\A x \in Callers : Served(x))'
  BY DEF IInv, CleanLease, TypeOK, Served, EndWrite, None, Leave, Newest, Goto
<1>7. (\A x \in Callers : Clearing(x))'
  BY DEF IInv, CleanLease, Clearing, At, EndWrite, entries, InFlight, Leave, Goto
<1> QED BY <1>1, <1>2, <1>3, <1>4, <1>5, <1>6, <1>7 DEF IInv

LEMMA BeginPrefixStep ==
  ASSUME IInv, NEW p \in Callers, BeginPrefix(p)
  PROVE  IInv'
<1>1. TypeOK'
  BY DEF IInv, BeginPrefix, TypeOK, Goto, entries, history, Points, CallKinds, writers
<1>2. LeaderHoldsLease'
  BY DEF IInv, BeginPrefix, TypeOK, LeaderHoldsLease, Goto, history, Leading, Holds, Slot
<1>3. LeasedInOrder'
  BY DEF IInv, BeginPrefix, LeasedInOrder, At, Goto, history, Leading, Holds, Slot
<1>4. Floored'
  BY DEF IInv, BeginPrefix, Floored, At, Goto, entries, history, InFlight
<1>5. (\A x \in Callers : Placed(x))'
  BY DEF IInv, BeginPrefix, Placed, At, Goto
<1>6. (\A x \in Callers : Served(x))'
  BY DEF IInv, BeginPrefix, Served, Goto, history, writers
<1>7. (\A x \in Callers : Clearing(x))'
  BY DEF IInv, BeginPrefix, Clearing, At, Goto, entries, history, InFlight, writers
<1> QED BY <1>1, <1>2, <1>3, <1>4, <1>5, <1>6, <1>7 DEF IInv

LEMMA DropListedStep ==
  ASSUME IInv, NEW p \in Callers, DropListed(p)
  PROVE  IInv'
<1>1. TypeOK'
  BY CacheFetchAssumption DEF IInv, DropListed, TypeOK, None, Strike, Leave, Versions,
        Points, Goto
<1>2. LeaderHoldsLease'
  BY DEF IInv, DropListed, TypeOK, LeaderHoldsLease, Leave, Leading, Holds, Goto, Slot
<1>3. LeasedInOrder'
  BY DEF IInv, DropListed, LeasedInOrder, At, Leave, Leading, Holds, Goto, Slot
<1>4. Floored'
  BY DEF IInv, DropListed, TypeOK, Floored, Leave, InFlight, Goto
<1>5. (\A x \in Callers : Placed(x))'
  BY DEF IInv, DropListed, Placed, At, Leave, Goto
<1>6. (\A x \in Callers : Served(x))'
  BY DEF IInv, DropListed, TypeOK, Served, None, Leave, Goto
<1>7. (\A x \in Callers : Clearing(x))'
  BY DEF IInv, DropListed, TypeOK, Clearing, Leave, InFlight, Goto
<1> QED BY <1>1, <1>2, <1>3, <1>4, <1>5, <1>6, <1>7 DEF IInv

LEMMA InvalidateStep ==
  ASSUME IInv, NEW p \in Callers, NEW kind \in CallKinds, Invalidate(p, kind)
  PROVE  IInv'
<1>1. TypeOK'
  BY DEF IInv, Invalidate, TypeOK, None, locals, writers, Versions
<1>2. LeaderHoldsLease'
  BY DEF IInv, Invalidate, LeaderHoldsLease, Leading, locals, Holds, Slot
<1>3. LeasedInOrder'
  BY CacheFetchAssumption DEF IInv, Invalidate, LeasedInOrder, At, Slots, Leading, locals,
        Holds, Slot
<1>4. Floored'
  BY DEF IInv, Invalidate, Floored, At, Quiet, locals, InFlight
<1>5. (\A x \in Callers : Placed(x))'
  BY DEF IInv, Invalidate, Placed, locals
<1>6. (\A x \in Callers : Served(x))'
  BY DEF IInv, Invalidate, TypeOK, Served, locals, writers
<1>7. (\A x \in Callers : Clearing(x))'
  BY DEF IInv, Invalidate, Clearing, locals, writers, InFlight
<1> QED BY <1>1, <1>2, <1>3, <1>4, <1>5, <1>6, <1>7 DEF IInv

LEMMA AdapterThrowsStep ==
  ASSUME IInv, NEW p \in Callers, AdapterThrows(p)
  PROVE  IInv'
<1>1. TypeOK'
  BY CacheFetchAssumption DEF IInv, AdapterThrows, TypeOK, Strike, Go, Leave, entries,
        Versions, Points, None, Goto, locals, writers
<1>2. LeaderHoldsLease'
  BY DEF IInv, AdapterThrows, TypeOK, LeaderHoldsLease, Go, Leave, Leading, Holds, Goto,
        locals, Slot
<1>3. LeasedInOrder'
  BY DEF IInv, AdapterThrows, TypeOK, LeasedInOrder, Go, Leave, At, Leading, Holds, Goto,
        locals, Slot
<1>4. Floored'
  BY DEF IInv, AdapterThrows, TypeOK, Floored, Go, Leave, entries, InFlight, Goto, locals
<1>5. (\A x \in Callers : Placed(x))'
  BY DEF IInv, AdapterThrows, TypeOK, Placed, Go, Leave, Goto, locals
<1>6. (\A x \in Callers : Served(x))'
  BY DEF IInv, AdapterThrows, TypeOK, Served, Go, Leave, None, Goto, locals, writers
<1>7. (\A x \in Callers : Clearing(x))'
  BY DEF IInv, AdapterThrows, TypeOK, Clearing, Go, Leave, entries, InFlight, Goto, locals,
        writers
<1> QED BY <1>1, <1>2, <1>3, <1>4, <1>5, <1>6, <1>7 DEF IInv

LEMMA CrashStep ==
  ASSUME IInv, NEW p \in Callers, Crash(p)
  PROVE  IInv'
<1>1. TypeOK'
  BY CacheFetchAssumption DEF IInv, Crash, TypeOK, Strike, Leave, entries, Versions, Points,
        None, Goto
<1>2. LeaderHoldsLease'
  BY DEF IInv, Crash, TypeOK, LeaderHoldsLease, Leave, Leading, Holds, Goto, Slot
<1>3. LeasedInOrder'
  BY DEF IInv, Crash, TypeOK, LeasedInOrder, At, Leave, Leading, Holds, Goto, Slot
<1>4. Floored'
  BY DEF IInv, Crash, TypeOK, Floored, Leave, entries, InFlight, Goto
<1>5. (\A x \in Callers : Placed(x))'
  BY DEF IInv, Crash, TypeOK, Placed, Leave, Goto
<1>6. (\A x \in Callers : Served(x))'
  BY DEF IInv, Crash, TypeOK, Served, Leave, None, Goto
<1>7. (\A x \in Callers : Clearing(x))'
  BY DEF IInv, Crash, TypeOK, Clearing, Leave, entries, InFlight, Goto
<1> QED BY <1>1, <1>2, <1>3, <1>4, <1>5, <1>6, <1>7 DEF IInv

LEMMA ExpirePrimaryStep ==
  ASSUME IInv, ExpirePrimary
  PROVE  IInv'
<1>1. TypeOK'
  BY DEF IInv, ExpirePrimary, TypeOK, None, locals, history, Versions, writers
<1>2. LeaderHoldsLease'
  BY DEF IInv, ExpirePrimary, LeaderHoldsLease, locals, history, Leading, Holds, Slot
<1>3. LeasedInOrder'
  BY DEF IInv, ExpirePrimary, LeasedInOrder, locals, history, At, Leading, Holds, Slot
<1>4. Floored'
  BY DEF IInv, ExpirePrimary, Floored, locals, history, InFlight
<1>5. (\A x \in Callers : Placed(x))'
  BY DEF IInv, ExpirePrimary, Placed, locals
<1>6. (\A x \in Callers : Served(x))'
  BY DEF IInv, ExpirePrimary, Served, locals, history, writers
<1>7. (\A x \in Callers : Clearing(x))'
  BY DEF IInv, ExpirePrimary, Clearing, locals, history, InFlight, writers
<1> QED BY <1>1, <1>2, <1>3, <1>4, <1>5, <1>6, <1>7 DEF IInv

LEMMA ExpireStaleStep ==
  ASSUME IInv, ExpireStale
  PROVE  IInv'
<1>1. TypeOK'
  BY DEF IInv, ExpireStale, TypeOK, None, locals, history, Versions, writers
<1>2. LeaderHoldsLease'
  BY DEF IInv, ExpireStale, LeaderHoldsLease, locals, history, Leading, Holds, Slot
<1>3. LeasedInOrder'
  BY DEF IInv, ExpireStale, LeasedInOrder, locals, history, At, Leading, Holds, Slot
<1>4. Floored'
  BY DEF IInv, ExpireStale, Floored, locals, history, InFlight
<1>5. (\A x \in Callers : Placed(x))'
  BY DEF IInv, ExpireStale, Placed, locals
<1>6. (\A x \in Callers : Served(x))'
  BY DEF IInv, ExpireStale, Served, locals, history, writers
<1>7. (\A x \in Callers : Clearing(x))'
  BY DEF IInv, ExpireStale, Clearing, locals, history, InFlight, writers
<1> QED BY <1>1, <1>2, <1>3, <1>4, <1>5, <1>6, <1>7 DEF IInv

LEMMA ExpireLeaseStep ==
  ASSUME IInv, NEW s \in Slots, ExpireLease(s)
  PROVE  IInv'
<1>1. TypeOK'
  BY CacheFetchAssumption DEF IInv, ExpireLease, TypeOK, Strike, SetLease, entries, locals,
        writers
<1>2. LeaderHoldsLease'
  BY CacheFetchAssumption DEF IInv, ExpireLease, LeaderHoldsLease, Slot, Holds, SetLease,
        locals, Leading
<1>3. LeasedInOrder'
  BY CacheFetchAssumption DEF IInv, ExpireLease, LeasedInOrder, Slot, Holds, SetLease,
        locals, At, Leading
<1>4. Floored'
  BY DEF IInv, ExpireLease, Floored, entries, locals, InFlight
<1>5. (\A x \in Callers : Placed(x))'
  BY DEF IInv, ExpireLease, Placed, locals
<1>6. (\A x \in Callers : Served(x))'
  BY DEF IInv, ExpireLease, Served, locals, writers
<1>7. (\A x \in Callers : Clearing(x))'
  BY DEF IInv, ExpireLease, Clearing, entries, locals, writers, InFlight
<1> QED BY <1>1, <1>2, <1>3, <1>4, <1>5, <1>6, <1>7 DEF IInv

LEMMA OriginChangesStep ==
  ASSUME IInv, OriginChanges
  PROVE  IInv'
<1>1. TypeOK'
  BY CacheFetchAssumption DEF IInv, OriginChanges, TypeOK, entries, locals, history,
        Versions, writers
<1>2. LeaderHoldsLease'
  BY DEF IInv, OriginChanges, LeaderHoldsLease, locals, history, Leading, Holds, Slot
<1>3. LeasedInOrder'
  BY DEF IInv, OriginChanges, LeasedInOrder, locals, history, At, Leading, Holds, Slot
<1>4. Floored'
  BY DEF IInv, OriginChanges, Floored, entries, locals, history, InFlight
<1>5. (\A x \in Callers : Placed(x))'
  BY DEF IInv, OriginChanges, Placed, locals
<1>6. (\A x \in Callers : Served(x))'
  BY DEF IInv, OriginChanges, Served, locals, history, writers
<1>7. (\A x \in Callers : Clearing(x))'
  BY DEF IInv, OriginChanges, Clearing, entries, locals, history, InFlight, writers
<1> QED BY <1>1, <1>2, <1>3, <1>4, <1>5, <1>6, <1>7 DEF IInv

LEMMA InitIInv == Init => IInv
  BY CacheFetchAssumption DEF Init, IInv, None, TypeOK, LeaderHoldsLease, LeasedInOrder,
        Floored, Placed, Served, Clearing, Versions, Points, Leading

LEMMA UnchangedIInv == IInv /\ UNCHANGED vars => IInv'
  BY DEF vars, IInv, entries, locals, history, TypeOK, LeaderHoldsLease, LeasedInOrder,
        Floored, Placed, Served, Clearing, writers, Leading, Holds, At, InFlight, Slot

\* A step of a caller, of time, or a stutter: one lemma per action.
LEMMA NextIInv == IInv /\ [Next]_vars => IInv'
<1> SUFFICES ASSUME IInv, [Next]_vars PROVE IInv'
  OBVIOUS
<1>1. CASE Time
  <2>1. CASE ExpirePrimary
    BY <2>1, ExpirePrimaryStep
  <2>2. CASE ExpireStale
    BY <2>2, ExpireStaleStep
  <2>3. ASSUME NEW s \in Slots, ExpireLease(s) PROVE IInv'
    BY <2>3, ExpireLeaseStep
  <2>4. CASE OriginChanges
    BY <2>4, OriginChangesStep
  <2> QED BY <1>1, <2>1, <2>2, <2>3, <2>4 DEF Time
<1>2. ASSUME NEW p \in Callers, Begin(p) PROVE IInv'
  <2>1. ASSUME NEW kind \in CallKinds, BeginFetch(p, kind) PROVE IInv'
    BY <2>1, BeginFetchStep
  <2>2. ASSUME NEW kind \in CallKinds, BeginLock(p, kind) PROVE IInv'
    BY <2>2, BeginLockStep
  <2>3. ASSUME NEW kind \in CallKinds, BeginWrite(p, kind) PROVE IInv'
    BY <2>3, BeginWriteStep
  <2>4. ASSUME NEW kind \in CallKinds, Invalidate(p, kind) PROVE IInv'
    BY <2>4, InvalidateStep
  <2>5. CASE BeginPrefix(p)
    BY <2>5, BeginPrefixStep
  <2> QED BY <1>2, <2>1, <2>2, <2>3, <2>4, <2>5 DEF Begin, CallKinds
<1>3. ASSUME NEW p \in Callers, Step(p) PROVE IInv'
  <2>1. CASE ReadFresh(p)
    BY <2>1, ReadFreshStep
  <2>2. CASE ReadStale(p)
    BY <2>2, ReadStaleStep
  <2>3. CASE Acquire(p)
    BY <2>3, AcquireStep
  <2>4. CASE Look(p)
    BY <2>4, LookStep
  <2>5. CASE Take(p)
    BY <2>5, TakeStep
  <2>6. CASE Confirm(p)
    BY <2>6, ConfirmStep
  <2>7. CASE WaitValue(p)
    BY <2>7, WaitValueStep
  <2>8. CASE WaitLease(p)
    BY <2>8, WaitLeaseStep
  <2>9. CASE Resolve(p)
    BY <2>9, ResolveStep
  <2>10. CASE Persist(p)
    BY <2>10, PersistStep
  <2>11. CASE Keep(p)
    BY <2>11, KeepStep
  <2>12. CASE EndTask(p)
    BY <2>12, EndTaskStep
  <2>13. CASE Release(p)
    BY <2>13, ReleaseStep
  <2>14. CASE ReadOwner(p)
    BY <2>14, ReadOwnerStep
  <2>15. CASE FreeUnlocked(p)
    BY <2>15, FreeUnlockedStep
  <2>16. CASE EndCall(p)
    BY <2>16, EndCallStep
  <2>17. CASE WritePrimary(p)
    BY <2>17, WritePrimaryStep
  <2>18. CASE CleanSet(p)
    BY <2>18, CleanSetStep
  <2>19. CASE CleanDelete(p)
    BY <2>19, CleanDeleteStep
  <2>20. CASE CleanLease(p)
    BY <2>20, CleanLeaseStep
  <2>21. CASE DropListed(p)
    BY <2>21, DropListedStep
  <2> QED BY <1>3, <2>1, <2>2, <2>3, <2>4, <2>5, <2>6, <2>7, <2>8, <2>9, <2>10, <2>11,
        <2>12, <2>13, <2>14, <2>15, <2>16, <2>17, <2>18, <2>19, <2>20, <2>21 DEF Step
<1>4. ASSUME NEW p \in Callers, Fault(p) PROVE IInv'
  <2>1. CASE AcquireUnlocked(p)
    BY <2>1, AcquireUnlockedStep
  <2>2. CASE ReleaseUnlocked(p)
    BY <2>2, ReleaseUnlockedStep
  <2>3. CASE ReleaseFails(p)
    BY <2>3, ReleaseFailsStep
  <2>4. CASE ResolveFails(p)
    BY <2>4, ResolveFailsStep
  <2>5. CASE PersistFails(p)
    BY <2>5, PersistFailsStep
  <2>6. CASE AdapterThrows(p)
    BY <2>6, AdapterThrowsStep
  <2>7. CASE Crash(p)
    BY <2>7, CrashStep
  <2> QED BY <1>4, <2>1, <2>2, <2>3, <2>4, <2>5, <2>6, <2>7 DEF Fault
<1>5. CASE UNCHANGED vars
  BY <1>5, UnchangedIInv
<1> QED BY <1>1, <1>2, <1>3, <1>4, <1>5 DEF Next

\* The inductive invariant holds of every behaviour of the cache.
THEOREM Invariance == Spec => []IInv
BY InitIInv, NextIInv, PTL DEF Spec

\* astCacheAcquireFetchCoordinationLease and the release under the lock never
\* take away the lease of another fetch that is still good.
THEOREM LeadersKeepLeases == Spec => []LeaderHoldsLease
<1>1. IInv => LeaderHoldsLease
  BY DEF IInv
<1> QED BY <1>1, Invariance, PTL

\* A leader that still has its lease when it persists does not overwrite what a
\* later leader stored, whatever leases expired or were voided before.
THEOREM StoresInOrder == Spec => []LeasedInOrder
<1>1. IInv => LeasedInOrder
  BY DEF IInv
<1> QED BY <1>1, Invariance, PTL

\* astCacheFetchValue returns nothing from before a set, a delete or an
\* invalidation that had the key to itself: what Served says of a result.
THEOREM WritesFinal == Spec => []WrittenIsFinal
<1>1. IInv => WrittenIsFinal
  BY DEF IInv, Served, WrittenIsFinal
<1> QED BY <1>1, Invariance, PTL

=============================================================================
