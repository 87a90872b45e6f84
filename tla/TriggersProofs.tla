-------------------------- MODULE TriggersProofs --------------------------
(***************************************************************************)
(* Proofs about Triggers, for any number of executions, definitions,       *)
(* requests and faults.                                                    *)
(*                                                                         *)
(* A step of one caller is shown to be Tolerable to the others, who then   *)
(* keep what they rely on (OthersOK), as do the definitions the caller is  *)
(* not at (OtherDefinitions).  What is left to each action is its caller   *)
(* and the definition it is at.                                            *)
(***************************************************************************)
EXTENDS Triggers, SequenceTheorems, TLAPS

----------------------------------------------------------------------------
(* The inductive invariant.                                                *)

\* An enabled definition names a trigger created for it, any other none.
Sound(d, i) ==
  IF d.want.on
    THEN d.uid \in 1 .. Len(made) /\ made[d.uid] = [id |-> i, bind |-> d.want.bind]
    ELSE d.uid = NoUid

\* Uids are mapped to the ids they were created for.
MapSound == \A u \in 1 .. Len(made) : uidMap[u] \in {NoId, Owner(u)}

\* Which call stands where, and what it has by then.
Placed(c) ==
  /\ pc[c] = "idle" <=> call[c] = "none"
  /\ pc[c] \in {"find", "list", "create", "rollback", "write", "map"} => call[c] = "upsert"
  /\ pc[c] \in {"all", "next", "drop"} => call[c] \in {"delete", "deleteAll"}
  /\ pc[c] \in {"read", "remove", "index", "unmap", "done"} => Writes(c)
  /\ pc[c] \in {"lookup", "mapped", "scan", "try", "dispatch", "missed"} => call[c] = "fire"
  /\ call[c] \in {"upsert", "delete"} => id[c] \in Ids
  /\ pc[c] \in {"read", "remove", "drop", "unmap", "mapped"} => id[c] \in Ids
  /\ call[c] = "upsert" => want[c] # NoWant
  /\ call[c] \notin {"delete", "deleteAll"} => gone[c] = {}
  /\ call[c] = "fire" => event[c] \in 1 .. Len(made)
  /\ call[c] # "upsert" \/ pc[c] \in {"read", "find", "list", "create"} => new[c] = NoUid

HasRead(c) ==
  \/ pc[c] \in {"find", "list", "create", "remove", "rollback", "write", "unmap", "map", "drop"}
  \/ pc[c] \in {"index", "done"} /\ call[c] = "upsert"

\* What a caller has read of a definition and made of its request.
Decided(c) ==
  /\ HasRead(c) => Sound(old[c], id[c])
  /\ call[c] = "upsert" /\ pc[c] \notin {"read", "find"} /\ healthy[c] => old[c].uid # NoUid
  /\ call[c] = "upsert" /\ pc[c] \notin {"read", "find", "list", "create"} =>
       /\ Recreates(c) <=> new[c] # NoUid
       /\ new[c] # NoUid =>
            /\ new[c] \in 1 .. Len(made) /\ new[c] # old[c].uid
            /\ made[new[c]] = [id |-> id[c], bind |-> want[c].bind]
  /\ pc[c] = "create" => Recreates(c)
  /\ pc[c] = "remove" => old[c].uid # NoUid
  /\ pc[c] = "remove" /\ call[c] = "upsert" => Removes(c)
  /\ pc[c] = "rollback" => new[c] # NoUid
  /\ pc[c] = "unmap" => old[c].uid # NoUid

\* The definition is what a caller has read or written, if nobody else is at it.
Fresh(c) ==
  Writes(c) /\ (c \in alone \/ id[c] \notin overlapped) =>
    /\ pc[c] \in {"find", "list", "create", "remove", "rollback", "write", "drop"} =>
         old[c] = def[id[c]]
    /\ call[c] = "upsert" /\ pc[c] \in {"index", "unmap", "map", "done"} =>
         def[id[c]] = [want |-> want[c], uid |-> TriggerUid(c)]
    /\ call[c] # "upsert" /\ pc[c] = "unmap" => def[id[c]] = NoDef

\* Nor does anybody else delete the trigger a caller counts on.
Kept(c) ==
  c \in alone =>
    /\ pc[c] \in {"list", "create"} /\ healthy[c] => old[c].uid \in project
    /\ new[c] # NoUid /\ pc[c] = "remove" => new[c] \in project
    /\ call[c] = "upsert" /\ want[c].on /\ pc[c] \in {"write", "index", "unmap", "map", "done"} =>
         TriggerUid(c) \in project
    /\ call[c] = "fire" => event[c] \in project

PastRemove(c) ==
  \/ pc[c] \in {"write", "drop", "unmap"}
  \/ pc[c] = "index" /\ call[c] = "upsert"

\* A trigger that a call leaves behind was left by a fault.
Blinded(c) ==
  PastRemove(c) /\ old[c].uid \in project =>
    faults > 0 \/ (call[c] = "upsert" /\ TriggerUid(c) = old[c].uid)

\* A firing finds its definition by the map.
Firing(c) ==
  c \in alone /\ call[c] = "fire" /\ Owner(event[c]) \notin overlapped =>
    /\ Owner(event[c]) \notin harmed => pc[c] \in {"lookup", "mapped", "dispatch"}
    /\ faults < 2 \/ Owner(event[c]) \notin harmed =>
         /\ pc[c] \in {"mapped", "dispatch"} => def[Owner(event[c])].uid = event[c]
         /\ pc[c] = "mapped" => id[c] = Owner(event[c])

\* What the history says of the present.
Watched ==
  /\ \A a, b \in Callers, i \in Ids : Writes(a) /\ Overlap(a, b, i) => i \in overlapped
  /\ \A a \in alone, b \in Callers, i \in Ids : ~Overlap(a, b, i)
  /\ ~raced => \A a, b \in Callers : Writes(a) /\ Writes(b) => a = b

TriggersOf(i) == {u \in project : Owner(u) = i}

Shifting(c, i) ==
  /\ id[c] = i
  /\ \/ pc[c] = "remove" /\ call[c] = "upsert"
     \/ pc[c] \in {"rollback", "write", "drop"}

Mapping(c, i) == call[c] = "upsert" /\ id[c] = i /\ pc[c] \in {"index", "unmap", "map"}

\* The triggers a definition has while a call is at it ...
ShiftedTo(c) ==
  IF pc[c] = "drop" THEN {}
  ELSE IF pc[c] = "write" THEN {TriggerUid(c)} \ {NoUid}
  ELSE {def[id[c]].uid, new[c]} \ {NoUid}

\* ... and at all other times.
Settled(i) ==
  i \notin overlapped \cup harmed =>
    /\ \A c \in Callers : Shifting(c, i) => TriggersOf(i) = ShiftedTo(c)
    /\ (\A c \in Callers : ~Shifting(c, i)) => TriggersOf(i) = {def[i].uid} \ {NoUid}
    /\ \/ def[i].uid = NoUid
       \/ uidMap[def[i].uid] = i
       \/ \E c \in Callers : Mapping(c, i)

\* Other triggers of a definition are not mapped to it, or will not be for long.
Strays(i) ==
  i \notin overlapped /\ faults < 2 =>
    \A u \in TriggersOf(i) \ {def[i].uid} :
      \/ uidMap[u] = NoId
      \/ \E c \in Callers :
           /\ Writes(c) /\ id[c] = i /\ old[c].uid = u
           /\ PastRemove(c) /\ pc[c] \in {"index", "unmap"}

\* The index lists what is stored, or will when the call at work is done.
Indexing(c) ==
  ~raced =>
    /\ call[c] = "upsert" =>
         /\ pc[c] # "index" => Listed = Stored
         /\ pc[c] \in {"create", "remove", "rollback", "write"} => ids[c] = Stored \cup {id[c]}
    /\ call[c] \in {"delete", "deleteAll"} =>
         /\ pc[c] \notin {"index", "done"} => Listed \ gone[c] = Stored
         /\ pc[c] = "done" => Listed = Stored
    /\ pc[c] = "index" => ids[c] = Stored

CallerOK(c) ==
  Placed(c) /\ Decided(c) /\ Fresh(c) /\ Kept(c) /\ Blinded(c) /\ Firing(c) /\ Indexing(c)

DefinitionOK(i) == Sound(def[i], i) /\ Settled(i) /\ Strays(i)

IInv ==
  /\ TypeOK
  /\ MapSound
  /\ Watched
  /\ \A c \in Callers : CallerOK(c)
  /\ \A i \in Ids : DefinitionOK(i)
  /\ ListingExact

----------------------------------------------------------------------------
(* Steps and their records.                                                *)

\* What a step of c records.
LEMMA WatchFacts ==
  ASSUME StoreOK, NEW c \in Callers, Watch(c)
  PROVE  /\ overlapped \subseteq overlapped' /\ overlapped' \subseteq Ids
         /\ harmed \subseteq harmed' /\ harmed' \subseteq Ids
         /\ alone' \subseteq Callers
         /\ raced' \in BOOLEAN
         /\ \A k \in Ids : Harms(c) /\ Touches(c, k) => k \in harmed'
         /\ \A a \in alone' : a \in alone \/ pc'[a] = "idle"
         /\ ~raced' => ~raced /\ ~Harms(c)
<1>1. raced' \in BOOLEAN /\ (~raced' => ~raced /\ ~Harms(c))
  BY Zenon DEF Watch, StoreOK
<1>2. overlapped \subseteq overlapped' /\ overlapped' \subseteq Ids
  BY DEF Watch, StoreOK
<1>3. /\ harmed \subseteq harmed' /\ harmed' \subseteq Ids
      /\ \A k \in Ids : Harms(c) /\ Touches(c, k) => k \in harmed'
  BY Zenon DEF Watch, StoreOK
<1>4. alone' \subseteq Callers /\ \A a \in alone' : a \in alone \/ pc'[a] = "idle"
  BY Zenon DEF Watch, StoreOK, At
<1> QED BY <1>1, <1>2, <1>3, <1>4

LEMMA WatchedStep ==
  ASSUME NEW c \in Callers, Watch(c), \A d \in Callers : Placed(d)'
  PROVE  Watched'
<1>1. \A a, b \in Callers, i \in Ids : Writes(a)' /\ Overlap(a, b, i)' => i \in overlapped'
  BY Zenon DEF Watch
<1>2. \A a \in alone', b \in Callers, i \in Ids : ~Overlap(a, b, i)'
  <2>1. ASSUME NEW a \in Callers, At(a, "idle")', NEW b \in Callers, NEW i \in Ids
        PROVE  ~Overlap(a, b, i)'
    BY <2>1 DEF Overlap, Touches, Placed, At
  <2> QED BY <2>1, Zenon DEF Watch
<1>3. ~raced' => \A a, b \in Callers : Writes(a)' /\ Writes(b)' => a = b
  BY Zenon DEF Watch
<1> QED BY <1>1, <1>2, <1>3 DEF Watched

----------------------------------------------------------------------------
(* Whom a step does not concern.                                           *)

\* Nothing of caller d has changed.
Same(d) ==
  /\ pc'[d] = pc[d] /\ call'[d] = call[d] /\ id'[d] = id[d] /\ want'[d] = want[d]
  /\ event'[d] = event[d] /\ old'[d] = old[d] /\ healthy'[d] = healthy[d]
  /\ new'[d] = new[d] /\ ids'[d] = ids[d] /\ gone'[d] = gone[d]

Concerns(c, i) == Writes(c) /\ id[c] = i

\* A step of c leaves the other callers alone, and of all definitions but its own
\* what is stored, which triggers there are and how they are mapped.
Tolerable(c) ==
  /\ \A d \in Callers \ {c} : Same(d)
  /\ Len(made) <= Len(made') /\ Len(made) \in Nat /\ Len(made') \in Nat
  /\ \A u \in 1 .. Len(made) : made'[u] = made[u]
  /\ \A i \in Ids : def'[i] = def[i] \/ Concerns(c, i)
  /\ \A u \in 1 .. Len(made) :
       /\ u \in project' => u \in project
       /\ (u \in project => u \in project') \/ Concerns(c, Owner(u))
       /\ uidMap'[u] = uidMap[u] \/ Concerns(c, Owner(u))
  /\ \A u \in project' : u \in 1 .. Len(made) \/ Concerns(c, made'[u].id)
  /\ ~Writes(c) => index' = index /\ def' = def
  /\ faults <= faults'

LEMMA OthersOK ==
  ASSUME IInv, NEW c \in Callers, Watch(c), Tolerable(c), StoreOK', NEW d \in Callers, d # c
  PROVE  CallerOK(d)'
<1>1. /\ CallerOK(d) /\ Same(d)
      /\ Len(made) \in Nat /\ Len(made') \in Nat /\ Len(made) <= Len(made')
      /\ \A u \in 1 .. Len(made) : made'[u] = made[u]
  BY DEF IInv, Tolerable
<1>a. /\ overlapped \subseteq overlapped' /\ harmed \subseteq harmed'
      /\ d \in alone' => d \in alone \/ pc[d] = "idle"
  BY <1>1, WatchFacts DEF IInv, TypeOK, Same
<1>b. /\ faults \in Nat /\ faults' \in Nat /\ faults <= faults'
      /\ project \subseteq 1 .. Len(made) /\ project' \subseteq 1 .. Len(made')
      /\ \A u \in 1 .. Len(made) : Owner(u) \in Ids
  <2>0. made \in Seq([id : Ids, bind : Nat])
    BY DEF IInv, TypeOK, StoreOK
  <2>1. \A u \in 1 .. Len(made) : made[u] \in [id : Ids, bind : Nat]
    BY <2>0, ElementOfSeq
  <2>2. faults \in Nat /\ faults' \in Nat /\ faults <= faults'
    BY DEF IInv, TypeOK, StoreOK, Tolerable
  <2> QED BY <2>1, <2>2 DEF IInv, TypeOK, StoreOK, Owner
\* Where c changes something of a definition that d is at, they overlap.
<1>2. ASSUME NEW i \in Ids, Concerns(c, i), Touches(d, i)
      PROVE  d \notin alone /\ (Writes(d) => i \in overlapped)
  BY <1>2 DEF IInv, Watched, Overlap, Concerns, Touches, Writes
<1>3. d \in alone' => d \in alone \/ (~Writes(d) /\ call[d] # "fire" /\ new[d] = NoUid)
  BY <1>1, <1>a DEF CallerOK, Placed, Writes
<1>4. Placed(d)'
  BY <1>1 DEF CallerOK, Placed, Same, Writes
<1>5. Decided(d)'
  BY <1>1 DEF CallerOK, Decided, Same, HasRead, Sound, Recreates, Removes
<1>6. Fresh(d)'
  <2> SUFFICES ASSUME Writes(d), d \in alone' \/ id[d] \notin overlapped', id[d] \in Ids
               PROVE  Fresh(d)'
    BY <1>1 DEF Fresh, Writes, Same, CallerOK, Placed
  <2>1. def'[id[d]] = def[id[d]]
    BY <1>2, <1>3, <1>a DEF Tolerable, Touches, Writes
  <2>2. d \in alone \/ id[d] \notin overlapped
    BY <1>a, <1>3
  <2> QED BY <1>1, <2>1, <2>2 DEF CallerOK, Fresh, Same, TriggerUid, Recreates
<1>7. Kept(d)'
  <2> SUFFICES ASSUME d \in alone', d \in alone PROVE Kept(d)'
    BY <1>1, <1>3, <1>a DEF Kept, Same
  <2>1. ASSUME NEW u \in project, Touches(d, Owner(u)) PROVE u \in project'
    BY <2>1, <1>2, <1>b DEF Tolerable
  <2>2. call[d] = "upsert" => id[d] \in Ids /\ Touches(d, id[d])
    BY <1>1 DEF CallerOK, Placed, Touches
  <2>3. pc[d] \in {"list", "create"} /\ healthy[d] => old[d].uid \in project'
    BY <1>1, <2>1, <2>2 DEF CallerOK, Kept, Placed, Decided, HasRead, Sound, Owner
  <2>4. new[d] # NoUid /\ pc[d] = "remove" => new[d] \in project'
    BY <1>1, <2>1, <2>2 DEF CallerOK, Kept, Placed, Decided, Owner
  <2>5. call[d] = "upsert" /\ want[d].on /\ pc[d] \in {"write", "index", "unmap", "map", "done"} =>
          TriggerUid(d) \in project'
    BY <1>1, <2>1, <2>2 DEF CallerOK, Kept, Decided, HasRead, Sound, Owner, TriggerUid,
        Recreates
  <2>6. call[d] = "fire" => event[d] \in project'
    BY <1>1, <2>1 DEF CallerOK, Kept, Touches
  <2> QED BY <1>1, <2>3, <2>4, <2>5, <2>6 DEF Kept, Same, TriggerUid, Recreates
<1>8. Blinded(d)'
  <2>1. PastRemove(d) /\ old[d].uid \in project' => old[d].uid \in project
    BY <1>1, <1>b DEF CallerOK, Decided, PastRemove, HasRead, Sound, Tolerable, NoUid
  <2> QED BY <1>1, <1>b, <2>1 DEF CallerOK, Blinded, Same, PastRemove, TriggerUid, Recreates
<1>9. Firing(d)'
  <2> SUFFICES ASSUME d \in alone, call[d] = "fire", event[d] \in 1 .. Len(made),
                      Owner(event[d]) \notin overlapped, Owner(event[d]) \in Ids
               PROVE  Firing(d)'
    BY <1>1, <1>3, <1>a, <1>b DEF Firing, Same, CallerOK, Placed, Owner
  <2>1. def'[Owner(event[d])] = def[Owner(event[d])]
    BY <1>2 DEF Tolerable, Touches
  <2>2. Owner(event[d])' = Owner(event[d])
    BY <1>1 DEF Owner, Same
  <2> QED BY <1>1, <1>a, <1>b, <2>1, <2>2 DEF CallerOK, Firing, Same
<1>10. Indexing(d)'
  <2> SUFFICES ASSUME ~raced', Writes(d) PROVE Indexing(d)'
    BY <1>1 DEF Indexing, Same, CallerOK, Placed, Writes
  <2>1. ~raced /\ ~Writes(c)
    BY WatchFacts DEF IInv, TypeOK, Watched
  <2>2. Listed' = Listed /\ Stored' = Stored
    BY <2>1 DEF Tolerable, Listed, Stored
  <2> QED BY <1>1, <2>1, <2>2 DEF CallerOK, Indexing, Same
<1> QED BY <1>4, <1>5, <1>6, <1>7, <1>8, <1>9, <1>10 DEF CallerOK

----------------------------------------------------------------------------
(* Definitions a step is not about.                                        *)

\* Caller c is not between two changes of what is stored for i.
Passing(c, i) == Writes(c) /\ id[c] = i /\ PastRemove(c) /\ pc[c] \in {"index", "unmap"}
Apart(c, i) == ~Shifting(c, i) /\ ~Mapping(c, i) /\ ~Passing(c, i)

\* Nothing has changed for i but who is at it.
Undisturbed(i) ==
  /\ def'[i] = def[i]
  /\ TriggersOf(i)' = TriggersOf(i)
  /\ \A u \in 1 .. Len(made) : Owner(u) = i => uidMap'[u] = uidMap[u]

LEMMA OtherUndisturbed ==
  ASSUME IInv, NEW c \in Callers, Tolerable(c), NEW i \in Ids, ~Concerns(c, i)
  PROVE  Undisturbed(i)
<1>1. /\ project \subseteq 1 .. Len(made)
      /\ \A u \in 1 .. Len(made) : made'[u] = made[u]
      /\ def'[i] = def[i]
  BY DEF IInv, TypeOK, StoreOK, Tolerable
<1>2. \A u \in 1 .. Len(made) : Owner(u) = i => (u \in project <=> u \in project') /\ uidMap'[u] = uidMap[u]
  BY DEF Tolerable
<1>3. \A u \in project' : made'[u].id = i => u \in 1 .. Len(made)
  BY DEF Tolerable
<1>4. TriggersOf(i)' = TriggersOf(i)
  BY <1>1, <1>2, <1>3 DEF TriggersOf, Owner
<1> QED BY <1>1, <1>2, <1>4 DEF Undisturbed

LEMMA UndisturbedOK ==
  ASSUME IInv, NEW c \in Callers, Watch(c), Tolerable(c), StoreOK', NEW i \in Ids,
         Undisturbed(i), Apart(c, i), Apart(c, i)'
  PROVE  DefinitionOK(i)'
<1>1. /\ DefinitionOK(i)
      /\ project \subseteq 1 .. Len(made)
      /\ Len(made) \in Nat /\ Len(made') \in Nat /\ Len(made) <= Len(made')
      /\ \A u \in 1 .. Len(made) : made'[u] = made[u]
      /\ def'[i] = def[i] /\ TriggersOf(i)' = TriggersOf(i)
      /\ \A d \in Callers \ {c} : Same(d)
  BY DEF IInv, TypeOK, StoreOK, Tolerable, Undisturbed
<1>2. /\ i \in overlapped => i \in overlapped'
      /\ i \in harmed => i \in harmed'
      /\ faults \in Nat /\ faults' \in Nat /\ faults <= faults'
  <2>1. StoreOK
    BY DEF IInv, TypeOK
  <2>2. overlapped \subseteq overlapped' /\ harmed \subseteq harmed'
    BY <2>1, WatchFacts
  <2>3. faults \in Nat /\ faults' \in Nat /\ faults <= faults'
    BY <2>1, TriggersAssumption DEF StoreOK, Tolerable
  <2> QED BY <2>2, <2>3
<1>3. \A d \in Callers : /\ Shifting(d, i)' <=> Shifting(d, i)
                         /\ Mapping(d, i)' <=> Mapping(d, i)
                         /\ Passing(d, i)' <=> Passing(d, i)
  <2>1. ASSUME NEW d \in Callers, d # c
        PROVE  /\ Shifting(d, i)' <=> Shifting(d, i)
               /\ Mapping(d, i)' <=> Mapping(d, i)
               /\ Passing(d, i)' <=> Passing(d, i)
    BY <1>1, <2>1 DEF Same, Shifting, Mapping, Passing, PastRemove, Writes
  <2> QED BY <2>1 DEF Apart
<1>4. Sound(def[i], i)'
  BY <1>1 DEF DefinitionOK, Sound
<1>5. Settled(i)'
  <2> SUFFICES ASSUME i \notin overlapped \cup harmed PROVE Settled(i)'
    BY <1>2 DEF Settled
  <2>1. ASSUME NEW d \in Callers, Shifting(d, i)' PROVE ShiftedTo(d)' = ShiftedTo(d) /\ Shifting(d, i)
    <3>1. d # c
      BY <2>1 DEF Apart
    <3> QED BY <1>1, <1>3, <2>1, <3>1 DEF Same, ShiftedTo, Shifting, TriggerUid, Recreates
  <2>2. def[i].uid # NoUid => def[i].uid \in 1 .. Len(made) /\ Owner(def[i].uid) = i
    BY <1>1 DEF DefinitionOK, Sound, Owner
  <2> QED BY <1>1, <1>3, <2>1, <2>2 DEF DefinitionOK, Settled, Undisturbed
<1>6. Strays(i)'
  <2> SUFFICES ASSUME i \notin overlapped, faults < 2, NEW u \in TriggersOf(i) \ {def[i].uid}
               PROVE  uidMap'[u] = NoId \/ \E d \in Callers : Passing(d, i)' /\ old'[d].uid = u
    BY <1>1, <1>2 DEF Strays, Passing
  <2>1. uidMap[u] = NoId \/ \E d \in Callers : Passing(d, i) /\ old[d].uid = u
    BY <1>1 DEF DefinitionOK, Strays, Passing
  <2>2. uidMap'[u] = uidMap[u]
    BY <1>1 DEF Undisturbed, TriggersOf
  <2>3. \A d \in Callers : Passing(d, i) => old'[d] = old[d]
    BY <1>1 DEF Apart, Same
  <2> QED BY <1>3, <2>1, <2>2, <2>3
<1> QED BY <1>4, <1>5, <1>6 DEF DefinitionOK

----------------------------------------------------------------------------
(* What is left to show of a step.                                         *)

LEMMA OwnOnly ==
  ASSUME NEW c \in Callers, Placed(c), NEW i \in Ids, ~Concerns(c, i)
  PROVE  Apart(c, i)
  BY DEF Placed, Concerns, Apart, Shifting, Mapping, Passing, Writes

LEMMA ListingKept ==
  ASSUME IInv, NEW c \in Callers, Watch(c), Tolerable(c),
         Writes(c)' \/ ~Writes(c) \/ (~raced' => Listed' = Stored')
  PROVE  ListingExact'
<1> SUFFICES ASSUME ~raced', \A d \in Callers : ~Writes(d)', ~Writes(c)
             PROVE  Listed' = Stored'
  BY DEF ListingExact
<1>1. \A d \in Callers : ~Writes(d)
  BY DEF Tolerable, Same, Writes
<1>2. ~raced /\ Listed' = Listed /\ Stored' = Stored
  BY WatchFacts DEF IInv, TypeOK, Tolerable, Listed, Stored
<1> QED BY <1>1, <1>2 DEF IInv, ListingExact

LEMMA Assembled ==
  ASSUME IInv, NEW c \in Callers, Watch(c), Tolerable(c), StoreOK', LocalsOK', MapSound',
         CallerOK(c)',
         \A i \in Ids : IF Concerns(c, i) THEN DefinitionOK(i)' ELSE Apart(c, i)',
         Writes(c)' \/ ~Writes(c) \/ (~raced' => Listed' = Stored')
  PROVE  IInv'
<1>1. \A d \in Callers : CallerOK(d)'
  BY OthersOK
<1>2. Watched'
  BY <1>1, WatchedStep DEF CallerOK
<1>3. ASSUME NEW i \in Ids PROVE DefinitionOK(i)'
  <2> SUFFICES ASSUME ~Concerns(c, i) PROVE DefinitionOK(i)'
    OBVIOUS
  <2>1. Apart(c, i)
    BY OwnOnly DEF IInv, CallerOK
  <2> QED BY <2>1, OtherUndisturbed, UndisturbedOK
<1>4. ListingExact'
  BY ListingKept
<1> QED BY <1>1, <1>2, <1>3, <1>4 DEF IInv, TypeOK

\* When nobody else writes, a caller that begins to finds the index in order.
LEMMA SoleWriter ==
  ASSUME IInv, NEW c \in Callers, Watch(c), \A d \in Callers \ {c} : Same(d), ~Writes(c), Writes(c)'
  PROVE  ~raced' => Listed = Stored
<1>1. ~raced' => ~raced /\ \A d \in Callers \ {c} : ~Writes(d)'
  BY Zenon DEF Watch
<1> QED BY <1>1 DEF IInv, ListingExact, Same, Writes

\* A step that changes nothing but its caller.
Quiet(c) ==
  /\ UNCHANGED <<props, script>>
  /\ \A d \in Callers \ {c} : Same(d)
  /\ asked' \in 0 .. MaxAsked
  /\ faults' \in 0 .. MaxFaults /\ faults <= faults'

LEMMA QuietTolerable ==
  ASSUME IInv, NEW c \in Callers, Watch(c), Quiet(c)
  PROVE  Tolerable(c) /\ StoreOK' /\ MapSound' /\ \A i \in Ids : Undisturbed(i)
<1>1. StoreOK'
  BY WatchFacts DEF IInv, TypeOK, StoreOK, Quiet, props, script
<1>2. Tolerable(c)
  <2>1. Len(made) \in Nat /\ project \subseteq 1 .. Len(made)
    BY DEF IInv, TypeOK, StoreOK
  <2> QED BY <2>1 DEF Quiet, Tolerable, props, script
<1>3. MapSound' /\ \A i \in Ids : Undisturbed(i)
  BY DEF IInv, Quiet, MapSound, Owner, Undisturbed, TriggersOf, props, script
<1> QED BY <1>1, <1>2, <1>3

LEMMA QuietStep ==
  ASSUME IInv, NEW c \in Callers, Watch(c), Quiet(c), LocalsOK', CallerOK(c)',
         \A i \in Ids : Apart(c, i)' /\ (Concerns(c, i) => Apart(c, i)),
         Writes(c)' \/ ~Writes(c) \/ (~raced' => Listed' = Stored')
  PROVE  IInv'
<1>1. Tolerable(c) /\ StoreOK' /\ MapSound' /\ \A i \in Ids : Undisturbed(i)
  BY QuietTolerable
<1>2. \A i \in Ids : IF Concerns(c, i) THEN DefinitionOK(i)' ELSE Apart(c, i)'
  BY <1>1, UndisturbedOK
<1> QED BY <1>1, <1>2, Assembled

\* A caller that has left.
LEMMA LeftOK ==
  ASSUME LocalsOK, NEW c \in Callers, Leave(c)
  PROVE  /\ LocalsOK' /\ CallerOK(c)'
         /\ \A i \in Ids : Apart(c, i)'
         /\ \A d \in Callers \ {c} : Same(d)
         /\ call'[c] = "none" /\ asked' = asked
<1>1. LocalsOK'
  BY DEF LocalsOK, Leave, Goto, Points, AnyWant, NoDef, NoUid
<1>2. /\ pc'[c] = "idle" /\ call'[c] = "none" /\ new'[c] = NoUid /\ gone'[c] = {} /\ asked' = asked
      /\ \A d \in Callers \ {c} : Same(d)
  BY DEF LocalsOK, Leave, Goto, Same
<1>3. CallerOK(c)'
  BY <1>2 DEF CallerOK, Placed, Decided, HasRead, Fresh, Kept, Blinded, PastRemove, Firing,
        Indexing
<1>4. \A i \in Ids : Apart(c, i)'
  BY <1>2 DEF Apart, Shifting, Mapping, Passing
<1> QED BY <1>1, <1>2, <1>3, <1>4

----------------------------------------------------------------------------
(* The definition a caller is at.                                          *)

Own(c, i) ==
  /\ i \notin overlapped \cup harmed =>
       /\ TriggersOf(i) = IF Shifting(c, i) THEN ShiftedTo(c) ELSE {def[i].uid} \ {NoUid}
       /\ def[i].uid = NoUid \/ uidMap[def[i].uid] = i \/ Mapping(c, i)
  /\ i \notin overlapped /\ faults < 2 =>
       \A u \in TriggersOf(i) \ {def[i].uid} :
         uidMap[u] = NoId \/ (Passing(c, i) /\ old[c].uid = u)

LEMMA NobodyElse ==
  ASSUME IInv, NEW c \in Callers, NEW i \in Ids, Concerns(c, i), i \notin overlapped,
         NEW d \in Callers, d # c
  PROVE  ~Concerns(d, i) /\ Apart(d, i)
<1>1. Placed(c) /\ Placed(d)
  BY DEF IInv, CallerOK
<1>2. ~Concerns(d, i)
  BY <1>1 DEF IInv, Watched, Overlap, Touches, Concerns, Writes
<1> QED BY <1>1, <1>2, OwnOnly

LEMMA OwnHolds ==
  ASSUME IInv, NEW c \in Callers, NEW i \in Ids, Concerns(c, i)
  PROVE  Own(c, i) /\ Sound(def[i], i)
<1>1. DefinitionOK(i)
  BY DEF IInv
<1>2. i \notin overlapped => \A d \in Callers \ {c} : Apart(d, i)
  BY NobodyElse
<1> QED BY <1>1, <1>2 DEF Own, DefinitionOK, Settled, Strays, Apart, Passing

LEMMA OwnKept ==
  ASSUME IInv, NEW c \in Callers, Watch(c), Tolerable(c), NEW i \in Ids, Concerns(c, i),
         Own(c, i)', Sound(def[i], i)'
  PROVE  DefinitionOK(i)'
<1>1. i \in overlapped => i \in overlapped'
  BY WatchFacts DEF IInv, TypeOK
<1>2. i \notin overlapped' => \A d \in Callers \ {c} : Apart(d, i)'
  <2> SUFFICES ASSUME i \notin overlapped', NEW d \in Callers, d # c PROVE Apart(d, i)'
    OBVIOUS
  <2>1. Apart(d, i)
    BY <1>1, NobodyElse
  <2> QED BY <2>1 DEF Tolerable, Same, Apart, Shifting, Mapping, Passing, PastRemove, Writes
<1>3. Settled(i)'
  BY <1>2 DEF Own, Settled, Apart
<1>4. Strays(i)'
  BY <1>2 DEF Own, Strays, Passing
<1> QED BY <1>3, <1>4 DEF DefinitionOK

\* The map of uids, after some of them are mapped anew.
LEMMA Remapped ==
  ASSUME StoreOK, NEW S, NEW k \in Ids \cup {NoId},
         uidMap' = [u \in DOMAIN uidMap |-> IF u \in S THEN k ELSE uidMap[u]]
  PROVE  /\ uidMap' \in Seq(Ids \cup {NoId}) /\ Len(uidMap') = Len(uidMap)
         /\ DOMAIN uidMap = 1 .. Len(made)
         /\ \A u \in 1 .. Len(made) : uidMap'[u] = IF u \in S THEN k ELSE uidMap[u]
<1>1. /\ uidMap \in Seq(Ids \cup {NoId}) /\ Len(uidMap) = Len(made) /\ Len(uidMap) \in Nat
      /\ DOMAIN uidMap = 1 .. Len(uidMap)
  BY DEF StoreOK
<1>2. \A u \in 1 .. Len(uidMap) : uidMap[u] \in Ids \cup {NoId}
  BY <1>1, ElementOfSeq
<1>3. uidMap' \in [1 .. Len(uidMap) -> Ids \cup {NoId}]
  BY <1>1, <1>2
<1>4. uidMap' \in Seq(Ids \cup {NoId}) /\ Len(uidMap') = Len(uidMap)
  BY <1>1, <1>3, SeqDef, LenProperties
<1> QED BY <1>1, <1>4

----------------------------------------------------------------------------
(* Steps that change nothing but their caller.                              *)

LEMMA BeginUpsertStep ==
  ASSUME IInv, NEW c \in Callers, NEW i \in Ids, NEW w \in Wants[i], BeginUpsert(c, i, w), Watch(c)
  PROVE  IInv'
<1>1. StoreOK /\ LocalsOK /\ CallerOK(c)
  BY DEF IInv, TypeOK, StoreOK
<1>2. LocalsOK'
  BY <1>1, TriggersAssumption DEF BeginUpsert, LocalsOK, AnyWant, Ask, Goto, locals, Points
<1>3. Quiet(c)
  BY <1>1, TriggersAssumption DEF BeginUpsert, Ask, Goto, locals, Quiet, Same, StoreOK
<1>4. Placed(c)'
  <2>1. w \in Definitions
    BY TriggersAssumption
  <2>2. w \in AnyWant /\ w # NoWant
    BY <2>1 DEF Definitions, NoWant, AnyWant
  <2> QED
    BY <1>1, <2>2 DEF BeginUpsert, LocalsOK, CallerOK, Placed, Ask, Goto, locals, Writes, At
<1>5. Decided(c)'
  BY <1>1 DEF BeginUpsert, LocalsOK, Decided, Goto, HasRead
<1>6. Fresh(c)'
  BY <1>1, WatchFacts DEF BeginUpsert, LocalsOK, Fresh, Goto
<1>7. Kept(c)'
  BY <1>1, WatchFacts DEF BeginUpsert, LocalsOK, Kept, Ask, Goto
<1>8. Blinded(c)'
  BY <1>1 DEF BeginUpsert, LocalsOK, Blinded, Goto, PastRemove
<1>9. Firing(c)'
  BY <1>1, WatchFacts DEF BeginUpsert, LocalsOK, Firing, Ask
<1>10. Indexing(c)'
  <2>1. gone[c] = {} /\ ~Writes(c) /\ Writes(c)'
    BY <1>1 DEF BeginUpsert, LocalsOK, CallerOK, Placed, Writes, Ask, At
  <2>2. ~raced' => Listed = Stored
    BY <1>3, <2>1, SoleWriter DEF Quiet
  <2>3. UNCHANGED <<Listed, Stored>> /\ pc'[c] \in {"read", "all"} /\ gone'[c] = {}
    BY <1>1, <1>3, <2>1 DEF BeginUpsert, LocalsOK, Listed, Stored, Goto, props, locals
  <2> QED BY <2>2, <2>3 DEF Indexing
<1>11. \A k \in Ids : Apart(c, k)' /\ (Concerns(c, k) => Apart(c, k))
  BY <1>1 DEF BeginUpsert, Shifting, Mapping, Ask, Goto, At, Apart, Passing
<1>12. Writes(c)' \/ ~Writes(c)
  BY <1>1 DEF BeginUpsert, Writes, Ask
<1> QED BY <1>2, <1>3, <1>4, <1>5, <1>6, <1>7, <1>8, <1>9, <1>10, <1>11, <1>12, QuietStep DEF CallerOK

LEMMA BeginDeleteStep ==
  ASSUME IInv, NEW c \in Callers, NEW i \in Ids, BeginDelete(c, i), Watch(c)
  PROVE  IInv'
<1>1. StoreOK /\ LocalsOK /\ CallerOK(c)
  BY DEF IInv, TypeOK, StoreOK
<1>2. LocalsOK'
  BY <1>1 DEF BeginDelete, LocalsOK, Ask, Goto, locals, Points, CallKinds
<1>3. Quiet(c)
  BY <1>1, TriggersAssumption DEF BeginDelete, Ask, Goto, locals, Quiet, Same, StoreOK
<1>4. Placed(c)'
  BY <1>1 DEF BeginDelete, LocalsOK, CallerOK, Placed, Ask, Goto, locals, Writes, At
<1>5. Decided(c)'
  BY <1>1 DEF BeginDelete, LocalsOK, Decided, Goto, HasRead
<1>6. Fresh(c)'
  BY <1>1, WatchFacts DEF BeginDelete, LocalsOK, Fresh, Goto
<1>7. Kept(c)'
  BY <1>1, WatchFacts DEF BeginDelete, LocalsOK, Kept, Ask, Goto
<1>8. Blinded(c)'
  BY <1>1 DEF BeginDelete, LocalsOK, Blinded, Goto, PastRemove
<1>9. Firing(c)'
  BY <1>1, WatchFacts DEF BeginDelete, LocalsOK, Firing, Ask
<1>10. Indexing(c)'
  <2>1. gone[c] = {} /\ ~Writes(c) /\ Writes(c)'
    BY <1>1 DEF BeginDelete, LocalsOK, CallerOK, Placed, Writes, Ask, At
  <2>2. ~raced' => Listed = Stored
    BY <1>3, <2>1, SoleWriter DEF Quiet
  <2>3. UNCHANGED <<Listed, Stored>> /\ pc'[c] \in {"read", "all"} /\ gone'[c] = {}
    BY <1>1, <1>3, <2>1 DEF BeginDelete, LocalsOK, Listed, Stored, Goto, props, locals
  <2> QED BY <2>2, <2>3 DEF Indexing
<1>11. \A k \in Ids : Apart(c, k)' /\ (Concerns(c, k) => Apart(c, k))
  BY <1>1 DEF BeginDelete, Shifting, Mapping, Ask, Goto, At, Apart, Passing
<1>12. Writes(c)' \/ ~Writes(c)
  BY <1>1 DEF BeginDelete, Writes, Ask
<1> QED BY <1>2, <1>3, <1>4, <1>5, <1>6, <1>7, <1>8, <1>9, <1>10, <1>11, <1>12, QuietStep DEF CallerOK

LEMMA BeginDeleteAllStep ==
  ASSUME IInv, NEW c \in Callers, BeginDeleteAll(c), Watch(c)
  PROVE  IInv'
<1>1. StoreOK /\ LocalsOK /\ CallerOK(c)
  BY DEF IInv, TypeOK, StoreOK
<1>2. LocalsOK'
  BY <1>1 DEF BeginDeleteAll, LocalsOK, Ask, Goto, locals, Points, CallKinds
<1>3. Quiet(c)
  BY <1>1, TriggersAssumption DEF BeginDeleteAll, Ask, Goto, locals, Quiet, Same, StoreOK
<1>4. Placed(c)'
  BY <1>1 DEF BeginDeleteAll, LocalsOK, CallerOK, Placed, Ask, Goto, locals, At
<1>5. Decided(c)'
  BY <1>1 DEF BeginDeleteAll, LocalsOK, Decided, Ask, Goto, HasRead
<1>6. Fresh(c)'
  BY <1>1, WatchFacts DEF BeginDeleteAll, LocalsOK, Fresh, Goto
<1>7. Kept(c)'
  BY <1>1, WatchFacts DEF BeginDeleteAll, LocalsOK, Kept, Ask, Goto
<1>8. Blinded(c)'
  BY <1>1 DEF BeginDeleteAll, LocalsOK, Blinded, Goto, PastRemove
<1>9. Firing(c)'
  BY <1>1, WatchFacts DEF BeginDeleteAll, LocalsOK, Firing, Ask
<1>10. Indexing(c)'
  <2>1. gone[c] = {} /\ ~Writes(c) /\ Writes(c)'
    BY <1>1 DEF BeginDeleteAll, LocalsOK, CallerOK, Placed, Writes, Ask, At
  <2>2. ~raced' => Listed = Stored
    BY <1>3, <2>1, SoleWriter DEF Quiet
  <2>3. UNCHANGED <<Listed, Stored>> /\ pc'[c] \in {"read", "all"} /\ gone'[c] = {}
    BY <1>1, <1>3, <2>1 DEF BeginDeleteAll, LocalsOK, Listed, Stored, Goto, props, locals
  <2> QED BY <2>2, <2>3 DEF Indexing
<1>11. \A k \in Ids : Apart(c, k)' /\ (Concerns(c, k) => Apart(c, k))
  BY <1>1 DEF BeginDeleteAll, Shifting, Mapping, Ask, Goto, At, Apart, Passing
<1>12. Writes(c)' \/ ~Writes(c)
  BY <1>1 DEF BeginDeleteAll, Writes, Ask
<1> QED BY <1>2, <1>3, <1>4, <1>5, <1>6, <1>7, <1>8, <1>9, <1>10, <1>11, <1>12, QuietStep DEF CallerOK

LEMMA FireStep ==
  ASSUME IInv, NEW c \in Callers, NEW u \in project, Fire(c, u), Watch(c)
  PROVE  IInv'
<1>1. StoreOK /\ LocalsOK /\ CallerOK(c)
  BY DEF IInv, TypeOK, StoreOK
<1>2. LocalsOK'
  BY <1>1 DEF Fire, LocalsOK, StoreOK, Goto, locals, Points, CallKinds
<1>3. Quiet(c)
  BY <1>1 DEF Fire, At, Goto, locals, Quiet, Same, StoreOK
<1>4. Placed(c)'
  BY <1>1 DEF Fire, StoreOK, LocalsOK, CallerOK, Placed, At, Goto, script, locals
<1>5. Decided(c)'
  BY <1>1 DEF Fire, LocalsOK, Decided, Goto, HasRead
<1>6. Fresh(c)'
  BY <1>1, WatchFacts DEF Fire, LocalsOK, Fresh, Goto
<1>7. Kept(c)'
  BY <1>1, WatchFacts DEF Fire, LocalsOK, Kept, Goto, script
<1>8. Blinded(c)'
  BY <1>1 DEF Fire, LocalsOK, Blinded, Goto, PastRemove
<1>9. Firing(c)'
  BY <1>1, WatchFacts DEF Fire, LocalsOK, Firing, Goto
<1>10. Indexing(c)'
  BY <1>1, WatchFacts DEF Fire, LocalsOK, Indexing, Goto
<1>11. \A k \in Ids : Apart(c, k)' /\ (Concerns(c, k) => Apart(c, k))
  BY <1>1 DEF Fire, Shifting, Mapping, At, Goto, Apart, Passing
<1>12. Writes(c)' \/ ~Writes(c)
  BY <1>1 DEF Fire, Writes, CallerOK, Placed, At
<1> QED BY <1>2, <1>3, <1>4, <1>5, <1>6, <1>7, <1>8, <1>9, <1>10, <1>11, <1>12, QuietStep DEF CallerOK

LEMMA ListAllStep ==
  ASSUME IInv, NEW c \in Callers, ListAll(c), Watch(c)
  PROVE  IInv'
<1>1. StoreOK /\ LocalsOK /\ CallerOK(c)
  BY DEF IInv, TypeOK, StoreOK
<1>2. LocalsOK'
  BY <1>1 DEF ListAll, LocalsOK, StoreOK, Listed, Goto, request, Points, Stored
<1>3. Quiet(c)
  BY <1>1 DEF ListAll, At, Goto, request, Quiet, Same, StoreOK
<1>4. Placed(c)'
  BY <1>1 DEF ListAll, LocalsOK, CallerOK, Placed, At, Goto, request
<1>5. Decided(c)'
  BY <1>1 DEF ListAll, LocalsOK, CallerOK, Placed, Decided, At, Goto, request, HasRead
<1>6. Fresh(c)'
  BY <1>1, WatchFacts DEF ListAll, LocalsOK, Fresh, Goto
<1>7. Kept(c)'
  BY <1>1, WatchFacts DEF ListAll, LocalsOK, CallerOK, Kept, Goto, script, request
<1>8. Blinded(c)'
  BY <1>1 DEF ListAll, LocalsOK, Blinded, Goto, PastRemove
<1>9. Firing(c)'
  BY <1>1, WatchFacts DEF ListAll, LocalsOK, CallerOK, Placed, Firing, At, request
<1>10. Indexing(c)'
  BY <1>1, WatchFacts DEF ListAll, LocalsOK, CallerOK, Indexing, At, Listed, Goto, props,
        request, Stored
<1>11. \A k \in Ids : Apart(c, k)' /\ (Concerns(c, k) => Apart(c, k))
  BY <1>1 DEF ListAll, Shifting, Mapping, At, Goto, Apart, Passing
<1>12. Writes(c)' \/ ~Writes(c)
  BY <1>1 DEF ListAll, Writes, request
<1> QED BY <1>2, <1>3, <1>4, <1>5, <1>6, <1>7, <1>8, <1>9, <1>10, <1>11, <1>12, QuietStep DEF CallerOK

LEMMA NextIdStep ==
  ASSUME IInv, NEW c \in Callers, NEW i \in Ids, NextId(c, i), Watch(c)
  PROVE  IInv'
<1>1. StoreOK /\ LocalsOK /\ CallerOK(c)
  BY DEF IInv, TypeOK, StoreOK
<1>2. LocalsOK'
  BY <1>1 DEF NextId, LocalsOK, Goto, Points
<1>3. Quiet(c)
  BY <1>1 DEF NextId, At, Goto, Quiet, Same, StoreOK
<1>4. Placed(c)'
  BY <1>1 DEF NextId, LocalsOK, CallerOK, Placed, At, Goto, Writes
<1>5. Decided(c)'
  BY <1>1 DEF NextId, LocalsOK, Decided, Goto, HasRead
<1>6. Fresh(c)'
  BY <1>1, WatchFacts DEF NextId, LocalsOK, Fresh, Goto
<1>7. Kept(c)'
  BY <1>1, WatchFacts DEF NextId, LocalsOK, CallerOK, Placed, Kept, At, Goto
<1>8. Blinded(c)'
  BY <1>1 DEF NextId, LocalsOK, Blinded, Goto, PastRemove
<1>9. Firing(c)'
  BY <1>1, WatchFacts DEF NextId, LocalsOK, CallerOK, Placed, Firing, At
<1>10. Indexing(c)'
  BY <1>1, WatchFacts DEF NextId, LocalsOK, CallerOK, Indexing, At, Goto, props, Listed,
        Stored
<1>11. \A k \in Ids : Apart(c, k)' /\ (Concerns(c, k) => Apart(c, k))
  BY <1>1 DEF NextId, Shifting, Mapping, At, Goto, Apart, Passing
<1>12. Writes(c)' \/ ~Writes(c)
  BY <1>1 DEF NextId, Writes
<1> QED BY <1>2, <1>3, <1>4, <1>5, <1>6, <1>7, <1>8, <1>9, <1>10, <1>11, <1>12, QuietStep DEF CallerOK

LEMMA RelistStep ==
  ASSUME IInv, NEW c \in Callers, Relist(c), Watch(c)
  PROVE  IInv'
<1>1. StoreOK /\ LocalsOK /\ CallerOK(c)
  BY DEF IInv, TypeOK, StoreOK
<1>2. LocalsOK'
  BY <1>1 DEF Relist, LocalsOK, StoreOK, Remaining, Goto, request, Points, Listed, Stored
<1>3. Quiet(c)
  BY <1>1 DEF Relist, At, Goto, request, Quiet, Same, StoreOK
<1>4. Placed(c)'
  BY <1>1 DEF Relist, LocalsOK, CallerOK, Placed, At, Goto, request, Writes
<1>5. Decided(c)'
  BY <1>1 DEF Relist, LocalsOK, CallerOK, Placed, Decided, At, Goto, request, HasRead
<1>6. Fresh(c)'
  BY <1>1, WatchFacts DEF Relist, LocalsOK, CallerOK, Placed, Fresh, At, Goto, request
<1>7. Kept(c)'
  BY <1>1, WatchFacts DEF Relist, LocalsOK, CallerOK, Placed, Kept, At, Goto, request
<1>8. Blinded(c)'
  BY <1>1 DEF Relist, LocalsOK, CallerOK, Placed, Blinded, At, Goto, request, PastRemove
<1>9. Firing(c)'
  BY <1>1, WatchFacts DEF Relist, LocalsOK, CallerOK, Placed, Firing, At, request
<1>10. Indexing(c)'
  BY <1>1, WatchFacts DEF Relist, LocalsOK, CallerOK, Placed, Indexing, At, Remaining, Goto,
        props, Stored
<1>11. \A k \in Ids : Apart(c, k)' /\ (Concerns(c, k) => Apart(c, k))
  BY <1>1 DEF Relist, Shifting, Mapping, PastRemove, CallerOK, Placed, At, Goto, request,
        Apart, Passing
<1>12. Writes(c)' \/ ~Writes(c)
  BY <1>1 DEF Relist, Writes, request
<1> QED BY <1>2, <1>3, <1>4, <1>5, <1>6, <1>7, <1>8, <1>9, <1>10, <1>11, <1>12, QuietStep DEF CallerOK

LEMMA LookupStep ==
  ASSUME IInv, NEW c \in Callers, Lookup(c), Watch(c)
  PROVE  IInv'
<1>1. StoreOK /\ LocalsOK /\ CallerOK(c)
  BY DEF IInv, TypeOK, StoreOK
<1>2. LocalsOK'
  BY <1>1 DEF Lookup, LocalsOK, StoreOK, CallerOK, Placed, At, Goto, locals, Points
<1>3. Quiet(c)
  BY <1>1 DEF Lookup, At, Goto, locals, Quiet, Same, StoreOK
<1>4. Placed(c)'
  <2>1. event[c] \in 1 .. Len(uidMap) /\ uidMap \in Seq(Ids \cup {NoId})
    BY <1>1 DEF StoreOK, CallerOK, Placed, Lookup, At
  <2>2. uidMap[event[c]] \in Ids \cup {NoId}
    BY <2>1, ElementOfSeq
  <2> QED
    BY <1>1, <2>2 DEF Lookup, LocalsOK, CallerOK, Placed, At, Goto, script, locals
<1>5. Decided(c)'
  BY <1>1 DEF Lookup, LocalsOK, CallerOK, Placed, Decided, At, Goto, HasRead
<1>6. Fresh(c)'
  BY <1>1, WatchFacts DEF Lookup, LocalsOK, Fresh, Goto
<1>7. Kept(c)'
  BY <1>1, WatchFacts DEF Lookup, LocalsOK, CallerOK, Kept, Goto, script
<1>8. Blinded(c)'
  BY <1>1 DEF Lookup, LocalsOK, Blinded, Goto, PastRemove
<1>9. Firing(c)'
  <2> DEFINE i == Owner(event[c])
  <2> SUFFICES ASSUME c \in alone', i \notin overlapped' PROVE Firing(c)'
    BY <1>3 DEF Firing, Quiet, Lookup, Owner, script
  <2>1. /\ c \in alone /\ i \notin overlapped /\ call[c] = "fire" /\ event[c] \in project
        /\ event[c] \in 1 .. Len(made)
    BY <1>1, WatchFacts DEF LocalsOK, Lookup, At, Goto, CallerOK, Placed, Kept
  <2>2. i \in Ids
    <3>1. made \in Seq([id : Ids, bind : Nat])
      BY <1>1 DEF StoreOK
    <3>2. made[event[c]] \in [id : Ids, bind : Nat]
      BY <2>1, <3>1, ElementOfSeq
    <3> QED BY <3>2 DEF Owner
  <2>3. \A d \in Callers : Apart(d, i)
    <3>1. ASSUME NEW d \in Callers, Writes(d), id[d] = i PROVE FALSE
      BY <2>1, <2>2, <3>1 DEF IInv, Watched, Overlap, Touches, Writes
    <3> QED BY <3>1, <2>2, OwnOnly DEF IInv, CallerOK, Concerns
  <2>4. DefinitionOK(i) /\ MapSound /\ event[c] \in TriggersOf(i)
    BY <2>1, <2>2 DEF IInv, TriggersOf
  <2>5. i \notin harmed => def[i].uid = event[c] /\ uidMap[event[c]] = i
    BY <2>1, <2>3, <2>4 DEF DefinitionOK, Settled, Apart
  <2>6. faults < 2 /\ uidMap[event[c]] # NoId => def[i].uid = event[c] /\ uidMap[event[c]] = i
    BY <2>1, <2>3, <2>4 DEF DefinitionOK, Strays, Apart, Passing, MapSound
  <2>7. /\ faults' = faults
        /\ i \notin harmed' => i \notin harmed
        /\ i = made'[event'[c]].id
        /\ pc'[c] = IF uidMap[event[c]] # NoId THEN "mapped" ELSE "scan"
        /\ id'[c] = uidMap[event[c]] /\ UNCHANGED <<def, call, event>>
    BY <1>1, <2>2, WatchFacts DEF LocalsOK, Lookup, Goto, Owner, props, script
  <2>8. i # NoId
    BY <2>2, TriggersAssumption
  <2> HIDE DEF i
  <2> QED BY <1>1, <2>1, <2>5, <2>6, <2>7, <2>8, TriggersAssumption DEF Firing, StoreOK, Owner
<1>10. Indexing(c)'
  BY <1>1, WatchFacts DEF Lookup, LocalsOK, CallerOK, Placed, Indexing, At, Goto
<1>11. \A k \in Ids : Apart(c, k)' /\ (Concerns(c, k) => Apart(c, k))
  BY <1>1 DEF Lookup, Shifting, Mapping, At, Goto, Apart, Passing
<1>12. Writes(c)' \/ ~Writes(c)
  BY <1>1 DEF Lookup, Writes
<1> QED BY <1>2, <1>3, <1>4, <1>5, <1>6, <1>7, <1>8, <1>9, <1>10, <1>11, <1>12, QuietStep DEF CallerOK

LEMMA ReadMappedStep ==
  ASSUME IInv, NEW c \in Callers, ReadMapped(c), Watch(c)
  PROVE  IInv'
<1>1. StoreOK /\ LocalsOK /\ CallerOK(c)
  BY DEF IInv, TypeOK, StoreOK
<1>2. LocalsOK'
  BY <1>1 DEF ReadMapped, LocalsOK, StoreOK, CallerOK, Placed, At, Goto, request, Points
<1>3. Quiet(c)
  BY <1>1 DEF ReadMapped, At, Goto, request, Quiet, Same, StoreOK
<1>4. Placed(c)'
  BY <1>1 DEF ReadMapped, LocalsOK, CallerOK, Placed, At, Goto, script, request
<1>5. Decided(c)'
  BY <1>1 DEF ReadMapped, LocalsOK, CallerOK, Placed, Decided, At, Goto, request, HasRead
<1>6. Fresh(c)'
  BY <1>1, WatchFacts DEF ReadMapped, LocalsOK, Fresh, Goto
<1>7. Kept(c)'
  BY <1>1, WatchFacts DEF ReadMapped, LocalsOK, CallerOK, Kept, Goto, script, request
<1>8. Blinded(c)'
  BY <1>1 DEF ReadMapped, LocalsOK, Blinded, Goto, PastRemove
<1>9. Firing(c)'
  BY <1>1, WatchFacts DEF ReadMapped, LocalsOK, CallerOK, Placed, Firing, At, Goto, NoDef,
        props, script, request, NoUid, Owner
<1>10. Indexing(c)'
  BY <1>1, WatchFacts DEF ReadMapped, LocalsOK, CallerOK, Placed, Indexing, At, Goto,
        request
<1>11. \A k \in Ids : Apart(c, k)' /\ (Concerns(c, k) => Apart(c, k))
  BY <1>1 DEF ReadMapped, Shifting, Mapping, At, Goto, Apart, Passing
<1>12. Writes(c)' \/ ~Writes(c)
  BY <1>1 DEF ReadMapped, Writes, CallerOK, Placed, At
<1> QED BY <1>2, <1>3, <1>4, <1>5, <1>6, <1>7, <1>8, <1>9, <1>10, <1>11, <1>12, QuietStep DEF CallerOK

LEMMA ScanIdsStep ==
  ASSUME IInv, NEW c \in Callers, ScanIds(c), Watch(c)
  PROVE  IInv'
<1>1. StoreOK /\ LocalsOK /\ CallerOK(c)
  BY DEF IInv, TypeOK, StoreOK
<1>2. LocalsOK'
  BY <1>1 DEF ScanIds, LocalsOK, StoreOK, Listed, Goto, request, Points, Stored
<1>3. Quiet(c)
  BY <1>1 DEF ScanIds, At, Goto, request, Quiet, Same, StoreOK
<1>4. Placed(c)'
  BY <1>1 DEF ScanIds, LocalsOK, CallerOK, Placed, At, Goto, script, request
<1>5. Decided(c)'
  BY <1>1 DEF ScanIds, LocalsOK, CallerOK, Placed, Decided, At, Goto, request, HasRead
<1>6. Fresh(c)'
  BY <1>1, WatchFacts DEF ScanIds, LocalsOK, Fresh, Goto
<1>7. Kept(c)'
  BY <1>1, WatchFacts DEF ScanIds, LocalsOK, CallerOK, Kept, Goto, script, request
<1>8. Blinded(c)'
  BY <1>1 DEF ScanIds, LocalsOK, Blinded, Goto, PastRemove
<1>9. Firing(c)'
  BY <1>1, WatchFacts DEF ScanIds, LocalsOK, CallerOK, Firing, At, Goto, script, request,
        Owner
<1>10. Indexing(c)'
  BY <1>1, WatchFacts DEF ScanIds, LocalsOK, CallerOK, Placed, Indexing, At, Goto, request
<1>11. \A k \in Ids : Apart(c, k)' /\ (Concerns(c, k) => Apart(c, k))
  BY <1>1 DEF ScanIds, Shifting, Mapping, At, Goto, Apart, Passing
<1>12. Writes(c)' \/ ~Writes(c)
  BY <1>1 DEF ScanIds, Writes, CallerOK, Placed, At
<1> QED BY <1>2, <1>3, <1>4, <1>5, <1>6, <1>7, <1>8, <1>9, <1>10, <1>11, <1>12, QuietStep DEF CallerOK

LEMMA TryStep ==
  ASSUME IInv, NEW c \in Callers, NEW i \in Ids, Try(c, i), Watch(c)
  PROVE  IInv'
<1>1. StoreOK /\ LocalsOK /\ CallerOK(c)
  BY DEF IInv, TypeOK, StoreOK
<1>2. LocalsOK'
  BY <1>1 DEF Try, LocalsOK, StoreOK, Goto, request, Points
<1>3. Quiet(c)
  BY <1>1 DEF Try, At, Goto, request, Quiet, Same, StoreOK
<1>4. Placed(c)'
  BY <1>1 DEF Try, LocalsOK, CallerOK, Placed, At, Goto, script, request
<1>5. Decided(c)'
  BY <1>1 DEF Try, LocalsOK, CallerOK, Placed, Decided, At, Goto, request, HasRead
<1>6. Fresh(c)'
  BY <1>1, WatchFacts DEF Try, LocalsOK, Fresh, Goto
<1>7. Kept(c)'
  BY <1>1, WatchFacts DEF Try, LocalsOK, CallerOK, Kept, Goto, script, request
<1>8. Blinded(c)'
  BY <1>1 DEF Try, LocalsOK, Blinded, Goto, PastRemove
<1>9. Firing(c)'
  <2>1. /\ Firing(c) /\ Sound(def[i], i)
        /\ pc[c] = "try"
        /\ pc'[c] = IF def[i].uid = event[c] THEN "dispatch" ELSE "try"
        /\ UNCHANGED <<def, made, event, call, faults>>
    BY <1>1 DEF IInv, DefinitionOK, CallerOK, LocalsOK, Try, At, Goto, props, script,
        request
  <2>2. def[i].uid = event[c] => Owner(event[c]) = i \/ event[c] = NoUid
    BY <2>1 DEF Sound, Owner
  <2>3. call[c] = "fire" /\ event[c] \in 1 .. Len(made)
    BY <1>1, <2>1 DEF CallerOK, Placed
  <2>4. /\ c \in alone' => c \in alone
        /\ Owner(event[c]) \notin harmed' => Owner(event[c]) \notin harmed
        /\ Owner(event[c]) \notin overlapped' => Owner(event[c]) \notin overlapped
    BY <1>1, <2>1, WatchFacts
  <2> QED BY <2>1, <2>2, <2>3, <2>4 DEF Firing, Owner, NoUid
<1>10. Indexing(c)'
  BY <1>1, WatchFacts DEF Try, LocalsOK, CallerOK, Placed, Indexing, At, Goto, request
<1>11. \A k \in Ids : Apart(c, k)' /\ (Concerns(c, k) => Apart(c, k))
  BY <1>1 DEF Try, Shifting, Mapping, At, Goto, Apart, Passing
<1>12. Writes(c)' \/ ~Writes(c)
  BY <1>1 DEF Try, Writes, CallerOK, Placed, At
<1> QED BY <1>2, <1>3, <1>4, <1>5, <1>6, <1>7, <1>8, <1>9, <1>10, <1>11, <1>12, QuietStep DEF CallerOK

LEMMA MissStep ==
  ASSUME IInv, NEW c \in Callers, Miss(c), Watch(c)
  PROVE  IInv'
<1>1. StoreOK /\ LocalsOK /\ CallerOK(c)
  BY DEF IInv, TypeOK, StoreOK
<1>2. LocalsOK'
  BY <1>1 DEF Miss, LocalsOK, Go, Points, Goto, request, locals
<1>3. Quiet(c)
  BY <1>1 DEF Miss, At, Go, Goto, request, locals, Quiet, Same, StoreOK
<1>4. Placed(c)'
  BY <1>1 DEF Miss, LocalsOK, CallerOK, Placed, At, Go, script, Goto, request, locals
<1>5. Decided(c)'
  BY <1>1 DEF Miss, LocalsOK, CallerOK, Placed, Decided, At, Go, HasRead, Goto, request
<1>6. Fresh(c)'
  BY <1>1, WatchFacts DEF Miss, LocalsOK, Fresh, Go, Goto
<1>7. Kept(c)'
  BY <1>1, WatchFacts DEF Miss, LocalsOK, CallerOK, Kept, Go, script, Goto, request
<1>8. Blinded(c)'
  BY <1>1 DEF Miss, LocalsOK, Blinded, Go, PastRemove, Goto
<1>9. Firing(c)'
  BY <1>1, WatchFacts DEF Miss, LocalsOK, CallerOK, Firing, At, Go, script, Owner, Goto,
        request
<1>10. Indexing(c)'
  BY <1>1, WatchFacts DEF Miss, LocalsOK, CallerOK, Placed, Indexing, At, Go, Goto, request
<1>11. \A k \in Ids : Apart(c, k)' /\ (Concerns(c, k) => Apart(c, k))
  BY <1>1 DEF Miss, Shifting, Mapping, At, Go, Goto, Apart, Passing
<1>12. Writes(c)' \/ ~Writes(c)
  BY <1>1 DEF Miss, Writes, CallerOK, Placed, At
<1> QED BY <1>2, <1>3, <1>4, <1>5, <1>6, <1>7, <1>8, <1>9, <1>10, <1>11, <1>12, QuietStep DEF CallerOK

LEMMA FindStep ==
  ASSUME IInv, NEW c \in Callers, Find(c), Watch(c)
  PROVE  IInv'
<1>1. StoreOK /\ LocalsOK /\ CallerOK(c)
  BY DEF IInv, TypeOK, StoreOK
<1>2. LocalsOK'
  <2>1. PICK seen \in {Found(c), FALSE} :
          /\ healthy' = [healthy EXCEPT ![c] = seen]
          /\ pc' = [pc EXCEPT ![c] = IF Noop(c, seen) THEN "done" ELSE "list"]
    BY DEF Find, Goto
  <2>2. seen \in BOOLEAN
    <3>1. Found(c) \in BOOLEAN
      BY DEF Found
    <3> QED BY <2>1, <3>1, Zenon
  <2> QED BY <1>1, <2>1, <2>2 DEF Find, LocalsOK, Points, request
<1>3. Quiet(c)
  BY <1>1, TriggersAssumption DEF Find, At, Strike, Goto, request, Quiet, Same, StoreOK
<1>4. Placed(c)'
  BY <1>1 DEF Find, LocalsOK, CallerOK, Placed, At, Goto, request, Writes
<1>5. Decided(c)'
  <2>1. PICK seen \in {Found(c), FALSE} :
          /\ healthy' = [healthy EXCEPT ![c] = seen]
          /\ pc' = [pc EXCEPT ![c] = IF Noop(c, seen) THEN "done" ELSE "list"]
    BY DEF Find, Goto
  <2>2. seen \in BOOLEAN
    <3>1. Found(c) \in BOOLEAN
      BY DEF Found
    <3> QED BY <2>1, <3>1, Zenon
  <2>3. seen => old[c].uid \in project
    BY <2>1 DEF Found
  <2>4. /\ call[c] = "upsert" /\ new[c] = NoUid /\ Sound(old[c], id[c])
        /\ project \subseteq 1 .. Len(made)
    BY <1>1 DEF StoreOK, CallerOK, Placed, Decided, HasRead, Find, At
  <2>5. healthy'[c] = seen /\ pc'[c] \in {"done", "list"} /\ (pc'[c] = "done" => Noop(c, seen))
    BY <1>1, <2>1 DEF LocalsOK
  <2>6. Sound(old[c], id[c])'
    BY <1>3, <2>4 DEF Find, Sound, script, request
  <2> QED BY <2>2, <2>3, <2>4, <2>5, <2>6 DEF Decided, HasRead, Recreates, Noop, Find,
        request, NoUid
<1>6. Fresh(c)'
  BY <1>1, WatchFacts DEF Find, LocalsOK, CallerOK, Decided, Sound, Fresh, At, Goto, Noop,
        props, request, Writes, HasRead, Recreates, TriggerUid
<1>7. Kept(c)'
  <2>1. PICK seen \in {Found(c), FALSE} :
          /\ healthy' = [healthy EXCEPT ![c] = seen]
          /\ pc' = [pc EXCEPT ![c] = IF Noop(c, seen) THEN "done" ELSE "list"]
    BY DEF Find, Goto
  <2>2. healthy'[c] = seen /\ pc'[c] \in {"done", "list"} /\ (pc'[c] = "done" => Noop(c, seen))
    BY <1>1, <2>1 DEF LocalsOK
  <2>3. seen => old[c].uid \in project
    BY <2>1 DEF Found
  <2>4. call[c] = "upsert" /\ UNCHANGED <<want, old, new, id, call, project>>
    BY <1>1 DEF CallerOK, Placed, Find, At, request, script
  <2>5. CASE pc'[c] = "list"
    BY <2>2, <2>3, <2>4, <2>5 DEF Kept
  <2>6. CASE pc'[c] = "done"
    <3>1. want[c].on => seen /\ old[c].want = want[c]
      BY <2>2, <2>6 DEF Noop
    <3>2. want[c].on => (TriggerUid(c) = old[c].uid)'
      BY <2>2, <2>4, <3>1 DEF TriggerUid, Recreates
    <3> QED BY <2>3, <2>4, <2>6, <3>1, <3>2 DEF Kept
  <2> QED BY <2>2, <2>5, <2>6
<1>8. Blinded(c)'
  BY <1>1 DEF Find, LocalsOK, Blinded, Goto, PastRemove
<1>9. Firing(c)'
  BY <1>1, WatchFacts DEF Find, LocalsOK, CallerOK, Placed, Firing, At, request
<1>10. Indexing(c)'
  BY <1>1, WatchFacts DEF Find, LocalsOK, CallerOK, Placed, Indexing, At, Goto, props,
        Listed, Stored
<1>11. \A k \in Ids : Apart(c, k)' /\ (Concerns(c, k) => Apart(c, k))
  BY <1>1 DEF Find, Shifting, Mapping, At, Goto, Apart, Passing
<1>12. Writes(c)' \/ ~Writes(c)
  BY <1>1 DEF Find, Writes, request
<1> QED BY <1>2, <1>3, <1>4, <1>5, <1>6, <1>7, <1>8, <1>9, <1>10, <1>11, <1>12, QuietStep DEF CallerOK



LEMMA ReturnStep ==
  ASSUME IInv, NEW c \in Callers, Return(c), Watch(c)
  PROVE  IInv'
<1>1. StoreOK /\ LocalsOK /\ CallerOK(c)
  BY DEF IInv, TypeOK, StoreOK
<1>2. Leave(c) /\ UNCHANGED <<props, script, faults>>
  BY DEF Return
<1>3. Quiet(c) /\ LocalsOK' /\ CallerOK(c)' /\ \A i \in Ids : Apart(c, i)'
  BY <1>1, <1>2, LeftOK DEF Quiet, StoreOK
<1>4. \A i \in Ids : Apart(c, i)
  BY DEF Return, Apart, Shifting, Mapping, Passing
<1>5. ~Writes(c) \/ (~raced' => Listed' = Stored')
  BY <1>1, <1>2, WatchFacts DEF CallerOK, Placed, Indexing, Writes, Return, Listed, Stored,
        props
<1> QED BY <1>3, <1>4, <1>5, QuietStep

LEMMA DispatchStep ==
  ASSUME IInv, NEW c \in Callers, Dispatch(c), Watch(c)
  PROVE  IInv'
<1>1. StoreOK /\ LocalsOK /\ CallerOK(c)
  BY DEF IInv, TypeOK, StoreOK
<1>2. Leave(c) /\ UNCHANGED <<props, script, faults>>
  BY DEF Dispatch
<1>3. Quiet(c) /\ LocalsOK' /\ CallerOK(c)' /\ \A i \in Ids : Apart(c, i)'
  BY <1>1, <1>2, LeftOK DEF Quiet, StoreOK
<1>4. ~Writes(c)
  BY <1>1 DEF Dispatch, At, CallerOK, Placed, Writes
<1> QED BY <1>3, <1>4, QuietStep DEF Concerns

LEMMA CutShortStep ==
  ASSUME IInv, NEW c \in Callers, CutShort(c), Watch(c)
  PROVE  IInv'
<1>1. StoreOK /\ LocalsOK /\ CallerOK(c)
  BY DEF IInv, TypeOK, StoreOK
<1>2. Leave(c) /\ UNCHANGED <<props, script>> /\ faults < MaxFaults /\ faults' = faults + 1
  BY DEF CutShort, Strike
<1>3. LocalsOK' /\ CallerOK(c)' /\ \A i \in Ids : Apart(c, i)'
  BY <1>1, <1>2, LeftOK
<1>4. Quiet(c) /\ call'[c] = "none" /\ faults \in Nat /\ faults' # faults
  BY <1>1, <1>2, LeftOK, TriggersAssumption DEF Quiet, StoreOK
<1>5. Tolerable(c) /\ StoreOK' /\ MapSound' /\ \A i \in Ids : Undisturbed(i)
  BY <1>4, QuietTolerable
\* A call that does no harm has changed nothing yet.
<1>6. ~Harms(c) /\ Writes(c) =>
        /\ pc[c] \in {"read", "find", "list", "create", "remove"}
        /\ gone[c] = {} /\ new[c] = NoUid
  <2>1. pc'[c] = "idle"
    BY <1>1, <1>2 DEF LocalsOK, Leave, Goto
  <2> QED BY <1>4, <2>1 DEF Harms
<1>7. ASSUME NEW i \in Ids, Concerns(c, i) PROVE DefinitionOK(i)'
  <2>1. Own(c, i) /\ Sound(def[i], i)
    BY <1>7, OwnHolds
  <2>2. /\ UNCHANGED <<def, uidMap, made>> /\ TriggersOf(i)' = TriggersOf(i)
        /\ ~Shifting(c, i)' /\ ~Mapping(c, i)' /\ ~Passing(c, i)'
    BY <1>2, <1>3, <1>5 DEF Undisturbed, Apart, props, script
  <2>3. /\ i \in harmed => i \in harmed'
        /\ i \in overlapped => i \in overlapped'
        /\ i \notin harmed' => ~Harms(c)
    BY <1>1, <1>7, WatchFacts DEF Concerns, Writes, Touches
  <2>4. i \notin overlapped' \cup harmed' =>
          /\ TriggersOf(i)' = {def'[i].uid} \ {NoUid}
          /\ def'[i].uid = NoUid \/ uidMap'[def'[i].uid] = i
    <3> SUFFICES ASSUME i \notin overlapped' \cup harmed'
                 PROVE  /\ TriggersOf(i) = {def[i].uid} \ {NoUid}
                        /\ def[i].uid = NoUid \/ uidMap[def[i].uid] = i
      BY <2>2
    <3>1. ~Mapping(c, i) /\ (Shifting(c, i) => ShiftedTo(c) = {def[i].uid} \ {NoUid})
      BY <1>6, <1>7, <2>3 DEF Concerns, Mapping, ShiftedTo
    <3> QED BY <2>1, <2>3, <3>1 DEF Own
  <2>5. ASSUME i \notin overlapped', faults' < 2, NEW u \in TriggersOf(i)' \ {def'[i].uid}
        PROVE  uidMap'[u] = NoId
    <3>1. faults = 0 /\ u \in project /\ u \in TriggersOf(i) \ {def[i].uid} /\ i \notin overlapped
      BY <1>1, <1>2, <2>2, <2>3, <2>5 DEF StoreOK, TriggersOf
    <3>2. ~(Passing(c, i) /\ old[c].uid = u)
      <4> SUFFICES ASSUME Passing(c, i), old[c].uid = u PROVE FALSE
        OBVIOUS
      <4>1. call[c] = "upsert" /\ TriggerUid(c) = u
        BY <1>1, <3>1 DEF CallerOK, Blinded, Passing
      <4>2. def[i].uid = TriggerUid(c)
        BY <1>1, <1>7, <3>1, <4>1 DEF CallerOK, Fresh, Passing
      <4> QED BY <3>1, <4>1, <4>2
    <3> QED BY <2>1, <2>2, <3>1, <3>2 DEF Own
  <2>6. Own(c, i)' /\ Sound(def[i], i)'
    BY <2>1, <2>2, <2>4, <2>5 DEF Own, Sound
  <2> QED BY <1>5, <1>7, <2>6, OwnKept
<1>8. ~Writes(c) \/ (~raced' => Listed' = Stored')
  <2> SUFFICES ASSUME Writes(c), ~raced' PROVE Listed' = Stored'
    OBVIOUS
  <2>1. ~raced /\ ~Harms(c)
    BY <1>1, WatchFacts
  <2>2. Listed = Stored
    BY <1>1, <1>6, <2>1 DEF CallerOK, Indexing, Writes
  <2> QED BY <1>2, <2>2 DEF Listed, Stored, props
<1> QED BY <1>3, <1>5, <1>7, <1>8, Assembled

LEMMA ReadStep ==
  ASSUME IInv, NEW c \in Callers, Read(c), Watch(c)
  PROVE  IInv'
<1>1. StoreOK /\ LocalsOK /\ CallerOK(c)
  BY DEF IInv, TypeOK, StoreOK
<1>2. LocalsOK'
  BY <1>1 DEF Read, StoreOK, LocalsOK, CallerOK, Placed, At, Goto, request, Points
<1>3. Quiet(c)
  BY <1>1 DEF Read, At, Goto, request, Quiet, Same, StoreOK
<1>4. Placed(c)'
  BY <1>1 DEF Read, LocalsOK, CallerOK, Placed, At, Goto, request, Writes
<1>5. Decided(c)'
  <2>1. /\ pc[c] = "read" /\ id[c] \in Ids /\ Sound(def[id[c]], id[c])
        /\ pc'[c] = IF call[c] = "upsert" THEN "find"
                    ELSE IF def[id[c]] = NoDef THEN "next"
                    ELSE IF def[id[c]].uid # NoUid THEN "remove" ELSE "drop"
        /\ old'[c] = def[id[c]]
        /\ UNCHANGED <<made, id, call>>
    BY <1>1 DEF Read, At, Goto, CallerOK, Placed, IInv, DefinitionOK, LocalsOK, script,
        request
  <2> QED BY <2>1 DEF Decided, HasRead, Sound
<1>6. Fresh(c)'
  BY <1>1, WatchFacts DEF Read, LocalsOK, Fresh, Goto, props, request
<1>7. Kept(c)'
  BY <1>1, WatchFacts DEF Read, LocalsOK, CallerOK, Placed, Kept, Goto, script, request
<1>8. Blinded(c)'
  BY <1>1, WatchFacts DEF Read, LocalsOK, Blinded, StoreOK, Goto, NoUid, script, PastRemove
<1>9. Firing(c)'
  BY <1>1, WatchFacts DEF Read, LocalsOK, CallerOK, Placed, Firing, At, request, Writes
<1>10. Indexing(c)'
  BY <1>1, WatchFacts DEF Read, LocalsOK, CallerOK, Indexing, At, Goto, props, request,
        Listed, Stored
<1>11. \A i \in Ids : ~Concerns(c, i) => Apart(c, i)'
  BY <1>1 DEF Read, LocalsOK, CallerOK, Placed, At, request, Apart, Passing, Concerns,
        Shifting, Mapping
<1>12. Tolerable(c) /\ StoreOK' /\ MapSound' /\ \A i \in Ids : Undisturbed(i)
  BY <1>3, QuietTolerable
<1>13. ASSUME NEW i \in Ids, Concerns(c, i) PROVE DefinitionOK(i)'
  <2>1. Own(c, i) /\ Sound(def[i], i) /\ id[c] = i
    BY <1>13, OwnHolds DEF Concerns
  <2>2. /\ UNCHANGED <<def, uidMap, made>> /\ TriggersOf(i)' = TriggersOf(i)
        /\ faults' = faults /\ pc[c] = "read"
        /\ pc'[c] \in {"find", "next", "remove", "drop"}
        /\ pc'[c] = "drop" => def[i].uid = NoUid
        /\ pc'[c] = "remove" => call'[c] # "upsert"
    BY <1>1, <1>12, <2>1 DEF Undisturbed, Read, At, Goto, props, script, request, LocalsOK
  <2>3. /\ i \in overlapped \cup harmed => i \in overlapped' \cup harmed'
        /\ i \in overlapped => i \in overlapped'
    BY <1>1, WatchFacts
  <2>4. ~Shifting(c, i) /\ ~Mapping(c, i) /\ ~Passing(c, i)
    BY <2>2 DEF Shifting, Mapping, Passing
  <2>5. Shifting(c, i)' => pc'[c] = "drop"
    BY <2>2 DEF Shifting
  <2>6. Own(c, i)' /\ Sound(def[i], i)'
    BY <2>1, <2>2, <2>3, <2>4, <2>5 DEF Own, Sound, ShiftedTo
  <2> QED BY <1>12, <1>13, <2>6, OwnKept
<1>14. Writes(c)'
  BY <1>1 DEF Read, LocalsOK, CallerOK, Placed, At, Writes, request
<1> QED BY <1>2, <1>4, <1>5, <1>6, <1>7, <1>8, <1>9, <1>10, <1>11, <1>12, <1>13, <1>14, Assembled DEF CallerOK

LEMMA ListStep ==
  ASSUME IInv, NEW c \in Callers, List(c), Watch(c)
  PROVE  IInv'
<1>1. StoreOK /\ LocalsOK /\ CallerOK(c)
  BY DEF IInv, TypeOK, StoreOK
<1>2. LocalsOK'
  BY <1>1 DEF List, StoreOK, LocalsOK, CallerOK, Placed, At, Listed, Goto, request, Points,
        Stored
<1>3. Quiet(c)
  BY <1>1 DEF List, At, Goto, request, Quiet, Same, StoreOK
<1>4. Placed(c)'
  BY <1>1 DEF List, LocalsOK, CallerOK, Placed, At, Goto, request, Writes
<1>5. Decided(c)'
  BY <1>1 DEF List, LocalsOK, CallerOK, Placed, Decided, Sound, At, Goto, Recreates,
        Removes, script, request, HasRead
<1>6. Fresh(c)'
  BY <1>1, WatchFacts DEF List, LocalsOK, CallerOK, Fresh, At, Goto, props, request, Writes
<1>7. Kept(c)'
  BY <1>1, WatchFacts DEF List, LocalsOK, CallerOK, Placed, Kept, At, Goto, Recreates,
        script, request, TriggerUid
<1>8. Blinded(c)'
  BY <1>1 DEF List, LocalsOK, CallerOK, Placed, Blinded, At, Goto, Recreates, Removes,
        request, PastRemove, TriggerUid
<1>9. Firing(c)'
  BY <1>1, WatchFacts DEF List, LocalsOK, CallerOK, Placed, Firing, At, request
<1>10. Indexing(c)'
  BY <1>1, WatchFacts DEF List, LocalsOK, CallerOK, Indexing, At, Listed, Goto, props,
        request, Stored
<1>11. \A i \in Ids : ~Concerns(c, i) => Apart(c, i)'
  BY <1>1 DEF List, LocalsOK, CallerOK, Placed, At, Apart, Passing, Concerns, Shifting,
        Mapping, Writes, request
<1>12. Tolerable(c) /\ StoreOK' /\ MapSound' /\ \A i \in Ids : Undisturbed(i)
  BY <1>3, QuietTolerable
<1>13. ASSUME NEW i \in Ids, Concerns(c, i) PROVE DefinitionOK(i)'
  <2>1. Own(c, i) /\ Sound(def[i], i) /\ id[c] = i
    BY <1>13, OwnHolds DEF Concerns
  <2>2. /\ UNCHANGED <<def, uidMap, made, id, call, want, old, healthy, new, faults>>
        /\ TriggersOf(i)' = TriggersOf(i)
        /\ pc[c] = "list" /\ call[c] = "upsert" /\ new[c] = NoUid /\ Sound(old[c], i)
        /\ pc'[c] = IF Recreates(c) THEN "create" ELSE IF Removes(c) THEN "remove" ELSE "write"
    BY <1>1, <1>12, <2>1 DEF Undisturbed, List, At, Goto, props, script, request, LocalsOK,
        CallerOK, Placed, Decided, HasRead
  <2>3. /\ i \in overlapped \cup harmed => i \in overlapped' \cup harmed'
        /\ i \in overlapped => i \in overlapped'
        /\ i \notin overlapped => old[c] = def[i]
    BY <1>1, <1>13, <2>2, WatchFacts DEF CallerOK, Fresh, Concerns
  <2>4. ~Shifting(c, i) /\ ~Mapping(c, i) /\ ~Passing(c, i)
    BY <2>2 DEF Shifting, Mapping, Passing
  <2>5. Shifting(c, i)' /\ old[c] = def[i] => ShiftedTo(c)' = {def[i].uid} \ {NoUid}
    BY <2>1, <2>2 DEF Shifting, ShiftedTo, TriggerUid, Recreates, Removes
  <2>6. Own(c, i)' /\ Sound(def[i], i)'
    BY <2>1, <2>2, <2>3, <2>4, <2>5 DEF Own, Sound
  <2> QED BY <1>12, <1>13, <2>6, OwnKept
<1>14. Writes(c)'
  BY <1>1 DEF List, LocalsOK, CallerOK, Placed, At, request, Writes
<1> QED BY <1>2, <1>4, <1>5, <1>6, <1>7, <1>8, <1>9, <1>10, <1>11, <1>12, <1>13, <1>14, Assembled DEF CallerOK

LEMMA WriteDefinitionStep ==
  ASSUME IInv, NEW c \in Callers, WriteDefinition(c), Watch(c)
  PROVE  IInv'
<1>1. StoreOK /\ LocalsOK /\ CallerOK(c)
  BY DEF IInv, TypeOK, StoreOK
<1>2. StoreOK'
  BY <1>1, WatchFacts, TriggersAssumption DEF WriteDefinition, StoreOK, LocalsOK, CallerOK,
        Placed, At, TriggerUid, Go, script, AnyWant, Points, CallKinds, Writes, NoWant,
        NoUid, Recreates, Goto, request, locals, props, script, locals, request, AnyWant
<1>3. LocalsOK'
  BY <1>1 DEF WriteDefinition, StoreOK, LocalsOK, Go, Points, Goto, request, locals
<1>4. Tolerable(c)
  BY <1>1 DEF WriteDefinition, StoreOK, CallerOK, Placed, At, Go, script, Goto, request,
        locals, Tolerable, Same, Concerns, Writes
<1>5. MapSound'
  BY <1>1 DEF WriteDefinition, StoreOK, MapSound, Owner, script, IInv
<1>6. Placed(c)'
  BY <1>1 DEF WriteDefinition, LocalsOK, CallerOK, Placed, At, Go, Writes, Goto, request,
        locals
<1>7. Decided(c)'
  BY <1>1 DEF WriteDefinition, LocalsOK, CallerOK, Decided, Sound, At, Go, script, HasRead,
        Recreates, Goto, request, locals
<1>8. Fresh(c)'
  BY <1>1, WatchFacts DEF WriteDefinition, LocalsOK, CallerOK, Placed, Fresh, StoreOK,
        TriggerUid, Go, Recreates, Goto, request, locals
<1>9. Kept(c)'
  BY <1>1, WatchFacts DEF WriteDefinition, LocalsOK, CallerOK, Kept, At, TriggerUid, Go,
        script, Recreates, Goto, request, locals
<1>10. Blinded(c)'
  BY <1>1 DEF WriteDefinition, LocalsOK, CallerOK, Blinded, At, TriggerUid, Go, script,
        Recreates, PastRemove, request, locals
<1>11. Firing(c)'
  BY <1>1, WatchFacts DEF WriteDefinition, LocalsOK, CallerOK, Placed, Firing, At, Go,
        request
<1>12. Indexing(c)'
  BY <1>1, WatchFacts DEF WriteDefinition, LocalsOK, CallerOK, Placed, Indexing, StoreOK,
        At, Go, Stored, Goto, locals, NoDef
<1>13. \A i \in Ids : ~Concerns(c, i) => Apart(c, i)'
  BY <1>1 DEF WriteDefinition, LocalsOK, Go, Writes, Goto, request, Apart, Passing,
        Concerns, Shifting, Mapping
<1>14. ASSUME NEW i \in Ids, Concerns(c, i) PROVE DefinitionOK(i)'
  <2>1. Own(c, i) /\ Sound(def[i], i) /\ id[c] = i /\ Writes(c)
    BY <1>14, OwnHolds DEF Concerns
  <2>2. /\ def'[i] = [want |-> want[c], uid |-> TriggerUid(c)]
        /\ UNCHANGED <<uidMap, project, made, id, call, want, old, healthy, new, faults>>
        /\ pc[c] = "write" /\ call[c] = "upsert" /\ pc'[c] = "index"
        /\ Sound(old[c], i) /\ want[c] \in AnyWant
    BY <1>1, <2>1 DEF WriteDefinition, StoreOK, LocalsOK, At, Go, Goto, script, request,
        locals, CallerOK, Placed, Decided, HasRead
  <2>3. /\ i \in overlapped \cup harmed => i \in overlapped' \cup harmed'
        /\ i \in overlapped => i \in overlapped'
        /\ i \notin overlapped => old[c] = def[i]
    BY <1>1, <2>1, <2>2, WatchFacts DEF CallerOK, Fresh
  <2>4. /\ Shifting(c, i) /\ ShiftedTo(c) = {TriggerUid(c)} \ {NoUid} /\ ~Passing(c, i)
        /\ ~Shifting(c, i)' /\ Mapping(c, i)' /\ Passing(c, i)'
    BY <2>1, <2>2 DEF Shifting, ShiftedTo, Mapping, Passing, PastRemove, Writes
  <2>5. Sound(def[i], i)'
    BY <1>1, <2>1, <2>2 DEF Sound, TriggerUid, Recreates, CallerOK, Decided
  <2>6. TriggersOf(i)' = TriggersOf(i)
    BY <2>2 DEF TriggersOf, Owner
  <2>7. i \notin overlapped' \cup harmed' =>
          TriggersOf(i)' = {def'[i].uid} \ {NoUid}
    BY <2>1, <2>2, <2>3, <2>4, <2>6 DEF Own
  <2>8. i \notin overlapped' /\ faults' < 2 =>
          \A u \in TriggersOf(i)' \ {def'[i].uid} : uidMap'[u] = NoId \/ old'[c].uid = u
    BY <2>1, <2>2, <2>3, <2>4, <2>6 DEF Own
  <2>9. Own(c, i)' /\ Sound(def[i], i)'
    BY <2>4, <2>5, <2>7, <2>8 DEF Own
  <2> QED BY <1>4, <1>14, <2>9, OwnKept
<1>15. Writes(c)' \/ ~Writes(c) \/ (~raced' => Listed' = Stored')
  BY <1>1 DEF WriteDefinition, LocalsOK, Go, Writes, request
<1> QED BY <1>2, <1>3, <1>4, <1>5, <1>6, <1>7, <1>8, <1>9, <1>10, <1>11, <1>12, <1>13, <1>14, <1>15,
          Assembled DEF CallerOK

LEMMA WriteIndexStep ==
  ASSUME IInv, NEW c \in Callers, WriteIndex(c), Watch(c)
  PROVE  IInv'
<1>1. StoreOK /\ LocalsOK /\ CallerOK(c)
  BY DEF IInv, TypeOK, StoreOK
<1>2. StoreOK'
  BY <1>1, WatchFacts DEF WriteIndex, StoreOK, LocalsOK, Go, script, request
<1>3. LocalsOK'
  BY <1>1 DEF WriteIndex, StoreOK, LocalsOK, Go, Points, Goto, request, locals
<1>4. Tolerable(c)
  BY <1>1 DEF WriteIndex, StoreOK, CallerOK, Placed, At, Go, script, Removes, Goto, request,
        locals, Tolerable, Same
<1>5. MapSound'
  BY <1>1 DEF WriteIndex, StoreOK, MapSound, At, Go, NoUid, script, AnyWant, Owner, Goto,
        request, locals, NoWant, props, script, IInv
<1>6. Placed(c)'
  BY <1>1 DEF WriteIndex, LocalsOK, CallerOK, Placed, At, Go, Writes, Goto, request, locals
<1>7. Decided(c)'
  BY <1>1 DEF WriteIndex, LocalsOK, CallerOK, Decided, Sound, At, Go, script, HasRead,
        Recreates, Goto, request, locals
<1>8. Fresh(c)'
  BY <1>1, WatchFacts DEF WriteIndex, LocalsOK, CallerOK, Placed, Fresh, At, Go, Recreates,
        TriggerUid, Goto, request, locals
<1>9. Kept(c)'
  BY <1>1, WatchFacts DEF WriteIndex, LocalsOK, CallerOK, Kept, At, Go, script, Recreates,
        TriggerUid, Goto, request, locals
<1>10. Blinded(c)'
  BY <1>1 DEF WriteIndex, LocalsOK, CallerOK, Blinded, At, Go, script, Recreates,
        PastRemove, TriggerUid, Goto, request, locals
<1>11. Firing(c)'
  BY <1>1, WatchFacts DEF WriteIndex, LocalsOK, CallerOK, Placed, Firing, At, Go, Writes,
        request
<1>12. Indexing(c)'
  BY <1>1, WatchFacts DEF WriteIndex, LocalsOK, CallerOK, Indexing, At, Go, Listed, Stored,
        Goto, request
<1>13. \A i \in Ids : ~Concerns(c, i) => Apart(c, i)'
  BY <1>1 DEF WriteIndex, LocalsOK, Go, Writes, Goto, request, Apart, Passing, Concerns,
        Shifting, Mapping
<1>14. ASSUME NEW i \in Ids, Concerns(c, i) PROVE DefinitionOK(i)'
  <2>1. Own(c, i) /\ Sound(def[i], i) /\ id[c] = i /\ Writes(c)
    BY <1>14, OwnHolds DEF Concerns
  <2>2. /\ UNCHANGED <<def, uidMap, project, made, id, call, want, old, healthy, new, faults>>
        /\ pc[c] = "index"
        /\ pc'[c] = IF call[c] # "upsert" THEN "done"
                    ELSE IF old[c].uid # NoUid THEN "unmap"
                    ELSE IF want[c].on THEN "map" ELSE "done"
    BY <1>1, <2>1 DEF WriteIndex, LocalsOK, At, Go, Goto, script, request, locals
  <2>3. /\ i \in overlapped \cup harmed => i \in overlapped' \cup harmed'
        /\ i \in overlapped => i \in overlapped'
        /\ i \notin overlapped /\ call[c] = "upsert" => def[i].uid = TriggerUid(c)
    BY <1>1, <2>1, <2>2, WatchFacts DEF CallerOK, Fresh
  <2>4. /\ ~Shifting(c, i) /\ ~Shifting(c, i)'
        /\ Mapping(c, i) => Mapping(c, i)' \/ TriggerUid(c) = NoUid
        /\ call[c] # "upsert" => ~Mapping(c, i)
        /\ Passing(c, i) => Passing(c, i)' \/ old[c].uid = NoUid
    BY <2>1, <2>2 DEF Shifting, Mapping, Passing, PastRemove, Writes, TriggerUid
  <2>5. NoUid \notin TriggersOf(i)
    BY <1>1 DEF StoreOK, TriggersOf, NoUid
  <2>6. TriggersOf(i)' = TriggersOf(i)
    BY <2>2 DEF TriggersOf, Owner
  <2>7. i \notin overlapped' \cup harmed' =>
          /\ TriggersOf(i)' = {def'[i].uid} \ {NoUid}
          /\ def'[i].uid = NoUid \/ uidMap'[def'[i].uid] = i \/ Mapping(c, i)'
    BY <2>1, <2>2, <2>3, <2>4, <2>6 DEF Own
  <2>8. i \notin overlapped' /\ faults' < 2 =>
          \A u \in TriggersOf(i)' \ {def'[i].uid} :
            uidMap'[u] = NoId \/ (Passing(c, i)' /\ old'[c].uid = u)
    BY <2>1, <2>2, <2>3, <2>4, <2>5, <2>6 DEF Own
  <2>9. Own(c, i)' /\ Sound(def[i], i)'
    BY <2>1, <2>2, <2>4, <2>7, <2>8 DEF Own, Sound
  <2> QED BY <1>4, <1>14, <2>9, OwnKept
<1>15. Writes(c)' \/ ~Writes(c) \/ (~raced' => Listed' = Stored')
  BY <1>1 DEF WriteIndex, LocalsOK, Go, Writes, request
<1> QED BY <1>2, <1>3, <1>4, <1>5, <1>6, <1>7, <1>8, <1>9, <1>10, <1>11, <1>12, <1>13, <1>14, <1>15,
          Assembled DEF CallerOK

LEMMA UnmapStep ==
  ASSUME IInv, NEW c \in Callers, Unmap(c), Watch(c)
  PROVE  IInv'
<1>1. StoreOK /\ LocalsOK /\ CallerOK(c)
  BY DEF IInv, TypeOK, StoreOK
<1>2. StoreOK'
  <2>1. NoId \in Ids \cup {NoId}
    BY <1>1
  <2>2. uidMap' = [u \in DOMAIN uidMap |-> IF u \in Unmapped(c) THEN NoId ELSE uidMap[u]]
    BY DEF Unmap
  <2>3. UNCHANGED <<def, index, made, project, asked, faults>>
    BY DEF Unmap, Go, script, request
  <2> QED BY <1>1, <2>1, <2>2, <2>3, Remapped, WatchFacts DEF StoreOK
<1>3. LocalsOK'
  BY <1>1 DEF Unmap, StoreOK, LocalsOK, Go, Points, Goto, request, locals
<1>4. Tolerable(c)
  <2>1. NoId \in Ids \cup {NoId}
    BY <1>1
  <2>2. uidMap' = [u \in DOMAIN uidMap |-> IF u \in Unmapped(c) THEN NoId ELSE uidMap[u]]
    BY DEF Unmap
  <2>3. UNCHANGED <<def, index, made, project, asked, faults>>
    BY DEF Unmap, Go, script, request
  <2>4. \A u \in 1 .. Len(made) : uidMap'[u] = uidMap[u] \/ u \in Unmapped(c)
    BY <1>1, <2>1, <2>2, Remapped
  <2>5. \A u \in 1 .. Len(made) : u \in Unmapped(c) => Concerns(c, Owner(u))
    BY <1>1 DEF Unmap, LocalsOK, CallerOK, Placed, Decided, Sound, At, Unmapped, Concerns,
        Owner, HasRead
  <2>6. \A d \in Callers \ {c} : Same(d)
    BY <1>1 DEF Unmap, LocalsOK, Go, Goto, request, locals, Same
  <2>7. Len(made) \in Nat /\ project \subseteq 1 .. Len(made) /\ faults <= faults'
    BY <1>1, <2>3, TriggersAssumption DEF StoreOK
  <2> QED BY <2>3, <2>4, <2>5, <2>6, <2>7 DEF Tolerable
<1>5. MapSound'
  <2>1. NoId \in Ids \cup {NoId}
    BY <1>1
  <2>2. uidMap' = [u \in DOMAIN uidMap |-> IF u \in Unmapped(c) THEN NoId ELSE uidMap[u]]
    BY DEF Unmap
  <2>3. UNCHANGED <<def, index, made, project, asked, faults>>
    BY DEF Unmap, Go, script, request
  <2>4. \A u \in 1 .. Len(made) : u \in Unmapped(c) => NoId \in {NoId, Owner(u)}
    OBVIOUS
  <2> QED BY <1>1, <2>1, <2>2, <2>3, <2>4, Remapped DEF MapSound, IInv, Owner
<1>6. Placed(c)'
  BY <1>1 DEF Unmap, LocalsOK, CallerOK, Placed, At, Go, Writes, Goto, request, locals
<1>7. Decided(c)'
  BY <1>1 DEF Unmap, LocalsOK, CallerOK, Decided, Sound, At, Go, script, HasRead, Recreates,
        Goto, request, locals
<1>8. Fresh(c)'
  BY <1>1, WatchFacts DEF Unmap, LocalsOK, CallerOK, Placed, Fresh, At, Go, Recreates,
        TriggerUid, Goto, request, locals
<1>9. Kept(c)'
  BY <1>1, WatchFacts DEF Unmap, LocalsOK, CallerOK, Kept, At, Go, script, Recreates,
        TriggerUid, Goto, request, locals
<1>10. Blinded(c)'
  BY <1>1 DEF Unmap, LocalsOK, Blinded, Go, PastRemove, Goto
<1>11. Firing(c)'
  BY <1>1, WatchFacts DEF Unmap, LocalsOK, CallerOK, Firing, At, Go, script, Owner, Goto,
        request
<1>12. Indexing(c)'
  BY <1>1, WatchFacts DEF Unmap, LocalsOK, CallerOK, Indexing, At, Go, Listed, Stored, Goto,
        request, locals
<1>13. \A i \in Ids : ~Concerns(c, i) => Apart(c, i)'
  BY <1>1 DEF Unmap, LocalsOK, Go, Writes, Goto, request, Apart, Passing, Concerns,
        Shifting, Mapping
<1>14. ASSUME NEW i \in Ids, Concerns(c, i) PROVE DefinitionOK(i)'
  <2>1. Own(c, i) /\ Sound(def[i], i) /\ id[c] = i /\ Writes(c)
    BY <1>14, OwnHolds DEF Concerns
  <2>2. /\ UNCHANGED <<def, project, made, id, call, want, old, healthy, new, faults>>
        /\ pc[c] = "unmap"
        /\ uidMap' = [u \in DOMAIN uidMap |-> IF u = old[c].uid THEN NoId ELSE uidMap[u]]
        /\ pc'[c] = IF call[c] # "upsert" THEN "next" ELSE IF want[c].on THEN "map" ELSE "done"
    BY <1>1, <2>1 DEF Unmap, Unmapped, LocalsOK, At, Go, Goto, script, request, locals
  <2>3. /\ i \in overlapped \cup harmed => i \in overlapped' \cup harmed'
        /\ i \in overlapped => i \in overlapped'
        /\ i \notin overlapped => def[i].uid = IF call[c] = "upsert" THEN TriggerUid(c) ELSE NoUid
    BY <1>1, <2>1, <2>2, WatchFacts DEF CallerOK, Fresh, NoDef
  <2>4. /\ ~Shifting(c, i) /\ ~Shifting(c, i)'
        /\ Mapping(c, i)' \/ call[c] # "upsert" \/ TriggerUid(c) = NoUid
    BY <2>1, <2>2 DEF Shifting, Mapping, TriggerUid
  <2>5. TriggersOf(i) \subseteq DOMAIN uidMap
    <3>1. DOMAIN uidMap = 1 .. Len(made) /\ project \subseteq 1 .. Len(made)
      BY <1>1 DEF StoreOK
    <3> QED BY <3>1 DEF TriggersOf
  <2>6. TriggersOf(i)' = TriggersOf(i)
    BY <2>2 DEF TriggersOf, Owner
  <2>7. i \notin overlapped' \cup harmed' =>
          /\ TriggersOf(i)' = {def'[i].uid} \ {NoUid}
          /\ def'[i].uid = NoUid \/ Mapping(c, i)'
    BY <2>1, <2>2, <2>3, <2>4, <2>6 DEF Own
  <2>8. i \notin overlapped' /\ faults' < 2 =>
          \A u \in TriggersOf(i)' \ {def'[i].uid} : uidMap'[u] = NoId
    BY <2>1, <2>2, <2>3, <2>5, <2>6 DEF Own
  <2>9. Own(c, i)' /\ Sound(def[i], i)'
    BY <2>1, <2>2, <2>4, <2>7, <2>8 DEF Own, Sound
  <2> QED BY <1>4, <1>14, <2>9, OwnKept
<1>15. Writes(c)' \/ ~Writes(c) \/ (~raced' => Listed' = Stored')
  BY <1>1 DEF Unmap, LocalsOK, Go, Writes, request
<1> QED BY <1>2, <1>3, <1>4, <1>5, <1>6, <1>7, <1>8, <1>9, <1>10, <1>11, <1>12, <1>13, <1>14, <1>15,
          Assembled DEF CallerOK

LEMMA MapStep ==
  ASSUME IInv, NEW c \in Callers, Map(c), Watch(c)
  PROVE  IInv'
<1>1. StoreOK /\ LocalsOK /\ CallerOK(c)
  BY DEF IInv, TypeOK, StoreOK
<1>2. StoreOK'
  <2>1. id[c] \in Ids \cup {NoId}
    BY <1>1 DEF LocalsOK
  <2>2. uidMap' = [u \in DOMAIN uidMap |-> IF u \in Mapped(c) THEN id[c] ELSE uidMap[u]]
    BY DEF Map
  <2>3. UNCHANGED <<def, index, made, project, asked, faults>>
    BY DEF Map, Go, script, request
  <2> QED BY <1>1, <2>1, <2>2, <2>3, Remapped, WatchFacts DEF StoreOK
<1>3. LocalsOK'
  BY <1>1 DEF Map, StoreOK, LocalsOK, Go, Points, Goto, request, locals
<1>4. Tolerable(c)
  <2>1. id[c] \in Ids \cup {NoId}
    BY <1>1 DEF LocalsOK
  <2>2. uidMap' = [u \in DOMAIN uidMap |-> IF u \in Mapped(c) THEN id[c] ELSE uidMap[u]]
    BY DEF Map
  <2>3. UNCHANGED <<def, index, made, project, asked, faults>>
    BY DEF Map, Go, script, request
  <2>4. \A u \in 1 .. Len(made) : uidMap'[u] = uidMap[u] \/ u \in Mapped(c)
    BY <1>1, <2>1, <2>2, Remapped
  <2>5. \A u \in 1 .. Len(made) : u \in Mapped(c) => Concerns(c, Owner(u))
    BY <1>1 DEF Map, LocalsOK, CallerOK, Placed, Decided, Sound, At, Mapped, NoUid, HasRead,
        Concerns, Writes, Owner, TriggerUid
  <2>6. \A d \in Callers \ {c} : Same(d)
    BY <1>1 DEF Map, LocalsOK, Go, Goto, request, locals, Same
  <2>7. Len(made) \in Nat /\ project \subseteq 1 .. Len(made) /\ faults <= faults'
    BY <1>1, <2>3, TriggersAssumption DEF StoreOK
  <2> QED BY <2>3, <2>4, <2>5, <2>6, <2>7 DEF Tolerable
<1>5. MapSound'
  <2>1. id[c] \in Ids \cup {NoId}
    BY <1>1 DEF LocalsOK
  <2>2. uidMap' = [u \in DOMAIN uidMap |-> IF u \in Mapped(c) THEN id[c] ELSE uidMap[u]]
    BY DEF Map
  <2>3. UNCHANGED <<def, index, made, project, asked, faults>>
    BY DEF Map, Go, script, request
  <2>4. \A u \in 1 .. Len(made) : u \in Mapped(c) => id[c] \in {NoId, Owner(u)}
    BY <1>1 DEF Map, LocalsOK, CallerOK, Placed, Decided, Sound, At, Mapped, NoUid, HasRead,
        Owner, TriggerUid
  <2> QED BY <1>1, <2>1, <2>2, <2>3, <2>4, Remapped DEF MapSound, IInv, Owner
<1>6. Placed(c)'
  BY <1>1 DEF Map, LocalsOK, CallerOK, Placed, At, Go, Writes, Goto, request, locals
<1>7. Decided(c)'
  BY <1>1 DEF Map, LocalsOK, CallerOK, Decided, Sound, At, Go, script, HasRead, Recreates,
        Goto, request, locals
<1>8. Fresh(c)'
  BY <1>1, WatchFacts DEF Map, LocalsOK, CallerOK, Fresh, At, Go, Writes, Recreates,
        TriggerUid, Goto, request, locals
<1>9. Kept(c)'
  BY <1>1, WatchFacts DEF Map, LocalsOK, CallerOK, Kept, At, Go, script, Recreates,
        TriggerUid, Goto, request, locals
<1>10. Blinded(c)'
  BY <1>1 DEF Map, LocalsOK, Blinded, Go, PastRemove, Goto
<1>11. Firing(c)'
  BY <1>1, WatchFacts DEF Map, LocalsOK, CallerOK, Placed, Firing, At, Go, request
<1>12. Indexing(c)'
  BY <1>1, WatchFacts DEF Map, LocalsOK, CallerOK, Placed, Indexing, At, Go, Listed, Stored,
        Goto
<1>13. \A i \in Ids : ~Concerns(c, i) => Apart(c, i)'
  BY <1>1 DEF Map, LocalsOK, Go, Goto, Apart, Passing, Shifting, Mapping
<1>14. ASSUME NEW i \in Ids, Concerns(c, i) PROVE DefinitionOK(i)'
  <2>1. Own(c, i) /\ Sound(def[i], i) /\ id[c] = i /\ Writes(c)
    BY <1>14, OwnHolds DEF Concerns
  <2>2. /\ UNCHANGED <<def, project, made, id, call, want, old, healthy, new, faults>>
        /\ pc[c] = "map" /\ call[c] = "upsert" /\ pc'[c] = "done"
        /\ uidMap' = [u \in DOMAIN uidMap |-> IF u = TriggerUid(c) THEN i ELSE uidMap[u]]
        /\ DOMAIN uidMap = 1 .. Len(made)
    BY <1>1, <2>1 DEF Map, Mapped, StoreOK, LocalsOK, At, Go, Goto, script, request, locals,
        CallerOK, Placed
  <2>3. /\ i \in overlapped \cup harmed => i \in overlapped' \cup harmed'
        /\ i \in overlapped => i \in overlapped'
        /\ i \notin overlapped => def[i].uid = TriggerUid(c)
    BY <1>1, <2>1, <2>2, WatchFacts DEF CallerOK, Fresh
  <2>4. ~Shifting(c, i) /\ ~Shifting(c, i)' /\ ~Passing(c, i)
    BY <2>2 DEF Shifting, Passing
  <2>5. /\ TriggersOf(i) \subseteq DOMAIN uidMap
        /\ def[i].uid # NoUid => def[i].uid \in DOMAIN uidMap
    BY <1>1, <2>1, <2>2 DEF StoreOK, TriggersOf, Sound
  <2>6. TriggersOf(i)' = TriggersOf(i)
    BY <2>2 DEF TriggersOf, Owner
  <2>7. i \notin overlapped' \cup harmed' =>
          /\ TriggersOf(i)' = {def'[i].uid} \ {NoUid}
          /\ def'[i].uid = NoUid \/ uidMap'[def'[i].uid] = i
    BY <2>1, <2>2, <2>3, <2>4, <2>5, <2>6 DEF Own
  <2>8. i \notin overlapped' /\ faults' < 2 =>
          \A u \in TriggersOf(i)' \ {def'[i].uid} : uidMap'[u] = NoId
    BY <2>1, <2>2, <2>3, <2>4, <2>5, <2>6 DEF Own
  <2>9. Own(c, i)' /\ Sound(def[i], i)'
    BY <2>1, <2>2, <2>4, <2>7, <2>8 DEF Own, Sound
  <2> QED BY <1>4, <1>14, <2>9, OwnKept
<1>15. Writes(c)' \/ ~Writes(c) \/ (~raced' => Listed' = Stored')
  BY <1>1 DEF Map, LocalsOK, Go, Writes, request
<1> QED BY <1>2, <1>3, <1>4, <1>5, <1>6, <1>7, <1>8, <1>9, <1>10, <1>11, <1>12, <1>13, <1>14, <1>15,
          Assembled DEF CallerOK

LEMMA DropDefinitionStep ==
  ASSUME IInv, NEW c \in Callers, DropDefinition(c), Watch(c)
  PROVE  IInv'
<1>1. StoreOK /\ LocalsOK /\ CallerOK(c)
  BY DEF IInv, TypeOK, StoreOK
<1>2. StoreOK'
  BY <1>1, WatchFacts DEF DropDefinition, StoreOK, LocalsOK, CallerOK, Placed, At, NoDef,
        script, request, AnyWant
<1>3. LocalsOK'
  BY <1>1 DEF DropDefinition, StoreOK, LocalsOK, CallerOK, Placed, At, Goto, request, Points
<1>4. Tolerable(c)
  BY <1>1 DEF DropDefinition, StoreOK, CallerOK, Placed, At, Goto, script, request,
        Tolerable, Same, Concerns, Writes
<1>5. MapSound'
  BY <1>1 DEF DropDefinition, StoreOK, MapSound, Owner, script, IInv
<1>6. Placed(c)'
  BY <1>1 DEF DropDefinition, LocalsOK, CallerOK, Placed, At, Goto, request, Writes
<1>7. Decided(c)'
  BY <1>1 DEF DropDefinition, LocalsOK, CallerOK, Placed, Decided, Sound, At, Goto, script,
        request, HasRead
<1>8. Fresh(c)'
  BY <1>1, WatchFacts DEF DropDefinition, LocalsOK, CallerOK, Placed, Fresh, StoreOK, At,
        Goto, request
<1>9. Kept(c)'
  BY <1>1, WatchFacts DEF DropDefinition, LocalsOK, CallerOK, Placed, Kept, At, Goto,
        request
<1>10. Blinded(c)'
  BY <1>1 DEF DropDefinition, LocalsOK, CallerOK, Placed, Blinded, At, script, PastRemove
<1>11. Firing(c)'
  BY <1>1, WatchFacts DEF DropDefinition, LocalsOK, CallerOK, Placed, Firing, At, request
<1>12. Indexing(c)'
  BY <1>1, WatchFacts DEF DropDefinition, LocalsOK, CallerOK, Placed, Indexing, StoreOK, At,
        Goto, request, Listed, Stored
<1>13. \A i \in Ids : ~Concerns(c, i) => Apart(c, i)'
  BY <1>1 DEF DropDefinition, LocalsOK, CallerOK, Placed, At, Apart, Passing, Concerns,
        Shifting, Mapping, Writes, request
<1>14. ASSUME NEW i \in Ids, Concerns(c, i) PROVE DefinitionOK(i)'
  <2>1. Own(c, i) /\ Sound(def[i], i) /\ id[c] = i /\ Writes(c)
    BY <1>14, OwnHolds DEF Concerns
  <2>2. /\ def'[i] = NoDef
        /\ UNCHANGED <<uidMap, project, made, id, call, old, faults>>
        /\ pc[c] = "drop" /\ call[c] # "upsert"
        /\ pc'[c] = IF old[c].uid # NoUid THEN "unmap" ELSE "next"
        /\ Sound(old[c], i)
    BY <1>1, <2>1 DEF DropDefinition, StoreOK, LocalsOK, At, Goto, script, request,
        CallerOK, Placed, Decided, HasRead
  <2>3. /\ i \in overlapped \cup harmed => i \in overlapped' \cup harmed'
        /\ i \in overlapped => i \in overlapped'
        /\ i \notin overlapped => old[c] = def[i]
    BY <1>1, <2>1, <2>2, WatchFacts DEF CallerOK, Fresh
  <2>4. /\ Shifting(c, i) /\ ShiftedTo(c) = {} /\ ~Passing(c, i) /\ ~Shifting(c, i)'
        /\ old[c].uid # NoUid => Passing(c, i)'
    BY <2>1, <2>2 DEF Shifting, ShiftedTo, Passing, PastRemove, Writes
  <2>5. NoUid \notin TriggersOf(i)
    BY <1>1 DEF StoreOK, TriggersOf, NoUid
  <2>6. TriggersOf(i)' = TriggersOf(i)
    BY <2>2 DEF TriggersOf, Owner
  <2>7. i \notin overlapped' \cup harmed' => TriggersOf(i)' = {} /\ def'[i].uid = NoUid
    BY <2>1, <2>2, <2>3, <2>4, <2>6 DEF Own, NoDef
  <2>8. i \notin overlapped' /\ faults' < 2 =>
          \A u \in TriggersOf(i)' \ {def'[i].uid} :
            uidMap'[u] = NoId \/ (Passing(c, i)' /\ old'[c].uid = u)
    BY <2>1, <2>2, <2>3, <2>4, <2>5, <2>6 DEF Own
  <2>9. Own(c, i)' /\ Sound(def[i], i)'
    BY <2>2, <2>4, <2>7, <2>8 DEF Own, Sound, NoDef, NoWant
  <2> QED BY <1>4, <1>14, <2>9, OwnKept
<1>15. Writes(c)' \/ ~Writes(c) \/ (~raced' => Listed' = Stored')
  BY <1>1 DEF DropDefinition, LocalsOK, Writes, request
<1> QED BY <1>2, <1>3, <1>4, <1>5, <1>6, <1>7, <1>8, <1>9, <1>10, <1>11, <1>12, <1>13, <1>14, <1>15,
          Assembled DEF CallerOK

LEMMA CreateStep ==
  ASSUME IInv, NEW c \in Callers, Create(c), Watch(c)
  PROVE  IInv'
<1>1. StoreOK /\ LocalsOK /\ CallerOK(c)
  BY DEF IInv, TypeOK, StoreOK
<1>2. /\ pc[c] = "create" /\ call[c] = "upsert" /\ id[c] \in Ids /\ want[c].bind \in Nat
      /\ Recreates(c) /\ want[c].on /\ new[c] = NoUid /\ gone[c] = {}
      /\ Sound(old[c], id[c]) /\ UNCHANGED <<def, index>>
  <2>1. want[c] \in AnyWant
    BY <1>1 DEF LocalsOK
  <2>2. want[c].bind \in Nat
    BY <2>1 DEF AnyWant, Definitions, NoWant
  <2> QED BY <1>1, <2>2 DEF Create, At, CallerOK, Placed, Decided, HasRead, Recreates
<1>3. /\ made \in Seq([id : Ids, bind : Nat]) /\ uidMap \in Seq(Ids \cup {NoId})
      /\ Len(made) \in Nat /\ Len(uidMap) = Len(made)
      /\ project \subseteq 1 .. Len(made)
  BY <1>1 DEF StoreOK
<1>4. CASE UNCHANGED made
  <2>1. Leave(c) /\ UNCHANGED <<props, script>> /\ faults < MaxFaults /\ faults' = faults + 1
    <3>1. Len(made) + 1 # Len(made)
      BY <1>3
    <3>2. made' # Append(made, [id |-> id[c], bind |-> want[c].bind])
      BY <1>2, <1>3, <1>4, <3>1
    <3> QED BY <1>2, <3>2 DEF Create, Strike, props
  <2>2. LocalsOK' /\ CallerOK(c)' /\ \A i \in Ids : Apart(c, i)'
    BY <1>1, <2>1, LeftOK
  <2>3. Quiet(c)
    BY <1>1, <2>1, LeftOK, TriggersAssumption DEF Quiet, StoreOK
  <2>4. \A i \in Ids : Apart(c, i)
    BY <1>2 DEF Apart, Shifting, Mapping, Passing
  <2>5. Listed' = Stored' \/ raced
    BY <1>1, <1>2 DEF CallerOK, Indexing, Listed, Stored
  <2>6. ~raced' => ~raced
    BY <1>1, WatchFacts
  <2> QED BY <2>2, <2>3, <2>4, <2>5, <2>6, QuietStep
<1>5. CASE made' # made
  <2> DEFINE n == Len(made) + 1
             this == [id |-> id[c], bind |-> want[c].bind]
  <2>1. /\ made' = Append(made, this) /\ uidMap' = Append(uidMap, NoId)
        /\ project' = project \cup {n}
        /\ new' = [new EXCEPT ![c] = n]
        /\ pc' = [pc EXCEPT ![c] = IF Removes(c) THEN "remove" ELSE "write"]
        /\ UNCHANGED <<call, id, want, event, asked, old, healthy, ids, gone, faults>>
    BY <1>5 DEF Create, Goto, script, request
  <2>2. /\ Len(made') = n /\ Len(uidMap') = n
        /\ made' \in Seq([id : Ids, bind : Nat]) /\ uidMap' \in Seq(Ids \cup {NoId})
        /\ \A u \in 1 .. Len(made) : made'[u] = made[u] /\ uidMap'[u] = uidMap[u]
        /\ made'[n] = this /\ made'[n].id = id[c] /\ uidMap'[n] = NoId
        /\ n \notin 1 .. Len(made)
    BY <1>2, <1>3, <2>1
  <2>3. /\ new'[c] = n /\ pc'[c] = IF Removes(c) THEN "remove" ELSE "write"
        /\ \A d \in Callers \ {c} : Same(d)
    BY <1>1, <2>1 DEF LocalsOK, Same
  <2>4. StoreOK'
    <3>1. project' \subseteq 1 .. Len(made')
      <4>1. Len(made) \in Nat /\ project \subseteq 1 .. Len(made)
        BY <1>3
      <4>2. project' = project \cup {Len(made) + 1} /\ Len(made') = Len(made) + 1
        BY <2>1, <2>2
      <4>3. \A u \in 1 .. Len(made) : u \in 1 .. Len(made) + 1
        BY <4>1
      <4>4. Len(made) + 1 \in 1 .. Len(made) + 1
        BY <4>1
      <4> QED BY <4>1, <4>2, <4>3, <4>4
    <3> HIDE DEF n, this
    <3> QED BY <1>1, <1>2, <2>1, <2>2, <3>1, WatchFacts DEF StoreOK
  <2>5. LocalsOK'
    BY <1>1, <1>3, <2>1 DEF LocalsOK, Points
  <2>6. Tolerable(c)
    <3>1. \A u \in project' : u \in 1 .. Len(made) \/ Concerns(c, made'[u].id)
      <4> HIDE DEF n, this
      <4> QED BY <1>2, <1>3, <2>1, <2>2 DEF Concerns, Writes
    <3>2. Len(made) <= Len(made') /\ Len(made') \in Nat
      BY <1>3, <2>2
    <3>3. \A u \in 1 .. Len(made) : (u \in project' <=> u \in project) /\ uidMap'[u] = uidMap[u]
      BY <2>1, <2>2
    <3>4. faults <= faults'
      BY <1>1, <2>1, TriggersAssumption DEF StoreOK
    <3>5. /\ Len(made) \in Nat /\ UNCHANGED <<def, index>>
          /\ \A u \in 1 .. Len(made) : made'[u] = made[u]
      BY <1>2, <1>3, <2>2
    <3> QED BY <2>3, <3>1, <3>2, <3>3, <3>4, <3>5 DEF Tolerable
  <2>7. MapSound'
    <3>1. \A u \in 1 .. Len(made) : uidMap'[u] = uidMap[u] /\ made'[u] = made[u]
      BY <2>2
    <3>2. \A u \in 1 .. Len(made') : u \in 1 .. Len(made) \/ uidMap'[u] = NoId
      BY <1>3, <2>2
    <3> QED BY <3>1, <3>2 DEF IInv, MapSound, Owner
  <2>8. Placed(c)'
    BY <1>1, <1>2, <1>3, <2>1, <2>2, <2>3 DEF CallerOK, Placed, Writes
  <2>9. Sound(old[c], id[c])' /\ old[c].uid # n
    BY <1>2, <1>3, <2>1, <2>2 DEF Sound, NoUid
  <2>10. Decided(c)'
    BY <1>1, <1>2, <1>3, <2>1, <2>2, <2>3, <2>9 DEF CallerOK, Decided, Recreates, Removes,
        NoUid
  <2>11. Fresh(c)'
    BY <1>1, <1>2, <2>1, <2>3, WatchFacts DEF LocalsOK, CallerOK, Fresh, Writes
  <2>12. Kept(c)'
    BY <1>2, <2>1, <2>3 DEF Kept, TriggerUid, Recreates
  <2>13. Blinded(c)'
    BY <1>2, <1>3, <2>1, <2>3, <2>9 DEF Blinded, PastRemove, Removes, NoUid
  <2>14. Firing(c)' /\ Indexing(c)'
    <3>1. UNCHANGED <<Listed, Stored>> /\ (~raced' => ~raced)
      BY <1>1, <1>2, WatchFacts DEF Listed, Stored
    <3> QED BY <1>1, <1>2, <2>1, <2>3, <3>1 DEF CallerOK, Firing, Indexing
  <2>15. ASSUME NEW i \in Ids, Concerns(c, i) PROVE DefinitionOK(i)'
    <3>1. Own(c, i) /\ Sound(def[i], i) /\ id[c] = i
      BY <2>15, OwnHolds DEF Concerns
    <3>2. /\ i \in overlapped \cup harmed => i \in overlapped' \cup harmed'
          /\ i \in overlapped => i \in overlapped'
          /\ i \notin overlapped => old[c] = def[i]
      BY <1>1, <1>2, <3>1, WatchFacts DEF CallerOK, Fresh, Writes
    <3>3. /\ ~Shifting(c, i) /\ ~Mapping(c, i) /\ ~Passing(c, i) /\ Shifting(c, i)'
          /\ old[c] = def[i] => ShiftedTo(c)' = {def[i].uid, n} \ {NoUid}
      BY <1>2, <1>3, <2>1, <2>3, <3>1 DEF Shifting, Mapping, Passing, ShiftedTo, TriggerUid,
        Recreates, Removes
    <3>4. TriggersOf(i)' = TriggersOf(i) \cup {n} /\ n # NoUid
      <4>1. n # NoUid
        BY <1>3 DEF NoUid
      <4>2. made'[n].id = i
        BY <2>2, <3>1
      <4> HIDE DEF n, this
      <4> QED BY <1>3, <2>1, <2>2, <4>1, <4>2 DEF TriggersOf, Owner
    <3>5. /\ Sound(def[i], i)'
          /\ def[i].uid # NoUid => def[i].uid \in 1 .. Len(made)
      BY <1>2, <1>3, <2>2, <3>1 DEF Sound
    <3>6. TriggersOf(i) \subseteq 1 .. Len(made)
      BY <1>3 DEF TriggersOf
    <3>7. i \notin overlapped' \cup harmed' =>
            /\ TriggersOf(i)' = ShiftedTo(c)'
            /\ def'[i].uid = NoUid \/ uidMap'[def'[i].uid] = i
      BY <1>2, <2>2, <3>1, <3>2, <3>3, <3>4, <3>5 DEF Own
    <3>8. i \notin overlapped' /\ faults' < 2 =>
            \A u \in TriggersOf(i)' \ {def'[i].uid} : uidMap'[u] = NoId
      BY <1>2, <2>1, <2>2, <3>1, <3>2, <3>3, <3>4, <3>6 DEF Own
    <3>9. Own(c, i)'
      BY <3>3, <3>7, <3>8 DEF Own
    <3> QED BY <2>6, <2>15, <3>5, <3>9, OwnKept
  <2>16. ASSUME NEW i \in Ids, ~Concerns(c, i) PROVE Apart(c, i)'
    BY <1>2, <2>1, <2>16 DEF Concerns, Writes, Apart, Shifting, Mapping, Passing
  <2>17. Writes(c)'
    BY <1>2, <2>1 DEF Writes
  <2> QED BY <2>4, <2>5, <2>6, <2>7, <2>8, <2>10, <2>11, <2>12, <2>13, <2>14, <2>15, <2>16, <2>17,
          Assembled DEF CallerOK
<1> QED BY <1>4, <1>5

\* What a step that may delete triggers of its own definition leaves of the rest.
Deleting(c) ==
  /\ UNCHANGED <<props, made, asked>>
  /\ project' \subseteq project
  /\ \A u \in project \ project' : Concerns(c, Owner(u))
  /\ \A d \in Callers \ {c} : Same(d)
  /\ faults' \in 0 .. MaxFaults /\ faults <= faults'

LEMMA DeletingTolerable ==
  ASSUME IInv, NEW c \in Callers, Watch(c), Deleting(c)
  PROVE  Tolerable(c) /\ StoreOK' /\ MapSound'
<1>1. /\ StoreOK /\ Len(made) \in Nat /\ project \subseteq 1 .. Len(made)
  BY DEF IInv, TypeOK, StoreOK
<1>2. StoreOK'
  BY <1>1, WatchFacts DEF StoreOK, Deleting, props
<1>3. Tolerable(c)
  BY <1>1 DEF Deleting, Tolerable, props
<1>4. MapSound'
  BY DEF IInv, Deleting, MapSound, Owner, props
<1> QED BY <1>2, <1>3, <1>4

LEMMA RollbackStep ==
  ASSUME IInv, NEW c \in Callers, Rollback(c), Watch(c)
  PROVE  IInv'
<1>1. StoreOK /\ LocalsOK /\ CallerOK(c)
  BY DEF IInv, TypeOK, StoreOK
<1>2. /\ pc[c] = "rollback" /\ call[c] = "upsert" /\ id[c] \in Ids /\ Writes(c)
      /\ new[c] # NoUid /\ new[c] # old[c].uid /\ Owner(new[c]) = id[c]
  BY <1>1 DEF Rollback, At, CallerOK, Placed, Decided, Owner, Writes
<1>3. /\ Leave(c) /\ UNCHANGED <<props, made>>
      /\ \/ project' = project \ {new[c]} /\ faults' = faults
         \/ project' = project /\ faults < MaxFaults /\ faults' = faults + 1
  BY DEF Rollback, Strike
<1>4. /\ LocalsOK' /\ CallerOK(c)' /\ \A i \in Ids : Apart(c, i)'
      /\ pc'[c] = "idle"
  BY <1>1, <1>3, LeftOK DEF LocalsOK, Leave, Goto
<1>5. Deleting(c)
  BY <1>1, <1>2, <1>3, LeftOK, TriggersAssumption DEF Deleting, Concerns, StoreOK
<1>6. Tolerable(c) /\ StoreOK' /\ MapSound'
  BY <1>5, DeletingTolerable
<1>7. ASSUME NEW i \in Ids, Concerns(c, i) PROVE DefinitionOK(i)'
  <2>1. Own(c, i) /\ Sound(def[i], i) /\ id[c] = i
    BY <1>7, OwnHolds DEF Concerns
  <2>2. /\ i \in overlapped \cup harmed => i \in overlapped' \cup harmed'
        /\ i \in overlapped => i \in overlapped'
        /\ i \notin overlapped => old[c] = def[i]
        /\ Harms(c) => i \in harmed'
    BY <1>1, <1>2, <2>1, WatchFacts DEF CallerOK, Fresh, Touches
  <2>3. /\ Shifting(c, i) /\ ShiftedTo(c) = {def[i].uid, new[c]} \ {NoUid} /\ ~Passing(c, i)
        /\ ~Mapping(c, i)
    BY <1>2, <2>1 DEF Shifting, ShiftedTo, Passing, Mapping
  <2>4. faults' # faults => Harms(c)
    BY <1>2, <1>4 DEF Harms
  <2>5. TriggersOf(i)' = {u \in TriggersOf(i) : u \in project'}
    BY <1>3 DEF TriggersOf, Owner
  <2>6. faults \in Nat
    BY <1>1, TriggersAssumption DEF StoreOK
  <2>7. i \notin overlapped' \cup harmed' =>
          /\ TriggersOf(i)' = {def'[i].uid} \ {NoUid}
          /\ def'[i].uid = NoUid \/ uidMap'[def'[i].uid] = i
    <3> SUFFICES ASSUME i \notin overlapped' \cup harmed'
                 PROVE  /\ TriggersOf(i)' = {def[i].uid} \ {NoUid}
                        /\ def[i].uid = NoUid \/ uidMap[def[i].uid] = i
      BY <1>3 DEF props
    <3>1. project' = project \ {new[c]}
      BY <1>3, <2>2, <2>4, <2>6
    <3>2. TriggersOf(i)' = TriggersOf(i) \ {new[c]}
      BY <2>5, <3>1 DEF TriggersOf
    <3> QED BY <1>2, <2>1, <2>2, <2>3, <3>2 DEF Own
  <2>8. i \notin overlapped' /\ faults' < 2 =>
          \A u \in TriggersOf(i)' \ {def'[i].uid} : uidMap'[u] = NoId
    BY <1>3, <2>1, <2>2, <2>3, <2>5, <2>6 DEF Own, props
  <2>9. Own(c, i)' /\ Sound(def[i], i)'
    BY <1>3, <1>4, <2>1, <2>7, <2>8 DEF Own, Apart, Sound, props
  <2> QED BY <1>6, <1>7, <2>9, OwnKept
<1>8. ~raced' => Listed' = Stored'
  BY <1>1, <1>2, <1>3, WatchFacts DEF CallerOK, Indexing, Listed, Stored, props
<1> QED BY <1>4, <1>6, <1>7, <1>8, Assembled

LEMMA RemoveStep ==
  ASSUME IInv, NEW c \in Callers, Remove(c), Watch(c)
  PROVE  IInv'
<1> DEFINE after == IF call[c] = "upsert" THEN "write" ELSE "drop"
           uid == old[c].uid
<1>1. StoreOK /\ LocalsOK /\ CallerOK(c)
  BY DEF IInv, TypeOK, StoreOK
<1>2. /\ pc[c] = "remove" /\ Writes(c) /\ id[c] \in Ids /\ Sound(old[c], id[c])
      /\ uid # NoUid /\ uid \in 1 .. Len(made) /\ Owner(uid) = id[c] /\ Concerns(c, id[c])
      /\ new[c] # NoUid => call[c] = "upsert" /\ new[c] # uid
      /\ call[c] = "upsert" => Removes(c) /\ (Recreates(c) <=> new[c] # NoUid)
  BY <1>1 DEF Remove, At, CallerOK, Placed, Decided, HasRead, Sound, Owner, Concerns
<1>3. /\ UNCHANGED <<props, made>>
      /\ \/ project' = project \ {uid} /\ Go(c, after) /\ faults' = faults
         \/ project' = project /\ Go(c, after) /\ faults < MaxFaults /\ faults' = faults + 1
         \/ /\ project' = project /\ faults < MaxFaults /\ faults' = faults + 1
            /\ IF new[c] # NoUid THEN Go(c, "rollback") ELSE Leave(c)
  BY DEF Remove, Strike
<1>4. Deleting(c) /\ LocalsOK'
  <2>1. ASSUME NEW point \in Points, Go(c, point)
        PROVE  LocalsOK' /\ asked' = asked /\ \A d \in Callers \ {c} : Same(d)
    BY <1>1, <2>1 DEF LocalsOK, Go, Goto, Same, request, locals
  <2>2. after \in Points /\ "rollback" \in Points
    BY DEF Points
  <2>3. LocalsOK' /\ asked' = asked /\ \A d \in Callers \ {c} : Same(d)
    BY <1>1, <1>3, <2>1, <2>2, LeftOK
  <2>4. faults' \in 0 .. MaxFaults /\ faults <= faults'
    BY <1>1, <1>3, TriggersAssumption DEF StoreOK
  <2>5. project' \subseteq project /\ \A u \in project \ project' : u = uid
    BY <1>3
  <2> HIDE DEF uid
  <2> QED BY <1>2, <1>3, <2>3, <2>4, <2>5 DEF Deleting
<1>5. Tolerable(c) /\ StoreOK' /\ MapSound'
  BY <1>4, DeletingTolerable
<1>6. /\ faults \in Nat /\ project \subseteq 1 .. Len(made) /\ NoUid \notin project
      /\ \A i \in Ids : i \in harmed => i \in harmed'
      /\ \A i \in Ids : i \in overlapped => i \in overlapped'
      /\ Harms(c) => id[c] \in harmed'
      /\ ~raced' => ~raced /\ ~Harms(c)
      /\ c \in alone' /\ pc'[c] # "idle" => c \in alone
  <2>1. faults \in Nat /\ project \subseteq 1 .. Len(made) /\ NoUid \notin project
    BY <1>1, TriggersAssumption DEF StoreOK, NoUid
  <2>2. Touches(c, id[c])
    BY <1>2 DEF Concerns, Touches, Writes
  <2> HIDE DEF after, uid
  <2> QED BY <1>1, <1>2, <2>1, <2>2, WatchFacts
\* It goes on, and has deleted the trigger or met a fault.
<1>7. CASE Go(c, after) \/ Go(c, "rollback")
  <2>1. /\ UNCHANGED <<call, id, want, event, old, healthy, new, ids, gone>>
        /\ \/ project' = project \ {uid} /\ pc'[c] = after /\ faults' = faults
           \/ project' = project /\ pc'[c] = after /\ faults' = faults + 1
           \/ project' = project /\ pc'[c] = "rollback" /\ new[c] # NoUid /\ faults' = faults + 1
    <3>1. \A point \in Points : Go(c, point) => pc'[c] = point
      BY <1>1 DEF LocalsOK, Go, Goto
    <3>2. Leave(c) => pc'[c] = "idle"
      BY <1>1 DEF LocalsOK, Leave, Goto
    <3>3. after \in {"write", "drop"} /\ after \in Points /\ "rollback" \in Points
      BY DEF Points
    <3>4. UNCHANGED <<call, id, want, event, old, healthy, new, ids, gone>>
      BY <1>7 DEF Go, request, locals
    <3> HIDE DEF after, uid
    <3> QED BY <1>3, <1>7, <3>1, <3>2, <3>3, <3>4
  <2>2. Placed(c)'
    BY <1>1, <1>2, <1>3, <2>1 DEF CallerOK, Placed, Writes
  <2>3. Decided(c)'
    BY <1>1, <1>2, <1>3, <2>1 DEF CallerOK, Decided, Sound, Recreates
  <2>4. Fresh(c)'
    BY <1>1, <1>2, <1>3, <1>6, <2>1 DEF CallerOK, Fresh, props
  <2>5. Kept(c)'
    BY <1>1, <1>2, <1>6, <2>1 DEF CallerOK, Kept, TriggerUid, Recreates, Removes, Writes
  <2>6. Blinded(c)'
    BY <1>2, <1>6, <2>1 DEF Blinded, PastRemove
  <2>7. Firing(c)' /\ Indexing(c)'
    BY <1>1, <1>2, <1>3, <1>6, <2>1 DEF CallerOK, Firing, Indexing, Writes, Listed, Stored,
        props
  <2>8. ASSUME NEW i \in Ids, Concerns(c, i) PROVE DefinitionOK(i)'
    <3>1. Own(c, i) /\ Sound(def[i], i) /\ id[c] = i /\ UNCHANGED <<def, uidMap>>
      BY <1>3, <2>8, OwnHolds DEF Concerns, props
    <3>2. i \notin overlapped => old[c] = def[i]
      BY <1>1, <1>2, <3>1 DEF CallerOK, Fresh
    <3>3. /\ ~Passing(c, i) /\ ~Mapping(c, i) /\ Shifting(c, i)'
          /\ Shifting(c, i) <=> call[c] = "upsert"
          /\ ShiftedTo(c) = {def[i].uid, new[c]} \ {NoUid}
      BY <1>2, <2>1, <3>1 DEF Shifting, ShiftedTo, Passing, Mapping
    <3>4. project' = project \ {uid} /\ pc'[c] = after => ShiftedTo(c)' = {new[c]} \ {NoUid}
      BY <1>1, <1>2, <2>1 DEF ShiftedTo, TriggerUid, Recreates, Removes
    <3>5. pc'[c] = "rollback" => ShiftedTo(c)' = ShiftedTo(c) /\ call[c] = "upsert"
      BY <1>2, <2>1, <3>1, <3>3 DEF ShiftedTo
    <3>6. TriggersOf(i)' = {u \in TriggersOf(i) : u \in project'} /\ TriggersOf(i) \subseteq project
      BY <1>3, <1>4 DEF TriggersOf, Owner, Deleting
    <3>7. pc'[c] = after /\ faults' # faults => Harms(c)
      BY <1>2, <2>1 DEF Harms
    <3>8. i \notin overlapped' \cup harmed' =>
            /\ TriggersOf(i)' = ShiftedTo(c)'
            /\ def'[i].uid = NoUid \/ uidMap'[def'[i].uid] = i
      <4> SUFFICES ASSUME i \notin overlapped' \cup harmed'
                   PROVE  /\ TriggersOf(i)' = ShiftedTo(c)'
                          /\ def[i].uid = NoUid \/ uidMap[def[i].uid] = i
        BY <3>1
      <4>1. /\ TriggersOf(i) = IF call[c] = "upsert" THEN ShiftedTo(c) ELSE {def[i].uid} \ {NoUid}
            /\ def[i].uid = NoUid \/ uidMap[def[i].uid] = i
        BY <1>6, <3>1, <3>3 DEF Own
      <4>2. CASE project' = project \ {uid} /\ pc'[c] = after
        <5>1. TriggersOf(i)' = TriggersOf(i) \ {uid}
          BY <3>6, <4>2
        <5>2. def[i].uid = uid
          BY <1>6, <3>2
        <5> HIDE DEF uid
        <5> QED BY <1>2, <3>3, <3>4, <4>1, <4>2, <5>1, <5>2
      <4>3. CASE project' = project /\ pc'[c] = "rollback"
        BY <3>5, <3>6, <4>1, <4>3
      <4>4. project' = project /\ pc'[c] = after => faults' = faults
        BY <1>6, <3>1, <3>7
      <4> QED BY <1>6, <2>1, <4>1, <4>2, <4>3, <4>4
    <3>9. i \notin overlapped' /\ faults' < 2 =>
            \A u \in TriggersOf(i)' \ {def'[i].uid} : uidMap'[u] = NoId
      BY <1>4, <1>6, <2>1, <3>1, <3>3, <3>6 DEF Own, Deleting
    <3>10. Own(c, i)' /\ Sound(def[i], i)'
      BY <1>3, <3>1, <3>3, <3>8, <3>9 DEF Own, Sound
    <3> QED BY <1>5, <2>8, <3>10, OwnKept
  <2>9. ASSUME NEW i \in Ids, ~Concerns(c, i) PROVE Apart(c, i)'
    BY <1>2, <2>1, <2>9 DEF Concerns, Writes, Apart, Shifting, Mapping, Passing
  <2>10. Writes(c)'
    BY <1>2, <2>1 DEF Writes
  <2> QED BY <1>4, <1>5, <2>2, <2>3, <2>4, <2>5, <2>6, <2>7, <2>8, <2>9, <2>10, Assembled DEF CallerOK
\* It gives up before it has changed anything.
<1>8. CASE Leave(c) /\ project' = project /\ new[c] = NoUid /\ faults' = faults + 1
  <2>1. /\ CallerOK(c)' /\ \A i \in Ids : Apart(c, i)'
        /\ UNCHANGED <<props, made>>
    BY <1>1, <1>3, <1>8, LeftOK
  <2>2. ASSUME NEW i \in Ids, Concerns(c, i) PROVE DefinitionOK(i)'
    <3>1. Own(c, i) /\ Sound(def[i], i) /\ UNCHANGED <<def, uidMap, made>>
      BY <2>1, <2>2, OwnHolds DEF props
    <3>2. TriggersOf(i)' = TriggersOf(i)
      BY <1>8, <2>1 DEF TriggersOf, Owner
    <3>3. /\ ~Passing(c, i) /\ ~Mapping(c, i)
          /\ Shifting(c, i) => ShiftedTo(c) = {def[i].uid} \ {NoUid}
      BY <1>2, <1>8, <2>2 DEF Shifting, ShiftedTo, Passing, Mapping
    <3>4. ~Shifting(c, i)' /\ ~Mapping(c, i)' /\ ~Passing(c, i)'
      BY <2>1 DEF Apart
    <3>5. faults' < 2 => faults < 2
      BY <1>6, <1>8
    <3>6. Own(c, i)' /\ Sound(def[i], i)'
      BY <1>6, <3>1, <3>2, <3>3, <3>4, <3>5 DEF Own, Sound
    <3> QED BY <1>5, <2>2, <3>6, OwnKept
  <2>3. ~raced' => Listed' = Stored'
    <3> SUFFICES ASSUME ~raced' PROVE Listed = Stored
      BY <1>3 DEF Listed, Stored, props
    <3>1. gone[c] = {}
      BY <1>2, <1>6, <1>8 DEF Harms
    <3>2. call[c] \in {"upsert", "delete", "deleteAll"}
      BY <1>2 DEF Writes
    <3> QED BY <1>1, <1>2, <1>6, <3>1, <3>2 DEF CallerOK, Indexing
  <2> QED BY <1>4, <1>5, <2>1, <2>2, <2>3, Assembled
<1> QED
  <2> HIDE DEF after, uid
  <2> QED BY <1>3, <1>7, <1>8

----------------------------------------------------------------------------
(* The whole.                                                              *)

LEMMA DeletedByHandStep ==
  ASSUME IInv, NEW u \in project, DeletedByHand(u), harmed' = harmed \cup {Owner(u)},
         alone' = {c \in alone : ~Touches(c, Owner(u))}, UNCHANGED <<overlapped, raced>>
  PROVE  IInv'
<1>1. /\ StoreOK /\ LocalsOK /\ faults \in Nat
      /\ project \subseteq 1 .. Len(made) /\ made \in Seq([id : Ids, bind : Nat])
  BY TriggersAssumption DEF IInv, TypeOK, StoreOK
<1>2. /\ project' = project \ {u} /\ faults < MaxFaults /\ faults' = faults + 1
      /\ UNCHANGED <<def, index, uidMap, made, pc, call, id, want, event, asked,
                     old, healthy, new, ids, gone, overlapped, raced>>
  BY DEF DeletedByHand, Strike, props, request, locals
<1>3. Owner(u) \in Ids
  <2>1. made[u] \in [id : Ids, bind : Nat]
    BY <1>1, ElementOfSeq
  <2> QED BY <2>1 DEF Owner
<1>4. StoreOK' /\ LocalsOK'
  BY <1>1, <1>2, <1>3, TriggersAssumption DEF StoreOK, LocalsOK
<1>5. MapSound' /\ ListingExact' /\ Watched'
  BY <1>2 DEF IInv, MapSound, Owner, ListingExact, Listed, Stored, Writes, Watched, Overlap,
        Touches
<1>6. ASSUME NEW c \in Callers PROVE CallerOK(c)'
  <2>1. CallerOK(c)
    BY DEF IInv
  <2>2. Placed(c)' /\ Decided(c)' /\ Indexing(c)'
    BY <1>2, <2>1 DEF CallerOK, Placed, Decided, HasRead, Sound, Recreates, Removes,
        Indexing, Listed, Stored, Writes
  <2>3. Fresh(c)'
    BY <1>2, <2>1 DEF CallerOK, Fresh, Writes, TriggerUid, Recreates
  <2>4. Blinded(c)'
    BY <1>1, <1>2 DEF Blinded
  <2>5. Kept(c)'
    <3> SUFFICES ASSUME c \in alone, ~Touches(c, Owner(u)) PROVE Kept(c)'
      BY DEF Kept
    <3>1. call[c] = "upsert" => id[c] # Owner(u)
      BY DEF Touches
    <3>2. call[c] = "fire" => event[c] # u
      BY DEF Touches
    <3>3. ASSUME call[c] = "upsert", HasRead(c), old[c].uid # NoUid PROVE old[c].uid # u
      BY <2>1, <3>1, <3>3 DEF CallerOK, Decided, Sound, Owner
    <3>4. pc[c] \in {"list", "create"} /\ healthy[c] => old[c].uid \in project'
      BY <1>2, <2>1, <3>3 DEF CallerOK, Kept, Placed, Decided, HasRead
    <3>5. new[c] # NoUid /\ pc[c] = "remove" => new[c] \in project'
      BY <1>2, <2>1, <3>1 DEF CallerOK, Kept, Placed, Decided, Owner
    <3>6. call[c] = "upsert" /\ want[c].on /\ pc[c] \in {"write", "index", "unmap", "map", "done"} =>
            TriggerUid(c) \in project'
      <4> SUFFICES ASSUME call[c] = "upsert", want[c].on,
                          pc[c] \in {"write", "index", "unmap", "map", "done"}
                   PROVE  TriggerUid(c) # u
        BY <1>2, <2>1 DEF CallerOK, Kept
      <4>1. Recreates(c) => new[c] # u
        BY <2>1, <3>1 DEF CallerOK, Decided, Owner
      <4>2. ~Recreates(c) => old[c].uid # u
        BY <2>1, <3>3 DEF CallerOK, Decided, HasRead, Recreates
      <4> QED BY <4>1, <4>2 DEF TriggerUid
    <3>7. call[c] = "fire" => event[c] \in project'
      BY <1>2, <2>1, <3>2 DEF CallerOK, Kept
    <3> QED BY <1>2, <3>4, <3>5, <3>6, <3>7 DEF Kept, TriggerUid, Recreates
  <2>6. Firing(c)'
    BY <1>1, <1>2, <2>1 DEF CallerOK, Firing, Owner
  <2> QED BY <2>2, <2>3, <2>4, <2>5, <2>6 DEF CallerOK
<1>7. ASSUME NEW i \in Ids PROVE DefinitionOK(i)'
  <2>1. DefinitionOK(i)
    BY DEF IInv
  <2>2. Sound(def[i], i)'
    BY <1>2, <2>1 DEF DefinitionOK, Sound
  <2>3. Settled(i)'
    <3> SUFFICES ASSUME i \notin overlapped \cup harmed, i # Owner(u) PROVE Settled(i)'
      BY <1>2 DEF Settled
    <3>1. TriggersOf(i)' = TriggersOf(i)
      BY <1>2 DEF TriggersOf, Owner
    <3>2. \A d \in Callers : /\ Shifting(d, i)' <=> Shifting(d, i)
                             /\ Mapping(d, i)' <=> Mapping(d, i)
                             /\ ShiftedTo(d)' = ShiftedTo(d)
      BY <1>2 DEF Shifting, Mapping, ShiftedTo, TriggerUid, Recreates
    <3> QED BY <1>2, <2>1, <3>1, <3>2 DEF DefinitionOK, Settled
  <2>4. Strays(i)'
    <3>1. TriggersOf(i)' \subseteq TriggersOf(i) /\ (faults' < 2 => faults < 2)
      BY <1>1, <1>2 DEF TriggersOf, Owner
    <3> QED BY <1>2, <2>1, <3>1 DEF DefinitionOK, Strays, Writes, PastRemove
  <2> QED BY <2>2, <2>3, <2>4 DEF DefinitionOK
<1> QED BY <1>4, <1>5, <1>6, <1>7 DEF IInv, TypeOK

LEMMA InitIInv == Init => IInv
<1> SUFFICES ASSUME Init PROVE IInv
  OBVIOUS
<1>1. made = <<>> /\ uidMap = <<>> /\ Len(made) = 0 /\ Len(uidMap) = 0
  BY DEF Init
<1>2. StoreOK
  <2>1. NoDef \in [want : AnyWant, uid : Nat]
    BY DEF NoDef, AnyWant, NoUid
  <2>2. made \in Seq([id : Ids, bind : Nat]) /\ uidMap \in Seq(Ids \cup {NoId})
    BY <1>1
  <2>3. def \in [Ids -> [want : AnyWant, uid : Nat]] /\ asked \in 0 .. MaxAsked /\ faults \in 0 .. MaxFaults
    BY <2>1, TriggersAssumption DEF Init
  <2> QED BY <1>1, <2>2, <2>3 DEF Init, StoreOK
<1>3. LocalsOK
  BY DEF Init, LocalsOK, Points, AnyWant, NoDef, NoUid
<1>4. \A c \in Callers : /\ pc[c] = "idle" /\ call[c] = "none" /\ new[c] = NoUid /\ gone[c] = {}
                         /\ ~Writes(c)
  BY DEF Init, Writes
<1>5. \A c \in Callers : CallerOK(c)
  BY <1>4 DEF CallerOK, Placed, Decided, HasRead, Fresh, Kept, Blinded, PastRemove, Firing,
        Indexing
<1>6. \A i \in Ids : DefinitionOK(i)
  BY <1>4 DEF Init, DefinitionOK, Sound, Settled, Strays, TriggersOf, Shifting, NoDef,
        NoWant
<1>7. MapSound /\ ListingExact
  BY <1>1, <1>4 DEF Init, MapSound, ListingExact, Listed
<1>8. Watched
  BY <1>4 DEF Watched, Overlap
<1> QED BY <1>2, <1>3, <1>5, <1>6, <1>7, <1>8 DEF IInv, TypeOK

LEMMA UnchangedIInv == IInv /\ UNCHANGED vars => IInv'
<1> SUFFICES ASSUME IInv, UNCHANGED vars PROVE IInv'
  OBVIOUS
<1>1. /\ UNCHANGED <<def, index, uidMap, project, made, pc, call, id, want, event, asked>>
      /\ UNCHANGED <<old, healthy, new, ids, gone, faults, overlapped, harmed, raced, alone>>
  BY DEF vars, props, script, request, locals, history
<1>2. TypeOK' /\ MapSound' /\ ListingExact'
  BY <1>1 DEF IInv, TypeOK, StoreOK, LocalsOK, MapSound, Owner, ListingExact, Listed,
        Stored, Writes
<1>3. Watched'
  BY <1>1 DEF IInv, Watched, Overlap, Touches, Owner, Writes
<1>4. \A c \in Callers : Placed(c)' /\ Decided(c)' /\ Indexing(c)'
  <2>1. \A c \in Callers : Placed(c)'
    BY <1>1 DEF IInv, CallerOK, Placed, Writes
  <2>2. \A c \in Callers : Decided(c)'
    BY <1>1 DEF IInv, CallerOK, Decided, HasRead, Sound, Recreates, Removes
  <2>3. \A c \in Callers : Indexing(c)'
    BY <1>1 DEF IInv, CallerOK, Indexing, Listed, Stored
  <2> QED BY <2>1, <2>2, <2>3
<1>5. \A c \in Callers : Fresh(c)' /\ Kept(c)' /\ Blinded(c)' /\ Firing(c)'
  BY <1>1 DEF IInv, CallerOK, Fresh, Kept, Blinded, Firing, PastRemove, TriggerUid,
        Recreates, Owner, Writes
<1>6. \A i \in Ids : DefinitionOK(i)'
  <2>1. \A c \in Callers, i \in Ids : /\ Shifting(c, i)' <=> Shifting(c, i)
                                      /\ Mapping(c, i)' <=> Mapping(c, i)
                                      /\ ShiftedTo(c)' = ShiftedTo(c)
    BY <1>1 DEF Shifting, Mapping, ShiftedTo, TriggerUid, Recreates
  <2>2. \A i \in Ids : TriggersOf(i)' = TriggersOf(i)
    BY <1>1 DEF TriggersOf, Owner
  <2> QED BY <1>1, <2>1, <2>2 DEF IInv, DefinitionOK, Sound, Settled, Strays, Writes,
        PastRemove
<1> QED BY <1>2, <1>3, <1>4, <1>5, <1>6 DEF IInv, CallerOK

LEMMA NextIInv == IInv /\ [Next]_vars => IInv'
<1> SUFFICES ASSUME IInv, [Next]_vars PROVE IInv'
  OBVIOUS
<1>1. ASSUME NEW c \in Callers, Request(c), Watch(c) PROVE IInv'
  <2>1. ASSUME NEW i \in Ids, BeginDelete(c, i) PROVE IInv'
    BY <1>1, <2>1, BeginDeleteStep
  <2>2. ASSUME NEW i \in Ids, NEW w \in Wants[i], BeginUpsert(c, i, w) PROVE IInv'
    BY <1>1, <2>2, BeginUpsertStep
  <2>3. CASE BeginDeleteAll(c)
    BY <1>1, <2>3, BeginDeleteAllStep
  <2>4. ASSUME NEW u \in project, Fire(c, u) PROVE IInv'
    BY <1>1, <2>4, FireStep
  <2> QED BY <1>1, <2>1, <2>2, <2>3, <2>4 DEF Request
<1>2. ASSUME NEW c \in Callers, Step(c), Watch(c) PROVE IInv'
  <2>1. CASE Read(c) \/ Find(c) \/ List(c) \/ Create(c) \/ Remove(c) \/ Rollback(c)
    BY <1>2, <2>1, ReadStep, FindStep, ListStep, CreateStep, RemoveStep, RollbackStep
  <2>2. CASE WriteDefinition(c) \/ WriteIndex(c) \/ Unmap(c) \/ Map(c)
    BY <1>2, <2>2, WriteDefinitionStep, WriteIndexStep, UnmapStep, MapStep
  <2>3. CASE ListAll(c) \/ DropDefinition(c) \/ Relist(c) \/ Return(c)
    BY <1>2, <2>3, ListAllStep, DropDefinitionStep, RelistStep, ReturnStep
  <2>4. ASSUME NEW i \in Ids, NextId(c, i) \/ Try(c, i) PROVE IInv'
    BY <1>2, <2>4, NextIdStep, TryStep
  <2>5. CASE Lookup(c) \/ ReadMapped(c) \/ ScanIds(c) \/ Miss(c) \/ Dispatch(c)
    BY <1>2, <2>5, LookupStep, ReadMappedStep, ScanIdsStep, MissStep, DispatchStep
  <2> QED BY <1>2, <2>1, <2>2, <2>3, <2>4, <2>5 DEF Step
<1>3. ASSUME NEW c \in Callers, CutShort(c), Watch(c) PROVE IInv'
  BY <1>3, CutShortStep
<1>4. ASSUME NEW u \in project, DeletedByHand(u), harmed' = harmed \cup {Owner(u)},
             alone' = {c \in alone : ~Touches(c, Owner(u))}, UNCHANGED <<overlapped, raced>>
      PROVE  IInv'
  BY <1>4, DeletedByHandStep
<1>5. CASE UNCHANGED vars
  BY <1>5, UnchangedIInv
<1> QED BY <1>1, <1>2, <1>3, <1>4, <1>5 DEF Next

\* The invariant holds of every behaviour.
THEOREM Invariance == Spec => []IInv
<1> QED BY InitIInv, NextIInv, PTL DEF Spec

THEOREM TypeCorrect == Spec => []TypeOK
<1>1. IInv => TypeOK
  BY DEF IInv
<1> QED BY <1>1, Invariance, PTL

\* Between calls an enabled definition that calls neither overlapped on nor left
\* half-done has exactly the trigger it names.
THEOREM TriggersAreOne == Spec => []OneTrigger
<1>1. IInv => OneTrigger
  <2> SUFFICES ASSUME IInv, NEW i \in Ids \ (overlapped \cup harmed), ~Busy(i)
               PROVE  TriggersOf(i) = IF def[i].want.on THEN {def[i].uid} ELSE {}
    BY DEF OneTrigger, TriggersOf
  <2>1. \A c \in Callers : ~Shifting(c, i)
    BY DEF IInv, CallerOK, Placed, Busy, Touches, Writes, Shifting
  <2>2. TriggersOf(i) = {def[i].uid} \ {NoUid}
    BY <2>1 DEF IInv, DefinitionOK, Settled
  <2>3. IF def[i].want.on THEN def[i].uid # NoUid ELSE def[i].uid = NoUid
    <3>1. Sound(def[i], i)
      BY DEF IInv, DefinitionOK
    <3>2. Len(made) \in Nat
      BY DEF IInv, TypeOK, StoreOK
    <3> QED BY <3>1, <3>2 DEF Sound, NoUid
  <2> QED BY <2>2, <2>3
<1> QED BY <1>1, Invariance, PTL

\* An upsert that returns undisturbed leaves the trigger asked for.
THEOREM UpsertsRepair == Spec => []UpsertRepairs
<1>1. IInv => UpsertRepairs
  <2> SUFFICES ASSUME IInv, NEW c \in alone, At(c, "done"), call[c] = "upsert"
               PROVE  /\ def[id[c]].want = want[c]
                      /\ want[c].on =>
                           /\ def[id[c]].uid \in project
                           /\ made[def[id[c]].uid] = [id |-> id[c], bind |-> want[c].bind]
    BY DEF UpsertRepairs
  <2>1. c \in Callers /\ CallerOK(c)
    BY DEF IInv, TypeOK, StoreOK
  <2>2. id[c] \in Ids /\ def[id[c]] = [want |-> want[c], uid |-> TriggerUid(c)]
    BY <2>1 DEF CallerOK, Placed, Fresh, At
  <2>3. want[c].on => TriggerUid(c) \in project
    BY <2>1 DEF CallerOK, Kept, At
  <2>4. Sound(def[id[c]], id[c])
    BY <2>2 DEF IInv, DefinitionOK
  <2> QED BY <2>2, <2>3, <2>4 DEF Sound
<1> QED BY <1>1, Invariance, PTL

\* A firing nobody interferes with finds its definition, whatever happens to other
\* definitions and to the index they share.
THEOREM FiringsFound == Spec => []FiringFound
<1>1. IInv => FiringFound
  BY DEF IInv, TypeOK, StoreOK, CallerOK, Placed, Firing, FiringFound, At
<1> QED BY <1>1, Invariance, PTL

\* What such a firing dispatches is enabled and has that trigger.
THEOREM FiringsWanted == Spec => []FiringIsWanted
<1>1. IInv => FiringIsWanted
  <2> SUFFICES ASSUME IInv, NEW c \in alone, At(c, "dispatch"), faults < 2,
                      Owner(event[c]) \notin overlapped
               PROVE  \E i \in Ids : def[i].want.on /\ def[i].uid = event[c]
    BY DEF FiringIsWanted
  <2>1. c \in Callers /\ CallerOK(c)
    BY DEF IInv, TypeOK, StoreOK
  <2>2. event[c] \in 1 .. Len(made) /\ def[Owner(event[c])].uid = event[c]
    BY <2>1 DEF CallerOK, Placed, Firing, At
  <2>3. Owner(event[c]) \in Ids
    <3>1. made \in Seq([id : Ids, bind : Nat])
      BY DEF IInv, TypeOK, StoreOK
    <3>2. made[event[c]] \in [id : Ids, bind : Nat]
      BY <2>2, <3>1, ElementOfSeq
    <3> QED BY <3>2 DEF Owner
  <2>4. Sound(def[Owner(event[c])], Owner(event[c])) /\ event[c] # NoUid
    BY <2>2, <2>3 DEF IInv, DefinitionOK, NoUid
  <2> QED BY <2>2, <2>3, <2>4 DEF Sound
<1> QED BY <1>1, Invariance, PTL

\* Between calls a listing names the definitions there are.
THEOREM ListingsExact == Spec => []ListingExact
<1>1. IInv => ListingExact
  BY DEF IInv
<1> QED BY <1>1, Invariance, PTL

===========================================================================
