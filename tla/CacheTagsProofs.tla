-------------------------- MODULE CacheTagsProofs --------------------------
(***************************************************************************)
(* Proofs about CacheTags, for any number of executions, keys, tags and    *)
(* faults.                                                                 *)
(*                                                                         *)
(* The invariant says, of every key on which no calls overlapped, what a   *)
(* call that is about the key has read of it and has yet to do (Known).    *)
(* What a step does is put in terms of its caller and of one key (Kept);   *)
(* that such a step keeps the invariant is proved once (KeptKeeps).        *)
(***************************************************************************)
EXTENDS CacheTags, FiniteSetTheorems, TLAPS

----------------------------------------------------------------------------
(* The inductive invariant.                                                *)

InSection(c) == pc[c] \in {"entry", "doc", "docWrite"}

\* Which call stands where, with what.
Placed(c) ==
  /\ pc[c] = "idle" <=> call[c] = "none"
  /\ pc[c] = "read" => call[c] \in {"get", "set", "delete"}
  /\ pc[c] \in {"write", "trim"} => call[c] = "set"
  /\ pc[c] \in {"docRead", "collect", "dropDoc"} => call[c] = "invalidate"
  /\ pc[c] \in {"clear", "clearEntries", "clearDocs"} <=> call[c] = "clear"
  /\ key[c] # NoKey <=> call[c] \in {"get", "set", "delete"}
  /\ tag[c] # NoTag <=> call[c] = "invalidate"
  /\ target[c] # NoKey => pc[c] \in {"lock", "entry", "doc", "docWrite"}
  /\ pc[c] = "entry" => target[c] # NoKey
  /\ pc[c] \in {"lock", "doc", "docWrite"} /\ target[c] = NoKey => call[c] = "set" /\ victims[c] = {}
  /\ target[c] # NoKey => \A w \in work[c] : w.op = "drop"
  /\ pc[c] \notin {"lock", "entry", "doc", "docWrite"} => work[c] = {}
  /\ victims[c] # {} => pc[c] \in {"next", "lock", "entry", "doc", "docWrite"}
  /\ victims[c] # {} => call[c] \in {"set", "invalidate"}
  /\ pc[c] = "docWrite" => item[c] \in work[c]
  /\ lock = c <=> InSection(c)

\* Where a call stands with one key.
Setting(c, k) ==
  call[c] = "set" /\ target[c] = NoKey /\ key[c] = k /\ pc[c] \in {"lock", "doc", "docWrite"}
Condemned(c, k) == target[c] = k /\ pc[c] \in {"lock", "entry"}
Deleting(c, k)  == target[c] = k /\ pc[c] \in {"doc", "docWrite"}
Awaited(c, k)   == \E v \in victims[c] : v.key = k
Unfinished(c, k) == Setting(c, k) \/ Deleting(c, k) \/ pc[c] \in {"clearEntries", "clearDocs"}

Listed(k) == \A t \in Tags : k \in doc[t] <=> t \in tagsOf[k]

Drop(t) == [op |-> "drop", tag |-> t]
Add(t)  == [op |-> "add", tag |-> t]

\* What a call has read about a key is so, and what it has yet to do will set
\* the tag objects right.
Known(c, k) ==
  /\ pc[c] = "write" /\ key[c] = k => prev[c] = tagsOf[k]
  /\ Setting(c, k) =>
       /\ tagsOf[k] = next[c]
       /\ \A t \in Tags :
            /\ Drop(t) \in work[c] => t \notin next[c]
            /\ Add(t) \in work[c] => t \in next[c]
            /\ Drop(t) \in work[c] \/ Add(t) \in work[c] \/ (k \in doc[t] <=> t \in next[c])
  /\ Condemned(c, k) =>
       /\ \A t \in Tags : Drop(t) \in work[c] <=> t \in tagsOf[k]
       /\ call[c] = "get" => k \notin live
       /\ call[c] = "invalidate" => tag[c] \in tagsOf[k]
  /\ target[c] = k => ~Awaited(c, k)
  /\ Deleting(c, k) => tagsOf[k] = {} /\ \A t \in Tags : k \in doc[t] => Drop(t) \in work[c]
  /\ \A v \in victims[c] :
       v.key = k => v.tags = tagsOf[k] /\ (call[c] = "invalidate" => tag[c] \in tagsOf[k])
  /\ pc[c] = "collect" => (k \in buf[c] <=> tag[c] \in tagsOf[k])
  /\ call[c] = "invalidate" /\ pc[c] \notin {"docRead", "collect"} /\ tag[c] \in tagsOf[k] =>
       Condemned(c, k) \/ Awaited(c, k)
  /\ pc[c] = "clearEntries" /\ k \notin buf[c] => tagsOf[k] = {}
  /\ pc[c] = "clearDocs" => tagsOf[k] = {} /\ \A t \in Tags : k \in doc[t] => t \in next[c]
  /\ pc[c] = "docWrite" => (k \in buf[c] <=> k \in doc[item[c].tag])

Consistent(k) ==
  /\ \A c \in Callers : Known(c, k)
  /\ (\A c \in Callers : ~Unfinished(c, k)) => Listed(k)

\* A set that has yet to trim the namespace.
Filling(c) == call[c] = "set" /\ target[c] = NoKey /\ pc[c] \in {"lock", "doc", "docWrite", "trim"}

\* Without faults, what is too much is about to be deleted or to be listed for it.
Room ==
  faults = 0 /\ (\A c \in Callers : ~Filling(c)) =>
    \A k \in Stored :
      place[k] <= MaxEntries \/ \E c \in Callers : Condemned(c, k) \/ Awaited(c, k)

IInv ==
  /\ TypeOK
  /\ \A c \in Callers : Placed(c)
  /\ \A k \in Keys : tagsOf[k] # {} => k \in Stored
  /\ Clashing \subseteq disturbed
  /\ \A k \in Keys \ disturbed : Consistent(k)
  /\ Room

----------------------------------------------------------------------------
(* A step and those that do not take it.                                   *)

Change == [op : {"drop", "add"}, tag : Tags]

StoreTyped ==
  /\ place \in [Keys -> Nat]
  /\ \A j, k \in Stored : place[j] = place[k] => j = k
  /\ \A k \in Keys : place[k] > 1 => \E j \in Keys : place[j] = place[k] - 1
  /\ live \subseteq Stored
  /\ tagsOf \in [Keys -> SUBSET Tags]
  /\ doc \in [Tags -> SUBSET Keys]
  /\ lock \in Callers \cup {NoCaller}
  /\ faults \in 0 .. MaxFaults

LocalsTyped ==
  /\ pc \in [Callers -> Points]
  /\ call \in [Callers -> CallKinds \cup {"none"}]
  /\ key \in [Callers -> Keys \cup {NoKey}]
  /\ tag \in [Callers -> Tags \cup {NoTag}]
  /\ next \in [Callers -> SUBSET Tags]
  /\ prev \in [Callers -> SUBSET Tags]
  /\ target \in [Callers -> Keys \cup {NoKey}]
  /\ work \in [Callers -> SUBSET Change]
  /\ item \in [Callers -> Change \cup {NoChange}]
  /\ buf \in [Callers -> SUBSET Keys]
  /\ victims \in [Callers -> SUBSET Entries]
  /\ since \in [Callers -> SUBSET Keys]

LEMMA TypeParts == TypeOK <=> StoreTyped /\ LocalsTyped /\ disturbed \subseteq Keys
  BY DEF TypeOK, StoreTyped, LocalsTyped, Change

\* The other callers stay where they are.
Others(c) ==
  \A d \in Callers \ {c} :
    /\ pc'[d] = pc[d] /\ call'[d] = call[d] /\ key'[d] = key[d] /\ tag'[d] = tag[d]
    /\ next'[d] = next[d] /\ prev'[d] = prev[d] /\ target'[d] = target[d]
    /\ work'[d] = work[d] /\ item'[d] = item[d] /\ buf'[d] = buf[d]
    /\ victims'[d] = victims[d]
    /\ lock' = d <=> lock = d

\* A step changes nothing of a key that its caller has nothing to do with.
Spared(c, k) ==
  ~Touches(c, k) =>
    /\ tagsOf'[k] = tagsOf[k]
    /\ \A t \in Tags : k \in doc'[t] <=> k \in doc[t]
    /\ k \in live' => k \in live

\* It gives a key only tags its caller had announced, and takes the key from no tag
\* object that another caller is about to write back.
Announced(c, k) ==
  /\ \A t \in tagsOf'[k] : t \in tagsOf[k] \/ (key[c] = k /\ t \in next[c])
  /\ \A d \in Callers \ {c} :
       pc[d] = "docWrite" => (k \in doc'[item[d].tag] <=> k \in doc[item[d].tag])

\* What it must see to for a key of its own.
Finished(c, k) ==
  Touches(c, k) /\ (Unfinished(c, k) \/ Listed(k)) => Unfinished(c, k)' \/ Listed(k)'

Kept(c) ==
  /\ StoreTyped' /\ LocalsTyped' /\ Others(c) /\ Placed(c)'
  /\ \A k \in Keys : tagsOf'[k] # {} => place'[k] # 0
  /\ \A k \in Keys \ disturbed' :
       Spared(c, k) /\ Announced(c, k) /\ Known(c, k)' /\ Finished(c, k)
  /\ Room'

LEMMA Apart ==
  ASSUME IInv, NEW c \in Callers, NEW d \in Callers \ {c}, NEW k \in Keys \ disturbed
  PROVE  /\ ~(Touches(c, k) /\ Touches(d, k))
         /\ ~(Restores(d, k) /\ Drops(c, item[d].tag))
  BY Zenon DEF IInv, Clashing

LEMMA UnfinishedTouches ==
  ASSUME IInv, NEW c \in Callers, NEW k \in Keys, Unfinished(c, k)
  PROVE  Touches(c, k)
  BY DEF IInv, Placed, Unfinished, Setting, Deleting, Touches

\* If its caller alone has to do with a key, nothing is left undone for the key but
\* what the caller has yet to do.
LEMMA UndoneByOne ==
  ASSUME IInv, NEW c \in Callers, NEW k \in Keys \ disturbed, Touches(c, k)
  PROVE  Unfinished(c, k) \/ Listed(k)
<1>1. \A d \in Callers \ {c} : ~Unfinished(d, k)
  BY Apart, UnfinishedTouches
<1> QED BY <1>1, Zenon DEF IInv, Consistent

LEMMA OthersKnow ==
  ASSUME IInv, NEW c \in Callers, Others(c), disturbed \subseteq disturbed',
         NEW k \in Keys \ disturbed', Spared(c, k), Announced(c, k),
         NEW d \in Callers \ {c}
  PROVE  Known(d, k)'
<1>1. Known(d, k) /\ Placed(d)
  BY DEF IInv, Consistent
<1>2. /\ pc'[d] = pc[d] /\ call'[d] = call[d] /\ key'[d] = key[d] /\ tag'[d] = tag[d]
      /\ next'[d] = next[d] /\ prev'[d] = prev[d] /\ target'[d] = target[d]
      /\ work'[d] = work[d] /\ item'[d] = item[d] /\ buf'[d] = buf[d]
      /\ victims'[d] = victims[d]
  BY DEF Others
<1>3. /\ Setting(d, k)' <=> Setting(d, k)
      /\ Condemned(d, k)' <=> Condemned(d, k)
      /\ Deleting(d, k)' <=> Deleting(d, k)
      /\ Awaited(d, k)' <=> Awaited(d, k)
  BY <1>2 DEF Setting, Condemned, Deleting, Awaited
<1>4. pc[d] = "docWrite" => (k \in doc'[item[d].tag] <=> k \in doc[item[d].tag])
  BY DEF Announced
<1>5. CASE Touches(c, k)
  <2>1. ~Touches(d, k)
    BY <1>5, Apart
  <2>2. /\ key[d] # k /\ ~Awaited(d, k) /\ target[d] # k /\ call[d] # "clear"
        /\ call[d] = "invalidate" => tag[d] \notin tagsOf[k] /\ (key[c] = k => tag[d] \notin next[c])
    BY <2>1 DEF Touches, Bears, Awaited
  <2>3. call[d] = "invalidate" => tag[d] \notin tagsOf'[k]
    BY <2>2 DEF Announced
  <2>4. pc[d] = "collect" => call[d] = "invalidate"
    BY <1>1 DEF Placed
  <2>5. pc[d] \notin {"clearEntries", "clearDocs"}
    BY <1>1, <2>2 DEF Placed
  <2>6. pc[d] = "collect" => (k \in buf[d] <=> tag[d] \in tagsOf'[k])
    BY <1>1, <2>2, <2>3, <2>4 DEF Known
  <2>7. pc[d] = "docWrite" => (k \in buf[d] <=> k \in doc'[item[d].tag])
    BY <1>1, <1>4 DEF Known
  <2>8. ~Setting(d, k) /\ ~Condemned(d, k) /\ ~Deleting(d, k)
    BY <2>2 DEF Setting, Condemned, Deleting
  <2>9. \A v \in victims[d] : v.key # k
    BY <2>2 DEF Awaited
  <2> QED BY <1>2, <1>3, <2>2, <2>3, <2>5, <2>6, <2>7, <2>8, <2>9 DEF Known
<1>6. CASE ~Touches(c, k)
  <2>1. tagsOf'[k] = tagsOf[k] /\ (k \in live' => k \in live)
        /\ \A t \in Tags : k \in doc'[t] <=> k \in doc[t]
    BY <1>6 DEF Spared
  <2> QED BY <1>1, <1>2, <1>3, <1>4, <2>1 DEF Known
<1> QED BY <1>5, <1>6

LEMMA KeptKeeps ==
  ASSUME IInv, NEW c \in Callers, Kept(c),
         disturbed \subseteq disturbed', Clashing' \subseteq disturbed', disturbed' \subseteq Keys
  PROVE  IInv'
<1>1. TypeOK'
  <2>1. (TypeOK <=> StoreTyped /\ LocalsTyped /\ disturbed \subseteq Keys)'
    BY TypeParts, PTL
  <2> QED BY <2>1 DEF Kept
<1>2. ASSUME NEW d \in Callers
      PROVE  Placed(d)'
  <2>1. CASE d = c
    BY <2>1 DEF Kept
  <2>2. CASE d # c
    BY <2>2 DEF Kept, Others, IInv, Placed, InSection
  <2> QED BY <2>1, <2>2
<1>3. \A k \in Keys : tagsOf'[k] # {} => k \in Stored'
  BY DEF Kept, Stored
<1>4. ASSUME NEW k \in Keys \ disturbed'
      PROVE  Consistent(k)'
  <2>1. /\ k \in Keys \ disturbed
        /\ Others(c) /\ Spared(c, k) /\ Announced(c, k) /\ Known(c, k)' /\ Finished(c, k)
    BY DEF Kept
  <2>2. \A d \in Callers : Known(d, k)'
    BY <2>1, OthersKnow
  <2>3. ASSUME \A d \in Callers : ~Unfinished(d, k)'
        PROVE  Listed(k)'
    <3>1. \A d \in Callers \ {c} : ~Unfinished(d, k)
      BY <2>1, <2>3 DEF Others, Unfinished, Setting, Deleting
    <3>2. CASE Touches(c, k)
      BY <2>1, <2>3, <3>2, UndoneByOne DEF Finished
    <3>3. CASE ~Touches(c, k)
      <4>1. ~Unfinished(c, k)
        BY <3>3, UnfinishedTouches
      <4>2. Listed(k)
        BY <2>1, <3>1, <4>1, Zenon DEF IInv, Consistent
      <4> QED BY <2>1, <3>3, <4>2 DEF Spared, Listed
    <3> QED BY <3>2, <3>3
  <2> QED BY <2>2, <2>3 DEF Consistent
<1>5. Room'
  BY DEF Kept
<1> QED BY <1>1, <1>2, <1>3, <1>4, <1>5 DEF IInv

----------------------------------------------------------------------------
(* What the parts of a step do.                                            *)

\* The objects stay.
Untouched == UNCHANGED <<store, doc>>

LEMMA UntouchedFacts ==
  ASSUME IInv, Untouched, NEW c \in Callers, NEW k \in Keys
  PROVE  /\ tagsOf' = tagsOf /\ live' = live /\ place' = place /\ doc' = doc
         /\ Spared(c, k) /\ Announced(c, k)
         /\ Listed(k)' <=> Listed(k)
         /\ tagsOf'[k] # {} => place'[k] # 0
  BY DEF Untouched, store, Spared, Announced, Listed, IInv, Stored

LEMMA LeaveFacts ==
  ASSUME IInv, NEW c \in Callers, Leave(c)
  PROVE  /\ LocalsTyped'
         /\ \A d \in Callers \ {c} :
              /\ pc'[d] = pc[d] /\ call'[d] = call[d] /\ key'[d] = key[d] /\ tag'[d] = tag[d]
              /\ next'[d] = next[d] /\ prev'[d] = prev[d] /\ target'[d] = target[d]
              /\ work'[d] = work[d] /\ item'[d] = item[d] /\ buf'[d] = buf[d]
              /\ victims'[d] = victims[d]
         /\ pc'[c] = "idle" /\ call'[c] = "none" /\ key'[c] = NoKey /\ tag'[c] = NoTag
         /\ next'[c] = {} /\ prev'[c] = {} /\ target'[c] = NoKey
         /\ work'[c] = {} /\ victims'[c] = {}
         /\ lock' # c => Placed(c)'
         /\ \A k \in Keys : Known(c, k)' /\ ~Unfinished(c, k)' /\ ~Condemned(c, k)' /\ ~Awaited(c, k)'
         /\ ~Filling(c)'
<1>1. /\ LocalsTyped'
      /\ \A d \in Callers \ {c} :
           /\ pc'[d] = pc[d] /\ call'[d] = call[d] /\ key'[d] = key[d] /\ tag'[d] = tag[d]
           /\ next'[d] = next[d] /\ prev'[d] = prev[d] /\ target'[d] = target[d]
           /\ work'[d] = work[d] /\ item'[d] = item[d] /\ buf'[d] = buf[d]
           /\ victims'[d] = victims[d]
  <2>1. LocalsTyped
    BY TypeParts DEF IInv
  <2> QED BY <2>1 DEF Leave, Goto, LocalsTyped, Points
<1>2. /\ pc'[c] = "idle" /\ call'[c] = "none" /\ key'[c] = NoKey /\ tag'[c] = NoTag
      /\ next'[c] = {} /\ prev'[c] = {} /\ target'[c] = NoKey
      /\ work'[c] = {} /\ victims'[c] = {}
  <2>1. LocalsTyped
    BY TypeParts DEF IInv
  <2> QED BY <2>1 DEF Leave, Goto, LocalsTyped
<1>3. lock' # c => Placed(c)'
  BY <1>2 DEF Placed, InSection
<1>4. ASSUME NEW k \in Keys
      PROVE  Known(c, k)' /\ ~Unfinished(c, k)' /\ ~Condemned(c, k)' /\ ~Awaited(c, k)'
  <2>1. k # NoKey
    BY CacheTagsAssumption
  <2>2. ~Setting(c, k)' /\ ~Condemned(c, k)' /\ ~Deleting(c, k)' /\ ~Awaited(c, k)'
    BY <1>2, <2>1 DEF Setting, Condemned, Deleting, Awaited
  <2> QED BY <1>2, <2>1, <2>2 DEF Known, Unfinished
<1>5. ~Filling(c)'
  BY <1>2 DEF Filling
<1> QED BY <1>1, <1>2, <1>3, <1>4, <1>5

\* Room is kept where nothing is added and nothing forgotten.
LEMMA RoomKept ==
  ASSUME IInv, NEW c \in Callers, Others(c), faults' = faults,
         Filling(c) => Filling(c)',
         \A k \in Keys : place'[k] # 0 => place[k] # 0 /\ place'[k] <= place[k],
         place' \in [Keys -> Nat],
         \A k \in Keys : place'[k] # 0 /\ (Condemned(c, k) \/ Awaited(c, k)) =>
                           Condemned(c, k)' \/ Awaited(c, k)'
  PROVE  Room'
<1> SUFFICES ASSUME faults' = 0, \A d \in Callers : ~Filling(d)', NEW k \in Keys, place'[k] # 0
             PROVE  place'[k] <= MaxEntries \/ \E d \in Callers : Condemned(d, k)' \/ Awaited(d, k)'
  BY DEF Room, Stored
<1>1. ASSUME NEW d \in Callers \ {c}
      PROVE  /\ Filling(d)' <=> Filling(d)
             /\ Condemned(d, k)' <=> Condemned(d, k)
             /\ Awaited(d, k)' <=> Awaited(d, k)
  BY DEF Others, Filling, Condemned, Awaited
<1>2. \A d \in Callers : ~Filling(d)
  BY <1>1
<1>3. k \in Stored /\ place'[k] <= place[k] /\ place[k] \in Nat
  BY DEF Stored, IInv, TypeOK
<1>4. place[k] <= MaxEntries \/ \E d \in Callers : Condemned(d, k) \/ Awaited(d, k)
  BY <1>2, <1>3 DEF IInv, Room
<1>5. CASE place[k] <= MaxEntries
  BY <1>3, <1>5, CacheTagsAssumption
<1>6. CASE \E d \in Callers : Condemned(d, k) \/ Awaited(d, k)
  BY <1>1, <1>6
<1> QED BY <1>4, <1>5, <1>6

LEMMA FillingRoom ==
  ASSUME NEW c \in Callers, Filling(c)'
  PROVE  Room'
  BY DEF Room

\* A call that ends where it has nothing left to do.
LEMMA EndKept ==
  ASSUME IInv, NEW c \in Callers, Leave(c), Untouched, lock' = lock, faults' = faults,
         ~InSection(c), ~Filling(c), pc[c] # "lock", pc[c] \notin {"clearEntries", "clearDocs"},
         victims[c] = {}
  PROVE  Kept(c)
<1>1. StoreTyped'
  <2>1. StoreTyped
    BY TypeParts DEF IInv
  <2> QED BY <2>1 DEF StoreTyped, Untouched, store, Stored
<1>2. Others(c) /\ LocalsTyped'
  BY LeaveFacts DEF Others
<1>3. Placed(c)'
  <2>1. lock # c
    BY DEF IInv, Placed
  <2> QED BY <2>1, LeaveFacts
<1>4. ASSUME NEW k \in Keys
      PROVE  /\ tagsOf'[k] # {} => place'[k] # 0
             /\ Spared(c, k) /\ Announced(c, k) /\ Known(c, k)' /\ Finished(c, k)
             /\ ~Condemned(c, k) /\ ~Awaited(c, k)
  <2>1. ~Unfinished(c, k) /\ ~Condemned(c, k) /\ ~Awaited(c, k)
    BY DEF Unfinished, Setting, Deleting, Condemned, Awaited, InSection
  <2> QED BY <2>1, LeaveFacts, UntouchedFacts DEF Finished
<1>5. Room'
  <2>1. place' = place
    BY DEF Untouched, store
  <2>2. place \in [Keys -> Nat]
    BY DEF IInv, TypeOK
  <2> QED BY <1>2, <1>4, <2>1, <2>2, RoomKept
<1> QED BY <1>1, <1>2, <1>3, <1>4, <1>5 DEF Kept

\* A step that leaves the objects as they are.
LEMMA LookKept ==
  ASSUME IInv, NEW c \in Callers, Untouched, LocalsTyped', Others(c), Placed(c)', Room',
         lock' \in Callers \cup {NoCaller}, faults' = faults, disturbed \subseteq disturbed',
         \A k \in Keys \ disturbed :
           Known(c, k)' /\ (Unfinished(c, k) => Unfinished(c, k)' \/ Listed(k))
  PROVE  Kept(c)
<1>1. StoreTyped'
  <2>1. StoreTyped
    BY TypeParts DEF IInv
  <2> QED BY <2>1 DEF StoreTyped, Untouched, store, Stored
<1>2. ASSUME NEW k \in Keys
      PROVE  tagsOf'[k] # {} => place'[k] # 0
  BY UntouchedFacts
<1>3. ASSUME NEW k \in Keys \ disturbed'
      PROVE  Spared(c, k) /\ Announced(c, k) /\ Known(c, k)' /\ Finished(c, k)
  BY UntouchedFacts DEF Finished
<1> QED BY <1>1, <1>2, <1>3 DEF Kept

\* No faults and the same places: the room is what it was.
LEMMA LookRoom ==
  ASSUME IInv, NEW c \in Callers, Others(c), UNCHANGED <<store, faults>>,
         Filling(c) => Filling(c)',
         \A k \in Keys : Condemned(c, k) \/ Awaited(c, k) => Condemned(c, k)' \/ Awaited(c, k)'
  PROVE  Room'
<1>1. place' = place /\ faults' = faults /\ place \in [Keys -> Nat]
  BY DEF store, IInv, TypeOK
<1> QED BY <1>1, RoomKept

----------------------------------------------------------------------------
(* Places.                                                                 *)

\* The entries have the places from 1 up, one each.
Ranked(p) ==
  /\ p \in [Keys -> Nat]
  /\ \A j, k \in Keys : p[j] # 0 /\ p[j] = p[k] => j = k
  /\ \A k \in Keys : p[k] > 1 => \E j \in Keys : p[j] = p[k] - 1

LEMMA StoreRanked ==
  /\ StoreTyped => Ranked(place)
  /\ Ranked(place') =>
       /\ place' \in [Keys -> Nat]
       /\ \A j, k \in Stored' : place'[j] = place'[k] => j = k
       /\ \A k \in Keys : place'[k] > 1 => \E j \in Keys : place'[j] = place'[k] - 1
  BY DEF StoreTyped, Ranked, Stored

LEMMA RemovedRanked ==
  ASSUME Ranked(place), NEW k0 \in Keys
  PROVE  /\ Ranked(Without(k0)) /\ Without(k0)[k0] = 0
         /\ \A j \in Keys \ {k0} :
              Without(k0)[j] <= place[j] /\ (Without(k0)[j] # 0 <=> place[j] # 0)
<1> DEFINE q == Without(k0)
<1>1. \A j \in Keys : place[j] \in Nat
  BY DEF Ranked
<1>2. /\ q[k0] = 0
      /\ \A j \in Keys : j # k0 =>
           q[j] = IF place[k0] # 0 /\ place[k0] < place[j] THEN place[j] - 1 ELSE place[j]
  BY <1>1 DEF Without
<1>3. q \in [Keys -> Nat]
  BY <1>1 DEF Without
<1>4. ASSUME NEW j \in Keys, NEW k \in Keys, q[j] # 0, q[j] = q[k]
      PROVE  j = k
  BY <1>1, <1>2, <1>4 DEF Ranked
<1>5. ASSUME NEW k \in Keys, q[k] > 1
      PROVE  \E j \in Keys : q[j] = q[k] - 1
  <2>1. k # k0
    BY <1>2, <1>5
  <2>2. CASE place[k0] # 0 /\ place[k0] < place[k]
    <3>1. q[k] = place[k] - 1 /\ place[k] > 2
      BY <1>1, <1>2, <1>5, <2>1, <2>2
    <3>2. PICK i \in Keys : place[i] = place[k] - 1
      BY <1>1, <3>1 DEF Ranked
    <3>3. CASE i = k0
      <4>1. place[k0] > 1
        BY <1>1, <3>1, <3>2, <3>3
      <4>2. PICK h \in Keys : place[h] = place[k0] - 1
        BY <4>1 DEF Ranked
      <4>3. q[h] = place[h]
        BY <1>1, <1>2, <4>1, <4>2
      <4> QED BY <1>1, <3>1, <3>2, <3>3, <4>2, <4>3
    <3>4. CASE i # k0
      <4>1. place[k0] < place[i]
        BY <1>1, <2>2, <3>1, <3>2, <3>4 DEF Ranked
      <4>2. q[i] = place[i] - 1
        BY <1>2, <2>2, <3>4, <4>1
      <4> QED BY <1>1, <3>1, <3>2, <4>2
    <3> QED BY <3>3, <3>4
  <2>3. CASE ~(place[k0] # 0 /\ place[k0] < place[k])
    <3>1. q[k] = place[k] /\ place[k] > 1
      BY <1>2, <1>5, <2>1, <2>3
    <3>2. PICK i \in Keys : place[i] = place[k] - 1
      BY <3>1 DEF Ranked
    <3>3. i # k0
      BY <1>1, <2>1, <2>3, <3>1, <3>2 DEF Ranked
    <3>4. q[i] = place[i]
      BY <1>1, <1>2, <2>3, <3>1, <3>2, <3>3
    <3> QED BY <3>1, <3>2, <3>4
  <2> QED BY <2>2, <2>3
<1>6. \A j \in Keys \ {k0} : q[j] <= place[j] /\ (q[j] # 0 <=> place[j] # 0)
  BY <1>1, <1>2
<1> QED BY <1>2, <1>3, <1>4, <1>5, <1>6 DEF Ranked

LEMMA RefreshedRanked ==
  ASSUME Ranked(place), NEW k0 \in Keys, NEW written, NEW p \in PlacesFor(k0, written)
  PROVE  /\ Ranked(Refreshed(k0, p))
         /\ \A j \in Keys : Refreshed(k0, p)[j] # 0 <=> j = k0 \/ place[j] # 0
<1> DEFINE q == Without(k0)
           r == Refreshed(k0, p)
<1>1. Ranked(q) /\ q[k0] = 0 /\ \A j \in Keys : j # k0 => (q[j] # 0 <=> place[j] # 0)
  BY RemovedRanked
<1>2. \A j \in Keys : q[j] \in Nat
  BY <1>1 DEF Ranked
<1>3. p \in Nat \ {0} /\ (p = 1 \/ \E j \in Keys : p = q[j] + 1)
  BY <1>2 DEF PlacesFor
<1> HIDE DEF q
<1>4. r = [j \in Keys |-> IF j = k0 THEN p ELSE IF q[j] >= p THEN q[j] + 1 ELSE q[j]]
  BY DEF Refreshed, q
<1>5. r \in [Keys -> Nat] /\ r[k0] = p
  BY <1>2, <1>3, <1>4
<1>6. \A j \in Keys : j # k0 => r[j] = IF q[j] >= p THEN q[j] + 1 ELSE q[j]
  BY <1>4
<1> HIDE DEF r
<1>7. ASSUME NEW j \in Keys, NEW k \in Keys, r[j] # 0, r[j] = r[k]
      PROVE  j = k
  BY <1>1, <1>2, <1>3, <1>5, <1>6, <1>7 DEF Ranked
<1>8. ASSUME NEW k \in Keys, r[k] > 1
      PROVE  \E j \in Keys : r[j] = r[k] - 1
  <2>1. CASE k = k0
    <3>1. PICK j \in Keys : p = q[j] + 1
      BY <1>3, <1>5, <1>8, <2>1
    <3>2. j # k0 /\ r[j] = q[j]
      BY <1>1, <1>2, <1>3, <1>5, <1>6, <1>8, <2>1, <3>1
    <3> QED BY <1>2, <1>5, <2>1, <3>1, <3>2
  <2>2. CASE k # k0 /\ q[k] >= p
    <3>1. r[k] = q[k] + 1
      BY <1>6, <2>2
    <3>2. CASE q[k] = p
      BY <1>2, <1>5, <3>1, <3>2
    <3>3. CASE q[k] # p
      <4>1. q[k] > p /\ q[k] > 1
        BY <1>2, <1>3, <2>2, <3>3
      <4>2. PICK j \in Keys : q[j] = q[k] - 1
        BY <1>1, <4>1 DEF Ranked
      <4>3. j # k0 /\ r[j] = q[j] + 1
        BY <1>1, <1>2, <1>3, <1>6, <4>1, <4>2
      <4> QED BY <1>2, <3>1, <4>2, <4>3
    <3> QED BY <3>2, <3>3
  <2>3. CASE k # k0 /\ ~(q[k] >= p)
    <3>1. r[k] = q[k] /\ q[k] > 1
      BY <1>6, <1>8, <2>3
    <3>2. PICK j \in Keys : q[j] = q[k] - 1
      BY <1>1, <3>1 DEF Ranked
    <3>3. j # k0 /\ r[j] = q[j]
      BY <1>1, <1>2, <1>3, <1>6, <2>3, <3>1, <3>2
    <3> QED BY <3>1, <3>2, <3>3
  <2> QED BY <2>1, <2>2, <2>3
<1>9. \A j \in Keys : r[j] # 0 <=> j = k0 \/ place[j] # 0
  BY <1>1, <1>2, <1>3, <1>5, <1>6
<1> QED BY <1>5, <1>7, <1>8, <1>9 DEF Ranked, r

----------------------------------------------------------------------------
(* Calls that begin, and calls on one key.                                 *)

\* A request as its caller's control point, call, key, tag and tags.
Requested(c, point, kind, k, t, ts) ==
  /\ pc' = [pc EXCEPT ![c] = point] /\ call' = [call EXCEPT ![c] = kind]
  /\ key' = [key EXCEPT ![c] = k] /\ tag' = [tag EXCEPT ![c] = t]
  /\ next' = [next EXCEPT ![c] = ts]
  /\ \/ point = "read" /\ kind \in {"get", "set", "delete"} /\ k \in Keys /\ t = NoTag
     \/ point = "docRead" /\ kind = "invalidate" /\ k = NoKey /\ t \in Tags
     \/ point = "clear" /\ kind = "clear" /\ k = NoKey /\ t = NoTag
  /\ ts \in SUBSET Tags

LEMMA BeginKept ==
  ASSUME IInv, NEW c \in Callers, disturbed \subseteq disturbed', Request(c)
  PROVE  Kept(c)
<1>1. LocalsTyped /\ StoreTyped
  BY TypeParts DEF IInv
<1>2. /\ pc[c] = "idle" /\ call[c] = "none" /\ key[c] = NoKey /\ tag[c] = NoTag
      /\ target[c] = NoKey /\ work[c] = {} /\ victims[c] = {} /\ lock # c
  <2>1. pc[c] = "idle"
    BY DEF Request, Begin, BeginInvalidate, BeginClear, At
  <2>2. Placed(c)
    BY DEF IInv
  <2> QED BY <1>1, <2>1, <2>2 DEF Placed, InSection, LocalsTyped
<1>3. Untouched /\ lock' = lock /\ faults' = faults /\ UNCHANGED locals
  BY DEF Request, Begin, BeginInvalidate, BeginClear, Untouched
<1>4. PICK point, kind, k0, t0, ts : Requested(c, point, kind, k0, t0, ts)
  <2>1. ASSUME NEW kind \in Calls, NEW k \in Keys, NEW ts \in TagSets \cup {{}}, Begin(c, kind, k, ts)
        PROVE  Requested(c, "read", kind, k, NoTag, ts)
    BY <1>1, <1>2, <2>1, CacheTagsAssumption DEF Begin, Goto, LocalsTyped, Requested
  <2>2. ASSUME NEW t \in Tags, BeginInvalidate(c, t)
        PROVE  Requested(c, "docRead", "invalidate", NoKey, t, next[c])
    BY <1>1, <1>2, <2>2 DEF BeginInvalidate, Goto, LocalsTyped, Requested
  <2>3. ASSUME BeginClear(c)
        PROVE  Requested(c, "clear", "clear", NoKey, NoTag, next[c])
    BY <1>1, <1>2, <2>3 DEF BeginClear, Goto, LocalsTyped, Requested
  <2> QED BY <2>1, <2>2, <2>3, Zenon DEF Request
<1>5. LocalsTyped' /\ Others(c)
  BY <1>1, <1>3, <1>4 DEF Requested, LocalsTyped, Others, locals, Points, CallKinds
<1>6. /\ pc'[c] \in {"read", "docRead", "clear"} /\ target'[c] = NoKey /\ work'[c] = {}
      /\ victims'[c] = {}
  BY <1>1, <1>2, <1>3, <1>4 DEF Requested, LocalsTyped, locals
<1>7. Placed(c)'
  <2>1. /\ pc'[c] = point /\ call'[c] = kind /\ key'[c] = k0 /\ tag'[c] = t0 /\ next'[c] = ts
    BY <1>1, <1>4 DEF Requested, LocalsTyped
  <2>2. NoKey \notin Keys /\ NoTag \notin Tags
    BY CacheTagsAssumption
  <2>3. \/ point = "read" /\ kind \in {"get", "set", "delete"} /\ k0 \in Keys /\ t0 = NoTag
        \/ point = "docRead" /\ kind = "invalidate" /\ k0 = NoKey /\ t0 \in Tags
        \/ point = "clear" /\ kind = "clear" /\ k0 = NoKey /\ t0 = NoTag
    BY <1>4 DEF Requested
  <2> QED BY <1>2, <1>3, <1>6, <2>1, <2>2, <2>3 DEF Placed, InSection
<1>8. ASSUME NEW k \in Keys
      PROVE  Known(c, k)' /\ ~Unfinished(c, k) /\ ~Condemned(c, k) /\ ~Awaited(c, k)
  <2>1. k # NoKey
    BY CacheTagsAssumption
  <2>2. ~Setting(c, k)' /\ ~Condemned(c, k)' /\ ~Deleting(c, k)' /\ ~Awaited(c, k)'
    BY <1>6, <2>1 DEF Setting, Condemned, Deleting, Awaited
  <2>3. pc'[c] = "read" => call'[c] # "invalidate"
    BY <1>7 DEF Placed
  <2>4. pc'[c] = "clear" => call'[c] # "invalidate"
    BY <1>7 DEF Placed
  <2>5. Known(c, k)'
    BY <1>6, <2>1, <2>2, <2>3, <2>4 DEF Known
  <2> QED BY <1>2, <2>1, <2>5 DEF Unfinished, Setting, Deleting, Condemned, Awaited
<1>9. Room'
  <2>1. ~Filling(c) /\ UNCHANGED <<store, faults>>
    BY <1>2, <1>3 DEF Filling, Untouched
  <2> QED BY <1>5, <1>8, <2>1, LookRoom
<1> QED
  <2>1. lock' \in Callers \cup {NoCaller}
    BY <1>1, <1>3 DEF StoreTyped
  <2> QED BY <1>3, <1>5, <1>7, <1>8, <1>9, <2>1, LookKept

LEMMA ReadEntryKept ==
  ASSUME IInv, NEW c \in Callers, disturbed \subseteq disturbed', ReadEntry(c)
  PROVE  Kept(c)
<1>1. LocalsTyped /\ StoreTyped
  BY TypeParts DEF IInv
<1>2. /\ pc[c] = "read" /\ call[c] \in {"get", "set", "delete"} /\ key[c] \in Keys
      /\ tag[c] = NoTag /\ target[c] = NoKey /\ work[c] = {} /\ victims[c] = {} /\ lock # c
  BY <1>1 DEF ReadEntry, At, IInv, Placed, InSection, LocalsTyped
<1>3. Untouched /\ lock' = lock /\ faults' = faults
  BY DEF ReadEntry, Untouched
<1>4. lock' \in Callers \cup {NoCaller}
  BY <1>1, <1>3 DEF StoreTyped
<1>5. CASE Leave(c)
  BY <1>2, <1>3, <1>5, EndKept DEF InSection, Filling
<1>6. CASE /\ call[c] = "set" /\ prev' = [prev EXCEPT ![c] = tagsOf[key[c]]] /\ Goto(c, "write")
           /\ UNCHANGED <<request, target, work, item, buf, victims, since>>
  <2>1. LocalsTyped' /\ Others(c)
    BY <1>1, <1>2, <1>3, <1>6 DEF LocalsTyped, StoreTyped, Others, request, Goto, Points
  <2>2. /\ pc'[c] = "write" /\ call'[c] = "set" /\ key'[c] = key[c] /\ tag'[c] = NoTag
        /\ target'[c] = NoKey /\ work'[c] = {} /\ victims'[c] = {} /\ prev'[c] = tagsOf[key[c]]
    BY <1>1, <1>2, <1>6 DEF LocalsTyped, request, Goto
  <2>3. Placed(c)'
    BY <1>2, <1>3, <2>2, CacheTagsAssumption DEF Placed, InSection
  <2>4. ASSUME NEW k \in Keys
        PROVE  Known(c, k)' /\ ~Unfinished(c, k) /\ ~Condemned(c, k) /\ ~Awaited(c, k)
    <3>1. k # NoKey
      BY CacheTagsAssumption
    <3>2. ~Setting(c, k)' /\ ~Condemned(c, k)' /\ ~Deleting(c, k)' /\ ~Awaited(c, k)'
      BY <2>2, <3>1 DEF Setting, Condemned, Deleting, Awaited
    <3>3. tagsOf' = tagsOf
      BY <1>3 DEF Untouched, store
    <3> QED BY <1>2, <2>2, <3>1, <3>2, <3>3
        DEF Known, Unfinished, Setting, Deleting, Condemned, Awaited
  <2>5. Room'
    <3>1. ~Filling(c) /\ UNCHANGED <<store, faults>>
      BY <1>2, <1>3 DEF Filling, Untouched
    <3> QED BY <2>1, <2>4, <3>1, LookRoom
  <2> QED BY <1>3, <1>4, <2>1, <2>3, <2>4, <2>5, LookKept
<1>7. CASE /\ call[c] # "set" /\ Deletes(c, key[c]) /\ Condemn(c, Entry(key[c]))
           /\ UNCHANGED <<request, prev, item, buf, victims, since>>
  <2> DEFINE ts == tagsOf[key[c]]
  <2>1. /\ target' = [target EXCEPT ![c] = key[c]] /\ work' = [work EXCEPT ![c] = Changes("drop", ts)]
        /\ pc' = [pc EXCEPT ![c] = "lock"] /\ prev' = prev /\ item' = item /\ buf' = buf
        /\ victims' = victims /\ since' = since /\ call' = call /\ key' = key /\ tag' = tag
        /\ next' = next
    BY <1>7 DEF Condemn, Entry, Goto, request
  <2>2. ts \subseteq Tags /\ Changes("drop", ts) \subseteq Change
    BY <1>1, <1>2 DEF Changes, Change, StoreTyped
  <2>3. LocalsTyped' /\ Others(c)
    BY <1>1, <1>2, <1>3, <2>1, <2>2 DEF LocalsTyped, Others, Points
  <2>4. /\ pc'[c] = "lock" /\ call'[c] = call[c] /\ key'[c] = key[c] /\ tag'[c] = NoTag
        /\ target'[c] = key[c] /\ work'[c] = Changes("drop", ts) /\ victims'[c] = {}
        /\ next'[c] = next[c] /\ prev'[c] = prev[c]
    BY <1>1, <1>2, <2>1 DEF LocalsTyped
  <2>5. \A w \in Changes("drop", ts) : w.op = "drop"
    BY DEF Changes
  <2>6. Placed(c)'
    BY <1>2, <1>3, <1>7, <2>4, <2>5, CacheTagsAssumption DEF Placed, InSection
  <2>7. ASSUME NEW k \in Keys
        PROVE  Known(c, k)' /\ ~Unfinished(c, k) /\ ~Condemned(c, k) /\ ~Awaited(c, k)
    <3>1. k # NoKey
      BY CacheTagsAssumption
    <3>2. /\ ~Setting(c, k)' /\ ~Deleting(c, k)' /\ ~Awaited(c, k)'
          /\ Condemned(c, k)' <=> k = key[c]
      BY <1>2, <2>4, <3>1, CacheTagsAssumption DEF Setting, Condemned, Deleting, Awaited
    <3>3. tagsOf' = tagsOf /\ live' = live
      BY <1>3 DEF Untouched, store
    <3>4. \A t \in Tags : Drop(t) \in Changes("drop", ts) <=> t \in ts
      BY <2>2 DEF Drop, Changes
    <3>5. call[c] = "get" => key[c] \notin live
      BY <1>7 DEF Deletes
    <3> QED BY <1>2, <2>4, <3>1, <3>2, <3>3, <3>4, <3>5
        DEF Known, Unfinished, Setting, Deleting, Condemned, Awaited
  <2>8. Room'
    <3>1. ~Filling(c) /\ UNCHANGED <<store, faults>>
      BY <1>2, <1>3 DEF Filling, Untouched
    <3> QED BY <2>3, <2>7, <3>1, LookRoom
  <2> QED BY <1>3, <1>4, <2>3, <2>6, <2>7, <2>8, LookKept
<1> QED BY <1>5, <1>6, <1>7 DEF ReadEntry

LEMMA WriteEntryKept ==
  ASSUME IInv, NEW c \in Callers, disturbed \subseteq disturbed', WriteEntry(c)
  PROVE  Kept(c)
<1> DEFINE k0 == key[c]
<1>1. LocalsTyped /\ StoreTyped /\ Placed(c)
  BY TypeParts DEF IInv
<1>2. /\ pc[c] = "write" /\ call[c] = "set" /\ k0 \in Keys /\ tag[c] = NoTag /\ target[c] = NoKey
      /\ work[c] = {} /\ victims[c] = {} /\ lock # c
  BY <1>1 DEF WriteEntry, At, Placed, InSection, LocalsTyped
<1>3. /\ \E p \in PlacesFor(k0, since[c]) : place' = Refreshed(k0, p)
      /\ live' = live \cup {k0}
      /\ since' = [d \in Callers |-> IF d # c /\ SettingNow(d) THEN since[d] \cup {k0} ELSE {}]
      /\ tagsOf' = [tagsOf EXCEPT ![k0] = next[c]] /\ doc' = doc /\ lock' = lock
      /\ faults' = faults /\ work' = [work EXCEPT ![c] = TagChanges(prev[c], next[c])]
      /\ pc' = [pc EXCEPT ![c] = "lock"] /\ call' = call /\ key' = key /\ tag' = tag
      /\ next' = next /\ prev' = prev /\ target' = target /\ item' = item /\ buf' = buf
      /\ victims' = victims
  BY DEF WriteEntry, Goto, request
<1>4. /\ Ranked(place') /\ \A j \in Keys : place'[j] # 0 <=> j = k0 \/ place[j] # 0
  BY <1>1, <1>2, <1>3, StoreRanked, RefreshedRanked
<1>5. StoreTyped'
  <2>1. live' \subseteq Stored'
    BY <1>1, <1>2, <1>3, <1>4 DEF StoreTyped, Stored
  <2>2. next[c] \subseteq Tags
    BY <1>1 DEF LocalsTyped
  <2> QED BY <1>1, <1>2, <1>3, <1>4, <2>1, <2>2, StoreRanked DEF StoreTyped
<1>6. LocalsTyped' /\ Others(c)
  <2>1. TagChanges(prev[c], next[c]) \subseteq Change
    BY <1>1 DEF TagChanges, Changes, Change, LocalsTyped
  <2>2. since' \in [Callers -> SUBSET Keys]
    BY <1>1, <1>2, <1>3 DEF LocalsTyped
  <2> QED BY <1>1, <1>3, <2>1, <2>2 DEF LocalsTyped, Others, Points
<1>7. /\ pc'[c] = "lock" /\ work'[c] = TagChanges(prev[c], next[c])
  BY <1>1, <1>3 DEF LocalsTyped
<1>8. Placed(c)'
  BY <1>2, <1>3, <1>7, CacheTagsAssumption DEF Placed, InSection
<1>9. ASSUME NEW k \in Keys
      PROVE  tagsOf'[k] = (IF k = k0 THEN next[c] ELSE tagsOf[k])
  BY <1>1, <1>2, <1>3 DEF StoreTyped
<1>10. \A k \in Keys : tagsOf'[k] # {} => place'[k] # 0
  BY <1>4, <1>9 DEF IInv, Stored
<1>11. ASSUME NEW k \in Keys
       PROVE  /\ Touches(c, k) <=> k = k0
              /\ Setting(c, k)' <=> k = k0
              /\ ~Condemned(c, k)' /\ ~Deleting(c, k)' /\ ~Awaited(c, k)'
  <2>1. k # NoKey
    BY CacheTagsAssumption
  <2> QED BY <1>2, <1>3, <1>7, <2>1
      DEF Touches, Setting, Condemned, Deleting, Awaited
<1>12. ASSUME NEW k \in Keys \ disturbed'
       PROVE  Spared(c, k) /\ Announced(c, k) /\ Known(c, k)' /\ Finished(c, k)
  <2>1. Spared(c, k)
    BY <1>3, <1>9, <1>11 DEF Spared
  <2>2. Announced(c, k)
    BY <1>3, <1>9 DEF Announced
  <2>3. Finished(c, k)
    BY <1>11 DEF Finished, Unfinished
  <2>4. ASSUME k # k0
        PROVE  Known(c, k)'
    <3>1. ~Setting(c, k)' /\ ~Condemned(c, k)' /\ ~Deleting(c, k)' /\ ~Awaited(c, k)'
      BY <1>11, <2>4
    <3>2. target'[c] # k /\ victims'[c] = {} /\ call'[c] = "set" /\ pc'[c] = "lock"
      BY <1>2, <1>3, <1>7, CacheTagsAssumption
    <3> QED BY <3>1, <3>2 DEF Known
  <2>5. ASSUME k = k0
        PROVE  Known(c, k)'
    <3>1. prev[c] = tagsOf[k]
      BY <1>2, <2>5 DEF IInv, Consistent, Known
    <3>2. Listed(k)
      <4>1. ~Unfinished(c, k)
        BY <1>2, CacheTagsAssumption DEF Unfinished, Setting, Deleting
      <4> QED BY <1>11, <2>5, <4>1, UndoneByOne
    <3>3. ASSUME NEW t \in Tags
          PROVE  /\ Drop(t) \in work'[c] <=> t \in prev[c] \ next[c]
                 /\ Add(t) \in work'[c] <=> t \in next[c] \ prev[c]
      BY <1>7 DEF TagChanges, Changes, Drop, Add
    <3>4. ASSUME NEW t \in Tags
          PROVE  /\ Drop(t) \in work'[c] => t \notin next[c]
                 /\ Add(t) \in work'[c] => t \in next[c]
                 /\ Drop(t) \in work'[c] \/ Add(t) \in work'[c] \/ (k \in doc[t] <=> t \in next[c])
      <4>1. k \in doc[t] <=> t \in prev[c]
        BY <3>1, <3>2 DEF Listed
      <4> QED BY <3>3, <4>1
    <3>5. tagsOf'[k] = next[c]
      BY <1>9, <2>5
    <3>6. ~Condemned(c, k)' /\ ~Deleting(c, k)' /\ ~Awaited(c, k)'
      BY <1>11
    <3>7. /\ target'[c] # k /\ victims'[c] = {} /\ call'[c] = "set" /\ pc'[c] = "lock"
          /\ next' = next /\ doc' = doc
      BY <1>2, <1>3, <1>7, CacheTagsAssumption
    <3> QED BY <3>4, <3>5, <3>6, <3>7 DEF Known
  <2> QED BY <2>1, <2>2, <2>3, <2>4, <2>5
<1>13. Room'
  <2>1. Filling(c)'
    BY <1>2, <1>3, <1>7 DEF Filling
  <2> QED BY <2>1, FillingRoom
<1> QED BY <1>5, <1>6, <1>8, <1>10, <1>12, <1>13 DEF Kept

----------------------------------------------------------------------------
(* The critical section.                                                   *)

LEMMA LockKept ==
  ASSUME IInv, NEW c \in Callers, disturbed \subseteq disturbed', Lock(c)
  PROVE  Kept(c)
<1> DEFINE point == IF target[c] = NoKey THEN "doc" ELSE "entry"
<1>1. LocalsTyped /\ Placed(c)
  BY TypeParts DEF IInv
<1>2. pc[c] = "lock" /\ lock = NoCaller /\ lock' = c /\ Untouched /\ faults' = faults
  BY DEF Lock, At, Untouched
<1>3. /\ pc' = [pc EXCEPT ![c] = point] /\ UNCHANGED <<call, key, tag, next>>
      /\ UNCHANGED <<prev, target, work, item, buf, victims, since>>
  BY DEF Lock, Goto, request, locals
<1>4. LocalsTyped' /\ Others(c)
  BY <1>1, <1>2, <1>3, CacheTagsAssumption DEF LocalsTyped, Others, Points
<1>5. pc'[c] = point
  BY <1>1, <1>3 DEF LocalsTyped
<1>6. Placed(c)'
  BY <1>1, <1>2, <1>3, <1>5 DEF Placed, InSection
<1>7. ASSUME NEW k \in Keys
      PROVE  /\ Setting(c, k)' <=> Setting(c, k)
             /\ Condemned(c, k)' <=> Condemned(c, k)
             /\ Awaited(c, k)' <=> Awaited(c, k)
             /\ ~Deleting(c, k)' /\ ~Deleting(c, k)
  <2>1. k # NoKey
    BY CacheTagsAssumption
  <2> QED BY <1>2, <1>3, <1>5, <2>1 DEF Setting, Condemned, Awaited, Deleting
<1>8. ASSUME NEW k \in Keys \ disturbed
      PROVE  Known(c, k)' /\ (Unfinished(c, k) => Unfinished(c, k)')
  <2>1. Known(c, k)
    BY DEF IInv, Consistent
  <2>2. tagsOf' = tagsOf /\ live' = live /\ doc' = doc
    BY <1>2 DEF Untouched, store
  <2>3. Known(c, k)'
    BY <1>2, <1>3, <1>5, <1>7, <2>1, <2>2 DEF Known
  <2> QED BY <1>2, <1>7, <2>3 DEF Unfinished
<1>9. Room'
  <2>1. UNCHANGED <<store, faults>> /\ (Filling(c) => Filling(c)')
    BY <1>2, <1>3, <1>5 DEF Untouched, Filling
  <2> QED BY <1>4, <1>7, <2>1, LookRoom
<1> QED BY <1>2, <1>4, <1>6, <1>8, <1>9, LookKept

LEMMA DeleteEntryKept ==
  ASSUME IInv, NEW c \in Callers, disturbed \subseteq disturbed', DeleteEntry(c)
  PROVE  Kept(c)
<1> DEFINE k0 == target[c]
<1>1. LocalsTyped /\ StoreTyped /\ Placed(c)
  BY TypeParts DEF IInv
<1>2. /\ pc[c] = "entry" /\ k0 \in Keys /\ lock = c /\ lock' = lock /\ doc' = doc /\ faults' = faults
      /\ RemoveEntry(k0) /\ pc' = [pc EXCEPT ![c] = "doc"] /\ UNCHANGED <<call, key, tag, next>>
      /\ UNCHANGED <<prev, target, work, item, buf, victims, since>>
  BY <1>1 DEF DeleteEntry, At, Placed, InSection, LocalsTyped, Goto, request, locals
<1>3. /\ Ranked(place') /\ place'[k0] = 0
      /\ \A j \in Keys \ {k0} : place'[j] <= place[j] /\ (place'[j] # 0 <=> place[j] # 0)
  BY <1>1, <1>2, StoreRanked, RemovedRanked DEF RemoveEntry
<1>4. live' = live \ {k0} /\ tagsOf' = [tagsOf EXCEPT ![k0] = {}]
  BY <1>2 DEF RemoveEntry
<1>5. StoreTyped'
  <2>1. live' \subseteq Stored'
    BY <1>1, <1>3, <1>4 DEF StoreTyped, Stored
  <2>2. tagsOf' \in [Keys -> SUBSET Tags]
    BY <1>1, <1>4 DEF StoreTyped
  <2>3. doc' \in [Tags -> SUBSET Keys] /\ lock' \in Callers \cup {NoCaller} /\ faults' \in 0 .. MaxFaults
    BY <1>1, <1>2 DEF StoreTyped
  <2>4. /\ place' \in [Keys -> Nat]
        /\ \A j, k \in Stored' : place'[j] = place'[k] => j = k
        /\ \A k \in Keys : place'[k] > 1 => \E j \in Keys : place'[j] = place'[k] - 1
    BY <1>3, StoreRanked
  <2> QED BY <2>1, <2>2, <2>3, <2>4 DEF StoreTyped
<1>6. LocalsTyped' /\ Others(c) /\ pc'[c] = "doc"
  BY <1>1, <1>2 DEF LocalsTyped, Others, Points
<1>7. Placed(c)'
  BY <1>1, <1>2, <1>6, CacheTagsAssumption DEF Placed, InSection
<1>8. ASSUME NEW k \in Keys
      PROVE  tagsOf'[k] = IF k = k0 THEN {} ELSE tagsOf[k]
  BY <1>1, <1>4 DEF StoreTyped
<1>9. \A k \in Keys : tagsOf'[k] # {} => place'[k] # 0
  BY <1>3, <1>8 DEF IInv, Stored
<1>10. ASSUME NEW k \in Keys
       PROVE  /\ ~Setting(c, k) /\ ~Setting(c, k)' /\ ~Condemned(c, k)' /\ ~Deleting(c, k)
              /\ Condemned(c, k) <=> k = k0
              /\ Deleting(c, k)' <=> k = k0
              /\ Awaited(c, k)' <=> Awaited(c, k)
  BY <1>2, <1>6, CacheTagsAssumption DEF Setting, Condemned, Deleting, Awaited
<1>11. ASSUME NEW k \in Keys \ disturbed'
       PROVE  Spared(c, k) /\ Announced(c, k) /\ Known(c, k)' /\ Finished(c, k)
  <2>1. Known(c, k)
    BY DEF IInv, Consistent
  <2>2. Spared(c, k)
    BY <1>2, <1>4, <1>8 DEF Spared, Touches
  <2>3. Announced(c, k)
    BY <1>2, <1>8 DEF Announced
  <2>4. ~Unfinished(c, k)
    BY <1>2, <1>10 DEF Unfinished
  <2>5. CASE k = k0
    <3>1. Listed(k)
      <4>1. Touches(c, k)
        BY <2>5 DEF Touches
      <4> QED BY <2>4, <4>1, UndoneByOne
    <3>2. \A t \in Tags : Drop(t) \in work[c] <=> t \in tagsOf[k]
      BY <1>10, <2>1, <2>5 DEF Known
    <3>3. \A t \in Tags : k \in doc'[t] => Drop(t) \in work'[c]
      BY <1>2, <3>1, <3>2 DEF Listed
    <3>4. tagsOf'[k] = {} /\ ~Awaited(c, k)
      BY <1>8, <2>1, <2>5 DEF Known
    <3>5. \A v \in victims[c] : v.key # k
      BY <3>4 DEF Awaited
    <3>6. ~Setting(c, k)' /\ ~Condemned(c, k)' /\ ~Awaited(c, k)' /\ Deleting(c, k)'
      BY <1>10, <2>5, <3>4
    <3>7. Known(c, k)'
      BY <1>2, <1>6, <3>3, <3>4, <3>5, <3>6 DEF Known
    <3>8. Finished(c, k)
      BY <3>6 DEF Finished, Unfinished
    <3> QED BY <2>2, <2>3, <3>7, <3>8
  <2>6. CASE k # k0
    <3>1. tagsOf'[k] = tagsOf[k]
      BY <1>8, <2>6
    <3>2. /\ ~Setting(c, k)' /\ ~Condemned(c, k)' /\ ~Deleting(c, k)' /\ ~Condemned(c, k)
          /\ Awaited(c, k)' <=> Awaited(c, k)
      BY <1>10, <2>6
    <3>3. Known(c, k)'
      BY <1>2, <1>6, <2>1, <2>6, <3>1, <3>2 DEF Known
    <3>4. Finished(c, k)
      BY <1>2, <2>4, <3>1 DEF Finished, Listed
    <3> QED BY <2>2, <2>3, <3>3, <3>4
  <2> QED BY <2>5, <2>6
<1>12. Room'
  <2>1. ~Filling(c)
    BY <1>2, CacheTagsAssumption DEF Filling
  <2>2. \A k \in Keys : place'[k] # 0 => place[k] # 0 /\ place'[k] <= place[k]
    BY <1>3
  <2>3. place' \in [Keys -> Nat]
    BY <1>3 DEF Ranked
  <2>4. \A k \in Keys : place'[k] # 0 /\ (Condemned(c, k) \/ Awaited(c, k)) =>
                          Condemned(c, k)' \/ Awaited(c, k)'
    BY <1>3, <1>10
  <2> QED BY <1>2, <1>6, <2>1, <2>2, <2>3, <2>4, RoomKept
<1> QED BY <1>5, <1>6, <1>7, <1>9, <1>11, <1>12 DEF Kept

LEMMA ReadDocKept ==
  ASSUME IInv, NEW c \in Callers, disturbed \subseteq disturbed', NEW w \in work[c], ReadDoc(c, w)
  PROVE  Kept(c)
<1>1. LocalsTyped /\ StoreTyped /\ Placed(c)
  BY TypeParts DEF IInv
<1>2. /\ pc[c] = "doc" /\ Untouched /\ lock' = lock /\ faults' = faults
      /\ item' = [item EXCEPT ![c] = w] /\ buf' = [buf EXCEPT ![c] = doc[w.tag]]
      /\ pc' = [pc EXCEPT ![c] = "docWrite"] /\ UNCHANGED <<call, key, tag, next>>
      /\ UNCHANGED <<prev, target, work, victims, since>>
  BY DEF ReadDoc, At, Untouched, Goto, request
<1>3. w \in Change /\ doc[w.tag] \subseteq Keys
  BY <1>1 DEF LocalsTyped, StoreTyped, Change
<1>4. LocalsTyped' /\ Others(c)
  BY <1>1, <1>2, <1>3 DEF LocalsTyped, Others, Points
<1>5. pc'[c] = "docWrite" /\ item'[c] = w /\ buf'[c] = doc[w.tag]
  BY <1>1, <1>2 DEF LocalsTyped
<1>6. Placed(c)'
  BY <1>1, <1>2, <1>5 DEF Placed, InSection
<1>7. ASSUME NEW k \in Keys
      PROVE  /\ Setting(c, k)' <=> Setting(c, k)
             /\ Deleting(c, k)' <=> Deleting(c, k)
             /\ Awaited(c, k)' <=> Awaited(c, k)
             /\ ~Condemned(c, k)' /\ ~Condemned(c, k)
  BY <1>2, <1>5 DEF Setting, Condemned, Awaited, Deleting
<1>8. ASSUME NEW k \in Keys \ disturbed
      PROVE  Known(c, k)' /\ (Unfinished(c, k) => Unfinished(c, k)')
  <2>1. Known(c, k)
    BY DEF IInv, Consistent
  <2>2. tagsOf' = tagsOf /\ live' = live /\ doc' = doc
    BY <1>2 DEF Untouched, store
  <2>3. Known(c, k)'
    BY <1>2, <1>5, <1>7, <2>1, <2>2 DEF Known
  <2> QED BY <1>2, <1>7, <2>3 DEF Unfinished
<1>9. Room'
  <2>1. UNCHANGED <<store, faults>> /\ (Filling(c) => Filling(c)')
    BY <1>2, <1>5 DEF Untouched, Filling
  <2> QED BY <1>4, <1>7, <2>1, LookRoom
<1> QED
  <2>1. lock' \in Callers \cup {NoCaller}
    BY <1>1, <1>2 DEF StoreTyped
  <2> QED BY <1>2, <1>4, <1>6, <1>8, <1>9, <2>1, LookKept

LEMMA WriteDocKept ==
  ASSUME IInv, NEW c \in Callers, disturbed \subseteq disturbed', WriteDoc(c)
  PROVE  Kept(c)
<1> DEFINE s0 == IF target[c] = NoKey THEN key[c] ELSE target[c]
           i0 == item[c]
           t0 == i0.tag
           new == IF i0.op = "add" THEN buf[c] \cup {s0} ELSE buf[c] \ {s0}
<1>1. LocalsTyped /\ StoreTyped /\ Placed(c)
  BY TypeParts DEF IInv
<1>2. /\ pc[c] = "docWrite" /\ lock = c /\ lock' = lock /\ faults' = faults
      /\ UNCHANGED store /\ doc' = [doc EXCEPT ![t0] = new]
      /\ work' = [work EXCEPT ![c] = work[c] \ {i0}] /\ item' = [item EXCEPT ![c] = NoChange]
      /\ buf' = [buf EXCEPT ![c] = {}] /\ pc' = [pc EXCEPT ![c] = "doc"]
      /\ UNCHANGED <<call, key, tag, next>> /\ UNCHANGED <<prev, target, victims, since>>
  BY <1>1 DEF WriteDoc, At, Goto, request, Placed, InSection
<1>3. i0 \in work[c] /\ i0 \in Change /\ t0 \in Tags /\ s0 \in Keys
  BY <1>1, <1>2 DEF LocalsTyped, Placed, Change
<1>4. StoreTyped'
  <2>1. new \subseteq Keys
    BY <1>1, <1>3 DEF LocalsTyped
  <2> QED BY <1>1, <1>2, <1>3, <2>1 DEF StoreTyped, store, Stored
<1>5. LocalsTyped' /\ Others(c)
  BY <1>1, <1>2 DEF LocalsTyped, Others, Points
<1>6. /\ pc'[c] = "doc" /\ work'[c] = work[c] \ {i0}
      /\ \A t \in Tags : doc'[t] = IF t = t0 THEN new ELSE doc[t]
  BY <1>1, <1>2, <1>3 DEF LocalsTyped, StoreTyped
<1>7. Placed(c)'
  BY <1>1, <1>2, <1>6 DEF Placed, InSection
<1>8. tagsOf' = tagsOf /\ live' = live /\ place' = place
  BY <1>2 DEF store
<1>9. \A k \in Keys : tagsOf'[k] # {} => place'[k] # 0
  BY <1>8 DEF IInv, Stored
<1>10. ASSUME NEW k \in Keys
       PROVE  /\ Setting(c, k)' <=> Setting(c, k)
              /\ Deleting(c, k)' <=> Deleting(c, k)
              /\ Awaited(c, k)' <=> Awaited(c, k)
              /\ ~Condemned(c, k)' /\ ~Condemned(c, k)
              /\ s0 = k <=> Setting(c, k) \/ Deleting(c, k)
  BY <1>1, <1>2, <1>6, CacheTagsAssumption DEF Setting, Condemned, Awaited, Deleting, Placed
<1>11. ASSUME NEW k \in Keys \ disturbed'
       PROVE  Spared(c, k) /\ Announced(c, k) /\ Known(c, k)' /\ Finished(c, k)
  <2>1. Known(c, k)
    BY DEF IInv, Consistent
  <2>2. k \in buf[c] <=> k \in doc[t0]
    BY <1>2, <2>1 DEF Known
  <2>3. ASSUME NEW t \in Tags
        PROVE  k \in doc'[t] <=> IF s0 = k /\ t = t0 THEN i0.op = "add" ELSE k \in doc[t]
    BY <1>6, <2>2
  <2>4. Spared(c, k)
    BY <1>8, <2>3 DEF Spared, Touches
  <2>5. Announced(c, k)
    <3>1. ASSUME NEW d \in Callers \ {c}
          PROVE  pc[d] # "docWrite"
      BY <1>2 DEF IInv, Placed, InSection
    <3> QED BY <1>8, <3>1 DEF Announced
  <2>6. Finished(c, k)
    <3>1. CASE s0 = k
      BY <1>10, <3>1 DEF Finished, Unfinished
    <3>2. CASE s0 # k
      <4>1. ~Unfinished(c, k)
        BY <1>2, <1>10, <3>2 DEF Unfinished
      <4>2. Listed(k)' <=> Listed(k)
        BY <1>8, <2>3, <3>2 DEF Listed
      <4> QED BY <4>1, <4>2 DEF Finished
    <3> QED BY <3>1, <3>2
  <2>7. ASSUME Setting(c, k), NEW t \in Tags
        PROVE  /\ Drop(t) \in work'[c] => t \notin next'[c]
               /\ Add(t) \in work'[c] => t \in next'[c]
               /\ Drop(t) \in work'[c] \/ Add(t) \in work'[c] \/ (k \in doc'[t] <=> t \in next'[c])
    <3>1. /\ Drop(t) \in work[c] => t \notin next[c]
          /\ Add(t) \in work[c] => t \in next[c]
          /\ Drop(t) \in work[c] \/ Add(t) \in work[c] \/ (k \in doc[t] <=> t \in next[c])
      BY <2>1, <2>7 DEF Known
    <3>2. next'[c] = next[c] /\ s0 = k
      BY <1>2, <1>10, <2>7
    <3>3. CASE t = t0
      <4>1. \/ i0 = Drop(t) /\ i0.op = "drop" 
            \/ i0 = Add(t) /\ i0.op = "add"
        BY <1>3, <3>3 DEF Change, Drop, Add
      <4>2. (k \in doc'[t]) <=> (i0.op = "add")
        BY <2>3, <3>2, <3>3
      <4> QED BY <1>3, <1>6, <3>1, <3>2, <4>1, <4>2
    <3>4. CASE t # t0
      <4>1. Drop(t) # i0 /\ Add(t) # i0
        BY <3>4 DEF Drop, Add
      <4>2. (k \in doc'[t]) <=> (k \in doc[t])
        BY <2>3, <3>4
      <4> QED BY <1>6, <3>1, <3>2, <4>1, <4>2
    <3> QED BY <3>3, <3>4
  <2>8. ASSUME Deleting(c, k)
        PROVE  tagsOf'[k] = {} /\ \A t \in Tags : k \in doc'[t] => Drop(t) \in work'[c]
    <3>1. tagsOf[k] = {} /\ \A t \in Tags : k \in doc[t] => Drop(t) \in work[c]
      BY <2>1, <2>8 DEF Known
    <3>2. i0.op = "drop" /\ s0 = k
      BY <1>1, <1>3, <1>10, <2>8, CacheTagsAssumption DEF Placed, Deleting
    <3>3. ASSUME NEW t \in Tags, k \in doc'[t]
          PROVE  Drop(t) \in work'[c]
      <4>1. t # t0 /\ k \in doc[t]
        BY <2>3, <3>2, <3>3
      <4>2. Drop(t) # i0
        BY <4>1 DEF Drop
      <4> QED BY <1>6, <3>1, <4>1, <4>2
    <3> QED BY <1>8, <3>1, <3>3
  <2>9. Known(c, k)'
    <3>1. /\ pc'[c] = "doc" /\ call' = call /\ tag' = tag /\ target' = target /\ victims' = victims
          /\ tagsOf' = tagsOf
      BY <1>2, <1>6, <1>8
    <3>2. tagsOf'[k] = next'[c] \/ ~Setting(c, k)
      BY <1>2, <1>8, <2>1 DEF Known
    <3>3. /\ target[c] = k => ~Awaited(c, k)
          /\ \A v \in victims[c] :
               v.key = k => v.tags = tagsOf[k] /\ (call[c] = "invalidate" => tag[c] \in tagsOf[k])
          /\ call[c] = "invalidate" /\ tag[c] \in tagsOf[k] => Awaited(c, k)
      BY <1>2, <1>10, <2>1 DEF Known
    <3> QED BY <1>10, <2>7, <2>8, <3>1, <3>2, <3>3 DEF Known
  <2> QED BY <2>4, <2>5, <2>6, <2>9
<1>12. Room'
  <2>1. UNCHANGED <<store, faults>> /\ (Filling(c) => Filling(c)')
    BY <1>2, <1>6 DEF Filling
  <2> QED BY <1>5, <1>10, <2>1, LookRoom
<1> QED BY <1>4, <1>5, <1>7, <1>9, <1>11, <1>12 DEF Kept

LEMMA UnlockKept ==
  ASSUME IInv, NEW c \in Callers, disturbed \subseteq disturbed', Unlock(c)
  PROVE  Kept(c)
<1> DEFINE point == IF target[c] = NoKey THEN "trim" ELSE "next"
<1>1. LocalsTyped /\ Placed(c)
  BY TypeParts DEF IInv
<1>2. /\ pc[c] = "doc" /\ work[c] = {} /\ lock = c /\ lock' = NoCaller /\ Untouched /\ faults' = faults
      /\ pc' = [pc EXCEPT ![c] = point] /\ target' = [target EXCEPT ![c] = NoKey]
      /\ UNCHANGED <<call, key, tag, next>> /\ UNCHANGED <<prev, work, item, buf, victims, since>>
  BY <1>1 DEF Unlock, At, Untouched, Goto, request, Placed, InSection
<1>3. LocalsTyped' /\ Others(c)
  BY <1>1, <1>2, CacheTagsAssumption DEF LocalsTyped, Others, Points
<1>4. pc'[c] = point /\ target'[c] = NoKey
  BY <1>1, <1>2 DEF LocalsTyped
<1>5. Placed(c)'
  BY <1>1, <1>2, <1>4, CacheTagsAssumption DEF Placed, InSection
<1>6. ASSUME NEW k \in Keys
      PROVE  /\ ~Setting(c, k)' /\ ~Deleting(c, k)' /\ ~Condemned(c, k)' /\ ~Condemned(c, k)
             /\ Awaited(c, k)' <=> Awaited(c, k)
             /\ target'[c] # k
  <2>1. k # NoKey
    BY CacheTagsAssumption
  <2> QED BY <1>2, <1>4, <2>1 DEF Setting, Condemned, Awaited, Deleting
<1>7. ASSUME NEW k \in Keys \ disturbed
      PROVE  Known(c, k)' /\ (Unfinished(c, k) => Listed(k))
  <2>1. Known(c, k)
    BY DEF IInv, Consistent
  <2>2. tagsOf' = tagsOf
    BY <1>2 DEF Untouched, store
  <2>3. Known(c, k)'
    BY <1>2, <1>4, <1>6, <2>1, <2>2 DEF Known
  <2>4. Setting(c, k) => Listed(k)
    BY <1>2, <2>1 DEF Known, Listed
  <2>5. Deleting(c, k) => Listed(k)
    BY <1>2, <2>1 DEF Known, Listed
  <2> QED BY <1>2, <2>3, <2>4, <2>5 DEF Unfinished
<1>8. Room'
  <2>1. UNCHANGED <<store, faults>> /\ (Filling(c) => Filling(c)')
    BY <1>2, <1>4 DEF Untouched, Filling
  <2> QED BY <1>3, <1>6, <2>1, LookRoom
<1> QED BY <1>2, <1>3, <1>5, <1>7, <1>8, LookKept

----------------------------------------------------------------------------
(* Deleting what was listed.                                               *)

LEMMA TrimKept ==
  ASSUME IInv, NEW c \in Callers, disturbed \subseteq disturbed', Trim(c)
  PROVE  Kept(c)
<1> DEFINE listed == {Entry(k) : k \in Overflow}
<1>1. LocalsTyped /\ StoreTyped /\ Placed(c)
  BY TypeParts DEF IInv
<1>2. /\ pc[c] = "trim" /\ Untouched /\ lock' = lock /\ faults' = faults
      /\ victims' = [victims EXCEPT ![c] = listed] /\ pc' = [pc EXCEPT ![c] = "next"]
      /\ UNCHANGED <<call, key, tag, next>> /\ UNCHANGED <<prev, target, work, item, buf, since>>
  BY DEF Trim, At, Untouched, Goto, request
<1>3. call[c] = "set" /\ target[c] = NoKey /\ work[c] = {} /\ victims[c] = {} /\ lock # c
  BY <1>1, <1>2 DEF Placed, InSection
<1>4. listed \subseteq Entries
  BY <1>1 DEF Overflow, Stored, Entry, Entries, StoreTyped
<1>5. LocalsTyped' /\ Others(c)
  BY <1>1, <1>2, <1>4 DEF LocalsTyped, Others, Points
<1>6. pc'[c] = "next" /\ victims'[c] = listed
  BY <1>1, <1>2 DEF LocalsTyped
<1>7. Placed(c)'
  BY <1>1, <1>2, <1>3, <1>6 DEF Placed, InSection
<1>8. ASSUME NEW k \in Keys
      PROVE  /\ ~Setting(c, k)' /\ ~Deleting(c, k)' /\ ~Condemned(c, k)'
             /\ ~Unfinished(c, k) /\ target'[c] # k
             /\ k \in Overflow => Awaited(c, k)'
             /\ \A v \in listed : v.key = k => v.tags = tagsOf[k]
  <2>1. k # NoKey
    BY CacheTagsAssumption
  <2>2. ~Setting(c, k)' /\ ~Deleting(c, k)' /\ ~Condemned(c, k)' /\ ~Unfinished(c, k) /\ target'[c] # k
    BY <1>2, <1>3, <1>6, <2>1 DEF Setting, Condemned, Deleting, Unfinished
  <2>3. k \in Overflow => Awaited(c, k)'
    <3>1. k \in Overflow => Entry(k) \in victims'[c]
      BY <1>6
    <3>2. Entry(k).key = k
      BY DEF Entry
    <3> QED BY <3>1, <3>2 DEF Awaited
  <2>4. \A v \in listed : v.key = k => v.tags = tagsOf[k]
    BY DEF Entry
  <2> QED BY <2>2, <2>3, <2>4
<1>9. ASSUME NEW k \in Keys \ disturbed
      PROVE  Known(c, k)'
  <2>1. tagsOf' = tagsOf /\ call'[c] = "set"
    BY <1>2, <1>3 DEF Untouched, store
  <2> QED BY <1>6, <1>8, <2>1 DEF Known
<1>10. Room'
  <2> SUFFICES ASSUME faults' = 0, \A d \in Callers : ~Filling(d)', NEW k \in Keys, place'[k] # 0
               PROVE  place'[k] <= MaxEntries \/ \E d \in Callers : Condemned(d, k)' \/ Awaited(d, k)'
    BY DEF Room, Stored
  <2>1. place'[k] = place[k] /\ place[k] \in Nat /\ k \in Stored
    BY <1>1, <1>2 DEF Untouched, store, StoreTyped, Stored
  <2>2. place[k] > MaxEntries => k \in Overflow
    BY <2>1 DEF Overflow
  <2> QED BY <1>8, <2>1, <2>2, CacheTagsAssumption
<1> QED
  <2>1. lock' \in Callers \cup {NoCaller}
    BY <1>1, <1>2 DEF StoreTyped
  <2> QED BY <1>2, <1>5, <1>7, <1>8, <1>9, <1>10, <2>1, LookKept

LEMMA NextVictimKept ==
  ASSUME IInv, NEW c \in Callers, disturbed \subseteq disturbed', NextVictim(c)
  PROVE  Kept(c)
<1>1. LocalsTyped /\ StoreTyped /\ Placed(c)
  BY TypeParts DEF IInv
<1>2. pc[c] = "next" /\ Untouched /\ lock' = lock /\ faults' = faults
  BY DEF NextVictim, At, Untouched
<1>3. target[c] = NoKey /\ work[c] = {} /\ lock # c
  BY <1>1, <1>2 DEF Placed, InSection
<1>4. lock' \in Callers \cup {NoCaller}
  BY <1>1, <1>2 DEF StoreTyped
<1>5. ASSUME NEW k \in Keys
      PROVE  ~Setting(c, k) /\ ~Deleting(c, k) /\ ~Condemned(c, k) /\ ~Unfinished(c, k)
  BY <1>2 DEF Setting, Condemned, Deleting, Unfinished
<1>6. UNCHANGED <<store, faults>> /\ ~Filling(c)
  BY <1>2 DEF Untouched, Filling
<1>7. tagsOf' = tagsOf
  BY <1>2 DEF Untouched, store
<1>8. CASE victims[c] = {} /\ call[c] # "invalidate" /\ Leave(c)
  BY <1>2, <1>6, <1>8, EndKept DEF InSection
<1>9. CASE victims[c] = {} /\ call[c] = "invalidate" /\ Goto(c, "dropDoc") /\ UNCHANGED <<request, locals>>
  <2>1. /\ pc' = [pc EXCEPT ![c] = "dropDoc"] /\ UNCHANGED <<call, key, tag, next>>
        /\ UNCHANGED <<prev, target, work, item, buf, victims, since>>
    BY <1>9 DEF Goto, request, locals
  <2>2. LocalsTyped' /\ Others(c) /\ pc'[c] = "dropDoc"
    BY <1>1, <1>2, <2>1 DEF LocalsTyped, Others, Points
  <2>3. Placed(c)'
    BY <1>1, <1>2, <1>3, <1>9, <2>1, <2>2 DEF Placed, InSection
  <2>4. ASSUME NEW k \in Keys
        PROVE  ~Setting(c, k)' /\ ~Deleting(c, k)' /\ ~Condemned(c, k)' /\ ~Awaited(c, k) /\ target'[c] # k
    <3>1. k # NoKey
      BY CacheTagsAssumption
    <3> QED BY <1>3, <1>9, <2>1, <2>2, <3>1 DEF Setting, Condemned, Deleting, Awaited
  <2>5. ASSUME NEW k \in Keys \ disturbed
        PROVE  Known(c, k)'
    <3>1. tag[c] \notin tagsOf[k]
      <4>1. Known(c, k)
        BY DEF IInv, Consistent
      <4> QED BY <1>2, <1>5, <1>9, <2>4, <4>1 DEF Known
    <3> QED BY <1>7, <1>9, <2>1, <2>2, <2>4, <3>1 DEF Known
  <2>6. Room'
    BY <1>5, <1>6, <2>2, <2>4, LookRoom
  <2> QED BY <1>2, <1>4, <1>5, <2>2, <2>3, <2>5, <2>6, LookKept
<1>10. CASE \E v \in victims[c] :
              /\ Condemn(c, v)
              /\ victims' = [victims EXCEPT ![c] = @ \ {v}]
              /\ UNCHANGED <<request, prev, item, buf, since>>
  <2>1. PICK v \in victims[c] :
          /\ Condemn(c, v)
          /\ victims' = [victims EXCEPT ![c] = @ \ {v}]
          /\ UNCHANGED <<request, prev, item, buf, since>>
    BY <1>10
  <2>2. /\ target' = [target EXCEPT ![c] = v.key] /\ work' = [work EXCEPT ![c] = Changes("drop", v.tags)]
        /\ pc' = [pc EXCEPT ![c] = "lock"] /\ victims' = [victims EXCEPT ![c] = victims[c] \ {v}]
        /\ UNCHANGED <<call, key, tag, next>> /\ UNCHANGED <<prev, item, buf, since>>
    BY <2>1 DEF Condemn, Goto, request
  <2>3. v \in Entries /\ v.key \in Keys /\ v.tags \subseteq Tags /\ call[c] \in {"set", "invalidate"}
    BY <1>1, <2>1 DEF LocalsTyped, Entries, Placed
  <2>4. Changes("drop", v.tags) \subseteq Change /\ \A w \in Changes("drop", v.tags) : w.op = "drop"
    BY <2>3 DEF Changes, Change
  <2>5. LocalsTyped' /\ Others(c)
    BY <1>1, <1>2, <2>2, <2>3, <2>4 DEF LocalsTyped, Others, Points
  <2>6. /\ pc'[c] = "lock" /\ target'[c] = v.key /\ work'[c] = Changes("drop", v.tags)
        /\ victims'[c] = victims[c] \ {v}
    BY <1>1, <2>2 DEF LocalsTyped
  <2>7. Placed(c)'
    BY <1>1, <1>2, <1>3, <2>1, <2>2, <2>3, <2>4, <2>6, CacheTagsAssumption DEF Placed, InSection
  <2>8. ASSUME NEW k \in Keys
        PROVE  /\ ~Setting(c, k)' /\ ~Deleting(c, k)'
               /\ Condemned(c, k)' <=> k = v.key
               /\ k # v.key => (Awaited(c, k)' <=> Awaited(c, k))
    BY <2>3, <2>6, CacheTagsAssumption DEF Setting, Deleting, Condemned, Awaited
  <2>9. ASSUME NEW k \in Keys \ disturbed
        PROVE  Known(c, k)'
    <3>1. Known(c, k)
      BY DEF IInv, Consistent
    <3>2. /\ \A x \in victims[c] :
               x.key = k => x.tags = tagsOf[k] /\ (call[c] = "invalidate" => tag[c] \in tagsOf[k])
          /\ call[c] = "invalidate" /\ tag[c] \in tagsOf[k] => Awaited(c, k)
      BY <1>2, <1>5, <3>1 DEF Known
    <3>3. CASE k = v.key
      <4>1. v.tags = tagsOf[k] /\ (call[c] = "invalidate" => tag[c] \in tagsOf[k])
        BY <2>1, <3>2, <3>3
      <4>2. ~Awaited(c, k)'
        <5>1. ASSUME NEW x \in victims[c], x.key = k
              PROVE  x = v
          <6>1. x \in Entries /\ x.tags = v.tags
            BY <1>1, <3>2, <4>1, <5>1 DEF LocalsTyped
          <6> QED BY <2>3, <3>3, <5>1, <6>1 DEF Entries
        <5> QED BY <2>6, <5>1 DEF Awaited
      <4>3. \A t \in Tags : Drop(t) \in work'[c] <=> t \in tagsOf[k]
        BY <2>6, <4>1 DEF Drop, Changes
      <4>4. \A x \in victims'[c] : x.key # k
        BY <4>2 DEF Awaited
      <4>5. ~Setting(c, k)' /\ ~Deleting(c, k)' /\ Condemned(c, k)'
        BY <2>8, <3>3
      <4> QED BY <1>7, <2>2, <2>3, <2>6, <4>1, <4>2, <4>3, <4>4, <4>5 DEF Known
    <3>4. CASE k # v.key
      <4>1. /\ ~Setting(c, k)' /\ ~Deleting(c, k)' /\ ~Condemned(c, k)' /\ target'[c] # k
            /\ Awaited(c, k)' <=> Awaited(c, k)
        BY <2>6, <2>8, <3>4
      <4>2. \A x \in victims'[c] :
              x.key = k => x.tags = tagsOf[k] /\ (call[c] = "invalidate" => tag[c] \in tagsOf[k])
        BY <2>6, <3>2
      <4> QED BY <1>7, <2>2, <2>6, <3>2, <4>1, <4>2 DEF Known
    <3> QED BY <3>3, <3>4
  <2>10. Room'
    BY <1>5, <1>6, <2>5, <2>8, LookRoom
  <2> QED BY <1>2, <1>4, <1>5, <2>5, <2>7, <2>9, <2>10, LookKept
<1> QED BY <1>8, <1>9, <1>10 DEF NextVictim

LEMMA ReadTagKept ==
  ASSUME IInv, NEW c \in Callers, disturbed \subseteq disturbed', ReadTag(c)
  PROVE  Kept(c)
<1>1. LocalsTyped /\ StoreTyped /\ Placed(c)
  BY TypeParts DEF IInv
<1>2. /\ pc[c] = "docRead" /\ Untouched /\ lock' = lock /\ faults' = faults
      /\ buf' = [buf EXCEPT ![c] = doc[tag[c]]] /\ pc' = [pc EXCEPT ![c] = "collect"]
      /\ UNCHANGED <<call, key, tag, next>> /\ UNCHANGED <<prev, target, work, item, victims, since>>
  BY DEF ReadTag, At, Untouched, Goto, request
<1>3. /\ call[c] = "invalidate" /\ tag[c] \in Tags /\ target[c] = NoKey /\ work[c] = {}
      /\ victims[c] = {} /\ lock # c
  BY <1>1, <1>2 DEF Placed, InSection, LocalsTyped
<1>4. doc[tag[c]] \subseteq Keys
  BY <1>1, <1>3 DEF StoreTyped
<1>5. LocalsTyped' /\ Others(c)
  BY <1>1, <1>2, <1>4 DEF LocalsTyped, Others, Points
<1>6. pc'[c] = "collect" /\ buf'[c] = doc[tag[c]]
  BY <1>1, <1>2 DEF LocalsTyped
<1>7. Placed(c)'
  BY <1>1, <1>2, <1>3, <1>6 DEF Placed, InSection
<1>8. ASSUME NEW k \in Keys
      PROVE  /\ ~Setting(c, k)' /\ ~Deleting(c, k)' /\ ~Condemned(c, k)' /\ ~Condemned(c, k)
             /\ ~Unfinished(c, k) /\ ~Awaited(c, k) /\ target'[c] # k
  <2>1. k # NoKey
    BY CacheTagsAssumption
  <2> QED BY <1>2, <1>3, <1>6, <2>1 DEF Setting, Condemned, Awaited, Deleting, Unfinished
<1>9. ASSUME NEW k \in Keys \ disturbed
      PROVE  Known(c, k)'
  <2>1. k \in doc[tag[c]] <=> tag[c] \in tagsOf[k]
    <3>1. CASE Touches(c, k)
      <4>1. Listed(k)
        BY <1>8, <3>1, UndoneByOne
      <4> QED BY <1>3, <4>1 DEF Listed
    <3>2. CASE ~Touches(c, k)
      BY <1>3, <3>2 DEF Touches, Bears
    <3> QED BY <3>1, <3>2
  <2>2. tagsOf' = tagsOf
    BY <1>2 DEF Untouched, store
  <2> QED BY <1>2, <1>3, <1>6, <1>8, <2>1, <2>2 DEF Known
<1>10. Room'
  <2>1. UNCHANGED <<store, faults>> /\ ~Filling(c)
    BY <1>2 DEF Untouched, Filling
  <2> QED BY <1>5, <1>8, <2>1, LookRoom
<1> QED
  <2>1. lock' \in Callers \cup {NoCaller}
    BY <1>1, <1>2 DEF StoreTyped
  <2> QED BY <1>2, <1>5, <1>7, <1>8, <1>9, <1>10, <2>1, LookKept

LEMMA CollectKept ==
  ASSUME IInv, NEW c \in Callers, disturbed \subseteq disturbed', Collect(c)
  PROVE  Kept(c)
<1> DEFINE listed == {Entry(k) : k \in Candidates(c)}
<1>1. LocalsTyped /\ StoreTyped /\ Placed(c)
  BY TypeParts DEF IInv
<1>2. /\ pc[c] = "collect" /\ Untouched /\ lock' = lock /\ faults' = faults
      /\ victims' = [victims EXCEPT ![c] = listed] /\ buf' = [buf EXCEPT ![c] = {}]
      /\ pc' = [pc EXCEPT ![c] = "next"]
      /\ UNCHANGED <<call, key, tag, next>> /\ UNCHANGED <<prev, target, work, item, since>>
  BY DEF Collect, At, Untouched, Goto, request
<1>3. /\ call[c] = "invalidate" /\ target[c] = NoKey /\ work[c] = {} /\ victims[c] = {} /\ lock # c
  BY <1>1, <1>2 DEF Placed, InSection
<1>4. listed \subseteq Entries
  BY <1>1 DEF Candidates, Stored, Entry, Entries, StoreTyped
<1>5. LocalsTyped' /\ Others(c)
  BY <1>1, <1>2, <1>4 DEF LocalsTyped, Others, Points
<1>6. pc'[c] = "next" /\ victims'[c] = listed
  BY <1>1, <1>2 DEF LocalsTyped
<1>7. Placed(c)'
  BY <1>1, <1>2, <1>3, <1>6 DEF Placed, InSection
<1>8. ASSUME NEW k \in Keys
      PROVE  /\ ~Setting(c, k)' /\ ~Deleting(c, k)' /\ ~Condemned(c, k)' /\ ~Condemned(c, k)
             /\ ~Unfinished(c, k) /\ ~Awaited(c, k) /\ target'[c] # k
             /\ k \in Candidates(c) <=> Awaited(c, k)'
             /\ \A v \in listed : v.key = k => v.tags = tagsOf[k]
  <2>1. k # NoKey
    BY CacheTagsAssumption
  <2>2. ~Setting(c, k)' /\ ~Deleting(c, k)' /\ ~Condemned(c, k)' /\ ~Unfinished(c, k) /\ target'[c] # k
    BY <1>2, <1>3, <1>6, <2>1 DEF Setting, Condemned, Deleting, Unfinished
  <2>3. ~Condemned(c, k) /\ ~Awaited(c, k)
    BY <1>2, <1>3 DEF Condemned, Awaited
  <2>4. k \in Candidates(c) => Awaited(c, k)'
    <3>1. k \in Candidates(c) => Entry(k) \in victims'[c]
      BY <1>6
    <3>2. Entry(k).key = k
      BY DEF Entry
    <3> QED BY <3>1, <3>2 DEF Awaited
  <2>5. Awaited(c, k)' => k \in Candidates(c)
    BY <1>6 DEF Awaited, Entry
  <2>6. \A v \in listed : v.key = k => v.tags = tagsOf[k]
    BY DEF Entry
  <2> QED BY <2>2, <2>3, <2>4, <2>5, <2>6
<1>9. ASSUME NEW k \in Keys \ disturbed
      PROVE  Known(c, k)'
  <2>1. k \in buf[c] <=> tag[c] \in tagsOf[k]
    BY <1>2 DEF IInv, Consistent, Known
  <2>2. tag[c] \in tagsOf[k] => k \in Stored
    BY DEF IInv
  <2>3. k \in Candidates(c) <=> tag[c] \in tagsOf[k]
    BY <2>1, <2>2 DEF Candidates
  <2>4. tagsOf' = tagsOf
    BY <1>2 DEF Untouched, store
  <2>5. \A v \in listed : v.key = k => k \in Candidates(c)
    BY DEF Entry
  <2>6. \A v \in victims'[c] : v.key = k => v.tags = tagsOf'[k] /\ tag'[c] \in tagsOf'[k]
    BY <1>2, <1>6, <1>8, <2>3, <2>4, <2>5
  <2>7. tag'[c] \in tagsOf'[k] => Awaited(c, k)'
    BY <1>2, <1>8, <2>3, <2>4
  <2>8. ~Setting(c, k)' /\ ~Deleting(c, k)' /\ ~Condemned(c, k)' /\ target'[c] # k
    BY <1>8
  <2> QED BY <1>6, <2>6, <2>7, <2>8 DEF Known
<1>10. Room'
  <2>1. UNCHANGED <<store, faults>> /\ ~Filling(c)
    BY <1>2 DEF Untouched, Filling
  <2> QED BY <1>5, <1>8, <2>1, LookRoom
<1> QED
  <2>1. lock' \in Callers \cup {NoCaller}
    BY <1>1, <1>2 DEF StoreTyped
  <2> QED BY <1>2, <1>5, <1>7, <1>8, <1>9, <1>10, <2>1, LookKept

\* No other caller is about to write back a tag object with the key that this one drops.
LEMMA DropSafe ==
  ASSUME IInv, NEW c \in Callers, NEW k \in Keys \ disturbed, NEW d \in Callers \ {c},
         pc[d] = "docWrite", Drops(c, item[d].tag)
  PROVE  k \notin doc[item[d].tag]
<1>1. ~Restores(d, k)
  BY Apart
<1>2. k \notin buf[d]
  BY <1>1 DEF Restores, At
<1>3. Known(d, k)
  BY DEF IInv, Consistent
<1> QED BY <1>2, <1>3 DEF Known

LEMMA DropDocKept ==
  ASSUME IInv, NEW c \in Callers, disturbed \subseteq disturbed', DropDoc(c)
  PROVE  Kept(c)
<1> DEFINE t0 == tag[c]
<1>1. LocalsTyped /\ StoreTyped /\ Placed(c)
  BY TypeParts DEF IInv
<1>2. /\ pc[c] = "dropDoc" /\ UNCHANGED store /\ lock' = lock /\ faults' = faults
      /\ doc' = [doc EXCEPT ![t0] = {}] /\ Leave(c)
  BY DEF DropDoc, At
<1>3. /\ call[c] = "invalidate" /\ t0 \in Tags /\ target[c] = NoKey /\ victims[c] = {} /\ lock # c
  BY <1>1, <1>2 DEF Placed, InSection, LocalsTyped
<1>4. tagsOf' = tagsOf /\ live' = live /\ place' = place
  BY <1>2 DEF store
<1>5. StoreTyped'
  BY <1>1, <1>2, <1>3, <1>4 DEF StoreTyped, Stored
<1>6. LocalsTyped' /\ Others(c) /\ Placed(c)'
  BY <1>2, <1>3, LeaveFacts DEF Others
<1>7. \A t \in Tags : doc'[t] = IF t = t0 THEN {} ELSE doc[t]
  BY <1>1, <1>2, <1>3 DEF StoreTyped
<1>8. \A k \in Keys : tagsOf'[k] # {} => place'[k] # 0
  BY <1>4 DEF IInv, Stored
<1>9. ASSUME NEW k \in Keys
      PROVE  ~Unfinished(c, k) /\ ~Condemned(c, k) /\ ~Awaited(c, k)
  BY <1>2, <1>3 DEF Unfinished, Setting, Deleting, Condemned, Awaited
<1>10. ASSUME NEW k \in Keys \ disturbed'
       PROVE  Spared(c, k) /\ Announced(c, k) /\ Known(c, k)' /\ Finished(c, k)
  <2>1. t0 \notin tagsOf[k]
    <3>1. Known(c, k)
      BY DEF IInv, Consistent
    <3> QED BY <1>2, <1>3, <1>9, <3>1 DEF Known
  <2>2. Spared(c, k)
    BY <1>3, <1>4, <1>7 DEF Spared, Touches, Bears
  <2>3. Announced(c, k)
    <3>1. ASSUME NEW d \in Callers \ {c}, pc[d] = "docWrite"
          PROVE  k \in doc'[item[d].tag] <=> k \in doc[item[d].tag]
      <4>1. item[d].tag \in Tags
        BY <3>1, TypeParts DEF IInv, Placed, LocalsTyped, Change
      <4>2. item[d].tag = t0 => k \notin doc[t0]
        BY <1>3, <3>1, DropSafe DEF Drops
      <4> QED BY <1>7, <4>1, <4>2
    <3> QED BY <1>4, <3>1 DEF Announced
  <2>4. Finished(c, k)
    <3>1. Listed(k) => Listed(k)'
      BY <1>4, <1>7, <2>1 DEF Listed
    <3> QED BY <1>9, <3>1 DEF Finished
  <2> QED BY <1>2, <2>2, <2>3, <2>4, LeaveFacts
<1>11. Room'
  <2>1. UNCHANGED <<store, faults>> /\ ~Filling(c)
    BY <1>2 DEF Filling
  <2> QED BY <1>6, <1>9, <2>1, LookRoom
<1> QED BY <1>5, <1>6, <1>8, <1>10, <1>11 DEF Kept

LEMMA ListEntriesKept ==
  ASSUME IInv, NEW c \in Callers, disturbed \subseteq disturbed', ListEntries(c)
  PROVE  Kept(c)
<1>1. LocalsTyped /\ StoreTyped /\ Placed(c)
  BY TypeParts DEF IInv
<1>2. /\ pc[c] = "clear" /\ Untouched /\ lock' = lock /\ faults' = faults
      /\ pc' = [pc EXCEPT ![c] = "clearEntries"] /\ buf' = [buf EXCEPT ![c] = Stored]
      /\ UNCHANGED <<call, key, tag, next>> /\ UNCHANGED <<prev, target, work, item, victims, since>>
  BY DEF ListEntries, At, Goto, Untouched, request
<1>3. /\ call[c] = "clear" /\ target[c] = NoKey /\ work[c] = {} /\ victims[c] = {} /\ lock # c
  BY <1>1, <1>2 DEF Placed, InSection
<1>4. LocalsTyped' /\ Others(c) /\ pc'[c] = "clearEntries" /\ buf'[c] = Stored
  BY <1>1, <1>2 DEF LocalsTyped, Others, Points, Stored
<1>5. Placed(c)'
  BY <1>1, <1>2, <1>3, <1>4 DEF Placed, InSection
<1>6. ASSUME NEW k \in Keys
      PROVE  /\ ~Setting(c, k)' /\ ~Deleting(c, k)' /\ ~Condemned(c, k)' /\ target'[c] # k
             /\ ~Condemned(c, k) /\ ~Awaited(c, k)
  <2>1. k # NoKey
    BY CacheTagsAssumption
  <2> QED BY <1>2, <1>3, <1>4, <2>1 DEF Setting, Condemned, Deleting, Awaited
<1>7. ASSUME NEW k \in Keys \ disturbed
      PROVE  Known(c, k)' /\ Unfinished(c, k)'
  <2>1. k \notin buf'[c] => tagsOf'[k] = {}
    BY <1>2, <1>4, UntouchedFacts DEF IInv
  <2> QED BY <1>2, <1>3, <1>4, <1>6, <2>1 DEF Known, Unfinished
<1>8. Room'
  <2>1. UNCHANGED <<store, faults>> /\ ~Filling(c)
    BY <1>2 DEF Filling, Untouched
  <2> QED BY <1>4, <1>6, <2>1, LookRoom
<1>9. lock' \in Callers \cup {NoCaller}
  BY <1>1, <1>2 DEF StoreTyped
<1> QED BY <1>2, <1>4, <1>5, <1>7, <1>8, <1>9, LookKept

LEMMA ClearEntryKept ==
  ASSUME IInv, NEW c \in Callers, disturbed \subseteq disturbed', NEW k0 \in buf[c], ClearEntry(c, k0)
  PROVE  Kept(c)
<1>0. k0 \in Keys
  BY TypeParts DEF IInv, LocalsTyped
<1> USE <1>0
<1>1. LocalsTyped /\ StoreTyped /\ Placed(c)
  BY TypeParts DEF IInv
<1>2. /\ pc[c] = "clearEntries" /\ RemoveEntry(k0) /\ buf' = [buf EXCEPT ![c] = @ \ {k0}]
      /\ doc' = doc /\ lock' = lock /\ faults' = faults /\ pc' = pc
      /\ UNCHANGED <<call, key, tag, next>> /\ UNCHANGED <<prev, target, work, item, victims, since>>
  BY DEF ClearEntry, At, request
<1>3. /\ call[c] = "clear" /\ target[c] = NoKey /\ work[c] = {} /\ victims[c] = {} /\ lock # c
  BY <1>1, <1>2 DEF Placed, InSection
<1>4. /\ Ranked(place') /\ place'[k0] = 0
      /\ \A j \in Keys \ {k0} : place'[j] <= place[j] /\ (place'[j] # 0 <=> place[j] # 0)
  BY <1>1, <1>2, StoreRanked, RemovedRanked DEF RemoveEntry
<1>5. live' = live \ {k0} /\ tagsOf' = [tagsOf EXCEPT ![k0] = {}]
  BY <1>2 DEF RemoveEntry
<1>6. StoreTyped'
  <2>1. live' \subseteq Stored'
    BY <1>1, <1>4, <1>5 DEF StoreTyped, Stored
  <2>2. tagsOf' \in [Keys -> SUBSET Tags]
    BY <1>1, <1>5 DEF StoreTyped
  <2>3. doc' \in [Tags -> SUBSET Keys] /\ lock' \in Callers \cup {NoCaller} /\ faults' \in 0 .. MaxFaults
    BY <1>1, <1>2 DEF StoreTyped
  <2>4. /\ place' \in [Keys -> Nat]
        /\ \A j, k \in Stored' : place'[j] = place'[k] => j = k
        /\ \A k \in Keys : place'[k] > 1 => \E j \in Keys : place'[j] = place'[k] - 1
    BY <1>4, StoreRanked
  <2> QED BY <2>1, <2>2, <2>3, <2>4 DEF StoreTyped
<1>7. LocalsTyped' /\ Others(c) /\ buf'[c] = buf[c] \ {k0}
  BY <1>1, <1>2 DEF LocalsTyped, Others
<1>8. Placed(c)'
  BY <1>1, <1>2, <1>3 DEF Placed, InSection
<1>9. ASSUME NEW k \in Keys
      PROVE  /\ tagsOf'[k] = IF k = k0 THEN {} ELSE tagsOf[k]
             /\ tagsOf'[k] # {} => place'[k] # 0
  <2>1. tagsOf'[k] = IF k = k0 THEN {} ELSE tagsOf[k]
    BY <1>1, <1>5 DEF StoreTyped
  <2> QED BY <1>4, <2>1 DEF IInv, Stored
<1>10. ASSUME NEW k \in Keys
       PROVE  /\ ~Setting(c, k)' /\ ~Deleting(c, k)' /\ ~Condemned(c, k)' /\ target'[c] # k
              /\ ~Condemned(c, k) /\ ~Awaited(c, k) /\ Touches(c, k)
  <2>1. k # NoKey
    BY CacheTagsAssumption
  <2> QED BY <1>2, <1>3, <2>1 DEF Setting, Condemned, Deleting, Awaited, Touches
<1>11. ASSUME NEW k \in Keys \ disturbed'
       PROVE  Spared(c, k) /\ Announced(c, k) /\ Known(c, k)' /\ Finished(c, k)
  <2>1. Spared(c, k)
    BY <1>10 DEF Spared
  <2>2. Announced(c, k)
    BY <1>2, <1>9 DEF Announced
  <2>3. k \notin buf'[c] => tagsOf'[k] = {}
    <3>1. Known(c, k)
      BY DEF IInv, Consistent
    <3> QED BY <1>2, <1>7, <1>9, <3>1 DEF Known
  <2>4. Known(c, k)'
    BY <1>2, <1>3, <1>10, <2>3 DEF Known
  <2>5. Finished(c, k)
    BY <1>2 DEF Finished, Unfinished
  <2> QED BY <2>1, <2>2, <2>4, <2>5
<1>12. Room'
  <2>1. ~Filling(c)
    BY <1>2 DEF Filling
  <2>2. \A k \in Keys : place'[k] # 0 => place[k] # 0 /\ place'[k] <= place[k]
    BY <1>4
  <2>3. place' \in [Keys -> Nat]
    BY <1>4 DEF Ranked
  <2> QED BY <1>2, <1>7, <1>10, <2>1, <2>2, <2>3, RoomKept
<1> QED BY <1>6, <1>7, <1>8, <1>9, <1>11, <1>12 DEF Kept

LEMMA ListDocsKept ==
  ASSUME IInv, NEW c \in Callers, disturbed \subseteq disturbed', ListDocs(c)
  PROVE  Kept(c)
<1>1. LocalsTyped /\ StoreTyped /\ Placed(c)
  BY TypeParts DEF IInv
<1>2. /\ pc[c] = "clearEntries" /\ buf[c] = {} /\ Untouched /\ lock' = lock /\ faults' = faults
      /\ pc' = [pc EXCEPT ![c] = "clearDocs"] /\ next' = [next EXCEPT ![c] = {t \in Tags : doc[t] # {}}]
      /\ UNCHANGED <<call, key, tag>> /\ UNCHANGED <<prev, target, work, item, buf, victims, since>>
  BY DEF ListDocs, At, Goto, Untouched, locals
<1>3. /\ call[c] = "clear" /\ target[c] = NoKey /\ work[c] = {} /\ victims[c] = {} /\ lock # c
  BY <1>1, <1>2 DEF Placed, InSection
<1>4. /\ LocalsTyped' /\ Others(c) /\ pc'[c] = "clearDocs"
      /\ next'[c] = {t \in Tags : doc[t] # {}}
  BY <1>1, <1>2 DEF LocalsTyped, Others, Points
<1>5. Placed(c)'
  BY <1>1, <1>2, <1>3, <1>4 DEF Placed, InSection
<1>6. ASSUME NEW k \in Keys
      PROVE  /\ ~Setting(c, k)' /\ ~Deleting(c, k)' /\ ~Condemned(c, k)' /\ target'[c] # k
             /\ ~Condemned(c, k) /\ ~Awaited(c, k)
  <2>1. k # NoKey
    BY CacheTagsAssumption
  <2> QED BY <1>2, <1>3, <1>4, <2>1 DEF Setting, Condemned, Deleting, Awaited
<1>7. ASSUME NEW k \in Keys \ disturbed
      PROVE  Known(c, k)' /\ Unfinished(c, k)'
  <2>1. tagsOf'[k] = {}
    <3>1. Known(c, k)
      BY DEF IInv, Consistent
    <3> QED BY <1>2, <3>1, UntouchedFacts DEF Known
  <2>2. \A t \in Tags : k \in doc'[t] => t \in next'[c]
    BY <1>2, <1>4, UntouchedFacts
  <2> QED BY <1>2, <1>3, <1>4, <1>6, <2>1, <2>2 DEF Known, Unfinished
<1>8. Room'
  <2>1. UNCHANGED <<store, faults>> /\ ~Filling(c)
    BY <1>2 DEF Filling, Untouched
  <2> QED BY <1>4, <1>6, <2>1, LookRoom
<1>9. lock' \in Callers \cup {NoCaller}
  BY <1>1, <1>2 DEF StoreTyped
<1> QED BY <1>2, <1>4, <1>5, <1>7, <1>8, <1>9, LookKept

LEMMA ClearDocKept ==
  ASSUME IInv, NEW c \in Callers, disturbed \subseteq disturbed', NEW t0 \in next[c], ClearDoc(c, t0)
  PROVE  Kept(c)
<1>0. t0 \in Tags
  BY TypeParts DEF IInv, LocalsTyped
<1> USE <1>0
<1>1. LocalsTyped /\ StoreTyped /\ Placed(c)
  BY TypeParts DEF IInv
<1>2. /\ pc[c] = "clearDocs" /\ UNCHANGED store /\ lock' = lock /\ faults' = faults
      /\ doc' = [doc EXCEPT ![t0] = {}] /\ next' = [next EXCEPT ![c] = @ \ {t0}] /\ pc' = pc
      /\ UNCHANGED <<call, key, tag>> /\ UNCHANGED <<prev, target, work, item, buf, victims, since>>
  BY DEF ClearDoc, At, locals
<1>3. call[c] = "clear" /\ target[c] = NoKey /\ work[c] = {} /\ victims[c] = {} /\ lock # c
  BY <1>1, <1>2 DEF Placed, InSection
<1>4. tagsOf' = tagsOf /\ live' = live /\ place' = place
  BY <1>2 DEF store
<1>5. StoreTyped'
  BY <1>1, <1>2, <1>4 DEF StoreTyped, Stored
<1>6. LocalsTyped' /\ Others(c) /\ next'[c] = next[c] \ {t0}
  BY <1>1, <1>2 DEF LocalsTyped, Others
<1>7. Placed(c)'
  BY <1>1, <1>2, <1>3 DEF Placed, InSection
<1>8. \A t \in Tags : doc'[t] = IF t = t0 THEN {} ELSE doc[t]
  BY <1>1, <1>2 DEF StoreTyped
<1>9. \A k \in Keys : tagsOf'[k] # {} => place'[k] # 0
  BY <1>4 DEF IInv, Stored
<1>10. ASSUME NEW k \in Keys
       PROVE  /\ ~Setting(c, k)' /\ ~Deleting(c, k)' /\ ~Condemned(c, k)' /\ target'[c] # k
              /\ ~Condemned(c, k) /\ ~Awaited(c, k) /\ Touches(c, k)
  <2>1. k # NoKey
    BY CacheTagsAssumption
  <2> QED BY <1>2, <1>3, <2>1 DEF Setting, Condemned, Deleting, Awaited, Touches
<1>11. ASSUME NEW k \in Keys \ disturbed'
       PROVE  Spared(c, k) /\ Announced(c, k) /\ Known(c, k)' /\ Finished(c, k)
  <2>1. Spared(c, k)
    BY <1>10 DEF Spared
  <2>2. Announced(c, k)
    <3>1. ASSUME NEW d \in Callers \ {c}, pc[d] = "docWrite"
          PROVE  k \in doc'[item[d].tag] <=> k \in doc[item[d].tag]
      <4>1. item[d].tag \in Tags
        BY <3>1, TypeParts DEF IInv, Placed, LocalsTyped, Change
      <4>2. k \notin doc[item[d].tag]
        BY <1>3, <3>1, DropSafe DEF Drops
      <4> QED BY <1>8, <4>1, <4>2
    <3> QED BY <1>4, <3>1 DEF Announced
  <2>3. Known(c, k)'
    <3>1. Known(c, k)
      BY DEF IInv, Consistent
    <3>2. tagsOf'[k] = {} /\ \A t \in Tags : k \in doc'[t] => t \in next'[c]
      BY <1>2, <1>4, <1>6, <1>8, <3>1 DEF Known
    <3> QED BY <1>2, <1>3, <1>10, <3>2 DEF Known
  <2>4. Finished(c, k)
    BY <1>2 DEF Finished, Unfinished
  <2> QED BY <2>1, <2>2, <2>3, <2>4
<1>12. Room'
  <2>1. UNCHANGED <<store, faults>> /\ ~Filling(c)
    BY <1>2 DEF Filling
  <2> QED BY <1>6, <1>10, <2>1, LookRoom
<1> QED BY <1>5, <1>6, <1>7, <1>9, <1>11, <1>12 DEF Kept

LEMMA ClearDoneKept ==
  ASSUME IInv, NEW c \in Callers, disturbed \subseteq disturbed', ClearDone(c)
  PROVE  Kept(c)
<1>1. LocalsTyped /\ StoreTyped /\ Placed(c)
  BY TypeParts DEF IInv
<1>2. /\ pc[c] = "clearDocs" /\ next[c] = {} /\ Untouched /\ lock' = lock /\ faults' = faults
      /\ Leave(c)
  BY DEF ClearDone, At, Untouched
<1>3. call[c] = "clear" /\ target[c] = NoKey /\ victims[c] = {} /\ lock # c
  BY <1>1, <1>2 DEF Placed, InSection
<1>4. StoreTyped'
  BY <1>1, <1>2 DEF StoreTyped, Stored, Untouched, store
<1>5. LocalsTyped' /\ Others(c) /\ Placed(c)'
  BY <1>2, <1>3, LeaveFacts DEF Others
<1>6. ASSUME NEW k \in Keys
      PROVE  /\ tagsOf'[k] # {} => place'[k] # 0
             /\ Spared(c, k) /\ Announced(c, k) /\ Known(c, k)'
             /\ ~Condemned(c, k) /\ ~Awaited(c, k)
  BY <1>2, <1>3, LeaveFacts, UntouchedFacts DEF Condemned, Awaited
<1>7. ASSUME NEW k \in Keys \ disturbed'
      PROVE  Finished(c, k)
  <2>1. Known(c, k)
    BY DEF IInv, Consistent
  <2>2. Listed(k)
    BY <1>2, <2>1 DEF Known, Listed
  <2> QED BY <1>2, <2>2, UntouchedFacts DEF Finished
<1>8. Room'
  <2>1. UNCHANGED <<store, faults>> /\ ~Filling(c)
    BY <1>2 DEF Filling, Untouched
  <2> QED BY <1>5, <1>6, <2>1, LookRoom
<1> QED BY <1>4, <1>5, <1>6, <1>7, <1>8 DEF Kept

----------------------------------------------------------------------------
(* The invariant.                                                          *)

LEMMA StepKept ==
  ASSUME IInv, NEW c \in Callers, disturbed \subseteq disturbed', Request(c) \/ Step(c)
  PROVE  Kept(c)
  BY BeginKept, ReadEntryKept, WriteEntryKept, LockKept, DeleteEntryKept, ReadDocKept, WriteDocKept,
     UnlockKept, TrimKept, NextVictimKept, ReadTagKept, CollectKept, DropDocKept, ListEntriesKept,
     ClearEntryKept, ListDocsKept, ClearDocKept, ClearDoneKept, Zenon
  DEF Step

LEMMA ExpireKeeps ==
  ASSUME IInv, NEW k0 \in live, Expire(k0), UNCHANGED disturbed
  PROVE  IInv'
<1>1. /\ live' \subseteq live
      /\ place' = place /\ tagsOf' = tagsOf /\ doc' = doc /\ lock' = lock /\ pc' = pc
      /\ call' = call /\ key' = key /\ tag' = tag /\ next' = next /\ prev' = prev /\ target' = target
      /\ work' = work /\ item' = item /\ buf' = buf /\ victims' = victims /\ since' = since /\ faults' = faults
      /\ disturbed' = disturbed
  BY DEF Expire, request, locals
<1>2. TypeOK'
  BY <1>1 DEF IInv, TypeOK, Stored
<1>3. \A c \in Callers : Placed(c)'
  BY <1>1 DEF IInv, Placed, InSection
<1>4. \A k \in Keys : tagsOf'[k] # {} => k \in Stored'
  BY <1>1 DEF IInv, Stored
<1>5. Clashing' \subseteq disturbed'
  BY <1>1 DEF IInv, Clashing, Touches, Bears, Restores, Drops, At
<1>6. ASSUME NEW k \in Keys \ disturbed'
      PROVE  Consistent(k)'
  <2>1. ASSUME NEW c \in Callers
        PROVE  Known(c, k)'
    <3>1. Known(c, k)
      BY <1>1 DEF IInv, Consistent
    <3> QED BY <1>1, <3>1 DEF Known, Setting, Condemned, Deleting, Awaited
  <2>2. (\A c \in Callers : ~Unfinished(c, k)') => Listed(k)'
    <3>1. (\A c \in Callers : ~Unfinished(c, k)) => Listed(k)
      BY <1>1 DEF IInv, Consistent
    <3> QED BY <1>1, <3>1 DEF Unfinished, Setting, Deleting, Listed
  <2> QED BY <2>1, <2>2 DEF Consistent
<1>7. Room'
  BY <1>1 DEF IInv, Room, Filling, Stored, Condemned, Awaited
<1> QED BY <1>2, <1>3, <1>4, <1>5, <1>6, <1>7 DEF IInv

LEMMA CutShortKeeps ==
  ASSUME IInv, NEW c \in Callers, CutShort(c),
         disturbed' = disturbed \cup {k \in Keys : Touches(c, k)}
  PROVE  IInv'
<1>1. /\ faults < MaxFaults /\ faults' = faults + 1 /\ Leave(c) /\ Untouched
      /\ lock' = IF lock = c THEN NoCaller ELSE lock
  BY DEF CutShort, Untouched
<1>2. LocalsTyped /\ StoreTyped /\ disturbed \subseteq Keys
  BY TypeParts DEF IInv
<1>3. /\ tagsOf' = tagsOf /\ live' = live /\ place' = place /\ doc' = doc
  BY <1>1 DEF Untouched, store
<1>4. lock' # c /\ lock' \in Callers \cup {NoCaller} /\ \A d \in Callers \ {c} : lock' = d <=> lock = d
  BY <1>1, <1>2, CacheTagsAssumption DEF StoreTyped
<1>5. TypeOK'
  <2>1. (TypeOK <=> StoreTyped /\ LocalsTyped /\ disturbed \subseteq Keys)'
    BY TypeParts, PTL
  <2>2. faults' \in 0 .. MaxFaults
    BY <1>1, <1>2, CacheTagsAssumption DEF StoreTyped
  <2>3. StoreTyped'
    BY <1>2, <1>3, <1>4, <2>2 DEF StoreTyped, Stored
  <2>4. LocalsTyped'
    BY <1>1, LeaveFacts
  <2> QED BY <1>2, <2>1, <2>3, <2>4
<1>6. Others(c) /\ Placed(c)'
  BY <1>1, <1>4, LeaveFacts DEF Others
<1>7. ASSUME NEW d \in Callers
      PROVE  Placed(d)'
  <2>1. CASE d = c
    BY <1>6, <2>1
  <2>2. CASE d # c
    BY <1>6, <2>2 DEF Others, IInv, Placed, InSection
  <2> QED BY <2>1, <2>2
<1>8. \A k \in Keys : tagsOf'[k] # {} => k \in Stored'
  BY <1>3 DEF IInv, Stored
<1>9. Clashing' \subseteq disturbed'
  <2>1. ASSUME NEW k \in Keys
        PROVE  ~Touches(c, k)' /\ ~Restores(c, k)' /\ call'[c] = "none"
    <3>1. k # NoKey
      BY CacheTagsAssumption
    <3>2. /\ pc'[c] = "idle" /\ call'[c] = "none" /\ key'[c] = NoKey /\ target'[c] = NoKey
          /\ victims'[c] = {}
      BY <1>1, LeaveFacts
    <3> QED BY <3>1, <3>2 DEF Touches, Restores, At
  <2>2. ASSUME NEW k \in Keys, NEW t, Bears(k, t)'
        PROVE  Bears(k, t)
    <3>1. ASSUME NEW d \in Callers, key'[d] = k, t \in next'[d] \cup prev'[d]
          PROVE  key[d] = k /\ t \in next[d] \cup prev[d]
      <4>1. k # NoKey
        BY CacheTagsAssumption
      <4>2. d # c
        BY <1>1, <3>1, <4>1, LeaveFacts
      <4> QED BY <1>6, <3>1, <4>2 DEF Others
    <3> QED BY <1>3, <2>2, <3>1 DEF Bears
  <2>3. ASSUME NEW k \in Keys, NEW d \in Callers \ {c}
        PROVE  /\ Touches(d, k)' => Touches(d, k)
               /\ Restores(d, k)' => Restores(d, k)
               /\ call'[d] = call[d] /\ tag'[d] = tag[d] /\ item'[d] = item[d]
    <3>1. /\ pc'[d] = pc[d] /\ call'[d] = call[d] /\ key'[d] = key[d] /\ tag'[d] = tag[d]
          /\ target'[d] = target[d] /\ item'[d] = item[d] /\ buf'[d] = buf[d]
          /\ victims'[d] = victims[d]
      BY <1>6 DEF Others
    <3>2. Bears(k, tag[d])' => Bears(k, tag[d])
      BY <2>2, <3>1 DEF Bears
    <3> QED BY <3>1, <3>2 DEF Touches, Restores, At
  <2>4. ASSUME NEW k \in Clashing'
        PROVE  k \in Clashing
    <3>1. k \in Keys
      BY DEF Clashing
    <3>2. PICK a \in Callers, b \in Callers :
            a # b /\ \/ Touches(a, k)' /\ Touches(b, k)'
                     \/ Restores(a, k)' /\ Drops(b, item[a].tag)'
      BY DEF Clashing
    <3>3. a # c /\ b # c
      BY <2>1, <3>1, <3>2 DEF Drops
    <3>4. \/ Touches(a, k) /\ Touches(b, k)
          \/ Restores(a, k) /\ Drops(b, item[a].tag)
      BY <2>3, <3>1, <3>2, <3>3 DEF Drops
    <3> QED BY <3>1, <3>2, <3>4 DEF Clashing
  <2> QED BY <2>4 DEF IInv
<1>10. ASSUME NEW k \in Keys \ disturbed'
       PROVE  Consistent(k)'
  <2>1. k \in Keys \ disturbed /\ ~Touches(c, k)
    OBVIOUS
  <2>2. Spared(c, k) /\ Announced(c, k)
    BY <1>1, UntouchedFacts
  <2>3. ASSUME NEW d \in Callers
        PROVE  Known(d, k)'
    <3>1. CASE d = c
      BY <1>1, <3>1, LeaveFacts
    <3>2. CASE d # c
      BY <1>6, <2>1, <2>2, <3>2, OthersKnow
    <3> QED BY <3>1, <3>2
  <2>4. ASSUME \A d \in Callers : ~Unfinished(d, k)'
        PROVE  Listed(k)'
    <3>1. \A d \in Callers \ {c} : ~Unfinished(d, k)
      BY <1>6, <2>4 DEF Others, Unfinished, Setting, Deleting
    <3>2. ~Unfinished(c, k)
      BY <2>1, UnfinishedTouches
    <3>3. Listed(k)
      BY <2>1, <3>1, <3>2, Zenon DEF IInv, Consistent
    <3> QED BY <1>3, <3>3 DEF Listed
  <2> QED BY <2>3, <2>4 DEF Consistent
<1>11. Room'
  BY <1>1, <1>2 DEF Room, StoreTyped
<1> QED BY <1>5, <1>7, <1>8, <1>9, <1>10, <1>11 DEF IInv

LEMMA InitHolds == Init => IInv
<1> SUFFICES ASSUME Init PROVE IInv
  OBVIOUS
<1>1. \A k \in Keys : k # NoKey
  BY CacheTagsAssumption
<1>2. Stored = {}
  BY DEF Init, Stored
<1>3. TypeOK
  BY <1>2, CacheTagsAssumption DEF Init, TypeOK, Points
<1>4. \A c \in Callers : Placed(c)
  BY CacheTagsAssumption DEF Init, Placed, InSection
<1>5. \A k \in Keys : tagsOf[k] # {} => k \in Stored
  BY DEF Init
<1>6. Clashing \subseteq disturbed
  BY <1>1 DEF Init, Clashing, Touches, Restores, At
<1>7. ASSUME NEW k \in Keys
      PROVE  Consistent(k)
  <2>1. ASSUME NEW c \in Callers
        PROVE  ~Setting(c, k) /\ ~Condemned(c, k) /\ ~Deleting(c, k) /\ ~Awaited(c, k)
    BY <1>1 DEF Init, Setting, Condemned, Deleting, Awaited
  <2>2. \A c \in Callers : Known(c, k)
    BY <1>1, <2>1 DEF Init, Known
  <2>3. Listed(k)
    BY DEF Init, Listed
  <2> QED BY <2>2, <2>3 DEF Consistent
<1>8. Room
  BY <1>2 DEF Room
<1> QED BY <1>3, <1>4, <1>5, <1>6, <1>7, <1>8 DEF IInv

LEMMA NextHolds == IInv /\ [Next]_vars => IInv'
<1> SUFFICES ASSUME IInv, [Next]_vars PROVE IInv'
  OBVIOUS
<1>1. disturbed \subseteq Keys /\ Clashing' \subseteq Keys
  BY DEF IInv, TypeOK, Clashing
<1>2. ASSUME NEW c \in Callers, Request(c) \/ Step(c), disturbed' = disturbed \cup Clashing'
      PROVE  IInv'
  <2>1. Kept(c)
    BY <1>2, StepKept
  <2> QED BY <1>1, <1>2, <2>1, KeptKeeps
<1>3. ASSUME NEW k \in live, Expire(k), UNCHANGED disturbed
      PROVE  IInv'
  BY <1>3, ExpireKeeps
<1>4. ASSUME NEW c \in Callers, CutShort(c), disturbed' = disturbed \cup {k \in Keys : Touches(c, k)}
      PROVE  IInv'
  BY <1>4, CutShortKeeps
<1>5. CASE UNCHANGED vars
  <2>1. /\ place' = place /\ live' = live /\ tagsOf' = tagsOf /\ doc' = doc /\ lock' = lock /\ pc' = pc
        /\ call' = call /\ key' = key /\ tag' = tag /\ next' = next /\ prev' = prev /\ target' = target
        /\ work' = work /\ item' = item /\ buf' = buf /\ victims' = victims /\ since' = since /\ faults' = faults
        /\ disturbed' = disturbed
    BY <1>5 DEF vars, store, request, locals
  <2>2. TypeOK'
    BY <2>1 DEF IInv, TypeOK, Stored
  <2>3. \A c \in Callers : Placed(c)'
    BY <2>1 DEF IInv, Placed, InSection
  <2>4. \A k \in Keys : tagsOf'[k] # {} => k \in Stored'
    BY <2>1 DEF IInv, Stored
  <2>5. Clashing' \subseteq disturbed'
    BY <2>1 DEF IInv, Clashing, Touches, Bears, Restores, Drops, At
  <2>6. \A k \in Keys \ disturbed' : Consistent(k)'
    BY <2>1 DEF IInv, Consistent, Known, Setting, Condemned, Deleting, Awaited, Unfinished, Listed
  <2>7. Room'
    BY <2>1 DEF IInv, Room, Filling, Stored, Condemned, Awaited
  <2> QED BY <2>2, <2>3, <2>4, <2>5, <2>6, <2>7 DEF IInv
<1> QED BY <1>2, <1>3, <1>4, <1>5, Zenon DEF Next

THEOREM Invariance == Spec => []IInv
  BY InitHolds, NextHolds, PTL DEF Spec

----------------------------------------------------------------------------
(* What follows.                                                           *)

\* TypeOK holds throughout.
THEOREM TypeCorrect == Spec => []TypeOK
<1>1. IInv => TypeOK
  BY DEF IInv
<1> QED BY <1>1, Invariance, PTL

\* IndexExact holds throughout: the tag objects never drift from the entries of a
\* key that one call at a time was about.
THEOREM IndexCorrect == Spec => []IndexExact
<1>1. IInv => IndexExact
  <2> SUFFICES ASSUME IInv, NEW k \in Keys \ disturbed, ~Busy(k)
               PROVE  Listed(k)
    BY DEF IndexExact, Listed
  <2>1. \A c \in Callers : ~Unfinished(c, k)
    BY UnfinishedTouches DEF Busy
  <2> QED BY <2>1, Zenon DEF IInv, Consistent
<1> QED BY <1>1, Invariance, PTL

\* InvalidatedGone holds throughout: when an invalidation is about to delete the
\* tag's object, it has missed no entry that bears the tag.
THEOREM InvalidationComplete == Spec => []InvalidatedGone
<1>1. IInv => InvalidatedGone
  <2> SUFFICES ASSUME IInv, NEW c \in Callers, At(c, "dropDoc"), NEW k \in Keys \ disturbed
               PROVE  tag[c] \notin tagsOf[k]
    BY DEF InvalidatedGone
  <2>1. Placed(c) /\ Known(c, k)
    BY DEF IInv, Consistent
  <2>2. pc[c] = "dropDoc" /\ call[c] = "invalidate" /\ victims[c] = {}
    BY <2>1 DEF At, Placed
  <2>3. ~Condemned(c, k) /\ ~Awaited(c, k)
    BY <2>2 DEF Condemned, Awaited
  <2> QED BY <2>1, <2>2, <2>3 DEF Known
<1> QED BY <1>1, Invariance, PTL

\* BoundedAtRest holds throughout: what concurrent sets leave too much, the last of
\* them to list the namespace deletes.
THEOREM NamespaceBounded == Spec => []BoundedAtRest
<1>1. IInv => BoundedAtRest
  <2> SUFFICES ASSUME IInv, faults = 0, \A c \in Callers : At(c, "idle")
               PROVE  Cardinality(Stored) <= MaxEntries
    BY DEF BoundedAtRest
  <2>1. ASSUME NEW c \in Callers
        PROVE  ~Filling(c) /\ \A k \in Keys : ~Condemned(c, k) /\ ~Awaited(c, k)
    <3>1. pc[c] = "idle" /\ call[c] = "none" /\ victims[c] = {}
      BY DEF At, IInv, Placed
    <3> QED BY <3>1 DEF Filling, Condemned, Awaited
  <2>2. \A k \in Stored : k \in Keys /\ place[k] <= MaxEntries
    BY <2>1 DEF IInv, Room, Stored
  <2>3. MaxEntries \in Nat
    BY CacheTagsAssumption
  <2> DEFINE rank == [k \in Stored |-> place[k]]
  <2>4. rank \in Injection(Stored, 1 .. MaxEntries)
    BY <2>2, <2>3 DEF IInv, TypeOK, Stored, Injection, IsInjective
  <2>5. IsFiniteSet(1 .. MaxEntries) /\ Cardinality(1 .. MaxEntries) = MaxEntries
    BY <2>3, FS_Interval
  <2>6. Cardinality(Stored) <= Cardinality(1 .. MaxEntries)
    BY <2>4, <2>5, FS_Injection, Zenon
  <2> QED BY <2>5, <2>6
<1> QED BY <1>1, Invariance, PTL

\* LiveEntriesKept: no step deletes an entry that is still good, but for the calls
\* that are meant to.
THEOREM LiveOnesKept == Spec => LiveEntriesKept
<1> DEFINE Kind(c, k) ==
             \/ At(c, "entry") /\ call[c] \in {"set", "delete"}
             \/ At(c, "entry") /\ call[c] = "invalidate" /\ tag[c] \in tagsOf[k]
             \/ At(c, "clearEntries")
           Good == \A k \in live \ live' :
                     k \in disturbed' \/ k \in Stored' \/ \E c \in Callers : Kind(c, k)
<1>1. IInv /\ [Next]_vars => Good
  <2> SUFFICES ASSUME IInv, [Next]_vars, NEW k \in live \ live', k \notin disturbed', k \notin Stored'
               PROVE  \E c \in Callers : Kind(c, k)
    OBVIOUS
  <2>1. k \in Stored /\ k \in Keys
    BY DEF IInv, TypeOK, Stored
  <2>2. place' # place
    BY <2>1 DEF Stored
  <2>3. PICK c \in Callers : Request(c) \/ Step(c)
    <3>1. ~UNCHANGED vars
      BY <2>2 DEF vars, store
    <3>2. \A x : ~Expire(x)
      BY <2>2 DEF Expire
    <3>3. \A c \in Callers : ~CutShort(c)
      BY <2>2 DEF CutShort, store
    <3> QED BY <3>1, <3>2, <3>3, Zenon DEF Next
  <2>4. k \notin disturbed
    <3>1. disturbed \subseteq disturbed'
      BY DEF Next, vars
    <3> QED BY <3>1
  <2>5. DeleteEntry(c) \/ WriteEntry(c) \/ At(c, "clearEntries")
    BY <2>2, <2>3 DEF Request, Begin, BeginInvalidate, BeginClear, Step, ReadEntry, Lock, ReadDoc,
       WriteDoc, Unlock, Trim, NextVictim, ReadTag, Collect, DropDoc,
       ListEntries, ClearEntry, ListDocs, ClearDoc, ClearDone, store
  <2>6. CASE WriteEntry(c)
    BY <2>6 DEF WriteEntry
  <2>7. CASE At(c, "clearEntries")
    BY <2>7
  <2>8. CASE DeleteEntry(c)
    <3>1. pc[c] = "entry" /\ At(c, "entry") /\ target[c] = k
      BY <2>8 DEF DeleteEntry, RemoveEntry, At
    <3>2. Placed(c) /\ Known(c, k)
      BY <2>1, <2>4 DEF IInv, Consistent
    <3>3. Condemned(c, k)
      BY <3>1 DEF Condemned
    <3>4. call[c] # "get" /\ (call[c] = "invalidate" => tag[c] \in tagsOf[k])
      BY <3>2, <3>3 DEF Known
    <3>5. call[c] \in {"set", "delete", "invalidate"}
      <4>1. call[c] \in CallKinds \cup {"none"}
        BY DEF IInv, TypeOK
      <4> QED BY <3>1, <3>2, <3>4, <4>1 DEF Placed, CallKinds
    <3> QED BY <3>1, <3>4, <3>5
  <2> QED BY <2>5, <2>6, <2>7, <2>8
<1>2. Good => \A k \in live \ live' :
                \/ k \in disturbed' \/ k \in Stored'
                \/ \E c \in Callers : Kind(c, k)
  OBVIOUS
<1> QED BY <1>1, <1>2, Invariance, PTL DEF Spec, LiveEntriesKept

=============================================================================
