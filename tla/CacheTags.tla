----------------------------- MODULE CacheTags -----------------------------
(***************************************************************************)
(* The storage_json backend of AST.Cache: one object per entry and one per *)
(* tag, a tag's object listing the keys that bear it.  Several executions  *)
(* set, get, delete, invalidate by tag and clear; only the changes of tag  *)
(* objects are made under the script lock.                                 *)
(*                                                                         *)
(* Every read, write and delete of an object is a step of its own, except  *)
(* that a listing and the reads of what it lists are one.  An entry is its *)
(* tags, whether its time is over, and its place in the order of the times *)
(* of their updates.                                                       *)
(***************************************************************************)
EXTENDS Naturals, FiniteSets

CONSTANTS
  Callers,     \* executions
  NoCaller,    \* the lock is free
  Keys,        \* key hashes
  NoKey,
  Tags,
  NoTag,
  TagSets,     \* the sets of tags an entry is set with
  Calls,       \* the calls made, of CallKinds
  MaxEntries,  \* config.maxMemoryEntries
  MaxFaults    \* bound on the calls that are cut short

CallKinds == {"get", "set", "delete", "invalidate", "clear"}

ASSUME CacheTagsAssumption ==
  /\ NoCaller \notin Callers
  /\ NoKey \notin Keys
  /\ NoTag \notin Tags
  /\ TagSets \subseteq SUBSET Tags
  /\ Calls \subseteq CallKinds
  /\ MaxEntries \in Nat \ {0}
  /\ MaxFaults \in Nat

Points == {"idle", "read", "write", "lock", "entry", "doc", "docWrite", "trim",
           "next", "docRead", "collect", "dropDoc", "clear", "clearEntries", "clearDocs"}

VARIABLES
  place,     \* the place of each key's entry, the one updated last being the
             \* first; 0 for a key that has none
  live,      \* those whose entry has not expired
  tagsOf,    \* the tags in each key's entry
  doc,       \* the keys each tag's object lists; it is deleted when there are none
  lock,      \* holder of the script lock
  pc,        \* control point of each caller
  call,      \* the call it makes
  key,       \* the key it is about
  tag,       \* the tag it invalidates
  next,      \* the tags of the entry it sets; in a clear, those whose objects
             \* it is to delete
  prev,      \* the tags of the entry it found
  target,    \* the entry it is to delete under the lock, with its tags
  work,      \* the changes of tag objects yet to be made under the lock
  item,      \* the one it is making
  buf,       \* the tag object it has read for that; in a clear, the entries it
             \* is to delete
  victims,   \* entries it is to delete, as it read them
  since,     \* the keys whose entries were written since it began its set
  faults,    \* faults so far
  disturbed  \* history: keys on which calls overlapped or were cut short

store   == <<place, live, tagsOf>>
request == <<call, key, tag, next>>
locals  == <<prev, target, work, item, buf, victims, since>>
vars    == <<store, doc, lock, pc, request, locals, faults, disturbed>>

----------------------------------------------------------------------------
At(c, point) == pc[c] = point
Goto(c, point) == pc' = [pc EXCEPT ![c] = point]

Stored == {k \in Keys : place[k] # 0}

Entry(k) == [key |-> k, tags |-> tagsOf[k]]
Entries  == [key : Keys, tags : SUBSET Tags]

Changes(op, tags) == {[op |-> op, tag |-> t] : t \in tags}
NoChange == [op |-> "none", tag |-> NoTag]

\* The places when the entry of k, if it has one, is gone.
Without(k) ==
  [j \in Keys |-> IF j = k THEN 0
                 ELSE IF place[k] # 0 /\ place[k] < place[j] THEN place[j] - 1
                 ELSE place[j]]

RemoveEntry(k) ==
  /\ place' = Without(k)
  /\ live' = live \ {k}
  /\ tagsOf' = [tagsOf EXCEPT ![k] = {}]

\* The call ends, by return, exception or death.
Leave(c) ==
  /\ Goto(c, "idle")
  /\ call' = [call EXCEPT ![c] = "none"]
  /\ key' = [key EXCEPT ![c] = NoKey]
  /\ tag' = [tag EXCEPT ![c] = NoTag]
  /\ next' = [next EXCEPT ![c] = {}]
  /\ prev' = [prev EXCEPT ![c] = {}]
  /\ target' = [target EXCEPT ![c] = NoKey]
  /\ work' = [work EXCEPT ![c] = {}]
  /\ item' = [item EXCEPT ![c] = NoChange]
  /\ buf' = [buf EXCEPT ![c] = {}]
  /\ victims' = [victims EXCEPT ![c] = {}]
  /\ since' = [since EXCEPT ![c] = {}]

Init ==
  /\ place = [k \in Keys |-> 0]
  /\ live = {}
  /\ tagsOf = [k \in Keys |-> {}]
  /\ doc = [t \in Tags |-> {}]
  /\ lock = NoCaller
  /\ pc = [c \in Callers |-> "idle"]
  /\ call = [c \in Callers |-> "none"]
  /\ key = [c \in Callers |-> NoKey]
  /\ tag = [c \in Callers |-> NoTag]
  /\ next = [c \in Callers |-> {}]
  /\ prev = [c \in Callers |-> {}]
  /\ target = [c \in Callers |-> NoKey]
  /\ work = [c \in Callers |-> {}]
  /\ item = [c \in Callers |-> NoChange]
  /\ buf = [c \in Callers |-> {}]
  /\ victims = [c \in Callers |-> {}]
  /\ since = [c \in Callers |-> {}]
  /\ faults = 0
  /\ disturbed = {}

----------------------------------------------------------------------------
(* Which calls overlap.                                                    *)

\* What a call reads, writes or deletes by its tag rather than by its key.
Bears(k, t) ==
  \/ t \in tagsOf[k] \/ k \in doc[t]
  \/ \E c \in Callers : key[c] = k /\ t \in next[c] \cup prev[c]

Touches(c, k) ==
  \/ key[c] = k
  \/ \E v \in victims[c] : v.key = k
  \/ target[c] = k
  \/ call[c] = "invalidate" /\ Bears(k, tag[c])
  \/ call[c] = "clear"

\* A tag object read under the lock is about to be written back while another
\* call, outside the lock, deletes it.
Restores(c, k) == k \in buf[c] /\ At(c, "docWrite")
Drops(c, t) == call[c] = "clear" \/ (call[c] = "invalidate" /\ tag[c] = t)

Clashing ==
  {k \in Keys : \E c, d \in Callers :
     c # d /\ \/ Touches(c, k) /\ Touches(d, k)
              \/ Restores(c, k) /\ Drops(d, item[c].tag)}

----------------------------------------------------------------------------
(* A call on one key.                                                      *)

Begin(c, kind, k, ts) ==
  /\ At(c, "idle")
  /\ kind \in Calls \cap {"get", "set", "delete"}
  /\ IF kind = "set" THEN ts \in TagSets ELSE ts = {}
  /\ call' = [call EXCEPT ![c] = kind]
  /\ key' = [key EXCEPT ![c] = k]
  /\ next' = [next EXCEPT ![c] = ts]
  /\ Goto(c, "read")
  /\ UNCHANGED <<store, doc, lock, tag, locals, faults>>

\* To the lock, to delete the entry v and to take its key from its tags.
Condemn(c, v) ==
  /\ target' = [target EXCEPT ![c] = v.key]
  /\ work' = [work EXCEPT ![c] = Changes("drop", v.tags)]
  /\ Goto(c, "lock")

DeletesBug(c, k) == k \in Stored

\* A get deletes the entry it finds expired, a delete the one it finds.
Deletes(c, k) == k \in Stored /\ (call[c] = "get" => k \notin live)

ReadEntry(c) ==
  /\ At(c, "read")
  /\ LET k == key[c]
     IN \/ /\ call[c] = "set"
           /\ prev' = [prev EXCEPT ![c] = tagsOf[k]]
           /\ Goto(c, "write")
           /\ UNCHANGED <<request, target, work, item, buf, victims, since>>
        \/ /\ call[c] # "set" /\ Deletes(c, k)
           /\ Condemn(c, Entry(k))
           /\ UNCHANGED <<request, prev, item, buf, victims, since>>
        \/ call[c] # "set" /\ ~Deletes(c, k) /\ Leave(c)
  /\ UNCHANGED <<store, doc, lock, faults>>

TagChangesBug(old, new) == Changes("add", new \ old)

\* Tags the entry no longer has lose the key, tags it did not have gain it.
TagChanges(old, new) == Changes("drop", old \ new) \cup Changes("add", new \ old)

\* An entry is as new as the beginning of its set, so those written since may be
\* newer, and no others.
PlacesFor(k, written) ==
  LET rest == Without(k)
  IN {p \in {1} \cup {rest[j] + 1 : j \in Keys} :
        \A j \in Keys : rest[j] # 0 /\ rest[j] < p => j \in written}

RefreshedBug(k, p) == [place EXCEPT ![k] = p]

\* The entry of k takes place p; those behind it move back.
Refreshed(k, p) ==
  LET rest == Without(k)
  IN [j \in Keys |-> IF j = k THEN p ELSE IF rest[j] >= p THEN rest[j] + 1 ELSE rest[j]]

SettingNow(c) == call[c] = "set" /\ pc[c] \in {"read", "write"}

WriteEntry(c) ==
  /\ At(c, "write")
  /\ LET k == key[c]
     IN /\ \E p \in PlacesFor(k, since[c]) : place' = Refreshed(k, p)
        /\ live' = live \cup {k}
        /\ tagsOf' = [tagsOf EXCEPT ![k] = next[c]]
        /\ since' = [d \in Callers |-> IF d # c /\ SettingNow(d) THEN since[d] \cup {k} ELSE {}]
  /\ work' = [work EXCEPT ![c] = TagChanges(prev[c], next[c])]
  /\ Goto(c, "lock")
  /\ UNCHANGED <<doc, lock, request, prev, target, item, buf, victims, faults>>

----------------------------------------------------------------------------
(* The critical section: an entry's deletion and changes of tag objects.   *)

Lock(c) ==
  /\ At(c, "lock")
  /\ lock = NoCaller
  /\ lock' = c
  /\ Goto(c, IF target[c] = NoKey THEN "doc" ELSE "entry")
  /\ UNCHANGED <<store, doc, request, locals, faults>>

DeleteEntry(c) ==
  /\ At(c, "entry")
  /\ RemoveEntry(target[c])
  /\ Goto(c, "doc")
  /\ UNCHANGED <<doc, lock, request, locals, faults>>

\* The key is taken from tags before it is added to others.
ReadDoc(c, w) ==
  /\ At(c, "doc")
  /\ w \in work[c]
  /\ w.op = "drop" \/ \A x \in work[c] : x.op = "add"
  /\ item' = [item EXCEPT ![c] = w]
  /\ buf' = [buf EXCEPT ![c] = doc[w.tag]]
  /\ Goto(c, "docWrite")
  /\ UNCHANGED <<store, doc, lock, request, prev, target, work, victims, since, faults>>

WriteDoc(c) ==
  /\ At(c, "docWrite")
  /\ LET subject == IF target[c] = NoKey THEN key[c] ELSE target[c]
     IN doc' = [doc EXCEPT ![item[c].tag] =
                  IF item[c].op = "add" THEN buf[c] \cup {subject} ELSE buf[c] \ {subject}]
  /\ work' = [work EXCEPT ![c] = @ \ {item[c]}]
  /\ item' = [item EXCEPT ![c] = NoChange]
  /\ buf' = [buf EXCEPT ![c] = {}]
  /\ Goto(c, "doc")
  /\ UNCHANGED <<store, lock, request, prev, target, victims, since, faults>>

\* A set goes on to trim the namespace, any other call to its next victim.
Unlock(c) ==
  /\ At(c, "doc")
  /\ work[c] = {}
  /\ lock' = NoCaller
  /\ target' = [target EXCEPT ![c] = NoKey]
  /\ Goto(c, IF target[c] = NoKey THEN "trim" ELSE "next")
  /\ UNCHANGED <<store, doc, request, prev, work, item, buf, victims, since, faults>>

----------------------------------------------------------------------------
(* Deleting what was listed: trimming, invalidation by tag, clearing.      *)

OverflowBug == {k \in Stored : place[k] > MaxEntries + 1}
Overflow == {k \in Stored : place[k] > MaxEntries}

\* The entries updated longest ago are listed, to be deleted one by one.
Trim(c) ==
  /\ At(c, "trim")
  /\ victims' = [victims EXCEPT ![c] = {Entry(k) : k \in Overflow}]
  /\ Goto(c, "next")
  /\ UNCHANGED <<store, doc, lock, request, prev, target, work, item, buf, since, faults>>

NextVictim(c) ==
  /\ At(c, "next")
  /\ \/ \E v \in victims[c] :
          /\ Condemn(c, v)
          /\ victims' = [victims EXCEPT ![c] = @ \ {v}]
          /\ UNCHANGED <<request, prev, item, buf, since>>
     \/ /\ victims[c] = {}
        /\ call[c] = "invalidate"
        /\ Goto(c, "dropDoc")
        /\ UNCHANGED <<request, locals>>
     \/ victims[c] = {} /\ call[c] # "invalidate" /\ Leave(c)
  /\ UNCHANGED <<store, doc, lock, faults>>

BeginInvalidate(c, t) ==
  /\ At(c, "idle")
  /\ "invalidate" \in Calls
  /\ call' = [call EXCEPT ![c] = "invalidate"]
  /\ tag' = [tag EXCEPT ![c] = t]
  /\ Goto(c, "docRead")
  /\ UNCHANGED <<store, doc, lock, key, next, locals, faults>>

ReadTag(c) ==
  /\ At(c, "docRead")
  /\ buf' = [buf EXCEPT ![c] = doc[tag[c]]]
  /\ Goto(c, "collect")
  /\ UNCHANGED <<store, doc, lock, request, prev, target, work, item, victims, since, faults>>

CandidatesBug(c) ==
  IF buf[c] # {} THEN buf[c] \cap live ELSE {k \in live : tag[c] \in tagsOf[k]}

\* The entries of the listed keys; with none listed, a scan for the tag.
Candidates(c) ==
  IF buf[c] # {} THEN buf[c] \cap Stored ELSE {k \in Stored : tag[c] \in tagsOf[k]}

Collect(c) ==
  /\ At(c, "collect")
  /\ victims' = [victims EXCEPT ![c] = {Entry(k) : k \in Candidates(c)}]
  /\ buf' = [buf EXCEPT ![c] = {}]
  /\ Goto(c, "next")
  /\ UNCHANGED <<store, doc, lock, request, prev, target, work, item, since, faults>>

\* The tag's object is deleted without another look, outside the lock.
DropDoc(c) ==
  /\ At(c, "dropDoc")
  /\ doc' = [doc EXCEPT ![tag[c]] = {}]
  /\ Leave(c)
  /\ UNCHANGED <<store, lock, faults>>

BeginClear(c) ==
  /\ At(c, "idle")
  /\ "clear" \in Calls
  /\ call' = [call EXCEPT ![c] = "clear"]
  /\ Goto(c, "clear")
  /\ UNCHANGED <<store, doc, lock, key, tag, next, locals, faults>>

ListEntries(c) ==
  /\ At(c, "clear")
  /\ buf' = [buf EXCEPT ![c] = Stored]
  /\ Goto(c, "clearEntries")
  /\ UNCHANGED <<store, doc, lock, request, prev, target, work, item, victims, since, faults>>

\* Outside the lock, and whatever has become of the entry.
ClearEntry(c, k) ==
  /\ At(c, "clearEntries")
  /\ k \in buf[c]
  /\ RemoveEntry(k)
  /\ buf' = [buf EXCEPT ![c] = @ \ {k}]
  /\ UNCHANGED <<doc, lock, pc, request, prev, target, work, item, victims, since, faults>>

ListDocs(c) ==
  /\ At(c, "clearEntries")
  /\ buf[c] = {}
  /\ next' = [next EXCEPT ![c] = {t \in Tags : doc[t] # {}}]
  /\ Goto(c, "clearDocs")
  /\ UNCHANGED <<store, doc, lock, call, key, tag, locals, faults>>

ClearDoc(c, t) ==
  /\ At(c, "clearDocs")
  /\ t \in next[c]
  /\ doc' = [doc EXCEPT ![t] = {}]
  /\ next' = [next EXCEPT ![c] = @ \ {t}]
  /\ UNCHANGED <<store, lock, pc, call, key, tag, locals, faults>>

ClearDone(c) ==
  /\ At(c, "clearDocs")
  /\ next[c] = {}
  /\ Leave(c)
  /\ UNCHANGED <<store, doc, lock, faults>>

----------------------------------------------------------------------------
(* The rest of the world.                                                  *)

Expire(k) ==
  /\ live' = live \ {k}
  /\ UNCHANGED <<place, tagsOf, doc, lock, pc, request, locals, faults>>

\* The execution is killed, an object cannot be read or written, or the lock is
\* not to be had: the call ends there, and what it has done stays.
CutShort(c) ==
  /\ ~At(c, "idle")
  /\ faults < MaxFaults
  /\ faults' = faults + 1
  /\ lock' = IF lock = c THEN NoCaller ELSE lock
  /\ Leave(c)
  /\ UNCHANGED <<store, doc>>

Step(c) ==
  \/ ReadEntry(c) \/ WriteEntry(c)
  \/ Lock(c) \/ DeleteEntry(c) \/ WriteDoc(c) \/ Unlock(c)
  \/ \E w \in work[c] : ReadDoc(c, w)
  \/ Trim(c) \/ NextVictim(c)
  \/ ReadTag(c) \/ Collect(c) \/ DropDoc(c)
  \/ ListEntries(c) \/ ListDocs(c) \/ ClearDone(c)
  \/ \E k \in buf[c] : ClearEntry(c, k)
  \/ \E t \in next[c] : ClearDoc(c, t)

Request(c) ==
  \/ \E kind \in Calls, k \in Keys, ts \in TagSets \cup {{}} : Begin(c, kind, k, ts)
  \/ \E t \in Tags : BeginInvalidate(c, t)
  \/ BeginClear(c)

\* Calls overlap on a key from the state in which both have to do with it.
Next ==
  \/ /\ \E c \in Callers : Request(c) \/ Step(c)
     /\ disturbed' = disturbed \cup Clashing'
  \/ \E k \in live : Expire(k) /\ UNCHANGED disturbed
  \/ \E c \in Callers :
       /\ CutShort(c)
       /\ disturbed' = disturbed \cup {k \in Keys : Touches(c, k)}

Spec == Init /\ [][Next]_vars

----------------------------------------------------------------------------
(* Properties.                                                             *)

TypeOK ==
  /\ place \in [Keys -> Nat]
  /\ \A j, k \in Stored : place[j] = place[k] => j = k
  /\ \A k \in Keys : place[k] > 1 => \E j \in Keys : place[j] = place[k] - 1
  /\ live \subseteq Stored
  /\ tagsOf \in [Keys -> SUBSET Tags]
  /\ doc \in [Tags -> SUBSET Keys]
  /\ lock \in Callers \cup {NoCaller}
  /\ pc \in [Callers -> Points]
  /\ call \in [Callers -> CallKinds \cup {"none"}]
  /\ key \in [Callers -> Keys \cup {NoKey}]
  /\ tag \in [Callers -> Tags \cup {NoTag}]
  /\ next \in [Callers -> SUBSET Tags]
  /\ prev \in [Callers -> SUBSET Tags]
  /\ target \in [Callers -> Keys \cup {NoKey}]
  /\ work \in [Callers -> SUBSET [op : {"drop", "add"}, tag : Tags]]
  /\ item \in [Callers -> [op : {"drop", "add"}, tag : Tags] \cup {NoChange}]
  /\ buf \in [Callers -> SUBSET Keys]
  /\ victims \in [Callers -> SUBSET Entries]
  /\ since \in [Callers -> SUBSET Keys]
  /\ faults \in 0 .. MaxFaults
  /\ disturbed \subseteq Keys

Busy(k) == \E c \in Callers : Touches(c, k)

\* The tag objects list exactly the keys whose entries bear the tag, for every
\* key on which calls came one after the other and none was cut short, whatever
\* happened meanwhile to other keys of the same tags.
IndexExact ==
  \A k \in Keys \ disturbed :
    ~Busy(k) => \A t \in Tags : k \in doc[t] <=> t \in tagsOf[k]

\* When an invalidation has deleted what it collected, no entry with its tag is
\* left, but for keys that were set or deleted meanwhile or in the past by calls
\* that overlapped or were cut short.
InvalidatedGone ==
  \A c \in Callers : At(c, "dropDoc") =>
    \A k \in Keys \ disturbed : tag[c] \notin tagsOf[k]

\* When all calls are over the namespace holds no more entries than allowed,
\* however many executions set entries at the same time.
BoundedAtRest ==
  faults = 0 /\ (\A c \in Callers : At(c, "idle")) => Cardinality(Stored) <= MaxEntries

\* An entry that has not expired is deleted only by a delete or a clear of it,
\* by the invalidation of a tag it bears, or to make room, unless calls on its
\* key overlapped.
LiveEntriesKept ==
  [][\A k \in live \ live' :
       \/ k \in disturbed' \/ k \in Stored'
       \/ \E c \in Callers :
            \/ At(c, "entry") /\ call[c] \in {"set", "delete"}
            \/ At(c, "entry") /\ call[c] = "invalidate" /\ tag[c] \in tagsOf[k]
            \/ At(c, "clearEntries")]_vars

=============================================================================
