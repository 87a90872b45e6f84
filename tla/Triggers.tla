------------------------------ MODULE Triggers ------------------------------
(***************************************************************************)
(* AST.Triggers: definitions of time-based triggers in script properties,  *)
(* the installable triggers Apps Script holds for them, and the firing of  *)
(* those.  Several executions upsert, delete and dispatch; none takes a    *)
(* lock.                                                                   *)
(*                                                                         *)
(* A step is one call of the property store or of ScriptApp.  Of a request *)
(* only what the decisions compare is kept: whether it is enabled, what    *)
(* binds it to its trigger (schedule and handler) and the rest of it.      *)
(* Calls with dryRun, list and runNow by id change nothing kept here.      *)
(***************************************************************************)
EXTENDS Naturals, Sequences, FiniteSets

CONSTANTS
  Callers,   \* executions
  Ids,       \* ids of definitions
  NoId,
  Wants,     \* the definitions asked for, of each id
  Calls,     \* the calls made, of CallKinds
  MaxAsked,  \* bound on the upserts and deletes that are called
  Faults,    \* the faults that may strike, of FaultKinds
  MaxFaults  \* bound on the faults of a behaviour

CallKinds == {"upsert", "delete", "deleteAll", "fire"}

\* The call is killed or the property store fails it; ScriptApp refuses to
\* create or to delete; getProjectTriggers fails, which is taken for an empty
\* list; somebody deletes a trigger by hand.
FaultKinds == {"cut", "refuse", "blind", "hand"}

Definitions == [on : BOOLEAN, bind : Nat \ {0}, body : Nat]

ASSUME TriggersAssumption ==
  /\ IsFiniteSet(Ids) /\ NoId \notin Ids
  /\ Wants \in [Ids -> SUBSET Definitions]
  /\ Calls \subseteq CallKinds
  /\ MaxAsked \in Nat
  /\ Faults \subseteq FaultKinds
  /\ MaxFaults \in Nat

NoUid  == 0
NoWant == [on |-> FALSE, bind |-> 0, body |-> 0]
NoDef  == [want |-> NoWant, uid |-> NoUid]

Points == {"idle", "read", "find", "list", "create", "remove", "rollback", "write",
           "index", "unmap", "map", "all", "next", "drop",
           "lookup", "mapped", "scan", "try", "dispatch", "missed", "done"}

VARIABLES
  def,         \* the stored definitions; NoDef where there is none
  index,       \* the stored list of ids
  uidMap,      \* the stored id of each trigger uid, NoId if there is none
  project,     \* the uids of the triggers Apps Script holds
  made,        \* what each trigger was created for; a uid is a place in it
  pc,          \* control point of each caller
  call,        \* the call it makes
  id,          \* the definition it is about
  want,        \* the definition it was asked for
  old,         \* the definition it has read
  healthy,     \* whether that one's trigger was found
  new,         \* the trigger it has created
  ids,         \* the ids it has listed and not yet gone through, or is to store
  gone,        \* the ids it has deleted
  event,       \* the uid of the trigger that fired
  asked,       \* upserts and deletes called so far
  faults,      \* faults so far
  overlapped,  \* history: ids on which upserts or deletes overlapped
  harmed,      \* history: ids of calls that a fault made end half-done
  raced,       \* history: calls that write the index overlapped or were cut
  alone        \* history: callers with nobody else at their definition so far

props   == <<def, index, uidMap>>
script  == <<project, made>>
request == <<call, id, want, event, asked>>
locals  == <<old, healthy, new, ids, gone>>
history == <<overlapped, harmed, raced, alone>>
vars    == <<props, script, pc, request, locals, faults, history>>

----------------------------------------------------------------------------
At(c, point) == pc[c] = point
Goto(c, point) == pc' = [pc EXCEPT ![c] = point]

Go(c, point) == Goto(c, point) /\ UNCHANGED <<request, locals>>

Owner(u) == made[u].id

\* The call ends, by return, exception or death.
Leave(c) ==
  /\ Goto(c, "idle")
  /\ call' = [call EXCEPT ![c] = "none"]
  /\ id' = [id EXCEPT ![c] = NoId]
  /\ want' = [want EXCEPT ![c] = NoWant]
  /\ event' = [event EXCEPT ![c] = NoUid]
  /\ old' = [old EXCEPT ![c] = NoDef]
  /\ healthy' = [healthy EXCEPT ![c] = FALSE]
  /\ new' = [new EXCEPT ![c] = NoUid]
  /\ ids' = [ids EXCEPT ![c] = {}]
  /\ gone' = [gone EXCEPT ![c] = {}]
  /\ UNCHANGED asked

\* A call that changes something is made.
Ask(c, kind) ==
  /\ At(c, "idle")
  /\ kind \in Calls
  /\ asked < MaxAsked
  /\ asked' = asked + 1
  /\ call' = [call EXCEPT ![c] = kind]

Strike(fault) ==
  /\ fault \in Faults
  /\ faults < MaxFaults
  /\ faults' = faults + 1

Init ==
  /\ def = [i \in Ids |-> NoDef]
  /\ index = {}
  /\ uidMap = <<>>
  /\ project = {}
  /\ made = <<>>
  /\ pc = [c \in Callers |-> "idle"]
  /\ call = [c \in Callers |-> "none"]
  /\ id = [c \in Callers |-> NoId]
  /\ want = [c \in Callers |-> NoWant]
  /\ event = [c \in Callers |-> NoUid]
  /\ old = [c \in Callers |-> NoDef]
  /\ healthy = [c \in Callers |-> FALSE]
  /\ new = [c \in Callers |-> NoUid]
  /\ ids = [c \in Callers |-> {}]
  /\ gone = [c \in Callers |-> {}]
  /\ asked = 0
  /\ faults = 0
  /\ overlapped = {}
  /\ harmed = {}
  /\ raced = FALSE
  /\ alone = Callers

Stored == {i \in Ids : def[i] # NoDef}

\* The index, or a scan of the properties when it lists nothing.
Listed == IF index # {} THEN index ELSE Stored

----------------------------------------------------------------------------
(* Upsert: astTriggersUpsert.                                              *)

BeginUpsert(c, i, w) ==
  /\ Ask(c, "upsert")
  /\ id' = [id EXCEPT ![c] = i]
  /\ want' = [want EXCEPT ![c] = w]
  /\ Goto(c, "read")
  /\ UNCHANGED <<props, script, event, locals, faults>>

\* A delete passes over an id without a definition.
Read(c) ==
  /\ At(c, "read")
  /\ old' = [old EXCEPT ![c] = def[id[c]]]
  /\ Goto(c, IF call[c] = "upsert" THEN "find"
             ELSE IF def[id[c]] = NoDef THEN "next"
             ELSE IF def[id[c]].uid # NoUid THEN "remove" ELSE "drop")
  /\ UNCHANGED <<props, script, request, healthy, new, ids, gone, faults>>

FoundBug(c) == old[c].uid # NoUid

Found(c) == old[c].uid \in project

\* Nothing is done for a definition that is stored with its trigger in place.
Noop(c, seen) == old[c] # NoDef /\ old[c].want = want[c] /\ (want[c].on => seen)

Find(c) ==
  /\ At(c, "find")
  /\ \E seen \in {Found(c), FALSE} :
       /\ IF seen = Found(c) THEN UNCHANGED faults ELSE Strike("blind")
       /\ healthy' = [healthy EXCEPT ![c] = seen]
       /\ Goto(c, IF Noop(c, seen) THEN "done" ELSE "list")
  /\ UNCHANGED <<props, script, request, old, new, ids, gone>>

\* A trigger is created for an enabled definition without one that fits.
Recreates(c) ==
  /\ want[c].on
  /\ \/ ~old[c].want.on
     \/ old[c].want.bind # want[c].bind
     \/ ~healthy[c]

RemovesBug(c) == old[c].uid # NoUid /\ ~want[c].on

\* The trigger it had is deleted when it is replaced or not wanted.
Removes(c) == old[c].uid # NoUid /\ (~want[c].on \/ Recreates(c))

List(c) ==
  /\ At(c, "list")
  /\ ids' = [ids EXCEPT ![c] = Listed \cup {id[c]}]
  /\ Goto(c, IF Recreates(c) THEN "create" ELSE IF Removes(c) THEN "remove" ELSE "write")
  /\ UNCHANGED <<props, script, request, old, healthy, new, gone, faults>>

\* A trigger has a new uid, which is mapped to nothing yet.
Create(c) ==
  /\ At(c, "create")
  /\ \/ /\ made' = Append(made, [id |-> id[c], bind |-> want[c].bind])
        /\ uidMap' = Append(uidMap, NoId)
        /\ project' = project \cup {Len(made) + 1}
        /\ new' = [new EXCEPT ![c] = Len(made) + 1]
        /\ Goto(c, IF Removes(c) THEN "remove" ELSE "write")
        /\ UNCHANGED <<request, old, healthy, ids, gone, faults>>
     \/ Strike("refuse") /\ Leave(c) /\ UNCHANGED <<script, uidMap>>
  /\ UNCHANGED <<def, index>>

\* The trigger is looked for and, if found, deleted.  When that throws, an
\* upsert takes back the trigger it has created.
Remove(c) ==
  /\ At(c, "remove")
  /\ LET after == IF call[c] = "upsert" THEN "write" ELSE "drop"
     IN \/ project' = project \ {old[c].uid} /\ Go(c, after) /\ UNCHANGED faults
        \/ /\ old[c].uid \in project
           /\ Strike("blind") /\ Go(c, after) /\ UNCHANGED project
        \/ /\ old[c].uid \in project
           /\ Strike("refuse")
           /\ IF new[c] # NoUid THEN Go(c, "rollback") ELSE Leave(c)
           /\ UNCHANGED project
  /\ UNCHANGED <<props, made>>

Rollback(c) ==
  /\ At(c, "rollback")
  /\ \/ project' = project \ {new[c]} /\ UNCHANGED faults
     \/ (Strike("refuse") \/ Strike("blind")) /\ UNCHANGED project
  /\ Leave(c)
  /\ UNCHANGED <<props, made>>

\* The trigger of the definition it stores.
TriggerUid(c) ==
  IF ~want[c].on THEN NoUid ELSE IF Recreates(c) THEN new[c] ELSE old[c].uid

WriteDefinition(c) ==
  /\ At(c, "write")
  /\ def' = [def EXCEPT ![id[c]] = [want |-> want[c], uid |-> TriggerUid(c)]]
  /\ Go(c, "index")
  /\ UNCHANGED <<index, uidMap, script, faults>>

WriteIndex(c) ==
  /\ At(c, "index")
  /\ index' = ids[c]
  /\ Go(c, IF call[c] # "upsert" THEN "done"
           ELSE IF old[c].uid # NoUid THEN "unmap"
           ELSE IF want[c].on THEN "map" ELSE "done")
  /\ UNCHANGED <<def, uidMap, script, faults>>

UnmappedBug(c) == {}
Unmapped(c) == {old[c].uid}

Unmap(c) ==
  /\ At(c, "unmap")
  /\ uidMap' = [u \in DOMAIN uidMap |-> IF u \in Unmapped(c) THEN NoId ELSE uidMap[u]]
  /\ Go(c, IF call[c] # "upsert" THEN "next" ELSE IF want[c].on THEN "map" ELSE "done")
  /\ UNCHANGED <<def, index, script, faults>>

MappedBug(c) == {}
Mapped(c) == {TriggerUid(c)}

Map(c) ==
  /\ At(c, "map")
  /\ uidMap' = [u \in DOMAIN uidMap |-> IF u \in Mapped(c) THEN id[c] ELSE uidMap[u]]
  /\ Go(c, "done")
  /\ UNCHANGED <<def, index, script, faults>>

----------------------------------------------------------------------------
(* Delete: astTriggersDelete, of one definition or of all.                 *)

BeginDelete(c, i) ==
  /\ Ask(c, "delete")
  /\ id' = [id EXCEPT ![c] = i]
  /\ Goto(c, "read")
  /\ UNCHANGED <<props, script, want, event, locals, faults>>

BeginDeleteAll(c) ==
  /\ Ask(c, "deleteAll")
  /\ Goto(c, "all")
  /\ UNCHANGED <<props, script, id, want, event, locals, faults>>

ListAll(c) ==
  /\ At(c, "all")
  /\ ids' = [ids EXCEPT ![c] = Listed]
  /\ Goto(c, "next")
  /\ UNCHANGED <<props, script, request, old, healthy, new, gone, faults>>

NextId(c, i) ==
  /\ At(c, "next")
  /\ i \in ids[c]
  /\ id' = [id EXCEPT ![c] = i]
  /\ ids' = [ids EXCEPT ![c] = @ \ {i}]
  /\ Goto(c, "read")
  /\ UNCHANGED <<props, script, call, want, event, asked, old, healthy, new, gone, faults>>

DropDefinition(c) ==
  /\ At(c, "drop")
  /\ def' = [def EXCEPT ![id[c]] = NoDef]
  /\ gone' = [gone EXCEPT ![c] = @ \cup {id[c]}]
  /\ Goto(c, IF old[c].uid # NoUid THEN "unmap" ELSE "next")
  /\ UNCHANGED <<index, uidMap, script, request, old, healthy, new, ids, faults>>

RemainingBug(c) == Listed
Remaining(c) == Listed \ gone[c]

\* When all are through, the index is read again and stored without them.
Relist(c) ==
  /\ At(c, "next")
  /\ ids[c] = {}
  /\ ids' = [ids EXCEPT ![c] = Remaining(c)]
  /\ Goto(c, "index")
  /\ UNCHANGED <<props, script, request, old, healthy, new, gone, faults>>

Return(c) ==
  /\ pc[c] \in {"done", "missed"}
  /\ Leave(c)
  /\ UNCHANGED <<props, script, faults>>

----------------------------------------------------------------------------
(* A trigger fires: astTriggersDispatch.                                   *)

Fire(c, u) ==
  /\ At(c, "idle")
  /\ "fire" \in Calls
  /\ u \in project
  /\ call' = [call EXCEPT ![c] = "fire"]
  /\ event' = [event EXCEPT ![c] = u]
  /\ Goto(c, "lookup")
  /\ UNCHANGED <<props, script, id, want, asked, locals, faults>>

Lookup(c) ==
  /\ At(c, "lookup")
  /\ id' = [id EXCEPT ![c] = uidMap[event[c]]]
  /\ Goto(c, IF uidMap[event[c]] # NoId THEN "mapped" ELSE "scan")
  /\ UNCHANGED <<props, script, call, want, event, asked, locals, faults>>

ReadMapped(c) ==
  /\ At(c, "mapped")
  /\ old' = [old EXCEPT ![c] = def[id[c]]]
  /\ Goto(c, IF def[id[c]] # NoDef THEN "dispatch" ELSE "scan")
  /\ UNCHANGED <<props, script, request, healthy, new, ids, gone, faults>>

ScanIds(c) ==
  /\ At(c, "scan")
  /\ ids' = [ids EXCEPT ![c] = Listed]
  /\ Goto(c, "try")
  /\ UNCHANGED <<props, script, request, old, healthy, new, gone, faults>>

Try(c, i) ==
  /\ At(c, "try")
  /\ i \in ids[c]
  /\ ids' = [ids EXCEPT ![c] = @ \ {i}]
  /\ old' = [old EXCEPT ![c] = def[i]]
  /\ Goto(c, IF def[i].uid = event[c] THEN "dispatch" ELSE "try")
  /\ UNCHANGED <<props, script, request, healthy, new, gone, faults>>

\* No definition is found for the event, which throws.
Miss(c) ==
  /\ At(c, "try")
  /\ ids[c] = {}
  /\ Go(c, "missed")
  /\ UNCHANGED <<props, script, faults>>

\* The handler is called, or a job enqueued and resumed.
Dispatch(c) ==
  /\ At(c, "dispatch")
  /\ Leave(c)
  /\ UNCHANGED <<props, script, faults>>

----------------------------------------------------------------------------
(* The rest of the world, and the whole.                                   *)

CutShort(c) ==
  /\ ~At(c, "idle")
  /\ Strike("cut")
  /\ Leave(c)
  /\ UNCHANGED <<props, script>>

DeletedByHand(u) ==
  /\ u \in project
  /\ Strike("hand")
  /\ project' = project \ {u}
  /\ UNCHANGED <<props, made, pc, request, locals>>

Step(c) ==
  \/ Read(c) \/ Find(c) \/ List(c) \/ Create(c) \/ Remove(c) \/ Rollback(c)
  \/ WriteDefinition(c) \/ WriteIndex(c) \/ Unmap(c) \/ Map(c)
  \/ ListAll(c) \/ DropDefinition(c) \/ Relist(c) \/ Return(c)
  \/ \E i \in Ids : NextId(c, i) \/ Try(c, i)
  \/ Lookup(c) \/ ReadMapped(c) \/ ScanIds(c) \/ Miss(c) \/ Dispatch(c)

Request(c) ==
  \/ \E i \in Ids : BeginDelete(c, i) \/ \E w \in Wants[i] : BeginUpsert(c, i, w)
  \/ BeginDeleteAll(c)
  \/ \E u \in project : Fire(c, u)

Writes(c) == call[c] \in {"upsert", "delete", "deleteAll"}

Touches(c, i) ==
  \/ call[c] \in {"upsert", "delete"} /\ id[c] = i
  \/ call[c] = "deleteAll"
  \/ call[c] = "fire" /\ Owner(event[c]) = i

Overlap(c, d, i) == c # d /\ Touches(c, i) /\ Touches(d, i) /\ Writes(d)

\* A fault does no harm before its call has changed anything, and when an upsert
\* takes back the trigger it has created.
Harms(c) ==
  /\ faults' # faults /\ Writes(c)
  /\ \/ pc'[c] \notin {"idle", "rollback"}
     \/ pc[c] \notin {"read", "find", "list", "create", "remove"}
     \/ gone[c] # {}
     \/ pc'[c] = "idle" /\ new[c] # NoUid

Watch(c) ==
  /\ overlapped' = overlapped \cup
       {i \in Ids : \E a, b \in Callers : (Overlap(a, b, i) /\ Writes(a))'}
  /\ harmed' = harmed \cup {i \in Ids : Harms(c) /\ Touches(c, i)}
  /\ raced' = \/ raced \/ Harms(c)
              \/ \E a, b \in Callers : a # b /\ (Writes(a) /\ Writes(b))'
  /\ alone' = {a \in Callers : At(a, "idle")'} \cup
       {a \in alone : ~(\E b \in Callers, i \in Ids : Overlap(a, b, i)')}

Next ==
  \/ \E c \in Callers : (Request(c) \/ Step(c) \/ CutShort(c)) /\ Watch(c)
  \/ \E u \in project :
       /\ DeletedByHand(u)
       /\ harmed' = harmed \cup {Owner(u)}
       /\ alone' = {c \in alone : ~Touches(c, Owner(u))}
       /\ UNCHANGED <<overlapped, raced>>

Spec == Init /\ [][Next]_vars

----------------------------------------------------------------------------
(* Properties.                                                             *)

AnyWant == Definitions \cup {NoWant}

StoreOK ==
  /\ def \in [Ids -> [want : AnyWant, uid : Nat]]
  /\ index \subseteq Ids
  /\ made \in Seq([id : Ids, bind : Nat])
  /\ uidMap \in Seq(Ids \cup {NoId}) /\ Len(uidMap) = Len(made)
  /\ project \subseteq 1 .. Len(made)
  /\ asked \in 0 .. MaxAsked
  /\ faults \in 0 .. MaxFaults
  /\ overlapped \subseteq Ids /\ harmed \subseteq Ids
  /\ raced \in BOOLEAN
  /\ alone \subseteq Callers

LocalsOK ==
  /\ pc \in [Callers -> Points]
  /\ call \in [Callers -> CallKinds \cup {"none"}]
  /\ id \in [Callers -> Ids \cup {NoId}]
  /\ want \in [Callers -> AnyWant]
  /\ event \in [Callers -> Nat]
  /\ old \in [Callers -> [want : AnyWant, uid : Nat]]
  /\ healthy \in [Callers -> BOOLEAN]
  /\ new \in [Callers -> Nat]
  /\ ids \in [Callers -> SUBSET Ids]
  /\ gone \in [Callers -> SUBSET Ids]

TypeOK == StoreOK /\ LocalsOK

Busy(i) == \E c \in Callers : Writes(c) /\ Touches(c, i)

\* Between calls an enabled definition has its one trigger and any other has
\* none, also after creations and deletions that Apps Script refused; but for
\* definitions on which calls overlapped or ended half-done.
OneTrigger ==
  \A i \in Ids \ (overlapped \cup harmed) :
    ~Busy(i) =>
      {u \in project : Owner(u) = i} = IF def[i].want.on THEN {def[i].uid} ELSE {}

\* When an upsert returns, whatever overlapped, was cut short, was refused or
\* was deleted by hand before it, its definition has a trigger with the
\* schedule asked for: repeating the call repairs what an earlier one left.
UpsertRepairs ==
  \A c \in alone :
    At(c, "done") /\ call[c] = "upsert" =>
      /\ def[id[c]].want = want[c]
      /\ want[c].on =>
           /\ def[id[c]].uid \in project
           /\ made[def[id[c]].uid] = [id |-> id[c], bind |-> want[c].bind]

\* A firing that nobody interferes with finds its definition, whatever happens
\* to other definitions and to the index they share.
FiringFound ==
  \A c \in alone :
    At(c, "missed") => Owner(event[c]) \in overlapped \cup harmed

\* What a firing dispatches, if nobody interferes with it, is enabled and has
\* that trigger: one that a disable, a replacement or a delete failed to get rid
\* of fires into the void.  With two faults it may not.
FiringIsWanted ==
  \A c \in alone :
    At(c, "dispatch") /\ faults < 2 /\ Owner(event[c]) \notin overlapped =>
      \E i \in Ids : def[i].want.on /\ def[i].uid = event[c]

\* Between calls a listing names the definitions there are, unless calls
\* overlapped or one ended half-done.
ListingExact ==
  ~raced /\ (\A c \in Callers : ~Writes(c)) => Listed = Stored

=============================================================================
