----------------------------- MODULE Messaging -----------------------------
(***************************************************************************)
(* AST.Messaging: what executions do with a request that sends (one        *)
(* message or a batch), directly or through a job, with its idempotency    *)
(* key, with the delivery log, and with the notices that providers post to *)
(* the script.  Nothing here takes a lock.                                 *)
(*                                                                         *)
(* A step is one call of the provider or of AST.Cache, whose get, set and  *)
(* delete are atomic and throw or work.  Two requests with the same        *)
(* content have the same key, so a request stands for its key.             *)
(*                                                                         *)
(* Dry runs change nothing, nor do requests that only read; inbound_verify *)
(* and inbound_parse are declared to be such and are not: what verifies a  *)
(* notice stores its key.  Notices are protected against replays, as they  *)
(* are by default; who posts one without having it verified neither reads  *)
(* nor stores a key, and is left out.  A handler of notices is a function; *)
(* one that names an operation makes a call of this module.                *)
(***************************************************************************)
EXTENDS Naturals, Sequences, FiniteSets

CONSTANTS
  Callers,     \* executions
  Requests,    \* requests that send, by their idempotency key
  Size,        \* the number of messages of each
  Notices,     \* notices from providers, by their replay key
  NoSubject,
  Retries,     \* options.retries
  JobRetries,  \* options.maxRetries of a queued job
  MaxEntries,  \* bound of the log's index
  MaxAsked,    \* bound on the calls, of jobs apart
  Faults,      \* the faults that may strike, of FaultKinds
  MaxFaults    \* bound on the faults of a behaviour

\* The provider delivers but the answer is an error or comes too late; it
\* refuses the message; the cache throws; a key expires; the handler of a notice
\* throws; the execution is killed.
FaultKinds == {"lost", "refused", "store", "expire", "handler", "cut"}

Subjects == Requests \cup Notices

ASSUME MessagingAssumption ==
  /\ IsFiniteSet(Subjects) /\ NoSubject \notin Subjects
  /\ Requests \cap Notices = {}
  /\ Size \in [Requests -> Nat \ {0}]
  /\ {Retries, JobRetries, MaxAsked, MaxFaults} \subseteq Nat
  /\ MaxEntries \in Nat \ {0}
  /\ Faults \subseteq FaultKinds

\* The messages, each a place in a request.
Parts == UNION {{<<r, p>> : p \in 1 .. Size[r]} : r \in Requests}

NoEvent   == 0
Points    == {"idle", "enqueue", "get", "send", "readIndex", "writeEvent", "writeIndex",
              "set", "delete", "lookUp", "drop", "unlist", "check", "mark", "handle"}
CallKinds == {"none", "send", "queue", "job", "delete", "verify", "route"}
JobStates == {"queued", "running", "done", "failed"}

VARIABLES
  kept,        \* subjects with a stored key
  delivered,   \* how often the provider has delivered each message
  handled,     \* how often the handler has been run to its end for each notice
  passed,      \* how often each notice was found genuine with no handler to run
  index,       \* the stored index of the log, newest first
  events,      \* the events of the log that are stored
  last,        \* the last event id given
  jobs,        \* the messaging jobs, in order of creation
  pc,          \* control point of each caller
  call,        \* the call it makes
  subject,     \* the request or notice it is about
  job,         \* the job it runs
  part,        \* the message of the request it sends
  attempt,     \* the attempts made to send that one
  event,       \* the event it writes or deletes
  snap,        \* the index it has read
  asked,       \* calls made so far
  faults,      \* faults so far
  doubts,      \* history: times a request's key is no proof against sending again
  spoilt,      \* history: notices whose handling a fault broke off
  overlapped,  \* history: subjects on which two calls overlapped
  raced        \* history: writers of the log overlapped or were struck

world   == <<kept, delivered, handled, passed>>
log     == <<index, events, last>>
request == <<call, subject, job, asked>>
locals  == <<part, attempt, event, snap>>
history == <<doubts, spoilt, overlapped, raced>>
vars    == <<world, log, jobs, pc, request, locals, faults, history>>

----------------------------------------------------------------------------
At(c, point) == pc[c] = point
Goto(c, point) == pc' = [pc EXCEPT ![c] = point]
Go(c, point) == Goto(c, point) /\ UNCHANGED <<request, locals>>

Strike(fault) ==
  /\ fault \in Faults
  /\ faults < MaxFaults
  /\ faults' = faults + 1

Init ==
  /\ kept = {}
  /\ delivered = [m \in Parts |-> 0]
  /\ handled = [n \in Notices |-> 0] /\ passed = [n \in Notices |-> 0]
  /\ index = <<>> /\ events = {} /\ last = NoEvent
  /\ jobs = <<>>
  /\ pc = [c \in Callers |-> "idle"]
  /\ call = [c \in Callers |-> "none"]
  /\ subject = [c \in Callers |-> NoSubject]
  /\ job = [c \in Callers |-> 0]
  /\ part = [c \in Callers |-> 1]
  /\ attempt = [c \in Callers |-> 0]
  /\ event = [c \in Callers |-> NoEvent]
  /\ snap = [c \in Callers |-> <<>>]
  /\ asked = 0 /\ faults = 0
  /\ doubts = [r \in Requests |-> 0]
  /\ spoilt = {} /\ overlapped = {} /\ raced = FALSE

\* The call ends, by return, exception or death.
Leave(c) ==
  /\ Goto(c, "idle")
  /\ call' = [call EXCEPT ![c] = "none"]
  /\ subject' = [subject EXCEPT ![c] = NoSubject]
  /\ job' = [job EXCEPT ![c] = 0]
  /\ part' = [part EXCEPT ![c] = 1]
  /\ attempt' = [attempt EXCEPT ![c] = 0]
  /\ event' = [event EXCEPT ![c] = NoEvent]
  /\ snap' = [snap EXCEPT ![c] = <<>>]
  /\ UNCHANGED asked

\* What becomes of the job a call runs: its step is done, or has failed and may be
\* tried again.
JobEnds(c, state) ==
  jobs' = [j \in DOMAIN jobs |-> IF j = job[c] THEN [jobs[j] EXCEPT !.state = state] ELSE jobs[j]]

AfterThrow(c) ==
  IF job[c] # 0 /\ jobs[job[c]].tries <= JobRetries THEN "queued" ELSE "failed"

Answer(c) == Leave(c) /\ JobEnds(c, "done")
Throw(c)  == Leave(c) /\ JobEnds(c, AfterThrow(c))

Begin(c, kind, s, e, point) ==
  /\ At(c, "idle")
  /\ asked < MaxAsked
  /\ asked' = asked + 1
  /\ call' = [call EXCEPT ![c] = kind]
  /\ subject' = [subject EXCEPT ![c] = s]
  /\ event' = [event EXCEPT ![c] = e]
  /\ Goto(c, point)
  /\ UNCHANGED <<world, log, jobs, job, part, attempt, snap, faults>>

----------------------------------------------------------------------------
(* A request that sends: astRunMessagingRequest.                           *)

BeginSend(c, r)  == Begin(c, "send", r, NoEvent, "get")
BeginQueue(c, r) == Begin(c, "queue", r, NoEvent, "enqueue")

\* The job's request is not to be queued again.
Enqueue(c) ==
  /\ At(c, "enqueue")
  /\ jobs' = Append(jobs, [request |-> subject[c], state |-> "queued", tries |-> 0])
  /\ Leave(c)
  /\ UNCHANGED <<world, log, faults>>

\* AST.Jobs lets one execution at a time run the step, and counts the attempt.
RunJob(c, j) ==
  /\ At(c, "idle")
  /\ jobs[j].state = "queued"
  /\ jobs' = [jobs EXCEPT ![j] =
       [request |-> jobs[j].request, state |-> "running", tries |-> jobs[j].tries + 1]]
  /\ call' = [call EXCEPT ![c] = "job"]
  /\ subject' = [subject EXCEPT ![c] = jobs[j].request]
  /\ job' = [job EXCEPT ![c] = j]
  /\ Goto(c, "get")
  /\ UNCHANGED <<world, log, asked, locals, faults>>

KnownBug(c) == FALSE

Known(c) == subject[c] \in kept

\* A stored answer is returned; when the store cannot be read nothing is sent.
Get(c) ==
  /\ At(c, "get")
  /\ \/ Known(c) /\ Answer(c) /\ UNCHANGED faults
     \/ ~Known(c) /\ Go(c, "send") /\ UNCHANGED <<jobs, faults>>
     \/ Strike("store") /\ Throw(c)
  /\ UNCHANGED <<world, log>>

MessageOf(c) == <<subject[c], part[c]>>

MorePartsBug(c) == part[c] + 1 < Size[subject[c]]

MoreParts(c) == part[c] < Size[subject[c]]

Delivered(c) == delivered' = [delivered EXCEPT ![MessageOf(c)] = @ + 1]

Sent(c) ==
  /\ Delivered(c)
  /\ IF MoreParts(c)
     THEN /\ part' = [part EXCEPT ![c] = @ + 1]
          /\ attempt' = [attempt EXCEPT ![c] = 0]
          /\ UNCHANGED pc
     ELSE Goto(c, "readIndex") /\ UNCHANGED <<part, attempt>>
  /\ UNCHANGED <<jobs, request, event, snap, faults>>

MayRetry(c) == attempt[c] < Retries

\* An error that may pass is tried again; else, and when time is up, the call
\* throws, whatever earlier messages of the batch were sent.
NotSent(c) ==
  \/ /\ MayRetry(c)
     /\ attempt' = [attempt EXCEPT ![c] = @ + 1]
     /\ UNCHANGED <<pc, jobs, request, part, event, snap>>
  \/ Throw(c)

Send(c) ==
  /\ At(c, "send")
  /\ \/ Sent(c)
     \/ Strike("lost") /\ Delivered(c) /\ NotSent(c)
     \/ Strike("refused") /\ NotSent(c) /\ UNCHANGED delivered
  /\ UNCHANGED <<kept, handled, passed, log>>

\* The answer is stored under the key; failing that, the caller is warned.
Set(c) ==
  /\ At(c, "set")
  /\ \/ kept' = kept \cup {subject[c]} /\ UNCHANGED faults
     \/ Strike("store") /\ UNCHANGED kept
  /\ Answer(c)
  /\ UNCHANGED <<delivered, handled, passed, log>>

----------------------------------------------------------------------------
(* The delivery log: astMessagingLogWrite and astMessagingLogDelete.  When *)
(* the cache throws, the execution's own memory stands in for it, and that *)
(* goes with the execution.                                                *)

\* What a call goes on with when it has logged.
AfterLog(c) == IF call[c] = "delete" THEN Answer(c)
               ELSE Go(c, "set") /\ UNCHANGED jobs

ReadIndex(c) ==
  /\ At(c, "readIndex")
  /\ \/ snap' = [snap EXCEPT ![c] = index] /\ UNCHANGED faults
     \/ Strike("store") /\ snap' = [snap EXCEPT ![c] = <<>>]
  /\ last' = last + 1
  /\ event' = [event EXCEPT ![c] = last + 1]
  /\ Goto(c, "writeEvent")
  /\ UNCHANGED <<world, index, events, jobs, request, part, attempt>>

WriteEvent(c) ==
  /\ At(c, "writeEvent")
  /\ \/ events' = events \cup {event[c]} /\ UNCHANGED faults
     \/ Strike("store") /\ UNCHANGED events
  /\ Go(c, "writeIndex")
  /\ UNCHANGED <<world, index, last, jobs>>

Shorter(a, b) == IF a < b THEN a ELSE b

BoundedBug(s) == SubSeq(s, 1, Shorter(MaxEntries, Len(s) - 1))

Bounded(s) == SubSeq(s, 1, Shorter(MaxEntries, Len(s)))

WriteIndex(c) ==
  /\ At(c, "writeIndex")
  /\ \/ index' = Bounded(<<event[c]>> \o snap[c]) /\ UNCHANGED faults
     \/ Strike("store") /\ UNCHANGED index
  /\ AfterLog(c)
  /\ UNCHANGED <<world, events, last>>

BeginDelete(c, e) == Begin(c, "delete", NoSubject, e, "delete")

ReadForDelete(c) ==
  /\ At(c, "delete")
  /\ \/ snap' = [snap EXCEPT ![c] = index] /\ UNCHANGED faults
     \/ Strike("store") /\ snap' = [snap EXCEPT ![c] = <<>>]
  /\ Goto(c, "lookUp")
  /\ UNCHANGED <<world, log, jobs, request, part, attempt, event>>

LookUp(c) ==
  /\ At(c, "lookUp")
  /\ \/ event[c] \in events /\ Go(c, "drop") /\ UNCHANGED <<jobs, faults>>
     \/ event[c] \notin events /\ Throw(c) /\ UNCHANGED faults
     \/ Strike("store") /\ Throw(c)
  /\ UNCHANGED <<world, log>>

Drop(c) ==
  /\ At(c, "drop")
  /\ \/ events' = events \ {event[c]} /\ UNCHANGED faults
     \/ Strike("store") /\ UNCHANGED events
  /\ Go(c, "unlist")
  /\ UNCHANGED <<world, index, last, jobs>>

\* An index lists an event once, as each writer adds a new one to an index read.
Without(s, e) ==
  LET Before(i) == SubSeq(s, 1, i - 1)
      After(i)  == SubSeq(s, i + 1, Len(s))
      Place     == CHOOSE i \in DOMAIN s : s[i] = e
  IN IF \E i \in DOMAIN s : s[i] = e THEN Before(Place) \o After(Place) ELSE s

\* Deleting is an operation that changes something, so it is logged in turn.
Unlist(c) ==
  /\ At(c, "unlist")
  /\ \/ index' = Without(snap[c], event[c]) /\ UNCHANGED faults
     \/ Strike("store") /\ UNCHANGED index
  /\ Go(c, "readIndex")
  /\ UNCHANGED <<world, events, last, jobs>>

----------------------------------------------------------------------------
(* A notice: astMessagingVerifyInbound, astMessagingParseInbound when it is *)
(* to verify, and astMessagingRouteInbound, its signature being right.     *)

BeginVerify(c, n) == Begin(c, "verify", n, NoEvent, "check")
BeginRoute(c, n)  == Begin(c, "route", n, NoEvent, "check")

\* A replay is refused.
Check(c) ==
  /\ At(c, "check")
  /\ \/ subject[c] \in kept /\ Throw(c) /\ UNCHANGED faults
     \/ subject[c] \notin kept /\ Go(c, "mark") /\ UNCHANGED <<jobs, faults>>
     \/ Strike("store") /\ Throw(c)
  /\ UNCHANGED <<world, log>>

MarkedBug(c) == {}

Marked(c) == {subject[c]}

\* The caller is told that the notice is genuine, and no handler is run.
Pass(c) ==
  /\ passed' = [passed EXCEPT ![subject[c]] = @ + 1]
  /\ Answer(c)
  /\ UNCHANGED <<handled, faults>>

Mark(c) ==
  /\ At(c, "mark")
  /\ \/ /\ kept' = kept \cup Marked(c)
        /\ \/ call[c] = "verify" /\ Pass(c)
           \/ call[c] = "route" /\ Go(c, "handle") /\ UNCHANGED <<handled, passed, jobs, faults>>
     \/ Strike("store") /\ Throw(c) /\ UNCHANGED <<kept, handled, passed>>
  /\ UNCHANGED <<delivered, log>>

\* The handler of the route the notice matches; it may match none.
Handle(c) ==
  /\ At(c, "handle")
  /\ \/ handled' = [handled EXCEPT ![subject[c]] = @ + 1] /\ Answer(c) /\ UNCHANGED <<passed, faults>>
     \/ Pass(c)
     \/ Strike("handler") /\ Throw(c) /\ UNCHANGED <<handled, passed>>
  /\ UNCHANGED <<kept, delivered, log>>

----------------------------------------------------------------------------
(* The rest of the world, and the whole.                                   *)

\* A job whose execution is killed stays running.
CutShort(c) ==
  /\ ~At(c, "idle")
  /\ Strike("cut")
  /\ Leave(c)
  /\ UNCHANGED <<world, log, jobs>>

Expire(s) ==
  /\ s \in kept
  /\ Strike("expire")
  /\ kept' = kept \ {s}
  /\ UNCHANGED <<delivered, handled, passed, log, jobs, pc, request, locals>>

Step(c) ==
  \/ Enqueue(c) \/ Get(c) \/ Send(c) \/ Set(c)
  \/ ReadIndex(c) \/ WriteEvent(c) \/ WriteIndex(c)
  \/ ReadForDelete(c) \/ LookUp(c) \/ Drop(c) \/ Unlist(c)
  \/ Check(c) \/ Mark(c) \/ Handle(c)

Request(c) ==
  \/ \E r \in Requests : BeginSend(c, r) \/ BeginQueue(c, r)
  \/ \E e \in 1 .. last : BeginDelete(c, e)
  \/ \E n \in Notices : BeginVerify(c, n) \/ BeginRoute(c, n)

Logging == {"readIndex", "writeEvent", "writeIndex", "delete", "lookUp", "drop", "unlist"}
Keyed(c) == pc[c] \notin {"idle", "enqueue"} /\ subject[c] # NoSubject

\* A caller has delivered something its key does not yet vouch for.
Unvouched(c) ==
  /\ call[c] \in {"send", "job"}
  /\ \/ part[c] > 1 \/ pc[c] \in {"readIndex", "writeEvent", "writeIndex", "set"}

\* A lost answer, or a call that ends without its key stored after it delivered
\* something.
Doubtful(c) ==
  /\ faults' # faults
  /\ \/ delivered' # delivered
     \/ Unvouched(c) /\ At(c, "idle")'

Watch(c) ==
  /\ doubts' = [r \in Requests |->
       IF r = subject[c] /\ Doubtful(c) THEN doubts[r] + 1 ELSE doubts[r]]
  /\ spoilt' = spoilt \cup {n \in Notices : n = subject[c] /\ faults' # faults}
  /\ overlapped' = overlapped \cup
       {s \in Subjects : \E a, b \in Callers :
          a # b /\ (Keyed(a) /\ Keyed(b) /\ subject[a] = s /\ subject[b] = s)'}
  /\ raced' = \/ raced
              \/ faults' # faults /\ pc[c] \in Logging
              \/ \E a, b \in Callers : a # b /\ {pc'[a], pc'[b]} \subseteq Logging

CallerNext(c) ==
  /\ Step(c) \/ Request(c) \/ CutShort(c) \/ \E j \in DOMAIN jobs : RunJob(c, j)
  /\ Watch(c)

KeyExpires(s) ==
  /\ Expire(s)
  /\ doubts' = [r \in Requests |-> IF r = s THEN doubts[r] + 1 ELSE doubts[r]]
  /\ spoilt' = spoilt \cup (Notices \cap {s})
  /\ UNCHANGED <<overlapped, raced>>

Next == (\E c \in Callers : CallerNext(c)) \/ (\E s \in Subjects : KeyExpires(s))

Spec == Init /\ [][Next]_vars

----------------------------------------------------------------------------
TypeOK ==
  /\ kept \subseteq Subjects
  /\ delivered \in [Parts -> Nat] /\ {handled, passed} \subseteq [Notices -> Nat]
  /\ last \in Nat /\ events \subseteq 1 .. last
  /\ index \in Seq(1 .. last) /\ Len(index) <= MaxEntries
  /\ \A j \in DOMAIN jobs :
       /\ jobs[j].request \in Requests /\ jobs[j].state \in JobStates
       /\ jobs[j].tries <= JobRetries + 1
  /\ pc \in [Callers -> Points] /\ call \in [Callers -> CallKinds]
  /\ subject \in [Callers -> Subjects \cup {NoSubject}]
  /\ \A c \in Callers :
       /\ job[c] \in 0 .. Len(jobs)
       /\ subject[c] \in Requests => part[c] \in 1 .. Size[subject[c]]
       /\ attempt[c] <= Retries
       /\ event[c] \in 0 .. last /\ snap[c] \in Seq(1 .. last)

\* The promise of the idempotency key: of calls with one request, direct, queued
\* and retried, a message is delivered once, and once more at most for every lost
\* answer, call that died or threw half-way, unsaved key and expired key; as long
\* as no two of them overlap, against which nothing protects.
SentOnce ==
  \A m \in Parts : m[1] \notin overlapped => delivered[m] <= 1 + doubts[m[1]]

\* A request that is answered from its key, and a job that is done, stand for
\* messages that were all delivered.
AnsweredIsDelivered ==
  \A m \in Parts :
    \/ delivered[m] >= 1
    \/ m[1] \notin kept /\ \A j \in DOMAIN jobs : jobs[j].request = m[1] => jobs[j].state # "done"

\* Of all the calls posted with a notice, to verify or to route it, one accepts it:
\* its handler is run, or it is found genuine with no handler to run, and never both;
\* unless posts overlap, or the key expires.  And when a notice is refused as a
\* replay one call has accepted it, unless a fault broke that off: its key is stored
\* before.
AcceptedOnce ==
  \A n \in Notices \ overlapped :
    /\ handled[n] + passed[n] > 1 => n \in spoilt
    /\ n \in kept /\ (\A c \in Callers : subject[c] # n) =>
         handled[n] + passed[n] = 1 \/ n \in spoilt

\* While writers of the log neither overlap nor are struck, its index lists
\* stored events newest first, and a stored event is not listed only when that
\* many newer ones have been written.
LogExact ==
  raced \/ (\E c \in Callers : pc[c] \in Logging) \/
    /\ \A i, j \in DOMAIN index : i < j => index[i] > index[j]
    /\ \A i \in DOMAIN index : index[i] \in events
    /\ \A e \in events : (\A i \in DOMAIN index : index[i] # e) => last >= e + MaxEntries

=============================================================================
