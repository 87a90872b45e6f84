-------------------------- MODULE MessagingProofs --------------------------
(***************************************************************************)
(* Proofs about Messaging, for any number of executions, requests, notices *)
(* and faults: what is delivered and handled, and what the log says of it. *)
(*                                                                         *)
(* What a step does is first put in terms of its caller, of the messages   *)
(* and of the notices (Kept); that such a step keeps the invariant is      *)
(* proved once (KeptKeeps).                                                *)
(***************************************************************************)
EXTENDS Messaging, SequenceTheorems, WellFoundedInduction, TLAPS

JobRecs == [request : Requests, state : JobStates, tries : Nat]

----------------------------------------------------------------------------
(* The inductive invariant.                                                *)

Typed ==
  /\ kept \subseteq Subjects
  /\ delivered \in [Parts -> Nat]
  /\ handled \in [Notices -> Nat] /\ passed \in [Notices -> Nat]
  /\ jobs \in Seq(JobRecs)
  /\ pc \in [Callers -> Points] /\ call \in [Callers -> CallKinds]
  /\ subject \in [Callers -> Subjects \cup {NoSubject}]
  /\ job \in [Callers -> Nat] /\ part \in [Callers -> Nat] /\ attempt \in [Callers -> Nat]
  /\ asked \in Nat /\ faults \in Nat
  /\ doubts \in [Requests -> Nat]
  /\ spoilt \subseteq Notices /\ overlapped \subseteq Subjects

Sends(c) == call[c] \in {"send", "job"}

AfterSend == {"readIndex", "writeEvent", "writeIndex", "set"}

\* Which call stands where, and what it is about.
Placed(c) ==
  /\ pc[c] = "idle" <=> call[c] = "none"
  /\ pc[c] = "enqueue" <=> call[c] = "queue"
  /\ pc[c] \in {"get", "send", "set"} => Sends(c)
  /\ pc[c] \in {"readIndex", "writeEvent", "writeIndex"} => Sends(c) \/ call[c] = "delete"
  /\ pc[c] \in {"delete", "lookUp", "drop", "unlist"} => call[c] = "delete"
  /\ pc[c] \in {"check", "mark", "handle"} <=> call[c] \in {"verify", "route"}
  /\ pc[c] = "handle" => call[c] = "route"
  /\ Sends(c) \/ call[c] = "queue" => subject[c] \in Requests
  /\ call[c] \in {"verify", "route"} => subject[c] \in Notices
  /\ call[c] \in {"none", "delete"} => subject[c] = NoSubject
  /\ Sends(c) => part[c] \in 1 .. Size[subject[c]]
  /\ pc[c] = "get" \/ ~Sends(c) => part[c] = 1
  /\ Sends(c) /\ pc[c] \in AfterSend => part[c] = Size[subject[c]]
  /\ job[c] # 0 <=> call[c] = "job"
  /\ job[c] # 0 =>
       /\ job[c] \in 1 .. Len(jobs)
       /\ jobs[job[c]].request = subject[c] /\ jobs[job[c]].state = "running"

OneRunner == \A c, d \in Callers : job[c] # 0 /\ job[c] = job[d] => c = d

\* What the history says of the present.
Watched ==
  \A c, d \in Callers :
    c # d /\ Keyed(c) /\ Keyed(d) /\ subject[c] = subject[d] => subject[c] \in overlapped

\* A caller has delivered a message and not yet returned.
Past(c, m) ==
  Sends(c) /\ subject[c] = m[1] /\ (part[c] > m[2] \/ pc[c] \in AfterSend)

\* Keys, jobs that are done and callers that went on stand for deliveries.
Answered(m) ==
  \/ delivered[m] >= 1
  \/ /\ m[1] \notin kept
     /\ \A j \in 1 .. Len(jobs) : jobs[j].request = m[1] => jobs[j].state # "done"
     /\ \A c \in Callers : ~Past(c, m)

\* A delivery that neither a key nor a caller vouches for is a doubt.
Vouched(m) ==
  m[1] \notin overlapped =>
    /\ delivered[m] <= 1 + doubts[m[1]]
    /\ m[1] \notin kept /\ (\A c \in Callers : ~Past(c, m)) => delivered[m] <= doubts[m[1]]

\* Who has found no key is right, if nobody else is at the request or notice.
Unkept(c) ==
  subject[c] \notin overlapped =>
    ((Sends(c) /\ pc[c] # "get") \/ pc[c] = "mark" => subject[c] \notin kept)

\* A notice is accepted once, from its key being stored on: by a caller that is to
\* run its handler, or has run it, or had none to run.
Marking(n) ==
  n \notin overlapped \cup spoilt =>
    /\ (n \notin kept => /\ handled[n] = 0 /\ passed[n] = 0
                        /\ \A c \in Callers : subject[c] = n => pc[c] # "handle")
    /\ (n \in kept =>
         handled[n] + passed[n] =
           IF \E c \in Callers : pc[c] = "handle" /\ subject[c] = n THEN 0 ELSE 1)

IInv ==
  /\ Typed
  /\ \A c \in Callers : Placed(c) /\ Unkept(c)
  /\ OneRunner
  /\ Watched
  /\ \A m \in Parts : Answered(m) /\ Vouched(m)
  /\ \A n \in Notices : Marking(n)

----------------------------------------------------------------------------
(* Messages, and what a step records.                                      *)

LEMMA PartFacts ==
  /\ \A m \in Parts : m[1] \in Requests /\ m[2] \in 1 .. Size[m[1]] /\ m = <<m[1], m[2]>>
  /\ \A r \in Requests : \A p \in 1 .. Size[r] : <<r, p>> \in Parts
  /\ \A r \in Requests : Size[r] \in Nat \ {0}
<1>1. \A m \in Parts : m[1] \in Requests /\ m[2] \in 1 .. Size[m[1]] /\ m = <<m[1], m[2]>>
  <2> TAKE m \in Parts
  <2>1. PICK r \in Requests : m \in {<<r, p>> : p \in 1 .. Size[r]}
    BY Zenon DEF Parts
  <2>2. PICK p \in 1 .. Size[r] : m = <<r, p>>
    BY <2>1
  <2> QED BY <2>2
<1>2. \A r \in Requests : \A p \in 1 .. Size[r] : <<r, p>> \in Parts
  BY DEF Parts
<1> QED BY <1>1, <1>2, MessagingAssumption

LEMMA WatchFacts ==
  ASSUME Typed, Typed', NEW c \in Callers, Watch(c)
  PROVE  /\ overlapped \subseteq overlapped' /\ spoilt \subseteq spoilt'
         /\ \A r \in Requests : doubts[r] <= doubts'[r]
         /\ Doubtful(c) /\ subject[c] \in Requests => doubts'[subject[c]] = doubts[subject[c]] + 1
         /\ faults' # faults /\ subject[c] \in Notices => subject[c] \in spoilt'
         /\ Watched'
<1>1. overlapped \subseteq overlapped' /\ spoilt \subseteq spoilt'
  BY Zenon DEF Watch
<1>2. \A r \in Requests : doubts[r] <= doubts'[r]
  <2> TAKE r \in Requests
  <2>1. doubts'[r] = IF r = subject[c] /\ Doubtful(c) THEN doubts[r] + 1 ELSE doubts[r]
    BY Zenon DEF Watch
  <2> QED BY <2>1 DEF Typed
<1>3. Doubtful(c) /\ subject[c] \in Requests => doubts'[subject[c]] = doubts[subject[c]] + 1
  BY Zenon DEF Watch
<1>4. faults' # faults /\ subject[c] \in Notices => subject[c] \in spoilt'
  BY Zenon DEF Watch
<1>5. Watched'
  <2> SUFFICES ASSUME NEW a \in Callers, NEW b \in Callers, a # b,
                      Keyed(a)', Keyed(b)', subject'[a] = subject'[b]
               PROVE  subject'[a] \in overlapped'
    BY DEF Watched
  <2>1. subject'[a] \in Subjects
    BY DEF Typed, Keyed
  <2> QED BY <2>1, Zenon DEF Watch
<1> QED BY <1>1, <1>2, <1>3, <1>4, <1>5

LEMMA WatchTyped ==
  ASSUME Typed, NEW c \in Callers, Watch(c)
  PROVE  /\ doubts' \in [Requests -> Nat]
         /\ spoilt' \subseteq Notices /\ overlapped' \subseteq Subjects
<1>1. \A r \in Requests : (IF r = subject[c] /\ Doubtful(c) THEN doubts[r] + 1 ELSE doubts[r]) \in Nat
  BY DEF Typed
<1>2. doubts' \in [Requests -> Nat]
  BY <1>1, Zenon DEF Watch
<1>3. spoilt' \subseteq Notices /\ overlapped' \subseteq Subjects
  BY Zenon DEF Watch, Typed
<1> QED BY <1>2, <1>3

----------------------------------------------------------------------------
(* What a step of a caller may do.                                         *)

Same(d) ==
  /\ pc'[d] = pc[d] /\ call'[d] = call[d] /\ subject'[d] = subject[d]
  /\ job'[d] = job[d] /\ part'[d] = part[d]

\* The other callers and the jobs they run are left alone; a key is stored by a
\* caller that is at its request or notice only.
Frame(c) ==
  /\ \A d \in Callers \ {c} : Same(d)
  /\ Len(jobs) <= Len(jobs')
  /\ \A j \in 1 .. Len(jobs) :
       /\ jobs'[j].request = jobs[j].request
       /\ jobs[j].state = "running" => j = job[c] \/ jobs'[j].state = "running"
  /\ \/ job'[c] \in {0, job[c]}
     \/ job'[c] \in 1 .. Len(jobs) /\ jobs[job'[c]].state = "queued"
  /\ kept' = kept \/ (kept' = kept \cup {subject[c]} /\ Keyed(c))

\* Nothing new stands for the delivery of m, unless it has been delivered.
NothingNew(c, m) ==
  /\ delivered'[m] >= delivered[m]
  /\ \/ delivered'[m] >= 1
     \/ /\ m[1] \in kept' => m[1] \in kept
        /\ \A j \in 1 .. Len(jobs') :
             jobs'[j].request = m[1] /\ jobs'[j].state = "done" =>
               j \in 1 .. Len(jobs) /\ jobs[j].state = "done"
        /\ Past(c, m)' => Past(c, m)

\* Who ceases to stand for the delivery of m leaves a key or a doubt, and so does
\* who delivers it, else goes on.
Reckoned(c, m) ==
  \/ /\ delivered'[m] = delivered[m]
     /\ Past(c, m) => Past(c, m)' \/ m[1] \in kept' \/ doubts'[m[1]] >= doubts[m[1]] + 1
  \/ /\ delivered'[m] = delivered[m] + 1
     /\ pc[c] = "send" /\ m = MessageOf(c)
     /\ Past(c, m)' \/ doubts'[m[1]] >= doubts[m[1]] + 1

Handling(c, n) == pc[c] = "handle" /\ subject[c] = n

\* The steps with a notice, that is left alone, has its key stored and goes on to
\* its handler, or is accepted at last; else it is spoilt.
Noticed(c, n) ==
  \/ n \in spoilt'
  \/ /\ handled'[n] = handled[n] /\ passed'[n] = passed[n] /\ (n \in kept' <=> n \in kept)
     /\ Handling(c, n)' <=> Handling(c, n)
  \/ /\ handled'[n] = handled[n] /\ passed'[n] = passed[n] /\ n \in kept'
     /\ pc[c] = "mark" /\ subject[c] = n /\ Handling(c, n)'
  \/ /\ handled'[n] + passed'[n] = handled[n] + passed[n] + 1
     /\ subject[c] = n /\ ~Handling(c, n)'
     /\ \/ pc[c] = "handle" /\ (n \in kept' <=> n \in kept)
        \/ pc[c] = "mark" /\ n \in kept'

Kept(c) ==
  /\ Typed' /\ Placed(c)' /\ Unkept(c)'
  /\ Frame(c)
  /\ \A m \in Parts : NothingNew(c, m) /\ Reckoned(c, m)
  /\ \A n \in Notices : Noticed(c, n)

----------------------------------------------------------------------------
(* Such a step keeps the invariant.                                        *)

LEMMA OthersPlaced ==
  ASSUME IInv, NEW c \in Callers, Frame(c), Typed', NEW d \in Callers, d # c
  PROVE  Placed(d)'
<1>1. Same(d) /\ Placed(d) /\ (job[d] # 0 => job[d] # job[c])
  BY Zenon DEF IInv, Frame, OneRunner
<1>2. job[d] # 0 =>
        /\ job[d] \in 1 .. Len(jobs')
        /\ jobs'[job[d]].request = subject[d] /\ jobs'[job[d]].state = "running"
  <2> SUFFICES ASSUME job[d] # 0
               PROVE  /\ job[d] \in 1 .. Len(jobs')
                      /\ jobs'[job[d]].request = subject[d] /\ jobs'[job[d]].state = "running"
    OBVIOUS
  <2>1. /\ job[d] \in 1 .. Len(jobs)
        /\ jobs[job[d]].request = subject[d] /\ jobs[job[d]].state = "running"
    BY <1>1, Zenon DEF Placed
  <2>2. Len(jobs) \in Nat /\ Len(jobs') \in Nat /\ Len(jobs) <= Len(jobs')
    BY DEF IInv, Typed, Frame
  <2>3. jobs'[job[d]].request = subject[d] /\ jobs'[job[d]].state = "running"
    BY <1>1, <2>1, Zenon DEF Frame
  <2> QED BY <2>1, <2>2, <2>3
<1> QED BY <1>1, <1>2, Zenon DEF Same, Placed, Sends

LEMMA OthersUnkept ==
  ASSUME IInv, NEW c \in Callers, Frame(c), overlapped \subseteq overlapped',
         NEW d \in Callers, d # c
  PROVE  Unkept(d)'
<1>1. Same(d) /\ Unkept(d) /\ Placed(d)
  BY Zenon DEF IInv, Frame
<1> SUFFICES ASSUME subject[d] \notin overlapped',
                    (Sends(d) /\ pc[d] # "get") \/ pc[d] = "mark"
             PROVE  subject[d] \notin kept'
  BY <1>1, Zenon DEF Unkept, Same, Sends
<1>2. subject[d] \notin kept /\ subject[d] \notin overlapped
  BY <1>1, Zenon DEF Unkept
<1>3. Keyed(d)
  BY <1>1, MessagingAssumption DEF Placed, Keyed, Sends, Subjects
<1>4. Keyed(c) => subject[c] # subject[d]
  BY <1>2, <1>3, Zenon DEF IInv, Watched
<1> QED BY <1>2, <1>4, Zenon DEF Frame

LEMMA OneRunnerKept ==
  ASSUME IInv, NEW c \in Callers, Frame(c)
  PROVE  OneRunner'
<1> SUFFICES ASSUME NEW a \in Callers, NEW b \in Callers, a # b, job'[a] # 0, job'[a] = job'[b]
             PROVE  FALSE
  BY DEF OneRunner
<1>1. \A d \in Callers \ {c} : job'[d] = job[d]
  BY Zenon DEF Frame, Same
<1>2. \A d \in Callers : job[d] # 0 => jobs[job[d]].state = "running"
  BY Zenon DEF IInv, Placed
<1>3. \A d \in Callers \ {c} : job'[c] # 0 => job'[c] # job[d]
  <2> SUFFICES ASSUME NEW d \in Callers \ {c}, job'[c] # 0, job'[c] = job[d]
               PROVE  FALSE
    OBVIOUS
  <2>1. job'[c] # job[c]
    BY Zenon DEF IInv, OneRunner
  <2>2. jobs[job'[c]].state = "queued"
    BY <2>1, Zenon DEF Frame
  <2> QED BY <1>2, <2>2
<1>4. CASE a = c
  BY <1>1, <1>3, <1>4
<1>5. CASE b = c
  BY <1>1, <1>3, <1>5
<1>6. CASE a # c /\ b # c
  BY <1>1, <1>6, Zenon DEF IInv, OneRunner
<1> QED BY <1>4, <1>5, <1>6

\* The others stand for the same messages as before.
LEMMA OthersPast ==
  ASSUME NEW c \in Callers, Frame(c), NEW m \in Parts
  PROVE  \A d \in Callers \ {c} : Past(d, m)' <=> Past(d, m)
BY Zenon DEF Frame, Same, Past, Sends

LEMMA AnsweredKept ==
  ASSUME IInv, NEW c \in Callers, Frame(c), Typed', NEW m \in Parts, NothingNew(c, m)
  PROVE  Answered(m)'
<1>1. delivered[m] \in Nat /\ delivered'[m] \in Nat
  BY DEF IInv, Typed
<1>2. CASE delivered'[m] >= 1
  BY <1>2 DEF Answered
<1>3. CASE delivered[m] >= 1
  BY <1>1, <1>3 DEF Answered, NothingNew
<1>4. CASE ~(delivered'[m] >= 1) /\ ~(delivered[m] >= 1)
  <2>1. /\ m[1] \notin kept
        /\ \A j \in 1 .. Len(jobs) : jobs[j].request = m[1] => jobs[j].state # "done"
        /\ \A d \in Callers : ~Past(d, m)
    BY <1>4, Zenon DEF IInv, Answered
  <2>2. \A d \in Callers : ~Past(d, m)'
    BY <1>4, <2>1, OthersPast, Zenon DEF NothingNew
  <2>3. \A j \in 1 .. Len(jobs') : jobs'[j].request = m[1] => jobs'[j].state # "done"
    BY <1>4, <2>1, Zenon DEF NothingNew, Frame
  <2> QED BY <1>4, <2>1, <2>2, <2>3, Zenon DEF Answered, NothingNew
<1> QED BY <1>2, <1>3, <1>4

LEMMA VouchedKept ==
  ASSUME IInv, NEW c \in Callers, Watch(c), Frame(c), Typed', NEW m \in Parts, Reckoned(c, m)
  PROVE  Vouched(m)'
<1>1. /\ m[1] \in Requests
      /\ delivered[m] \in Nat /\ delivered'[m] \in Nat
      /\ doubts[m[1]] \in Nat /\ doubts'[m[1]] \in Nat
  BY PartFacts DEF IInv, Typed
<1>2. doubts[m[1]] <= doubts'[m[1]] /\ overlapped \subseteq overlapped'
  BY <1>1, WatchFacts, Zenon DEF IInv
<1> SUFFICES ASSUME m[1] \notin overlapped'
             PROVE  /\ delivered'[m] <= 1 + doubts'[m[1]]
                    /\ m[1] \notin kept' /\ (\A d \in Callers : ~Past(d, m)') =>
                         delivered'[m] <= doubts'[m[1]]
  BY Zenon DEF Vouched
<1>3. /\ delivered[m] <= 1 + doubts[m[1]]
      /\ m[1] \notin kept /\ (\A d \in Callers : ~Past(d, m)) => delivered[m] <= doubts[m[1]]
  BY <1>2, Zenon DEF IInv, Vouched
<1>4. m[1] \notin kept' => m[1] \notin kept
  BY Zenon DEF Frame
<1>5. CASE /\ delivered'[m] = delivered[m]
           /\ Past(c, m) => Past(c, m)' \/ m[1] \in kept' \/ doubts'[m[1]] >= doubts[m[1]] + 1
  <2>1. delivered'[m] <= 1 + doubts'[m[1]]
    BY <1>1, <1>2, <1>3, <1>5
  <2>2. ASSUME m[1] \notin kept', \A d \in Callers : ~Past(d, m)'
        PROVE  delivered'[m] <= doubts'[m[1]]
    <3>1. CASE Past(c, m)
      <4>1. doubts'[m[1]] >= doubts[m[1]] + 1
        BY <1>5, <2>2, <3>1, Zenon
      <4> QED BY <1>1, <1>3, <1>5, <4>1
    <3>2. CASE ~Past(c, m)
      <4>1. \A d \in Callers : ~Past(d, m)
        BY <2>2, <3>2, OthersPast, Zenon
      <4>2. delivered[m] <= doubts[m[1]]
        BY <1>3, <1>4, <2>2, <4>1, Zenon
      <4> QED BY <1>1, <1>2, <1>5, <4>2
    <3> QED BY <3>1, <3>2
  <2> QED BY <2>1, <2>2
<1>6. CASE /\ delivered'[m] = delivered[m] + 1
           /\ pc[c] = "send" /\ m = MessageOf(c)
           /\ Past(c, m)' \/ doubts'[m[1]] >= doubts[m[1]] + 1
  <2>1. Sends(c) /\ subject[c] = m[1] /\ part[c] = m[2] /\ part[c] \in Nat
    BY <1>6 DEF IInv, Placed, MessageOf, Typed
  <2>2. m[1] \notin kept
    BY <1>2, <1>6, <2>1 DEF IInv, Unkept
  <2>3. ~Past(c, m)
    BY <1>6, <2>1 DEF Past, AfterSend
  <2>4. Keyed(c)
    BY <1>1, <1>6, <2>1, MessagingAssumption DEF Keyed, Subjects
  <2>5. ASSUME NEW d \in Callers, d # c, Past(d, m)
        PROVE  FALSE
    <3>1. Sends(d) /\ subject[d] = m[1] /\ Placed(d)
      BY <2>5 DEF Past, IInv
    <3>2. Keyed(d)
      BY <1>1, <3>1, MessagingAssumption DEF Keyed, Placed, Sends, Subjects
    <3> QED BY <1>2, <2>1, <2>4, <2>5, <3>1, <3>2, Zenon DEF IInv, Watched
  <2>6. delivered[m] <= doubts[m[1]]
    BY <1>3, <2>2, <2>3, <2>5, Zenon
  <2>7. CASE doubts'[m[1]] >= doubts[m[1]] + 1
    BY <1>1, <1>6, <2>6, <2>7
  <2>8. CASE Past(c, m)'
    BY <1>1, <1>2, <1>6, <2>6, <2>8
  <2> QED BY <1>6, <2>7, <2>8
<1> QED BY <1>5, <1>6, Zenon DEF Reckoned

LEMMA MarkingKept ==
  ASSUME IInv, NEW c \in Callers, Watch(c), Frame(c), Typed', NEW n \in Notices, Noticed(c, n)
  PROVE  Marking(n)'
<1>1. /\ handled[n] \in Nat /\ handled'[n] \in Nat
      /\ passed[n] \in Nat /\ passed'[n] \in Nat
  BY DEF IInv, Typed
<1>2. overlapped \subseteq overlapped' /\ spoilt \subseteq spoilt'
  BY WatchFacts, Zenon DEF IInv
<1> SUFFICES ASSUME n \notin overlapped' \cup spoilt'
             PROVE  /\ n \notin kept' =>
                         handled'[n] = 0 /\ passed'[n] = 0 /\ \A d \in Callers : ~Handling(d, n)'
                    /\ n \in kept' =>
                         handled'[n] + passed'[n] =
                           IF \E d \in Callers : Handling(d, n)' THEN 0 ELSE 1
  BY Zenon DEF Marking, Handling
<1>3. /\ n \notin kept =>
           handled[n] = 0 /\ passed[n] = 0 /\ \A d \in Callers : ~Handling(d, n)
      /\ n \in kept =>
           handled[n] + passed[n] = IF \E d \in Callers : Handling(d, n) THEN 0 ELSE 1
  BY <1>2, Zenon DEF IInv, Marking, Handling
<1>4. \A d \in Callers \ {c} : Handling(d, n)' <=> Handling(d, n)
  BY Zenon DEF Frame, Same, Handling
<1>5. \A d \in Callers \ {c} : pc[c] \in {"mark", "handle"} /\ subject[c] = n => ~Handling(d, n)
  <2> SUFFICES ASSUME NEW d \in Callers \ {c}, pc[c] \in {"mark", "handle"}, subject[c] = n,
                      Handling(d, n)
               PROVE  FALSE
    OBVIOUS
  <2>1. Keyed(c) /\ Keyed(d) /\ subject[d] = subject[c]
    BY MessagingAssumption DEF Keyed, Handling, Subjects
  <2> QED BY <1>2, <2>1, Zenon DEF IInv, Watched
<1>6. pc[c] = "mark" /\ subject[c] = n => n \notin kept
  BY <1>2, Zenon DEF IInv, Unkept
<1>7. CASE /\ handled'[n] = handled[n] /\ passed'[n] = passed[n] /\ (n \in kept' <=> n \in kept)
           /\ Handling(c, n)' <=> Handling(c, n)
  <2>1. \A d \in Callers : Handling(d, n)' <=> Handling(d, n)
    BY <1>4, <1>7
  <2> QED BY <1>3, <1>7, <2>1, Zenon
<1>8. CASE /\ handled'[n] = handled[n] /\ passed'[n] = passed[n] /\ n \in kept'
           /\ pc[c] = "mark" /\ subject[c] = n /\ Handling(c, n)'
  <2>1. handled'[n] = 0 /\ passed'[n] = 0
    BY <1>3, <1>6, <1>8, Zenon
  <2> QED BY <1>8, <2>1
<1>9. CASE /\ handled'[n] + passed'[n] = handled[n] + passed[n] + 1
           /\ subject[c] = n /\ ~Handling(c, n)'
           /\ \/ pc[c] = "handle" /\ (n \in kept' <=> n \in kept)
              \/ pc[c] = "mark" /\ n \in kept'
  <2>1. n \in kept' /\ handled[n] + passed[n] = 0
    <3>1. CASE pc[c] = "mark" /\ n \in kept'
      BY <1>3, <1>6, <1>9, <3>1
    <3>2. CASE pc[c] = "handle" /\ (n \in kept' <=> n \in kept)
      BY <1>3, <1>9, <3>2, Zenon DEF Handling
    <3> QED BY <1>9, <3>1, <3>2, Zenon
  <2>2. \A d \in Callers : ~Handling(d, n)'
    BY <1>4, <1>5, <1>9, Zenon
  <2>3. handled'[n] + passed'[n] = 1
    BY <1>1, <1>9, <2>1
  <2> QED BY <2>1, <2>2, <2>3, Zenon
<1> QED BY <1>7, <1>8, <1>9, Zenon DEF Noticed

LEMMA KeptKeeps ==
  ASSUME IInv, NEW c \in Callers, Watch(c), Kept(c)
  PROVE  IInv'
<1>1. Typed' /\ Frame(c)
  BY Zenon DEF Kept
<1>2. Watched' /\ overlapped \subseteq overlapped'
  BY <1>1, WatchFacts, Zenon DEF IInv
<1>3. \A d \in Callers : Placed(d)' /\ Unkept(d)'
  BY <1>1, <1>2, OthersPlaced, OthersUnkept, Zenon DEF Kept
<1>4. OneRunner'
  BY <1>1, OneRunnerKept, Zenon
<1>5. \A m \in Parts : Answered(m)' /\ Vouched(m)'
  BY <1>1, AnsweredKept, VouchedKept, Zenon DEF Kept
<1>6. \A n \in Notices : Marking(n)'
  BY <1>1, MarkingKept, Zenon DEF Kept
<1> QED BY <1>1, <1>2, <1>3, <1>4, <1>5, <1>6, Zenon DEF IInv

----------------------------------------------------------------------------
(* The steps of a call: how it ends, and how it goes on.                   *)

LEMMA JobEndsFacts ==
  ASSUME Typed, NEW c \in Callers, NEW state \in JobStates, JobEnds(c, state)
  PROVE  /\ jobs' \in Seq(JobRecs) /\ Len(jobs') = Len(jobs)
         /\ \A j \in 1 .. Len(jobs) :
              /\ jobs'[j].request = jobs[j].request
              /\ jobs'[j].state = IF j = job[c] THEN state ELSE jobs[j].state
<1>1. jobs \in Seq(JobRecs) /\ DOMAIN jobs = 1 .. Len(jobs) /\ Len(jobs) \in Nat
  BY DEF Typed
<1>2. \A j \in 1 .. Len(jobs) : jobs[j] \in JobRecs
  BY <1>1
<1>3. \A j \in 1 .. Len(jobs) :
        /\ jobs'[j] \in JobRecs
        /\ jobs'[j].request = jobs[j].request
        /\ jobs'[j].state = IF j = job[c] THEN state ELSE jobs[j].state
  BY <1>1, <1>2 DEF JobEnds, JobRecs
<1>4. jobs' = [j \in 1 .. Len(jobs) |-> jobs'[j]]
  BY <1>1 DEF JobEnds
<1>5. jobs' \in [1 .. Len(jobs) -> JobRecs]
  BY <1>3, <1>4, Zenon
<1>6. jobs' \in Seq(JobRecs) /\ Len(jobs') = Len(jobs)
  BY <1>1, <1>5
<1> QED BY <1>3, <1>6

\* The jobs a call leaves behind when it ends.
JobsLeft(c, state) == JobEnds(c, state) \/ jobs' = jobs

LEMMA LeaveFacts ==
  ASSUME IInv, NEW c \in Callers, Leave(c), NEW state \in {"done", "queued", "failed"},
         JobsLeft(c, state)
  PROVE  /\ pc' \in [Callers -> Points] /\ call' \in [Callers -> CallKinds]
         /\ subject' \in [Callers -> Subjects \cup {NoSubject}]
         /\ job' \in [Callers -> Nat] /\ part' \in [Callers -> Nat]
         /\ attempt' \in [Callers -> Nat] /\ asked' \in Nat
         /\ jobs' \in Seq(JobRecs) /\ Len(jobs') = Len(jobs)
         /\ \A d \in Callers \ {c} : Same(d)
         /\ pc'[c] = "idle" /\ call'[c] = "none" /\ job'[c] = 0
         /\ Placed(c)' /\ Unkept(c)'
         /\ \A m \in Parts : ~Past(c, m)'
         /\ \A n \in Notices : ~Handling(c, n)'
<1>1. /\ pc' \in [Callers -> Points] /\ call' \in [Callers -> CallKinds]
      /\ subject' \in [Callers -> Subjects \cup {NoSubject}]
      /\ job' \in [Callers -> Nat] /\ part' \in [Callers -> Nat]
      /\ attempt' \in [Callers -> Nat] /\ asked' \in Nat
  BY DEF IInv, Typed, Leave, Goto, Points, CallKinds
<1>2. \A d \in Callers \ {c} : Same(d)
  BY DEF IInv, Typed, Leave, Goto, Same
<1>3. /\ pc'[c] = "idle" /\ call'[c] = "none" /\ job'[c] = 0
      /\ subject'[c] = NoSubject /\ part'[c] = 1
  BY DEF IInv, Typed, Leave, Goto
<1>4. jobs' \in Seq(JobRecs) /\ Len(jobs') = Len(jobs)
  <2>1. CASE JobEnds(c, state)
    BY <2>1, JobEndsFacts DEF IInv, JobStates
  <2>2. CASE jobs' = jobs
    BY <2>2 DEF IInv, Typed
  <2> QED BY <2>1, <2>2 DEF JobsLeft
<1>5. Placed(c)' /\ Unkept(c)'
  BY <1>3 DEF Placed, Unkept, Sends, AfterSend
<1>6. (\A m \in Parts : ~Past(c, m)') /\ (\A n \in Notices : ~Handling(c, n)')
  BY <1>3 DEF Past, Sends, Handling
<1> QED BY <1>1, <1>2, <1>3, <1>4, <1>5, <1>6, Zenon

\* What is left to show of a call that ends and stores no key.
LEMMA EndKept ==
  ASSUME IInv, NEW c \in Callers, Watch(c), Leave(c),
         NEW state \in {"done", "queued", "failed"}, JobsLeft(c, state),
         faults' \in Nat, kept' = kept, delivered' = delivered,
         handled' \in [Notices -> Nat], passed' \in [Notices -> Nat],
         state = "done" =>
           job[c] = 0 \/ \A m \in Parts : m[1] = subject[c] => delivered[m] >= 1,
         \A m \in Parts : Past(c, m) => doubts'[m[1]] >= doubts[m[1]] + 1,
         \A n \in Notices : Noticed(c, n)
  PROVE  Kept(c)
<1>1. Typed'
  BY LeaveFacts, WatchTyped DEF IInv, Typed
<1>2. \A j \in 1 .. Len(jobs) :
        /\ jobs'[j].request = jobs[j].request
        /\ jobs'[j].state = jobs[j].state \/ (j = job[c] /\ jobs'[j].state = state)
  <2>1. CASE JobEnds(c, state)
    <3>1. state \in JobStates
      BY DEF JobStates
    <3>2. \A j \in 1 .. Len(jobs) :
            /\ jobs'[j].request = jobs[j].request
            /\ jobs'[j].state = IF j = job[c] THEN state ELSE jobs[j].state
      BY <2>1, <3>1, JobEndsFacts, Zenon DEF IInv
    <3> QED BY <3>2
  <2>2. CASE jobs' = jobs
    BY <2>2
  <2> QED BY <2>1, <2>2 DEF JobsLeft
<1>3. Frame(c)
  <2>1. Len(jobs) \in Nat /\ Len(jobs') = Len(jobs)
    BY LeaveFacts DEF IInv, Typed
  <2>2. Len(jobs) <= Len(jobs')
    BY <2>1
  <2>3. job'[c] \in {0, job[c]} /\ \A d \in Callers \ {c} : Same(d)
    BY LeaveFacts
  <2>4. \A j \in 1 .. Len(jobs) :
          /\ jobs'[j].request = jobs[j].request
          /\ jobs[j].state = "running" => j = job[c] \/ jobs'[j].state = "running"
    BY <1>2
  <2> QED BY <2>2, <2>3, <2>4, Zenon DEF Frame
<1>4. ASSUME NEW m \in Parts
      PROVE  NothingNew(c, m) /\ Reckoned(c, m)
  <2>1. delivered[m] \in Nat /\ ~Past(c, m)' /\ Len(jobs') = Len(jobs)
    BY LeaveFacts DEF IInv, Typed
  <2>2. Reckoned(c, m)
    BY DEF Reckoned
  <2>3. delivered[m] >= 1 => NothingNew(c, m)
    BY <2>1 DEF NothingNew
  <2>4. ~(delivered[m] >= 1) => NothingNew(c, m)
    <3> SUFFICES ASSUME ~(delivered[m] >= 1)
                 PROVE  NothingNew(c, m)
      OBVIOUS
    <3>1. \A j \in 1 .. Len(jobs) :
            jobs'[j].request = m[1] /\ jobs'[j].state = "done" => jobs[j].state = "done"
      <4> SUFFICES ASSUME NEW j \in 1 .. Len(jobs), jobs'[j].request = m[1],
                          jobs'[j].state = "done", jobs[j].state # "done"
                   PROVE  FALSE
        OBVIOUS
      <4>1. j = job[c] /\ state = "done" /\ jobs[j].request = m[1]
        BY <1>2, Zenon
      <4>2. job[c] # 0 /\ subject[c] = m[1]
        BY <4>1 DEF IInv, Placed, Typed
      <4>3. delivered[m] >= 1
        BY <4>1, <4>2, Zenon
      <4> QED BY <4>3
    <3> QED BY <2>1, <3>1 DEF NothingNew
  <2> QED BY <2>2, <2>3, <2>4
<1> QED BY <1>1, <1>3, <1>4, LeaveFacts, Zenon DEF Kept

\* A call that throws leaves a doubt for what it has delivered.
LEMMA ThrowKept ==
  ASSUME IInv, NEW c \in Callers, Watch(c), Throw(c), faults' \in Nat,
         UNCHANGED world,
         \A m \in Parts : Past(c, m) => doubts'[m[1]] >= doubts[m[1]] + 1,
         pc[c] = "handle" => faults' # faults
  PROVE  Kept(c)
<1>1. Leave(c) /\ AfterThrow(c) \in {"queued", "failed"} /\ JobsLeft(c, AfterThrow(c))
  BY DEF Throw, AfterThrow, JobsLeft
<1>2. kept' = kept /\ delivered' = delivered /\ handled' = handled /\ passed' = passed
  BY DEF world
<1>3. ASSUME NEW n \in Notices
      PROVE  Noticed(c, n)
  <2>1. Typed' /\ ~Handling(c, n)'
    BY <1>1, <1>2, LeaveFacts, WatchTyped DEF IInv, Typed
  <2>2. CASE Handling(c, n)
    BY <2>1, <2>2, WatchFacts DEF Handling, Noticed, IInv
  <2>3. CASE ~Handling(c, n)
    BY <1>2, <2>1, <2>3, Zenon DEF Noticed
  <2> QED BY <2>2, <2>3
<1>4. handled' \in [Notices -> Nat] /\ passed' \in [Notices -> Nat]
  BY <1>2 DEF IInv, Typed
<1> QED BY <1>1, <1>2, <1>3, <1>4, EndKept

\* What is left to show of a call that goes on, to another point but not from a
\* point where it handles a notice, and leaves the world alone.
LEMMA GoKept ==
  ASSUME IInv, NEW c \in Callers, Watch(c), NEW point \in Points, Goto(c, point),
         pc[c] \notin {"idle", "handle"}, point # "handle",
         UNCHANGED <<world, jobs, request, part, attempt>>, faults' \in Nat,
         Placed(c)', Unkept(c)',
         \A m \in Parts : Past(c, m)' <=> Past(c, m)
  PROVE  Kept(c)
<1>1. /\ kept' = kept /\ delivered' = delivered /\ handled' = handled /\ passed' = passed
      /\ jobs' = jobs
      /\ call' = call /\ subject' = subject /\ job' = job /\ part' = part
      /\ attempt' = attempt /\ asked' = asked
  BY DEF world, request
<1>2. pc' \in [Callers -> Points] /\ pc'[c] = point /\ \A d \in Callers \ {c} : pc'[d] = pc[d]
  BY DEF IInv, Typed, Goto
<1>3. Typed'
  BY <1>1, <1>2, WatchTyped DEF IInv, Typed
<1>4. Frame(c)
  <2>1. Len(jobs) \in Nat
    BY DEF IInv, Typed
  <2>2. Len(jobs) <= Len(jobs')
    BY <1>1, <2>1
  <2>3. \A d \in Callers \ {c} : Same(d)
    BY <1>1, <1>2, Zenon DEF Same
  <2>4. job'[c] \in {0, job[c]}
    BY <1>1
  <2> QED BY <1>1, <2>2, <2>3, <2>4, Zenon DEF Frame
<1>5. \A m \in Parts : NothingNew(c, m) /\ Reckoned(c, m)
  <2> TAKE m \in Parts
  <2>1. delivered[m] \in Nat /\ delivered[m] >= delivered[m]
    BY DEF IInv, Typed
  <2> QED BY <1>1, <2>1, Zenon DEF NothingNew, Reckoned
<1>6. \A n \in Notices : Noticed(c, n)
  BY <1>1, <1>2 DEF Noticed, Handling
<1> QED BY <1>3, <1>4, <1>5, <1>6, Zenon DEF Kept

----------------------------------------------------------------------------
(* A request that sends.                                                   *)

LEMMA BeginSpoken ==
  ASSUME IInv, NEW c \in Callers, Watch(c),
         NEW kind \in {"send", "queue", "delete", "verify", "route"},
         NEW s \in Subjects \cup {NoSubject}, NEW e, NEW point \in Points,
         Begin(c, kind, s, e, point), Placed(c)',
         point \in {"get", "enqueue", "delete", "check"}
  PROVE  Kept(c)
<1>1. /\ kept' = kept /\ delivered' = delivered /\ handled' = handled /\ passed' = passed
      /\ jobs' = jobs
      /\ job' = job /\ part' = part /\ attempt' = attempt /\ faults' = faults
  BY DEF Begin, world
<1>2. /\ pc' \in [Callers -> Points] /\ pc'[c] = point
      /\ call' \in [Callers -> CallKinds] /\ call'[c] = kind
      /\ subject' \in [Callers -> Subjects \cup {NoSubject}] /\ subject'[c] = s
      /\ asked' \in Nat
      /\ \A d \in Callers \ {c} : Same(d)
  BY <1>1 DEF IInv, Typed, Begin, Goto, CallKinds, Same
<1>3. Typed'
  <2>1. /\ doubts' \in [Requests -> Nat]
        /\ spoilt' \subseteq Notices /\ overlapped' \subseteq Subjects
    BY WatchTyped DEF IInv
  <2>2. /\ kept' \subseteq Subjects /\ jobs' \in Seq(JobRecs)
        /\ delivered' \in [Parts -> Nat]
        /\ handled' \in [Notices -> Nat] /\ passed' \in [Notices -> Nat]
        /\ job' \in [Callers -> Nat] /\ part' \in [Callers -> Nat]
        /\ attempt' \in [Callers -> Nat] /\ faults' \in Nat
    BY <1>1, Zenon DEF IInv, Typed
  <2> QED BY <1>2, <2>1, <2>2, Zenon DEF Typed
<1>4. Unkept(c)'
  BY <1>2 DEF Unkept, Placed, Sends
<1>5. pc[c] = "idle" /\ ~Sends(c) /\ part[c] = 1
  BY Zenon DEF Begin, At, IInv, Placed, Sends
<1>6. Frame(c)
  <2>1. Len(jobs) \in Nat
    BY DEF IInv, Typed
  <2>2. Len(jobs) <= Len(jobs')
    BY <1>1, <2>1
  <2>3. job'[c] \in {0, job[c]}
    BY <1>1
  <2> QED BY <1>1, <1>2, <2>2, <2>3, Zenon DEF Frame
<1>7. \A m \in Parts : NothingNew(c, m) /\ Reckoned(c, m)
  <2> TAKE m \in Parts
  <2>1. delivered[m] \in Nat /\ delivered[m] >= delivered[m]
    BY DEF IInv, Typed
  <2>2. ~Past(c, m)
    BY <1>5 DEF Past
  <2>3. ~Past(c, m)'
    <3>1. m[2] \in Nat \ {0}
      BY PartFacts
    <3> QED BY <1>1, <1>2, <1>5, <3>1 DEF Past, AfterSend
  <2> QED BY <1>1, <2>1, <2>2, <2>3, Zenon DEF NothingNew, Reckoned
<1>8. \A n \in Notices : Noticed(c, n)
  BY <1>1, <1>2, <1>5 DEF Noticed, Handling
<1> QED BY <1>3, <1>4, <1>6, <1>7, <1>8, Zenon DEF Kept

LEMMA RequestKept ==
  ASSUME IInv, NEW c \in Callers, Watch(c), Request(c)
  PROVE  Kept(c)
<1>1. job[c] = 0 /\ part[c] = 1 /\ pc[c] = "idle" /\ jobs' = jobs /\ job' = job /\ part' = part
  BY DEF Request, BeginSend, BeginQueue, BeginDelete, BeginVerify, BeginRoute, Begin,
     At, IInv, Placed, Sends
<1>2. ASSUME NEW r \in Requests, BeginSend(c, r)
      PROVE  Kept(c)
  <2>1. call'[c] = "send" /\ subject'[c] = r /\ pc'[c] = "get"
    BY <1>2 DEF BeginSend, Begin, Goto, IInv, Typed
  <2>2. Placed(c)'
    BY <1>1, <2>1, PartFacts DEF Placed, Sends, AfterSend
  <2> QED BY <1>2, <2>2, BeginSpoken DEF BeginSend, Subjects, Points
<1>3. ASSUME NEW r \in Requests, BeginQueue(c, r)
      PROVE  Kept(c)
  <2>1. call'[c] = "queue" /\ subject'[c] = r /\ pc'[c] = "enqueue"
    BY <1>3 DEF BeginQueue, Begin, Goto, IInv, Typed
  <2>2. Placed(c)'
    BY <1>1, <2>1 DEF Placed, Sends, AfterSend
  <2> QED BY <1>3, <2>2, BeginSpoken DEF BeginQueue, Subjects, Points
<1>4. ASSUME NEW e \in 1 .. last, BeginDelete(c, e)
      PROVE  Kept(c)
  <2>1. call'[c] = "delete" /\ subject'[c] = NoSubject /\ pc'[c] = "delete"
    BY <1>4 DEF BeginDelete, Begin, Goto, IInv, Typed
  <2>2. Placed(c)'
    BY <1>1, <2>1 DEF Placed, Sends, AfterSend
  <2> QED BY <1>4, <2>2, BeginSpoken DEF BeginDelete, Points
<1>5. ASSUME NEW n \in Notices, BeginVerify(c, n) \/ BeginRoute(c, n)
      PROVE  Kept(c)
  <2>1. PICK kind \in {"verify", "route"} : Begin(c, kind, n, NoEvent, "check")
    BY <1>5 DEF BeginVerify, BeginRoute
  <2>2. call'[c] = kind /\ subject'[c] = n /\ pc'[c] = "check"
    BY <2>1 DEF Begin, Goto, IInv, Typed
  <2>3. Placed(c)'
    BY <1>1, <2>2 DEF Placed, Sends, AfterSend
  <2> QED BY <2>1, <2>3, BeginSpoken DEF Subjects, Points
<1> QED BY <1>2, <1>3, <1>4, <1>5, Zenon DEF Request

LEMMA EnqueueKept ==
  ASSUME IInv, NEW c \in Callers, Watch(c), Enqueue(c)
  PROVE  Kept(c)
<1>1. pc[c] = "enqueue" /\ subject[c] \in Requests /\ ~Sends(c)
  BY DEF Enqueue, At, IInv, Placed, Sends
<1>2. /\ kept' = kept /\ delivered' = delivered /\ handled' = handled /\ passed' = passed
      /\ faults' = faults
      /\ jobs' = Append(jobs, [request |-> subject[c], state |-> "queued", tries |-> 0])
      /\ Leave(c)
  BY DEF Enqueue, world
<1>3. [request |-> subject[c], state |-> "queued", tries |-> 0] \in JobRecs
  BY <1>1 DEF JobRecs, JobStates
<1>4. /\ jobs \in Seq(JobRecs) /\ jobs' \in Seq(JobRecs)
      /\ Len(jobs) \in Nat /\ Len(jobs') = Len(jobs) + 1
      /\ \A j \in 1 .. Len(jobs) : jobs'[j] = jobs[j]
      /\ jobs'[Len(jobs) + 1].state = "queued"
  BY <1>2, <1>3 DEF IInv, Typed
<1>5. /\ pc' \in [Callers -> Points] /\ call' \in [Callers -> CallKinds]
      /\ subject' \in [Callers -> Subjects \cup {NoSubject}]
      /\ job' \in [Callers -> Nat] /\ part' \in [Callers -> Nat]
      /\ attempt' \in [Callers -> Nat] /\ asked' \in Nat
      /\ pc'[c] = "idle" /\ call'[c] = "none" /\ job'[c] = 0
      /\ subject'[c] = NoSubject /\ part'[c] = 1
  BY <1>2 DEF IInv, Typed, Leave, Goto, Points, CallKinds
<1>6. Typed'
  BY <1>2, <1>4, <1>5, WatchTyped DEF IInv, Typed
<1>7. Placed(c)' /\ Unkept(c)'
  BY <1>5 DEF Placed, Unkept, Sends, AfterSend
<1>8. Frame(c)
  <2>1. \A d \in Callers \ {c} : Same(d)
    BY <1>2 DEF IInv, Typed, Leave, Goto, Same
  <2>2. Len(jobs) <= Len(jobs')
    BY <1>4
  <2>3. job'[c] \in {0, job[c]}
    BY <1>5
  <2> QED BY <1>2, <1>4, <2>1, <2>2, <2>3, Zenon DEF Frame
<1>9. ASSUME NEW m \in Parts
      PROVE  NothingNew(c, m) /\ Reckoned(c, m)
  <2>1. delivered[m] \in Nat /\ delivered[m] >= delivered[m]
    BY DEF IInv, Typed
  <2>2. ~Past(c, m) /\ ~Past(c, m)'
    BY <1>1, <1>5 DEF Past, Sends
  <2>3. \A j \in 1 .. Len(jobs') :
          jobs'[j].state = "done" => j \in 1 .. Len(jobs) /\ jobs[j].state = "done"
    BY <1>4
  <2> QED BY <1>2, <2>1, <2>2, <2>3, Zenon DEF NothingNew, Reckoned
<1>10. \A n \in Notices : Noticed(c, n)
  BY <1>1, <1>2, <1>5 DEF Noticed, Handling
<1> QED BY <1>6, <1>7, <1>8, <1>9, <1>10, Zenon DEF Kept

LEMMA RunJobKept ==
  ASSUME IInv, NEW c \in Callers, Watch(c), NEW j \in DOMAIN jobs, RunJob(c, j)
  PROVE  Kept(c)
<1>1. pc[c] = "idle" /\ ~Sends(c) /\ part[c] = 1 /\ job[c] = 0
  BY DEF RunJob, At, IInv, Placed, Sends
<1>2. /\ kept' = kept /\ delivered' = delivered /\ handled' = handled /\ passed' = passed
      /\ faults' = faults
      /\ asked' = asked /\ part' = part /\ attempt' = attempt
  BY DEF RunJob, world, locals
<1>3. /\ jobs \in Seq(JobRecs) /\ Len(jobs) \in Nat /\ j \in 1 .. Len(jobs)
      /\ jobs[j] \in JobRecs /\ jobs[j].state = "queued"
  BY DEF RunJob, IInv, Typed
<1>4. jobs[j].request \in Requests /\ jobs[j].tries + 1 \in Nat
  BY <1>3 DEF JobRecs
<1>5. /\ DOMAIN jobs' = 1 .. Len(jobs)
      /\ \A i \in 1 .. Len(jobs) : i # j => jobs'[i] = jobs[i]
      /\ jobs'[j] = [request |-> jobs[j].request, state |-> "running", tries |-> jobs[j].tries + 1]
  BY <1>3 DEF RunJob, JobRecs
<1>6. /\ jobs' \in Seq(JobRecs) /\ Len(jobs') = Len(jobs)
      /\ \A i \in 1 .. Len(jobs) : i # j => jobs'[i] = jobs[i]
      /\ jobs'[j].request = jobs[j].request /\ jobs'[j].state = "running"
  <2>1. jobs'[j] \in JobRecs
    BY <1>4, <1>5 DEF JobRecs, JobStates
  <2>2. jobs' = [i \in 1 .. Len(jobs) |-> jobs'[i]]
    BY <1>3, <1>5 DEF RunJob
  <2>3. \A i \in 1 .. Len(jobs) : jobs'[i] \in JobRecs
    BY <1>3, <1>5, <2>1
  <2>4. jobs' \in [1 .. Len(jobs) -> JobRecs]
    BY <2>2, <2>3, Zenon
  <2> QED BY <1>3, <1>5, <2>4
<1>7. /\ pc' \in [Callers -> Points] /\ pc'[c] = "get"
      /\ call' \in [Callers -> CallKinds] /\ call'[c] = "job"
      /\ subject' \in [Callers -> Subjects \cup {NoSubject}] /\ subject'[c] = jobs[j].request
      /\ job' \in [Callers -> Nat] /\ job'[c] = j
      /\ \A d \in Callers \ {c} : Same(d)
  BY <1>2, <1>3 DEF RunJob, Goto, IInv, Typed, Points, CallKinds, Subjects, JobRecs, Same
<1>8. Typed'
  BY <1>2, <1>6, <1>7, WatchTyped DEF IInv, Typed
<1>9. Placed(c)'
  <2>1. jobs[j].request \in Requests /\ 1 \in 1 .. Size[jobs[j].request]
    BY <1>3, PartFacts DEF JobRecs
  <2> QED BY <1>1, <1>2, <1>3, <1>6, <1>7, <2>1 DEF Placed, Sends, AfterSend
<1>10. Unkept(c)'
  BY <1>7 DEF Unkept, Sends
<1>11. Frame(c)
  <2>1. Len(jobs) <= Len(jobs')
    BY <1>3, <1>6
  <2>2. job'[c] \in 1 .. Len(jobs) /\ jobs[job'[c]].state = "queued"
    BY <1>3, <1>7
  <2>3. \A i \in 1 .. Len(jobs) :
          /\ jobs'[i].request = jobs[i].request
          /\ jobs[i].state = "running" => i = job[c] \/ jobs'[i].state = "running"
    BY <1>3, <1>6
  <2> QED BY <1>2, <1>7, <2>1, <2>2, <2>3, Zenon DEF Frame
<1>12. ASSUME NEW m \in Parts
       PROVE  NothingNew(c, m) /\ Reckoned(c, m)
  <2>1. delivered[m] \in Nat /\ delivered[m] >= delivered[m]
    BY DEF IInv, Typed
  <2>2. ~Past(c, m)
    BY <1>1 DEF Past
  <2>3. ~Past(c, m)'
    <3>1. m[2] \in Nat \ {0}
      BY PartFacts
    <3> QED BY <1>1, <1>2, <1>7, <3>1 DEF Past, AfterSend
  <2>4. \A i \in 1 .. Len(jobs') :
          jobs'[i].state = "done" => i \in 1 .. Len(jobs) /\ jobs[i].state = "done"
    BY <1>6
  <2> QED BY <1>2, <2>1, <2>2, <2>3, <2>4, Zenon DEF NothingNew, Reckoned
<1>13. \A n \in Notices : Noticed(c, n)
  BY <1>1, <1>2, <1>7 DEF Noticed, Handling
<1> QED BY <1>8, <1>9, <1>10, <1>11, <1>12, <1>13, Zenon DEF Kept

\* What stands at the points of a request that sends.
LEMMA SenderFacts ==
  ASSUME IInv, NEW c \in Callers, Sends(c)
  PROVE  /\ subject[c] \in Requests /\ Size[subject[c]] \in Nat \ {0}
         /\ part[c] \in 1 .. Size[subject[c]] /\ MessageOf(c) \in Parts
         /\ pc[c] \in {"get", "send"} \cup AfterSend
         /\ pc[c] = "get" => part[c] = 1
<1>1. subject[c] \in Requests /\ part[c] \in 1 .. Size[subject[c]] /\ (pc[c] = "get" => part[c] = 1)
  BY Zenon DEF IInv, Placed, Sends
<1>2. pc[c] \in {"get", "send"} \cup AfterSend
  BY DEF IInv, Typed, Placed, Sends, Points, AfterSend
<1> QED BY <1>1, <1>2, PartFacts, Zenon DEF MessageOf

\* A caller that has not sent the first message stands for none.
LEMMA FirstNotPast ==
  ASSUME IInv, NEW c \in Callers, part[c] = 1, pc[c] \notin AfterSend, NEW m \in Parts
  PROVE  ~Past(c, m)
<1>1. m[2] \in Nat \ {0}
  BY PartFacts
<1> QED BY <1>1 DEF Past

LEMMA GetKept ==
  ASSUME IInv, NEW c \in Callers, Watch(c), Get(c)
  PROVE  Kept(c)
<1>1. /\ pc[c] = "get" /\ Sends(c) /\ subject[c] \in Requests /\ part[c] = 1
      /\ \A m \in Parts : ~Past(c, m)
  <2>1. pc[c] = "get" /\ Sends(c)
    BY Zenon DEF Get, At, IInv, Placed
  <2>2. pc[c] \notin AfterSend
    BY <2>1 DEF AfterSend
  <2> QED BY <2>1, <2>2, SenderFacts, FirstNotPast, Zenon
<1>2. /\ kept' = kept /\ delivered' = delivered /\ handled' = handled /\ passed' = passed
      /\ UNCHANGED world
  BY DEF Get, world
<1>3. CASE Known(c) /\ Answer(c) /\ UNCHANGED faults
  <2>1. \A m \in Parts : m[1] = subject[c] => delivered[m] >= 1
    BY <1>3, Zenon DEF Known, IInv, Answered
  <2>2. \A n \in Notices : Noticed(c, n)
    <3>1. \A n \in Notices : ~Handling(c, n) /\ ~Handling(c, n)'
      BY <1>1, <1>3, LeaveFacts DEF Answer, JobsLeft, Handling
    <3> QED BY <1>2, <3>1, Zenon DEF Noticed
  <2>3. faults' \in Nat /\ handled' \in [Notices -> Nat] /\ passed' \in [Notices -> Nat]
    BY <1>2, <1>3 DEF IInv, Typed
  <2>4. Leave(c) /\ JobsLeft(c, "done")
    BY <1>3, Zenon DEF Answer, JobsLeft
  <2> QED BY <1>1, <1>2, <2>1, <2>2, <2>3, <2>4, EndKept
<1>4. CASE ~Known(c) /\ Go(c, "send") /\ UNCHANGED <<jobs, faults>>
  <2>1. Goto(c, "send") /\ UNCHANGED <<world, jobs, request, part, attempt>>
    BY <1>2, <1>4 DEF Go, locals
  <2>2. /\ pc'[c] = "send" /\ call'[c] = call[c] /\ subject'[c] = subject[c] /\ job'[c] = job[c]
        /\ part'[c] = part[c] /\ jobs' = jobs
    BY <2>1 DEF Goto, request, IInv, Typed
  <2>3. Placed(c)
    BY DEF IInv
  <2>4. Placed(c)'
    BY <1>1, <2>2, <2>3 DEF Placed, Sends, AfterSend
  <2>5. Unkept(c)'
    BY <1>2, <1>4, <2>2 DEF Unkept, Known
  <2>6. \A m \in Parts : Past(c, m)' <=> Past(c, m)
    BY <1>1, <2>2 DEF Past, Sends, AfterSend
  <2>7. faults' \in Nat /\ pc[c] \notin {"idle", "handle"}
    BY <1>1, <1>4 DEF IInv, Typed
  <2>8. "send" \in Points
    BY DEF Points
  <2> QED BY <2>1, <2>4, <2>5, <2>6, <2>7, <2>8, GoKept
<1>5. CASE Strike("store") /\ Throw(c)
  <2>1. faults' \in Nat /\ pc[c] # "handle"
    BY <1>1, <1>5 DEF Strike, IInv, Typed
  <2> QED BY <1>1, <1>2, <1>5, <2>1, ThrowKept
<1> QED BY <1>3, <1>4, <1>5, Zenon DEF Get

\* A call that throws while it sends: it has delivered nothing, or leaves a doubt.
LEMMA SendThrowsDoubt ==
  ASSUME IInv, NEW c \in Callers, Watch(c), Typed', Sends(c), Leave(c), faults' # faults,
         NEW m \in Parts, Past(c, m)
  PROVE  doubts'[m[1]] >= doubts[m[1]] + 1
<1>1. subject[c] = m[1] /\ m[1] \in Requests /\ part[c] \in Nat
      /\ m[2] \in Nat \ {0}
  BY PartFacts DEF Past, IInv, Typed
<1>2. pc'[c] = "idle"
  BY DEF Leave, Goto, IInv, Typed
<1>3. Unvouched(c)
  BY <1>1 DEF Past, Sends, Unvouched, AfterSend
<1>4. Doubtful(c)
  BY <1>2, <1>3, Zenon DEF Doubtful, At
<1>5. doubts'[m[1]] = doubts[m[1]] + 1
  BY <1>1, <1>4, WatchFacts DEF IInv
<1> QED BY <1>1, <1>5 DEF IInv, Typed

\* What is left to show of a step that delivers.
LEMMA DeliveryKept ==
  ASSUME IInv, NEW c \in Callers, Watch(c), At(c, "send"), Delivered(c),
         kept' = kept, handled' = handled, passed' = passed, Typed', Placed(c)', Unkept(c)',
         \A d \in Callers \ {c} : Same(d), job'[c] \in {0, job[c]},
         Len(jobs') = Len(jobs),
         \A j \in 1 .. Len(jobs) :
           /\ jobs'[j].request = jobs[j].request
           /\ j # job[c] => jobs'[j].state = jobs[j].state
           /\ jobs'[j].state = "done" => jobs[j].state = "done",
         pc'[c] # "handle",
         \A m \in Parts : m = MessageOf(c) =>
           Past(c, m)' \/ doubts'[m[1]] >= doubts[m[1]] + 1,
         \A m \in Parts : m # MessageOf(c) => (Past(c, m)' => Past(c, m)),
         \A m \in Parts : m # MessageOf(c) /\ Past(c, m) =>
           Past(c, m)' \/ doubts'[m[1]] >= doubts[m[1]] + 1
  PROVE  Kept(c)
<1>1. pc[c] = "send" /\ Sends(c)
  BY Zenon DEF At, IInv, Placed
<1>2. MessageOf(c) \in Parts
  BY <1>1, SenderFacts
<1>3. Frame(c)
  <2>1. Len(jobs) <= Len(jobs')
    BY DEF IInv, Typed
  <2> QED BY <2>1, Zenon DEF Frame
<1>4. \A m \in Parts : /\ delivered[m] \in Nat
                       /\ m # MessageOf(c) => delivered'[m] = delivered[m]
      /\ delivered'[MessageOf(c)] = delivered[MessageOf(c)] + 1
  BY <1>2 DEF Delivered, IInv, Typed
<1>5. ASSUME NEW m \in Parts
      PROVE  NothingNew(c, m) /\ Reckoned(c, m)
  <2>1. CASE m = MessageOf(c)
    <3>1. delivered'[m] = delivered[m] + 1 /\ delivered'[m] >= 1 /\ delivered'[m] >= delivered[m]
      BY <1>4, <2>1
    <3>2. Past(c, m)' \/ doubts'[m[1]] >= doubts[m[1]] + 1
      BY <2>1
    <3> QED BY <1>1, <2>1, <3>1, <3>2, Zenon DEF NothingNew, Reckoned
  <2>2. CASE m # MessageOf(c)
    <3>1. delivered'[m] = delivered[m] /\ delivered'[m] >= delivered[m]
      BY <1>4, <2>2
    <3>2. \A j \in 1 .. Len(jobs') : jobs'[j].state = "done" => j \in 1 .. Len(jobs) /\ jobs[j].state = "done"
      OBVIOUS
    <3>3. (Past(c, m)' => Past(c, m)) /\ (Past(c, m) => Past(c, m)' \/ doubts'[m[1]] >= doubts[m[1]] + 1)
      BY <2>2
    <3> QED BY <3>1, <3>2, <3>3, Zenon DEF NothingNew, Reckoned
  <2> QED BY <2>1, <2>2
<1>6. \A n \in Notices : Noticed(c, n)
  BY <1>1, Zenon DEF Noticed, Handling
<1> QED BY <1>3, <1>5, <1>6, Zenon DEF Kept

LEMMA SentKept ==
  ASSUME IInv, NEW c \in Callers, Watch(c), At(c, "send"), Sent(c),
         kept' = kept, handled' = handled, passed' = passed
  PROVE  Kept(c)
<1>1. /\ pc[c] = "send" /\ Sends(c) /\ Placed(c) /\ Unkept(c)
      /\ subject[c] \in Requests /\ part[c] \in 1 .. Size[subject[c]]
      /\ Size[subject[c]] \in Nat \ {0} /\ MessageOf(c) \in Parts
  <2>1. pc[c] = "send" /\ Sends(c) /\ Placed(c) /\ Unkept(c)
    BY Zenon DEF At, IInv, Placed
  <2> QED BY <2>1, SenderFacts, Zenon
<1>2. /\ jobs' = jobs /\ call' = call /\ subject' = subject /\ job' = job /\ asked' = asked
      /\ faults' = faults
  BY DEF Sent, request
<1>3. delivered' \in [Parts -> Nat]
  BY <1>1 DEF Sent, Delivered, IInv, Typed
<1>4. /\ pc' \in [Callers -> Points] /\ part' \in [Callers -> Nat] /\ attempt' \in [Callers -> Nat]
      /\ \A d \in Callers \ {c} : pc'[d] = pc[d] /\ part'[d] = part[d]
      /\ \/ /\ part[c] < Size[subject[c]] /\ part'[c] = part[c] + 1 /\ pc'[c] = "send"
         \/ /\ part[c] = Size[subject[c]] /\ part'[c] = part[c] /\ pc'[c] = "readIndex"
  <2>1. CASE MoreParts(c)
    <3>1. /\ part' = [part EXCEPT ![c] = @ + 1] /\ attempt' = [attempt EXCEPT ![c] = 0] /\ pc' = pc
      BY <2>1, Zenon DEF Sent
    <3> QED BY <1>1, <2>1, <3>1 DEF MoreParts, IInv, Typed
  <2>2. CASE ~MoreParts(c)
    <3>1. Goto(c, "readIndex") /\ part' = part /\ attempt' = attempt
      BY <2>2, Zenon DEF Sent
    <3>2. "readIndex" \in Points
      BY DEF Points
    <3> QED BY <1>1, <2>2, <3>1, <3>2 DEF MoreParts, Goto, IInv, Typed
  <2> QED BY <2>1, <2>2
<1>5. Typed'
  BY <1>2, <1>3, <1>4, WatchTyped DEF IInv, Typed
<1>6. Placed(c)'
  BY <1>1, <1>2, <1>4 DEF Placed, Sends, AfterSend
<1>7. Unkept(c)'
  <2>1. overlapped \subseteq overlapped'
    BY <1>5, WatchFacts, Zenon DEF IInv
  <2> QED BY <1>1, <1>2, <2>1 DEF Unkept
<1>8. \A d \in Callers \ {c} : Same(d)
  BY <1>2, <1>4, Zenon DEF Same
<1>9. ASSUME NEW m \in Parts
      PROVE  /\ m = MessageOf(c) => Past(c, m)'
             /\ m # MessageOf(c) => (Past(c, m)' <=> Past(c, m))
  <2>1. m[2] \in 1 .. Size[m[1]] /\ m = <<m[1], m[2]>>
    BY PartFacts
  <2> QED BY <1>1, <1>2, <1>4, <2>1 DEF Past, Sends, AfterSend, MessageOf
<1>10. /\ job'[c] \in {0, job[c]} /\ Len(jobs') = Len(jobs) /\ pc'[c] # "handle"
       /\ \A j \in 1 .. Len(jobs) :
            /\ jobs'[j].request = jobs[j].request
            /\ j # job[c] => jobs'[j].state = jobs[j].state
            /\ jobs'[j].state = "done" => jobs[j].state = "done"
  BY <1>2, <1>4
<1>11. Delivered(c)
  BY DEF Sent
<1> QED BY <1>5, <1>6, <1>7, <1>8, <1>9, <1>10, <1>11, DeliveryKept

\* A message that the caller tries to send again.
LEMMA AgainFacts ==
  ASSUME IInv, NEW c \in Callers, Watch(c), At(c, "send"), MayRetry(c),
         attempt' = [attempt EXCEPT ![c] = @ + 1],
         UNCHANGED <<pc, jobs, request, part>>,
         kept' = kept, handled' = handled, passed' = passed,
         delivered' \in [Parts -> Nat], faults' \in Nat
  PROVE  Typed' /\ Placed(c)' /\ Unkept(c)'
<1>1. /\ pc' = pc /\ jobs' = jobs /\ part' = part /\ call' = call /\ subject' = subject
      /\ job' = job /\ asked' = asked
  BY DEF request
<1>2. attempt' \in [Callers -> Nat]
  BY DEF IInv, Typed
<1>3. Typed'
  BY <1>1, <1>2, WatchTyped DEF IInv, Typed
<1>4. overlapped \subseteq overlapped' /\ Placed(c) /\ Unkept(c)
  BY <1>3, WatchFacts, Zenon DEF IInv
<1>5. Placed(c)' /\ Unkept(c)'
  BY <1>1, <1>4 DEF Placed, Unkept, Sends
<1> QED BY <1>3, <1>5

LEMMA LostKept ==
  ASSUME IInv, NEW c \in Callers, Watch(c), At(c, "send"), Strike("lost"), Delivered(c),
         NotSent(c), kept' = kept, handled' = handled, passed' = passed
  PROVE  Kept(c)
<1>1. /\ pc[c] = "send" /\ Sends(c) /\ subject[c] \in Requests /\ MessageOf(c) \in Parts
  <2>1. pc[c] = "send" /\ Sends(c)
    BY Zenon DEF At, IInv, Placed
  <2> QED BY <2>1, SenderFacts, Zenon
<1>2. delivered' \in [Parts -> Nat] /\ faults' \in Nat /\ faults' # faults
  BY <1>1 DEF Delivered, Strike, IInv, Typed
<1>3. delivered'[MessageOf(c)] # delivered[MessageOf(c)]
  BY <1>1 DEF Delivered, IInv, Typed
<1>4. Doubtful(c)
  BY <1>2, <1>3, Zenon DEF Doubtful
<1>5. ASSUME Typed', NEW m \in Parts, m[1] = subject[c]
      PROVE  doubts'[m[1]] >= doubts[m[1]] + 1
  <2>1. doubts'[m[1]] = doubts[m[1]] + 1
    BY <1>1, <1>4, <1>5, WatchFacts DEF IInv
  <2> QED BY <1>1, <1>5, <2>1 DEF IInv, Typed
<1>6. CASE /\ MayRetry(c)
           /\ attempt' = [attempt EXCEPT ![c] = @ + 1]
           /\ UNCHANGED <<pc, jobs, request, part, event, snap>>
  <2>1. Typed' /\ Placed(c)' /\ Unkept(c)'
    BY <1>2, <1>6, AgainFacts
  <2>2. /\ pc' = pc /\ jobs' = jobs /\ part' = part /\ call' = call /\ subject' = subject
        /\ job' = job
    BY <1>6 DEF request
  <2>3. \A m \in Parts : Past(c, m)' <=> Past(c, m)
    BY <2>2, Zenon DEF Past, Sends
  <2>4. \A m \in Parts : m = MessageOf(c) => doubts'[m[1]] >= doubts[m[1]] + 1
    <3> SUFFICES ASSUME NEW m \in Parts, m = MessageOf(c)
                 PROVE  doubts'[m[1]] >= doubts[m[1]] + 1
      OBVIOUS
    <3>1. m[1] = subject[c]
      BY DEF MessageOf
    <3> QED BY <1>5, <2>1, <3>1
  <2>5. /\ job'[c] \in {0, job[c]} /\ Len(jobs') = Len(jobs) /\ pc'[c] # "handle"
        /\ \A d \in Callers \ {c} : Same(d)
        /\ \A j \in 1 .. Len(jobs) :
             /\ jobs'[j].request = jobs[j].request
             /\ j # job[c] => jobs'[j].state = jobs[j].state
             /\ jobs'[j].state = "done" => jobs[j].state = "done"
    BY <1>1, <2>2 DEF Same
  <2> QED BY <2>1, <2>3, <2>4, <2>5, DeliveryKept
<1>7. CASE Throw(c)
  <2>1. Leave(c) /\ AfterThrow(c) \in {"queued", "failed"} /\ JobsLeft(c, AfterThrow(c))
    BY <1>7 DEF Throw, AfterThrow, JobsLeft
  <2>2. Typed'
    BY <1>2, <2>1, LeaveFacts, WatchTyped DEF IInv, Typed
  <2>3. /\ Placed(c)' /\ Unkept(c)' /\ (\A d \in Callers \ {c} : Same(d)) /\ job'[c] = 0
        /\ pc'[c] = "idle" /\ Len(jobs') = Len(jobs) /\ (\A m \in Parts : ~Past(c, m)')
    BY <2>1, LeaveFacts, Zenon
  <2>4. \A j \in 1 .. Len(jobs) :
          /\ jobs'[j].request = jobs[j].request
          /\ j # job[c] => jobs'[j].state = jobs[j].state
          /\ jobs'[j].state = "done" => jobs[j].state = "done"
    <3>1. AfterThrow(c) \in JobStates
      BY <2>1 DEF JobStates
    <3>2. \A j \in 1 .. Len(jobs) :
            /\ jobs'[j].request = jobs[j].request
            /\ jobs'[j].state = IF j = job[c] THEN AfterThrow(c) ELSE jobs[j].state
      BY <1>7, <3>1, JobEndsFacts, Zenon DEF Throw, IInv
    <3> QED BY <2>1, <3>2
  <2>5. \A m \in Parts : m = MessageOf(c) \/ Past(c, m) => doubts'[m[1]] >= doubts[m[1]] + 1
    <3> SUFFICES ASSUME NEW m \in Parts, m = MessageOf(c) \/ Past(c, m)
                 PROVE  doubts'[m[1]] >= doubts[m[1]] + 1
      OBVIOUS
    <3>1. m[1] = subject[c]
      BY DEF MessageOf, Past
    <3> QED BY <1>5, <2>2, <3>1
  <2> QED BY <2>2, <2>3, <2>4, <2>5, DeliveryKept
<1> QED BY <1>6, <1>7, Zenon DEF NotSent

LEMMA SendKept ==
  ASSUME IInv, NEW c \in Callers, Watch(c), Send(c)
  PROVE  Kept(c)
<1>1. At(c, "send") /\ kept' = kept /\ handled' = handled /\ passed' = passed
  BY Zenon DEF Send
<1>2. pc[c] = "send" /\ Sends(c)
  BY <1>1, Zenon DEF At, IInv, Placed
<1>3. CASE Sent(c)
  BY <1>1, <1>3, SentKept
<1>4. CASE Strike("lost") /\ Delivered(c) /\ NotSent(c)
  BY <1>1, <1>4, LostKept
<1>5. CASE Strike("refused") /\ NotSent(c) /\ UNCHANGED delivered
  <2>1. faults' \in Nat /\ faults' # faults
    BY <1>5 DEF Strike, IInv, Typed
  <2>2. UNCHANGED world /\ delivered' \in [Parts -> Nat] /\ delivered' = delivered
    BY <1>1, <1>5 DEF world, IInv, Typed
  <2>3. CASE Throw(c)
    <3>1. Leave(c) /\ AfterThrow(c) \in {"queued", "failed"} /\ JobsLeft(c, AfterThrow(c))
      BY <2>3 DEF Throw, AfterThrow, JobsLeft
    <3>2. Typed'
      BY <1>1, <2>1, <2>2, <3>1, LeaveFacts, WatchTyped DEF IInv, Typed
    <3>3. \A m \in Parts : Past(c, m) => doubts'[m[1]] >= doubts[m[1]] + 1
      BY <1>2, <2>1, <3>1, <3>2, SendThrowsDoubt, Zenon
    <3> QED BY <1>2, <2>1, <2>2, <2>3, <3>3, ThrowKept
  <2>4. CASE /\ MayRetry(c)
             /\ attempt' = [attempt EXCEPT ![c] = @ + 1]
             /\ UNCHANGED <<pc, jobs, request, part, event, snap>>
    <3>1. Typed' /\ Placed(c)' /\ Unkept(c)'
      BY <1>1, <2>1, <2>2, <2>4, AgainFacts
    <3>2. /\ pc' = pc /\ jobs' = jobs /\ part' = part /\ call' = call /\ subject' = subject
          /\ job' = job
      BY <2>4 DEF request
    <3>3. Frame(c)
      <4>1. Len(jobs) <= Len(jobs')
        BY <3>2 DEF IInv, Typed
      <4>2. job'[c] \in {0, job[c]}
        BY <3>2
      <4> QED BY <1>1, <3>2, <4>1, <4>2, Zenon DEF Frame, Same
    <3>4. \A m \in Parts : NothingNew(c, m) /\ Reckoned(c, m)
      <4> TAKE m \in Parts
      <4>1. delivered'[m] = delivered[m] /\ delivered'[m] >= delivered[m]
        BY <2>2 DEF IInv, Typed
      <4>2. Past(c, m)' <=> Past(c, m)
        BY <3>2, Zenon DEF Past, Sends
      <4> QED BY <1>1, <3>2, <4>1, <4>2, Zenon DEF NothingNew, Reckoned
    <3>5. \A n \in Notices : Noticed(c, n)
      BY <1>1, <3>2, Zenon DEF Noticed, Handling
    <3> QED BY <3>1, <3>3, <3>4, <3>5, Zenon DEF Kept
  <2> QED BY <1>5, <2>3, <2>4, Zenon DEF NotSent
<1> QED BY <1>3, <1>4, <1>5, Zenon DEF Send

LEMMA SetKept ==
  ASSUME IInv, NEW c \in Callers, Watch(c), Set(c)
  PROVE  Kept(c)
<1>1. pc[c] = "set" /\ Sends(c)
  BY Zenon DEF Set, At, IInv, Placed
<1>2. /\ subject[c] \in Requests /\ part[c] = Size[subject[c]]
      /\ \A m \in Parts : m[1] = subject[c] => Past(c, m)
  <2>1. subject[c] \in Requests /\ part[c] = Size[subject[c]]
    BY <1>1 DEF IInv, Placed, AfterSend, Sends
  <2> QED BY <1>1, <2>1 DEF Past, AfterSend
<1>3. \A m \in Parts : m[1] = subject[c] => delivered[m] >= 1
  BY <1>2, Zenon DEF IInv, Answered
<1>4. Leave(c) /\ JobsLeft(c, "done") /\ JobEnds(c, "done")
  BY Zenon DEF Set, Answer, JobsLeft
<1>5. delivered' = delivered /\ handled' = handled /\ passed' = passed /\ faults' \in Nat
  BY DEF Set, Strike, IInv, Typed
<1>6. \A n \in Notices : ~Handling(c, n) /\ ~Handling(c, n)' /\ n # subject[c]
  BY <1>1, <1>2, <1>4, LeaveFacts, MessagingAssumption DEF Handling
<1>7. handled' \in [Notices -> Nat] /\ passed' \in [Notices -> Nat] /\ delivered' \in [Parts -> Nat]
  BY <1>5 DEF IInv, Typed
<1>8. CASE Strike("store") /\ UNCHANGED kept
  <2>1. faults' # faults
    BY <1>8 DEF Strike, IInv, Typed
  <2>2. Typed'
    BY <1>4, <1>5, <1>7, <1>8, LeaveFacts, WatchTyped DEF IInv, Typed
  <2>3. \A m \in Parts : Past(c, m) => doubts'[m[1]] >= doubts[m[1]] + 1
    BY <1>1, <1>4, <2>1, <2>2, SendThrowsDoubt, Zenon
  <2>4. \A n \in Notices : Noticed(c, n)
    BY <1>5, <1>6, <1>8, Zenon DEF Noticed
  <2> QED BY <1>3, <1>4, <1>5, <1>7, <1>8, <2>3, <2>4, EndKept
<1>9. CASE kept' = kept \cup {subject[c]} /\ UNCHANGED faults
  <2>1. kept' \subseteq Subjects
    BY <1>2, <1>9 DEF IInv, Typed, Subjects
  <2>2. Typed'
    BY <1>4, <1>5, <1>7, <2>1, LeaveFacts, WatchTyped DEF IInv, Typed
  <2>3. \A j \in 1 .. Len(jobs) :
          /\ jobs'[j].request = jobs[j].request
          /\ jobs'[j].state = IF j = job[c] THEN "done" ELSE jobs[j].state
    BY <1>4, JobEndsFacts DEF IInv, JobStates
  <2>4. Frame(c)
    <3>1. Len(jobs) <= Len(jobs') /\ job'[c] \in {0, job[c]} /\ \A d \in Callers \ {c} : Same(d)
      BY <1>4, LeaveFacts DEF IInv, Typed
    <3>2. \A j \in 1 .. Len(jobs) :
            /\ jobs'[j].request = jobs[j].request
            /\ jobs[j].state = "running" => j = job[c] \/ jobs'[j].state = "running"
      BY <2>3
    <3>3. Keyed(c)
      BY <1>1, <1>2, MessagingAssumption DEF Keyed, Subjects
    <3> QED BY <1>9, <3>1, <3>2, <3>3, Zenon DEF Frame
  <2>5. ASSUME NEW m \in Parts
        PROVE  NothingNew(c, m) /\ Reckoned(c, m)
    <3>1. delivered'[m] = delivered[m] /\ delivered'[m] >= delivered[m]
      BY <1>5 DEF IInv, Typed
    <3>2. Past(c, m) => m[1] \in kept'
      BY <1>9 DEF Past
    <3>3. CASE m[1] = subject[c]
      <4>1. delivered'[m] >= 1
        BY <1>3, <3>1, <3>3
      <4> QED BY <3>1, <3>2, <4>1, Zenon DEF NothingNew, Reckoned
    <3>4. CASE m[1] # subject[c]
      <4>1. m[1] \in kept' => m[1] \in kept
        BY <1>9, <3>4
      <4>2. ~Past(c, m)' /\ Len(jobs') = Len(jobs)
        BY <1>4, LeaveFacts
      <4>3. job[c] # 0 => jobs[job[c]].request = subject[c]
        BY Zenon DEF IInv, Placed
      <4>4. Len(jobs) \in Nat
        BY DEF IInv, Typed
      <4>5. \A j \in 1 .. Len(jobs') :
              jobs'[j].request = m[1] /\ jobs'[j].state = "done" =>
                j \in 1 .. Len(jobs) /\ jobs[j].state = "done"
        BY <2>3, <3>4, <4>2, <4>3, <4>4
      <4> QED BY <3>1, <3>2, <4>1, <4>2, <4>5, Zenon DEF NothingNew, Reckoned
    <3> QED BY <3>3, <3>4
  <2>6. \A n \in Notices : Noticed(c, n)
    <3>1. \A n \in Notices : n \in kept' <=> n \in kept
      BY <1>6, <1>9
    <3> QED BY <1>5, <1>6, <3>1, Zenon DEF Noticed
  <2>7. Placed(c)' /\ Unkept(c)'
    BY <1>4, LeaveFacts, Zenon
  <2> QED BY <2>2, <2>4, <2>5, <2>6, <2>7, Zenon DEF Kept
<1> QED BY <1>8, <1>9, Zenon DEF Set

----------------------------------------------------------------------------
(* The log.                                                                *)

Listing == {"readIndex", "writeEvent", "writeIndex"}
Deleting == {"delete", "lookUp", "drop", "unlist"}

LEMMA MoveKept ==
  ASSUME IInv, NEW c \in Callers, Watch(c), NEW point \in Listing \cup Deleting \cup {"set"},
         Goto(c, point), pc[c] \in Listing \cup Deleting,
         point = "set" => pc[c] \in Listing /\ call[c] # "delete",
         pc[c] \in Listing => point \notin Deleting,
         UNCHANGED <<world, jobs, request, part, attempt>>, faults' \in Nat
  PROVE  Kept(c)
<1>1. /\ pc'[c] = point /\ call'[c] = call[c] /\ subject'[c] = subject[c] /\ job'[c] = job[c]
      /\ part'[c] = part[c] /\ jobs' = jobs /\ kept' = kept
  BY DEF Goto, request, world, IInv, Typed
<1>2. Placed(c) /\ Unkept(c) /\ overlapped \subseteq overlapped'
  BY Zenon DEF IInv, Watch
<1>3. \/ Sends(c) /\ pc[c] \in AfterSend /\ point \in AfterSend
      \/ call[c] = "delete" /\ ~Sends(c) /\ point \in Listing \cup Deleting
  BY <1>2 DEF Placed, Sends, AfterSend, Listing, Deleting
<1>4. Placed(c)'
  BY <1>1, <1>2, <1>3 DEF Placed, Sends, AfterSend, Listing, Deleting
<1>5. Unkept(c)'
  BY <1>1, <1>2, <1>3 DEF Unkept, Sends, AfterSend, Listing, Deleting
<1>6. \A m \in Parts : Past(c, m)' <=> Past(c, m)
  BY <1>1, <1>3 DEF Past, Sends
<1>7. point \in Points /\ point # "handle" /\ pc[c] \notin {"idle", "handle"}
  BY DEF Points, Listing, Deleting
<1> QED BY <1>4, <1>5, <1>6, <1>7, GoKept

\* A call that deletes from the log runs no job.
LEMMA JoblessKept ==
  ASSUME IInv, NEW c \in Callers, Watch(c), Answer(c) \/ Throw(c),
         pc[c] \in {"writeIndex", "lookUp"}, call[c] = "delete", UNCHANGED world, faults' \in Nat
  PROVE  Kept(c)
<1>1. job[c] = 0 /\ \A m \in Parts : ~Past(c, m)
  BY DEF IInv, Placed, Past, Sends
<1>2. PICK state \in {"done", "queued", "failed"} : Leave(c) /\ JobsLeft(c, state)
  BY DEF Answer, Throw, AfterThrow, JobsLeft
<1>3. kept' = kept /\ delivered' = delivered /\ handled' = handled /\ passed' = passed
  BY DEF world
<1>4. handled' \in [Notices -> Nat] /\ passed' \in [Notices -> Nat]
  BY <1>3 DEF IInv, Typed
<1>5. \A n \in Notices : Noticed(c, n)
  <2>1. \A n \in Notices : ~Handling(c, n) /\ ~Handling(c, n)'
    BY <1>2, LeaveFacts DEF Handling
  <2> QED BY <1>3, <2>1, Zenon DEF Noticed
<1> QED BY <1>1, <1>2, <1>3, <1>4, <1>5, EndKept

LEMMA LogKept ==
  ASSUME IInv, NEW c \in Callers, Watch(c),
         \/ ReadIndex(c) \/ WriteEvent(c) \/ WriteIndex(c)
         \/ ReadForDelete(c) \/ LookUp(c) \/ Drop(c) \/ Unlist(c)
  PROVE  Kept(c)
<1>1. faults' \in Nat /\ UNCHANGED world
  BY DEF ReadIndex, WriteEvent, WriteIndex, ReadForDelete, LookUp, Drop, Unlist, Strike, IInv, Typed
<1>2. CASE ReadIndex(c)
  <2>1. /\ pc[c] = "readIndex" /\ Goto(c, "writeEvent")
        /\ UNCHANGED <<world, jobs, request, part, attempt>>
    BY <1>2 DEF ReadIndex, At
  <2> QED BY <1>1, <2>1, MoveKept DEF Listing, Deleting
<1>3. CASE WriteEvent(c)
  <2>1. /\ pc[c] = "writeEvent" /\ Goto(c, "writeIndex")
        /\ UNCHANGED <<world, jobs, request, part, attempt>>
    BY <1>3 DEF WriteEvent, At, Go, locals
  <2> QED BY <1>1, <2>1, MoveKept DEF Listing, Deleting
<1>4. CASE WriteIndex(c)
  <2>1. pc[c] = "writeIndex" /\ AfterLog(c)
    BY <1>4 DEF WriteIndex, At
  <2>2. CASE call[c] = "delete"
    BY <1>1, <2>1, <2>2, JoblessKept DEF AfterLog
  <2>3. CASE call[c] # "delete"
    <3>1. Goto(c, "set") /\ UNCHANGED <<world, jobs, request, part, attempt>>
      BY <1>1, <2>1, <2>3 DEF AfterLog, Go, locals
    <3> QED BY <1>1, <2>1, <2>3, <3>1, MoveKept DEF Listing, Deleting
  <2> QED BY <2>2, <2>3
<1>5. CASE ReadForDelete(c)
  <2>1. /\ pc[c] = "delete" /\ Goto(c, "lookUp")
        /\ UNCHANGED <<world, jobs, request, part, attempt>>
    BY <1>5 DEF ReadForDelete, At
  <2> QED BY <1>1, <2>1, MoveKept DEF Listing, Deleting
<1>6. CASE LookUp(c)
  <2>1. pc[c] = "lookUp" /\ call[c] = "delete"
    BY <1>6 DEF LookUp, At, IInv, Placed
  <2>2. CASE Throw(c)
    BY <1>1, <2>1, <2>2, JoblessKept
  <2>3. CASE Go(c, "drop") /\ UNCHANGED jobs
    <3>1. Goto(c, "drop") /\ UNCHANGED <<world, jobs, request, part, attempt>>
      BY <1>1, <2>3 DEF Go, locals
    <3> QED BY <1>1, <2>1, <3>1, MoveKept DEF Listing, Deleting
  <2> QED BY <1>6, <2>2, <2>3 DEF LookUp
<1>7. CASE Drop(c)
  <2>1. /\ pc[c] = "drop" /\ Goto(c, "unlist")
        /\ UNCHANGED <<world, jobs, request, part, attempt>>
    BY <1>7 DEF Drop, At, Go, locals
  <2> QED BY <1>1, <2>1, MoveKept DEF Listing, Deleting
<1>8. CASE Unlist(c)
  <2>1. /\ pc[c] = "unlist" /\ Goto(c, "readIndex")
        /\ UNCHANGED <<world, jobs, request, part, attempt>>
    BY <1>8 DEF Unlist, At, Go, locals
  <2> QED BY <1>1, <2>1, MoveKept DEF Listing, Deleting
<1> QED BY <1>2, <1>3, <1>4, <1>5, <1>6, <1>7, <1>8

----------------------------------------------------------------------------
(* Notices.                                                                *)

\* What stands at the points of a notice.
LEMMA RouterFacts ==
  ASSUME IInv, NEW c \in Callers, pc[c] \in {"check", "mark", "handle"}
  PROVE  /\ call[c] \in {"verify", "route"} /\ ~Sends(c) /\ job[c] = 0 /\ part[c] = 1
         /\ subject[c] \in Notices /\ subject[c] \notin Requests
         /\ \A m \in Parts : ~Past(c, m)
<1>1. /\ call[c] \in {"verify", "route"} /\ ~Sends(c) /\ job[c] = 0 /\ part[c] = 1
      /\ subject[c] \in Notices
  BY DEF IInv, Placed, Sends
<1> QED BY <1>1, MessagingAssumption DEF Past

LEMMA CheckKept ==
  ASSUME IInv, NEW c \in Callers, Watch(c), Check(c)
  PROVE  Kept(c)
<1>1. pc[c] = "check" /\ UNCHANGED world /\ faults' \in Nat
  BY DEF Check, At, Strike, IInv, Typed
<1>2. CASE Throw(c)
  <2>1. \A m \in Parts : ~Past(c, m)
    BY <1>1, RouterFacts
  <2> QED BY <1>1, <1>2, <2>1, ThrowKept
<1>3. CASE subject[c] \notin kept /\ Go(c, "mark") /\ UNCHANGED <<jobs, faults>>
  <2>1. Goto(c, "mark") /\ UNCHANGED <<world, jobs, request, part, attempt>>
    BY <1>1, <1>3 DEF Go, locals
  <2>2. /\ pc'[c] = "mark" /\ call'[c] = call[c] /\ subject'[c] = subject[c] /\ job'[c] = job[c]
        /\ part'[c] = part[c] /\ jobs' = jobs /\ kept' = kept
    BY <2>1 DEF Goto, request, world, IInv, Typed
  <2>3. Placed(c)' /\ Unkept(c)'
    BY <1>1, <1>3, <2>2, RouterFacts DEF Placed, Unkept, Sends, AfterSend
  <2>4. \A m \in Parts : Past(c, m)' <=> Past(c, m)
    BY <1>1, <2>2, RouterFacts DEF Past, Sends
  <2>5. "mark" \in Points
    BY DEF Points
  <2> QED BY <1>1, <2>1, <2>3, <2>4, <2>5, GoKept
<1> QED BY <1>2, <1>3, Zenon DEF Check

LEMMA MarkKept ==
  ASSUME IInv, NEW c \in Callers, Watch(c), Mark(c)
  PROVE  Kept(c)
<1>1. /\ pc[c] = "mark" /\ delivered' = delivered /\ faults' \in Nat
      /\ subject[c] \in Notices /\ subject[c] \notin Requests /\ ~Sends(c) /\ job[c] = 0
      /\ \A m \in Parts : ~Past(c, m)
  <2>1. pc[c] = "mark" /\ delivered' = delivered /\ faults' \in Nat
    BY DEF Mark, Pass, At, Strike, IInv, Typed
  <2> QED BY <2>1, RouterFacts
<1>2. CASE Throw(c) /\ UNCHANGED <<kept, handled, passed>>
  <2>1. UNCHANGED world
    BY <1>1, <1>2 DEF world
  <2> QED BY <1>1, <1>2, <2>1, ThrowKept
<1>3. ASSUME kept' = kept \cup {subject[c]}, Typed', Placed(c)', Unkept(c)',
             \A d \in Callers \ {c} : Same(d),
             job'[c] = 0, jobs' = jobs, \A m \in Parts : ~Past(c, m)',
             \A n \in Notices : Noticed(c, n)
      PROVE  Kept(c)
  <2>1. Frame(c)
    <3>1. Len(jobs) <= Len(jobs') /\ job'[c] \in {0, job[c]}
      BY <1>3 DEF IInv, Typed
    <3>2. Keyed(c)
      BY <1>1, MessagingAssumption DEF Keyed, Subjects
    <3> QED BY <1>3, <3>1, <3>2, Zenon DEF Frame
  <2>2. ASSUME NEW m \in Parts
        PROVE  NothingNew(c, m) /\ Reckoned(c, m)
    <3>1. delivered'[m] = delivered[m] /\ delivered'[m] >= delivered[m]
      BY <1>1 DEF IInv, Typed
    <3>2. m[1] \in kept' => m[1] \in kept
      BY <1>1, <1>3, PartFacts
    <3> QED BY <1>1, <1>3, <3>1, <3>2, Zenon DEF NothingNew, Reckoned
  <2> QED BY <1>3, <2>1, <2>2, Zenon DEF Kept
<1>4. CASE /\ kept' = kept \cup Marked(c)
           /\ call[c] = "route" /\ Go(c, "handle") /\ UNCHANGED <<handled, passed, jobs, faults>>
  <2>1. /\ kept' = kept \cup {subject[c]} /\ jobs' = jobs /\ call' = call /\ subject' = subject
        /\ job' = job /\ asked' = asked /\ part' = part /\ attempt' = attempt
        /\ handled' = handled /\ passed' = passed
    BY <1>4 DEF Marked, Go, request, locals
  <2>2. pc' \in [Callers -> Points] /\ pc'[c] = "handle" /\ \A d \in Callers \ {c} : pc'[d] = pc[d]
    BY <1>4 DEF Go, Goto, Points, IInv, Typed
  <2>3. kept' \subseteq Subjects
    BY <1>1, <2>1 DEF IInv, Typed, Subjects
  <2>4. Typed'
    BY <1>1, <2>1, <2>2, <2>3, WatchTyped DEF IInv, Typed
  <2>5. Placed(c)' /\ Unkept(c)'
    <3>1. Placed(c)
      BY DEF IInv
    <3> QED BY <1>1, <1>4, <2>1, <2>2, <3>1 DEF Placed, Unkept, Sends, AfterSend
  <2>6. \A d \in Callers \ {c} : Same(d)
    BY <2>1, <2>2, Zenon DEF Same
  <2>7. \A m \in Parts : ~Past(c, m)'
    BY <1>1, <2>1 DEF Past, Sends
  <2>8. ASSUME NEW n \in Notices
        PROVE  Noticed(c, n)
    <3>1. CASE n = subject[c]
      BY <1>1, <2>1, <2>2, <3>1 DEF Noticed, Handling
    <3>2. CASE n # subject[c]
      BY <1>1, <2>1, <3>2 DEF Noticed, Handling
    <3> QED BY <3>1, <3>2
  <2> QED BY <1>1, <1>3, <2>1, <2>4, <2>5, <2>6, <2>7, <2>8
<1>5. CASE kept' = kept \cup Marked(c) /\ Pass(c)
  <2>1. /\ kept' = kept \cup {subject[c]} /\ Leave(c) /\ JobEnds(c, "done")
        /\ handled' = handled /\ passed' = [passed EXCEPT ![subject[c]] = @ + 1]
    BY <1>5 DEF Marked, Pass, Answer
  <2>2. JobsLeft(c, "done")
    BY <2>1 DEF JobsLeft
  <2>3. jobs' = jobs
    BY <1>1, <2>1 DEF JobEnds, IInv, Typed
  <2>4. kept' \subseteq Subjects /\ passed' \in [Notices -> Nat] /\ handled' \in [Notices -> Nat]
    BY <1>1, <2>1 DEF IInv, Typed, Subjects
  <2>5. Typed'
    BY <1>1, <2>1, <2>2, <2>4, LeaveFacts, WatchTyped DEF IInv, Typed
  <2>6. ASSUME NEW n \in Notices
        PROVE  Noticed(c, n)
    <3>1. ~Handling(c, n)' /\ ~Handling(c, n)
      BY <1>1, <2>1, <2>2, LeaveFacts DEF Handling
    <3>2. CASE n = subject[c]
      <4>1. handled'[n] + passed'[n] = handled[n] + passed[n] + 1 /\ n \in kept'
        BY <2>1, <3>2 DEF IInv, Typed
      <4> QED BY <1>1, <3>1, <3>2, <4>1, Zenon DEF Noticed
    <3>3. CASE n # subject[c]
      <4>1. handled'[n] = handled[n] /\ passed'[n] = passed[n] /\ (n \in kept' <=> n \in kept)
        BY <2>1, <3>3 DEF IInv, Typed
      <4> QED BY <3>1, <4>1, Zenon DEF Noticed
    <3> QED BY <3>2, <3>3
  <2> QED BY <1>1, <1>3, <2>1, <2>2, <2>3, <2>5, <2>6, LeaveFacts, Zenon
<1> QED BY <1>2, <1>4, <1>5, Zenon DEF Mark

LEMMA HandleKept ==
  ASSUME IInv, NEW c \in Callers, Watch(c), Handle(c)
  PROVE  Kept(c)
<1>1. /\ pc[c] = "handle" /\ kept' = kept /\ delivered' = delivered /\ faults' \in Nat
      /\ subject[c] \in Notices /\ job[c] = 0
      /\ \A m \in Parts : ~Past(c, m)
  <2>1. pc[c] = "handle" /\ kept' = kept /\ delivered' = delivered /\ faults' \in Nat
    BY DEF Handle, Pass, At, Strike, IInv, Typed
  <2> QED BY <2>1, RouterFacts
<1>2. CASE Strike("handler") /\ Throw(c) /\ UNCHANGED <<handled, passed>>
  <2>1. UNCHANGED world /\ faults' # faults
    BY <1>1, <1>2 DEF world, Strike, IInv, Typed
  <2> QED BY <1>1, <1>2, <2>1, ThrowKept
<1>3. CASE /\ Answer(c)
           /\ \/ handled' = [handled EXCEPT ![subject[c]] = @ + 1] /\ passed' = passed
              \/ passed' = [passed EXCEPT ![subject[c]] = @ + 1] /\ handled' = handled
  <2>1. Leave(c) /\ JobsLeft(c, "done")
    BY <1>3, Zenon DEF Answer, JobsLeft
  <2>2. handled' \in [Notices -> Nat] /\ passed' \in [Notices -> Nat]
    <3>1. handled \in [Notices -> Nat] /\ passed \in [Notices -> Nat]
      BY DEF IInv, Typed
    <3>2. CASE handled' = [handled EXCEPT ![subject[c]] = @ + 1] /\ passed' = passed
      BY <1>1, <3>1, <3>2
    <3>3. CASE passed' = [passed EXCEPT ![subject[c]] = @ + 1] /\ handled' = handled
      BY <1>1, <3>1, <3>3
    <3> QED BY <1>3, <3>2, <3>3
  <2>3. ASSUME NEW n \in Notices
        PROVE  Noticed(c, n)
    <3>1. ~Handling(c, n)'
      BY <2>1, LeaveFacts
    <3>2. CASE n = subject[c]
      <4>1. handled'[n] + passed'[n] = handled[n] + passed[n] + 1
        BY <1>3, <3>2 DEF IInv, Typed
      <4> QED BY <1>1, <3>1, <3>2, <4>1, Zenon DEF Noticed
    <3>3. CASE n # subject[c]
      <4>1. handled'[n] = handled[n] /\ passed'[n] = passed[n] /\ ~Handling(c, n)
        BY <1>3, <3>3 DEF IInv, Typed, Handling
      <4> QED BY <1>1, <3>1, <4>1, Zenon DEF Noticed
    <3> QED BY <3>2, <3>3
  <2> QED BY <1>1, <2>1, <2>2, <2>3, EndKept
<1> QED BY <1>2, <1>3, Zenon DEF Handle, Pass

----------------------------------------------------------------------------
(* The rest of the world, and the whole.                                   *)

LEMMA CutShortKept ==
  ASSUME IInv, NEW c \in Callers, Watch(c), CutShort(c)
  PROVE  Kept(c)
<1>1. /\ Leave(c) /\ JobsLeft(c, "queued") /\ kept' = kept /\ delivered' = delivered
      /\ handled' = handled /\ passed' = passed /\ faults' \in Nat /\ faults' # faults
  BY DEF CutShort, JobsLeft, world, Strike, IInv, Typed
<1>2. Typed'
  BY <1>1, LeaveFacts, WatchTyped DEF IInv, Typed
<1>3. \A m \in Parts : Past(c, m) => doubts'[m[1]] >= doubts[m[1]] + 1
  BY <1>1, <1>2, SendThrowsDoubt, Zenon DEF Past
<1>4. ASSUME NEW n \in Notices
      PROVE  Noticed(c, n)
  <2>1. ~Handling(c, n)'
    BY <1>1, LeaveFacts
  <2>2. CASE Handling(c, n)
    BY <1>1, <1>2, <2>2, WatchFacts DEF Handling, Noticed, IInv
  <2>3. CASE ~Handling(c, n)
    BY <1>1, <2>1, <2>3, Zenon DEF Noticed
  <2> QED BY <2>2, <2>3
<1>5. handled' \in [Notices -> Nat] /\ passed' \in [Notices -> Nat]
  BY <1>1 DEF IInv, Typed
<1> QED BY <1>1, <1>3, <1>4, <1>5, EndKept

LEMMA CallerKeeps ==
  ASSUME IInv, NEW c \in Callers, CallerNext(c)
  PROVE  IInv'
<1>1. Watch(c)
  BY Zenon DEF CallerNext
<1>2. Kept(c)
  <2>1. CASE Request(c)
    BY <1>1, <2>1, RequestKept
  <2>2. CASE CutShort(c)
    BY <1>1, <2>2, CutShortKept
  <2>3. CASE \E j \in DOMAIN jobs : RunJob(c, j)
    BY <1>1, <2>3, RunJobKept
  <2>4. CASE Step(c)
    BY <1>1, <2>4, EnqueueKept, GetKept, SendKept, SetKept, LogKept, CheckKept, MarkKept,
       HandleKept, Zenon DEF Step
  <2> QED BY <2>1, <2>2, <2>3, <2>4, Zenon DEF CallerNext
<1> QED BY <1>1, <1>2, KeptKeeps

LEMMA ExpiryKeeps ==
  ASSUME IInv, NEW s \in Subjects, KeyExpires(s)
  PROVE  IInv'
<1>1. /\ kept' = kept \ {s} /\ delivered' = delivered /\ handled' = handled /\ passed' = passed
      /\ jobs' = jobs /\ pc' = pc /\ call' = call /\ subject' = subject /\ job' = job /\ asked' = asked
      /\ part' = part /\ attempt' = attempt /\ overlapped' = overlapped
      /\ spoilt' = spoilt \cup (Notices \cap {s}) /\ faults' \in Nat
  BY DEF KeyExpires, Expire, Strike, request, locals, IInv, Typed
<1>2. \A r \in Requests : doubts'[r] = IF r = s THEN doubts[r] + 1 ELSE doubts[r]
  BY DEF KeyExpires
<1>3. doubts' \in [Requests -> Nat]
  BY DEF KeyExpires, IInv, Typed
<1>4. Typed'
  BY <1>1, <1>3 DEF IInv, Typed
<1>5. \A c \in Callers : Placed(c)' /\ Unkept(c)' /\ \A m \in Parts : Past(c, m)' <=> Past(c, m)
  <2> TAKE c \in Callers
  <2>1. Placed(c) /\ Unkept(c)
    BY DEF IInv
  <2>2. Placed(c)'
    BY <1>1, <2>1, Zenon DEF Placed, Sends
  <2>3. Unkept(c)'
    BY <1>1, <2>1 DEF Unkept, Sends
  <2>4. \A m \in Parts : Past(c, m)' <=> Past(c, m)
    BY <1>1, Zenon DEF Past, Sends
  <2> QED BY <2>2, <2>3, <2>4
<1>6. OneRunner' /\ Watched'
  BY <1>1, Zenon DEF IInv, OneRunner, Watched, Keyed
<1>7. \A m \in Parts : Answered(m)'
  <2> TAKE m \in Parts
  <2>1. m[1] \in kept' => m[1] \in kept
    BY <1>1
  <2> QED BY <1>1, <1>5, <2>1, Zenon DEF IInv, Answered
<1>8. ASSUME NEW m \in Parts
      PROVE  Vouched(m)'
  <2>1. m[1] \in Requests /\ delivered[m] \in Nat /\ doubts[m[1]] \in Nat
    BY PartFacts DEF IInv, Typed
  <2>2. m[1] \notin overlapped =>
          /\ delivered[m] <= 1 + doubts[m[1]]
          /\ m[1] \notin kept /\ (\A c \in Callers : ~Past(c, m)) => delivered[m] <= doubts[m[1]]
    BY Zenon DEF IInv, Vouched
  <2>3. delivered'[m] = delivered[m] /\ overlapped' = overlapped
    BY <1>1
  <2>4. CASE m[1] = s
    <3>1. doubts'[m[1]] = doubts[m[1]] + 1
      BY <1>2, <2>1, <2>4
    <3> QED BY <2>1, <2>2, <2>3, <3>1 DEF Vouched
  <2>5. CASE m[1] # s
    <3>1. doubts'[m[1]] = doubts[m[1]] /\ (m[1] \in kept' <=> m[1] \in kept)
      BY <1>1, <1>2, <2>1, <2>5
    <3>2. (\A c \in Callers : ~Past(c, m)') <=> (\A c \in Callers : ~Past(c, m))
      BY <1>5, Zenon
    <3> QED BY <2>2, <2>3, <3>1, <3>2, Zenon DEF Vouched
  <2> QED BY <2>4, <2>5
<1>9. ASSUME NEW n \in Notices
      PROVE  Marking(n)'
  <2>1. CASE n = s
    BY <1>1, <2>1 DEF Marking
  <2>2. CASE n # s
    <3>1. (n \in kept' <=> n \in kept) /\ (n \in spoilt' <=> n \in spoilt)
      BY <1>1, <2>2
    <3>2. n \in overlapped' \cup spoilt' <=> n \in overlapped \cup spoilt
      BY <1>1, <3>1
    <3>3. Marking(n)
      BY DEF IInv
    <3> QED BY <1>1, <3>1, <3>2, <3>3, Zenon DEF Marking
  <2> QED BY <2>1, <2>2
<1> QED BY <1>4, <1>5, <1>6, <1>7, <1>8, <1>9, Zenon DEF IInv

LEMMA InitIInv ==
  ASSUME Init
  PROVE  IInv
<1>1. Typed
  BY DEF Init, Typed, JobRecs, Points, CallKinds
<1>2. ASSUME NEW c \in Callers
      PROVE  /\ pc[c] = "idle" /\ call[c] = "none" /\ subject[c] = NoSubject /\ job[c] = 0
             /\ part[c] = 1
  BY DEF Init
<1>3. \A c \in Callers : Placed(c) /\ Unkept(c)
  BY <1>2 DEF Placed, Unkept, Sends, AfterSend
<1>4. OneRunner /\ Watched
  BY <1>2 DEF OneRunner, Watched, Keyed
<1>5. \A m \in Parts : Answered(m) /\ Vouched(m)
  <2> TAKE m \in Parts
  <2>1. m[1] \in Requests
    BY PartFacts
  <2>2. delivered[m] = 0 /\ doubts[m[1]] = 0 /\ kept = {} /\ jobs = <<>>
    BY <2>1 DEF Init
  <2>3. \A c \in Callers : ~Past(c, m)
    BY <1>2 DEF Past, Sends
  <2> QED BY <2>2, <2>3 DEF Answered, Vouched
<1>6. \A n \in Notices : Marking(n)
  BY <1>2 DEF Init, Marking
<1> QED BY <1>1, <1>3, <1>4, <1>5, <1>6 DEF IInv

LEMMA StutterKeeps ==
  ASSUME IInv, UNCHANGED vars
  PROVE  IInv'
<1>1. /\ kept' = kept /\ delivered' = delivered /\ handled' = handled /\ passed' = passed
      /\ jobs' = jobs
      /\ pc' = pc /\ call' = call /\ subject' = subject /\ job' = job /\ asked' = asked
      /\ part' = part /\ attempt' = attempt /\ faults' = faults
      /\ doubts' = doubts /\ spoilt' = spoilt /\ overlapped' = overlapped
  BY DEF vars, world, request, locals, history
<1>2. Typed'
  BY <1>1, Zenon DEF IInv, Typed
<1>3. \A c \in Callers : Placed(c)' /\ Unkept(c)'
  <2>1. \A c \in Callers : Placed(c)'
    BY <1>1, Zenon DEF IInv, Placed, Sends
  <2>2. \A c \in Callers : Unkept(c)'
    BY <1>1, Zenon DEF IInv, Unkept, Sends
  <2> QED BY <2>1, <2>2
<1>4. OneRunner' /\ Watched'
  BY <1>1, Zenon DEF IInv, OneRunner, Watched, Keyed, Sends
<1>5. \A c \in Callers, m \in Parts : Past(c, m)' <=> Past(c, m)
  BY <1>1, Zenon DEF Past, Sends
<1>6. \A m \in Parts : Answered(m)' /\ Vouched(m)'
  BY <1>1, <1>5, Zenon DEF IInv, Answered, Vouched
<1>7. \A n \in Notices : Marking(n)'
  BY <1>1, Zenon DEF IInv, Marking
<1> QED BY <1>2, <1>3, <1>4, <1>6, <1>7, Zenon DEF IInv

\* The invariant holds throughout.
THEOREM Invariance == Spec => []IInv
<1>1. Init => IInv
  BY InitIInv
<1>2. IInv /\ [Next]_vars => IInv'
  BY CallerKeeps, ExpiryKeeps, StutterKeeps DEF Next
<1> QED BY <1>1, <1>2, PTL DEF Spec

\* A message is delivered once, and once more at most for every doubt about its key,
\* as long as no two calls with its request overlap: of direct calls, queued ones,
\* retries of a batch and faults, whatever their number and order.
THEOREM OncePlusDoubts == Spec => []SentOnce
<1>1. IInv => SentOnce
  BY Zenon DEF IInv, Vouched, SentOnce
<1> QED BY <1>1, Invariance, PTL

\* Who is answered from a key, and a job that is done, stand for messages that were
\* all delivered; overlaps make no difference.
THEOREM AnswersStand == Spec => []AnsweredIsDelivered
<1>1. IInv => AnsweredIsDelivered
  <2>1. IInv => DOMAIN jobs = 1 .. Len(jobs)
    BY DEF IInv, Typed
  <2> QED BY <2>1, Zenon DEF IInv, Answered, AnsweredIsDelivered
<1> QED BY <1>1, Invariance, PTL

\* Of the calls posted with a notice, however many, one accepts it: its handler is
\* run, or it is found genuine with no handler to run; and a notice that is refused
\* as a replay has been accepted by one.  Unless posts of it overlap, or a fault
\* broke off its handling or its key expired.
THEOREM NoticesOnce == Spec => []AcceptedOnce
<1>1. IInv => AcceptedOnce
  <2> SUFFICES ASSUME IInv, NEW n \in Notices \ overlapped
               PROVE  /\ handled[n] + passed[n] > 1 => n \in spoilt
                      /\ n \in kept /\ (\A c \in Callers : subject[c] # n) =>
                           handled[n] + passed[n] = 1 \/ n \in spoilt
    BY DEF AcceptedOnce
  <2>1. Marking(n) /\ handled[n] \in Nat /\ passed[n] \in Nat
    BY DEF IInv, Typed
  <2>2. n \notin spoilt => handled[n] + passed[n] \in {0, 1}
    BY <2>1 DEF Marking
  <2>3. n \in kept /\ (\A c \in Callers : subject[c] # n) =>
          handled[n] + passed[n] = 1 \/ n \in spoilt
    BY <2>1, Zenon DEF Marking
  <2> QED BY <2>1, <2>2, <2>3
<1> QED BY <1>1, Invariance, PTL

----------------------------------------------------------------------------
(* The log.                                                                *)

LogTyped ==
  /\ last \in Nat /\ events \subseteq 1 .. last
  /\ index \in Seq(Nat) /\ snap \in [Callers -> Seq(Nat)] /\ event \in [Callers -> Nat]
  /\ \A c \in Callers : event[c] <= last /\ (pc[c] = "writeEvent" => event[c] > 0)

\* The list names stored events of the log, newest first, and leaves out only those
\* that MaxEntries newer ones have followed.
Exact(list, stored, newest) ==
  /\ Len(list) <= MaxEntries
  /\ \A i, j \in 1 .. Len(list) : i < j => list[i] > list[j]
  /\ \A i \in 1 .. Len(list) : list[i] \in stored
  /\ \A e \in stored : (\A i \in 1 .. Len(list) : list[i] # e) => newest >= e + MaxEntries

\* What a writer that is alone at the log has read, and has yet to write.
Writing(c) ==
  /\ pc[c] \in {"readIndex", "delete"} => Exact(index, events, last)
  /\ pc[c] \in {"lookUp", "drop"} => Exact(index, events, last) /\ snap[c] = index
  /\ pc[c] = "drop" => event[c] \in events
  /\ pc[c] = "unlist" =>
       snap[c] = index /\ event[c] \notin events /\ Exact(index, events \cup {event[c]}, last)
  /\ pc[c] = "writeEvent" =>
       /\ snap[c] = index /\ event[c] = last
       /\ last > 0 /\ last \notin events /\ Exact(index, events, last - 1)
  /\ pc[c] = "writeIndex" =>
       /\ snap[c] = index /\ event[c] = last
       /\ last \in events /\ Exact(index, events \ {last}, last - 1)

Alone == \A a, b \in Callers : pc[a] \in Logging /\ pc[b] \in Logging => a = b

LogInv ==
  /\ LogTyped
  /\ raced \in BOOLEAN
  /\ ~raced =>
       /\ Alone
       /\ \A c \in Callers : Writing(c)
       /\ (\A c \in Callers : pc[c] \notin Logging) => Exact(index, events, last)

LEMMA Least ==
  ASSUME NEW S \in SUBSET Nat, S # {}
  PROVE  \E x \in S : \A y \in S : x <= y
<1> DEFINE R == OpToRel(<, Nat)
<1>1. R = {ss \in Nat \X Nat : ss[1] < ss[2]}
  BY DEF OpToRel
<1>2. PICK x \in S : \A y \in S : <<y, x>> \notin R
  <2>1. IsWellFoundedOn(R, Nat)
    BY NatLessThanWellFounded
  <2> QED BY <2>1, WFMin, Zenon
<1>3. ASSUME NEW y \in S
      PROVE  x <= y
  <2>1. ~(y < x)
    BY <1>1, <1>2
  <2> QED BY <2>1
<1> QED BY <1>3

\* In a falling list each place costs at least one.
LEMMA FallsByPlace ==
  ASSUME NEW s \in Seq(Nat), \A i, j \in 1 .. Len(s) : i < j => s[i] > s[j]
  PROVE  \A i \in 1 .. Len(s) : s[1] >= s[i] + (i - 1)
<1> DEFINE Off == {i \in 1 .. Len(s) : ~(s[1] >= s[i] + (i - 1))}
<1> SUFFICES ASSUME Off # {}
             PROVE  FALSE
  OBVIOUS
<1>1. PICK i \in Off : \A j \in Off : i <= j
  <2>1. Off \in SUBSET Nat
    OBVIOUS
  <2> HIDE DEF Off
  <2> QED BY <2>1, Least
<1>2. i \in 1 .. Len(s) /\ Len(s) \in Nat /\ s[i] \in Nat /\ s[1] \in Nat
  OBVIOUS
<1>3. i # 1
  BY <1>1, <1>2
<1>4. i - 1 \in 1 .. Len(s) /\ s[i - 1] \in Nat /\ i - 1 \notin Off
  <2> HIDE DEF Off
  <2>1. i - 1 \in 1 .. Len(s)
    BY <1>2, <1>3
  <2>2. \A k \in 1 .. Len(s) : s[k] \in Nat
    OBVIOUS
  <2>3. i - 1 \notin Off
    BY <1>1, <1>2
  <2> QED BY <2>1, <2>2, <2>3, Zenon
<1>5. s[i - 1] > s[i] /\ s[1] >= s[i - 1] + ((i - 1) - 1)
  <2>1. i - 1 < i
    BY <1>2
  <2> QED BY <1>2, <1>4, <2>1
<1>6. i \in Off
  BY <1>1
<1>7. ~(s[1] >= s[i] + (i - 1))
  BY <1>6
<1> HIDE DEF Off
<1> QED BY <1>2, <1>4, <1>5, <1>7

\* What the index becomes of a new event, and of one that is deleted.
LEMMA PrependExact ==
  ASSUME NEW s \in Seq(Nat), NEW n \in Nat \ {0}, NEW E \in SUBSET (1 .. n), n \in E,
         Exact(s, E \ {n}, n - 1)
  PROVE  Bounded(<<n>> \o s) \in Seq(Nat) /\ Exact(Bounded(<<n>> \o s), E, n)
<1> DEFINE t == <<n>> \o s
           b == Bounded(t)
<1>1. /\ t \in Seq(Nat) /\ Len(t) = Len(s) + 1 /\ Len(s) \in Nat /\ t[1] = n
      /\ \A i \in 2 .. Len(t) : t[i] = s[i - 1] /\ i - 1 \in 1 .. Len(s)
  OBVIOUS
<1>2. MaxEntries \in Nat \ {0}
  BY MessagingAssumption
<1> HIDE DEF t
<1>3. /\ b \in Seq(Nat) /\ Len(b) = Shorter(MaxEntries, Len(t))
      /\ Len(b) <= Len(t) /\ Len(b) <= MaxEntries
      /\ Len(b) \in Nat
      /\ \A i \in 1 .. Len(b) : b[i] = t[i]
  <2> DEFINE m == Shorter(MaxEntries, Len(t))
  <2>1. m \in Nat \ {0} /\ m <= Len(t) /\ m <= MaxEntries /\ b = SubSeq(t, 1, m)
    BY <1>1, <1>2 DEF Bounded, Shorter
  <2>2. \A i \in 1 .. m : t[i] \in Nat
    BY <1>1, <2>1
  <2> HIDE DEF b, m
  <2>3. b \in Seq(Nat) /\ Len(b) = m /\ \A i \in 1 .. m : b[i] = t[1 + i - 1]
    BY <2>1, <2>2, SubSeqProperties
  <2>4. \A i \in 1 .. m : 1 + i - 1 = i
    BY <2>1
  <2> QED BY <1>1, <2>1, <2>3, <2>4 DEF m
<1>4. \A i \in 1 .. Len(s) : s[i] \in E \ {n} /\ s[i] \in Nat /\ s[i] < n
  BY DEF Exact
<1>5. \A i, j \in 1 .. Len(t) : i < j => t[i] > t[j]
  <2> SUFFICES ASSUME NEW i \in 1 .. Len(t), NEW j \in 1 .. Len(t), i < j
               PROVE  t[i] > t[j]
    OBVIOUS
  <2>1. j \in 2 .. Len(t)
    BY <1>1
  <2>2. CASE i = 1
    BY <1>1, <1>4, <2>1, <2>2
  <2>3. CASE i # 1
    <3>1. i \in 2 .. Len(t)
      BY <1>1, <2>3
    <3>2. t[i] = s[i - 1] /\ i - 1 \in 1 .. Len(s)
      BY <1>1, <3>1, Zenon
    <3>3. t[j] = s[j - 1] /\ j - 1 \in 1 .. Len(s)
      BY <1>1, <2>1, Zenon
    <3>4. i - 1 < j - 1
      BY <2>1, <3>1
    <3> QED BY <3>2, <3>3, <3>4, Zenon DEF Exact
  <2> QED BY <2>2, <2>3
<1>6. \A i \in 1 .. Len(t) : t[i] \in E
  <2> TAKE i \in 1 .. Len(t)
  <2>1. CASE i = 1
    BY <1>1, <2>1
  <2>2. CASE i # 1
    <3>1. i \in 2 .. Len(t)
      BY <1>1, <2>2
    <3> QED BY <1>1, <1>4, <3>1
  <2> QED BY <2>1, <2>2
<1>7. ASSUME NEW e \in E, \A i \in 1 .. Len(b) : b[i] # e
      PROVE  n >= e + MaxEntries
  <2>1. e \in Nat /\ e # n
    <3>1. 1 \in 1 .. Len(b) /\ b[1] = n
      BY <1>1, <1>2, <1>3 DEF Shorter
    <3> QED BY <1>7, <3>1
  <2>2. CASE \E i \in 1 .. Len(s) : s[i] = e
    <3>1. PICK i \in 1 .. Len(s) : s[i] = e
      BY <2>2
    <3>2. i + 1 \in 2 .. Len(t) /\ t[i + 1] = e
      <4>1. i + 1 \in 2 .. Len(t) /\ (i + 1) - 1 = i
        BY <1>1
      <4> QED BY <1>1, <3>1, <4>1
    <3>3. i + 1 \notin 1 .. Len(b)
      BY <1>3, <1>7, <3>2
    <3>4. i + 1 > MaxEntries
      BY <1>1, <1>2, <1>3, <3>1, <3>3 DEF Shorter
    <3>5. t[1] >= t[i + 1] + ((i + 1) - 1)
      <4>1. \A j \in 1 .. Len(t) : t[1] >= t[j] + (j - 1)
        BY <1>1, <1>5, FallsByPlace
      <4> QED BY <3>2, <4>1
    <3> QED BY <1>1, <1>2, <2>1, <3>2, <3>4, <3>5
  <2>3. CASE \A i \in 1 .. Len(s) : s[i] # e
    BY <1>2, <2>1, <2>3 DEF Exact
  <2> QED BY <2>2, <2>3
<1>8. /\ \A i, j \in 1 .. Len(b) : i < j => b[i] > b[j]
      /\ \A i \in 1 .. Len(b) : b[i] \in E
  <2>1. \A i \in 1 .. Len(b) : i \in 1 .. Len(t)
    BY <1>1, <1>3
  <2> QED BY <1>3, <1>5, <1>6, <2>1
<1>9. b \in Seq(Nat) /\ Exact(b, E, n)
  <2> HIDE DEF b
  <2> QED BY <1>3, <1>7, <1>8 DEF Exact
<1> QED BY <1>9 DEF t

\* A listed element divides the list.
LEMMA WithoutFacts ==
  ASSUME NEW s \in Seq(Nat), NEW e, \E i \in 1 .. Len(s) : s[i] = e
  PROVE  \E k \in 1 .. Len(s), b, a \in Seq(Nat) :
           /\ s[k] = e /\ Without(s, e) = b \o a
           /\ Len(b) = k - 1 /\ \A i \in 1 .. (k - 1) : b[i] = s[i]
           /\ Len(a) = Len(s) - k /\ \A i \in 1 .. (Len(s) - k) : a[i] = s[i + k]
<1> DEFINE k == CHOOSE i \in DOMAIN s : s[i] = e
           b == SubSeq(s, 1, k - 1)
           a == SubSeq(s, k + 1, Len(s))
<1>1. DOMAIN s = 1 .. Len(s) /\ Len(s) \in Nat
  OBVIOUS
<1>2. Without(s, e) = b \o a
  BY <1>1, Zenon DEF Without
<1>3. k \in 1 .. Len(s) /\ s[k] = e
  BY <1>1
<1> HIDE DEF k
<1>4. b \in Seq(Nat) /\ Len(b) = k - 1 /\ \A i \in 1 .. (k - 1) : b[i] = s[i]
  <2>1. \A i \in 1 .. (k - 1) : s[i] \in Nat
    BY <1>1, <1>3
  <2>2. 1 \in Int /\ k - 1 \in Int
    BY <1>1, <1>3
  <2>3. /\ b \in Seq(Nat) /\ Len(b) = IF 1 <= k - 1 THEN (k - 1) - 1 + 1 ELSE 0
        /\ \A i \in 1 .. (k - 1) - 1 + 1 : b[i] = s[1 + i - 1]
    BY <2>1, <2>2, SubSeqProperties
  <2> HIDE DEF b
  <2>4. Len(b) = k - 1 /\ (k - 1) - 1 + 1 = k - 1 /\ \A i \in 1 .. (k - 1) : 1 + i - 1 = i
    BY <1>1, <1>3, <2>3
  <2> QED BY <2>3, <2>4
<1>5. a \in Seq(Nat) /\ Len(a) = Len(s) - k /\ \A i \in 1 .. (Len(s) - k) : a[i] = s[i + k]
  <2>1. \A i \in (k + 1) .. Len(s) : s[i] \in Nat
    BY <1>1, <1>3
  <2>2. k + 1 \in Int /\ Len(s) \in Int
    BY <1>1, <1>3
  <2>3. /\ a \in Seq(Nat) /\ Len(a) = IF k + 1 <= Len(s) THEN Len(s) - (k + 1) + 1 ELSE 0
        /\ \A i \in 1 .. Len(s) - (k + 1) + 1 : a[i] = s[(k + 1) + i - 1]
    BY <2>1, <2>2, SubSeqProperties
  <2> HIDE DEF a
  <2>4. Len(a) = Len(s) - k /\ Len(s) - (k + 1) + 1 = Len(s) - k
    <3>1. Len(a) = IF k + 1 <= Len(s) THEN Len(s) - (k + 1) + 1 ELSE 0
      BY <2>3
    <3>2. k \in Nat /\ k <= Len(s) /\ Len(s) \in Nat
      BY <1>1, <1>3
    <3>3. Len(s) - (k + 1) + 1 = Len(s) - k
      BY <3>2
    <3>4. Len(a) = Len(s) - k
      BY <3>1, <3>2
    <3> QED BY <3>3, <3>4
  <2>5. \A i \in 1 .. (Len(s) - k) : (k + 1) + i - 1 = i + k
    BY <1>1, <1>3
  <2> QED BY <2>3, <2>4, <2>5
<1> HIDE DEF a, b
<1> QED BY <1>2, <1>3, <1>4, <1>5

LEMMA WithoutTyped ==
  ASSUME NEW s \in Seq(Nat), NEW e
  PROVE  Without(s, e) \in Seq(Nat)
<1>1. CASE \A i \in 1 .. Len(s) : s[i] # e
  <2>1. Without(s, e) = s
    BY <1>1 DEF Without
  <2> QED BY <2>1
<1>2. CASE \E i \in 1 .. Len(s) : s[i] = e
  <2>1. PICK b \in Seq(Nat), a \in Seq(Nat) : Without(s, e) = b \o a
    BY <1>2, WithoutFacts
  <2> QED BY <2>1, ConcatProperties
<1> QED BY <1>1, <1>2

LEMMA WithoutExact ==
  ASSUME NEW s \in Seq(Nat), NEW n \in Nat, NEW e, NEW E, e \notin E,
         Exact(s, E \cup {e}, n)
  PROVE  Exact(Without(s, e), E, n)
<1>1. CASE \A i \in 1 .. Len(s) : s[i] # e
  <2>1. Without(s, e) = s
    BY <1>1 DEF Without
  <2> QED BY <1>1, <2>1 DEF Exact
<1>2. CASE \E i \in 1 .. Len(s) : s[i] = e
  <2> DEFINE w == Without(s, e)
  <2>1. PICK k \in 1 .. Len(s), b \in Seq(Nat), a \in Seq(Nat) :
          /\ s[k] = e /\ w = b \o a
          /\ Len(b) = k - 1 /\ \A i \in 1 .. (k - 1) : b[i] = s[i]
          /\ Len(a) = Len(s) - k /\ \A i \in 1 .. (Len(s) - k) : a[i] = s[i + k]
    BY <1>2, WithoutFacts
  <2> DEFINE Old(i) == IF i < k THEN i ELSE i + 1
  <2>2. Len(s) \in Nat /\ k \in Nat /\ k >= 1 /\ k <= Len(s)
    OBVIOUS
  <2>3. /\ Len(w) = Len(b) + Len(a)
        /\ \A i \in 1 .. Len(b) + Len(a) : w[i] = IF i <= Len(b) THEN b[i] ELSE a[i - Len(b)]
    <3>1. /\ Len(b \o a) = Len(b) + Len(a)
          /\ \A i \in 1 .. Len(b) + Len(a) :
               (b \o a)[i] = IF i <= Len(b) THEN b[i] ELSE a[i - Len(b)]
      BY ConcatProperties
    <3> QED BY <2>1, <3>1, Zenon
  <2> HIDE DEF w
  <2>4. Len(w) = Len(s) - 1 /\ \A i \in 1 .. Len(w) : w[i] = s[Old(i)] /\ Old(i) \in 1 .. Len(s) /\ Old(i) # k
    <3>1. Len(w) = Len(s) - 1
      BY <2>1, <2>2, <2>3
    <3> SUFFICES ASSUME NEW i \in 1 .. Len(w)
                 PROVE  w[i] = s[Old(i)] /\ Old(i) \in 1 .. Len(s) /\ Old(i) # k
      BY <3>1
    <3>2. CASE i < k
      <4>1. i \in Nat /\ i >= 1 /\ i <= Len(s) /\ i <= k - 1 /\ i \in 1 .. (k - 1)
        BY <2>2, <3>1, <3>2
      <4>2. i \in 1 .. Len(b) + Len(a) /\ i <= Len(b)
        BY <2>1, <2>2, <2>3, <3>1, <4>1
      <4>3. w[i] = b[i] /\ b[i] = s[i]
        BY <2>1, <2>3, <4>1, <4>2, Zenon
      <4>4. Old(i) = i /\ i \in 1 .. Len(s) /\ i # k
        BY <2>2, <3>2, <4>1
      <4> QED BY <4>3, <4>4
    <3>3. CASE ~(i < k)
      <4>1. w[i] = a[i - Len(b)] /\ i - Len(b) \in 1 .. (Len(s) - k)
        <5>1. i \in Nat /\ i >= k /\ i <= Len(s) - 1 /\ Len(b) = k - 1 /\ Len(a) = Len(s) - k
          BY <2>1, <2>2, <3>1, <3>3
        <5>2. i \in 1 .. Len(b) + Len(a) /\ ~(i <= Len(b))
          BY <2>2, <5>1
        <5>3. w[i] = a[i - Len(b)]
          BY <2>3, <5>2, Zenon
        <5>4. i - Len(b) \in 1 .. (Len(s) - k)
          BY <2>2, <5>1
        <5> QED BY <5>3, <5>4
      <4>2. (i - Len(b)) + k = i + 1
        BY <2>1, <2>2, <3>1
      <4>3. a[i - Len(b)] = s[i + 1]
        BY <2>1, <4>1, <4>2
      <4>4. Old(i) = i + 1 /\ i + 1 \in 1 .. Len(s) /\ i + 1 # k
        BY <2>2, <3>1, <3>3
      <4> QED BY <4>1, <4>3, <4>4
    <3> QED BY <3>2, <3>3
  <2>5. \A j \in (1 .. Len(s)) \ {k} : \E i \in 1 .. Len(w) : Old(i) = j
    <3> TAKE j \in (1 .. Len(s)) \ {k}
    <3>1. CASE j < k
      <4>1. j \in 1 .. Len(w) /\ Old(j) = j
        BY <2>2, <2>4, <3>1
      <4> QED BY <4>1
    <3>2. CASE j > k
      <4>1. j - 1 \in 1 .. Len(w) /\ Old(j - 1) = j
        BY <2>2, <2>4, <3>2
      <4> QED BY <4>1
    <3> QED BY <2>2, <3>1, <3>2
  <2>6. \A i, j \in 1 .. Len(w) : i < j => w[i] > w[j]
    <3> SUFFICES ASSUME NEW i \in 1 .. Len(w), NEW j \in 1 .. Len(w), i < j
                 PROVE  w[i] > w[j]
      OBVIOUS
    <3>1. Old(i) < Old(j)
      BY <2>2
    <3> QED BY <2>4, <3>1 DEF Exact
  <2>7. \A i \in 1 .. Len(w) : w[i] \in E
    <3> TAKE i \in 1 .. Len(w)
    <3>1. PICK j \in 1 .. Len(s) : w[i] = s[j] /\ (j < k \/ k < j)
      <4>1. w[i] = s[Old(i)] /\ Old(i) \in 1 .. Len(s) /\ Old(i) # k
        BY <2>4
      <4>2. \A j \in 1 .. Len(s) : j # k => j < k \/ k < j
        BY <2>2
      <4> HIDE DEF Old
      <4> QED BY <4>1, <4>2
    <3>2. s[j] \in Nat /\ s[k] \in Nat
      OBVIOUS
    <3>3. s[j] # s[k]
      BY <3>1, <3>2 DEF Exact
    <3> QED BY <2>1, <3>1, <3>3 DEF Exact
  <2>8. ASSUME NEW x \in E, \A i \in 1 .. Len(w) : w[i] # x
        PROVE  n >= x + MaxEntries
    <3>1. \A j \in 1 .. Len(s) : s[j] # x
      <4> TAKE j \in 1 .. Len(s)
      <4>1. CASE j = k
        BY <2>1, <2>8, <4>1
      <4>2. CASE j # k
        <5>1. PICK i \in 1 .. Len(w) : Old(i) = j
          BY <2>5, <4>2
        <5> QED BY <2>4, <2>8, <5>1
      <4> QED BY <4>1, <4>2
    <3> QED BY <3>1 DEF Exact
  <2>9. Len(w) <= MaxEntries
    BY <2>1, <2>4, MessagingAssumption DEF Exact
  <2> QED BY <2>6, <2>7, <2>8, <2>9 DEF w, Exact
<1> QED BY <1>1, <1>2

----------------------------------------------------------------------------
(* A step of a caller and the log.                                         *)

\* What a step keeps of the log's types, and who it lets alone.
LogFrame(c) ==
  /\ LogTyped'
  /\ pc' \in [Callers -> Points]
  /\ \A d \in Callers \ {c} : pc'[d] = pc[d] /\ snap'[d] = snap[d] /\ event'[d] = event[d]

LEMMA LeaveLog ==
  ASSUME IInv, LogTyped, NEW c \in Callers, Leave(c), UNCHANGED log
  PROVE  LogFrame(c) /\ pc'[c] = "idle"
<1>1. /\ last' = last /\ events' = events /\ index' = index
      /\ pc' = [pc EXCEPT ![c] = "idle"]
      /\ event' = [event EXCEPT ![c] = 0] /\ snap' = [snap EXCEPT ![c] = <<>>]
  BY DEF Leave, Goto, NoEvent, log
<1>2. <<>> \in Seq(Nat) /\ "idle" \in Points
  BY DEF Points
<1> QED BY <1>1, <1>2 DEF LogTyped, LogFrame, IInv, Typed

LEMMA GoLog ==
  ASSUME IInv, LogTyped, NEW c \in Callers, NEW point \in Points \ {"writeEvent"}, Goto(c, point),
         UNCHANGED <<log, snap, event>>
  PROVE  LogFrame(c) /\ pc'[c] = point
<1>1. /\ last' = last /\ events' = events /\ index' = index
      /\ pc' = [pc EXCEPT ![c] = point] /\ event' = event /\ snap' = snap
  BY DEF Goto, log
<1> QED BY <1>1 DEF LogTyped, LogFrame, IInv, Typed

LEMMA NotRaced ==
  ASSUME NEW c \in Callers, Watch(c), raced \in BOOLEAN, ~raced'
  PROVE  ~raced /\ ~(faults' # faults /\ pc[c] \in Logging) /\ Alone'
<1>1. /\ ~raced
      /\ ~(faults' # faults /\ pc[c] \in Logging)
      /\ ~(\E a, b \in Callers : a # b /\ {pc'[a], pc'[b]} \subseteq Logging)
  BY Zenon DEF Watch
<1>2. Alone'
  BY <1>1 DEF Alone
<1> QED BY <1>1, <1>2

\* A step that only comes to the log, or stays away from it, or ends a call in the
\* middle of it.
LEMMA AwayKept ==
  ASSUME IInv, LogInv, NEW c \in Callers, Watch(c), LogFrame(c), UNCHANGED <<index, events, last>>,
         \/ pc[c] \notin Logging /\ pc'[c] \notin Logging \ {"readIndex", "delete"}
         \/ pc[c] = "lookUp" /\ pc'[c] \notin Logging
         \/ faults' # faults /\ pc[c] \in Logging
  PROVE  LogInv'
<1>1. raced' \in BOOLEAN
  BY DEF Watch
<1>2. SUFFICES ASSUME ~raced'
               PROVE  /\ Alone'
                      /\ \A d \in Callers : Writing(d)'
                      /\ (\A d \in Callers : pc'[d] \notin Logging) => Exact(index, events, last)'
  BY <1>1 DEF LogInv, LogFrame
<1>3. ~raced /\ ~(faults' # faults /\ pc[c] \in Logging) /\ Alone'
  BY <1>2, NotRaced DEF LogInv
<1>4. Alone /\ (\A d \in Callers : Writing(d))
      /\ ((\A d \in Callers : pc[d] \notin Logging) => Exact(index, events, last))
  BY <1>3 DEF LogInv
<1>5. \/ pc[c] \notin Logging /\ pc'[c] \notin Logging
      \/ pc[c] \notin Logging /\ pc'[c] \in {"readIndex", "delete"}
      \/ pc[c] = "lookUp" /\ pc'[c] \notin Logging
  BY <1>3
<1>6. \A d \in Callers \ {c} : pc'[d] = pc[d] /\ snap'[d] = snap[d] /\ event'[d] = event[d]
  BY DEF LogFrame
<1>7. index' = index /\ events' = events /\ last' = last
  OBVIOUS
<1>8. \A d \in Callers \ {c} : Writing(d)'
  BY <1>4, <1>6, <1>7 DEF Writing
<1>9. CASE pc[c] \notin Logging /\ pc'[c] \notin Logging
  <2>1. Writing(c)'
    BY <1>9 DEF Writing, Logging
  <2>2. (\A d \in Callers : pc'[d] \notin Logging) => Exact(index, events, last)
    BY <1>4, <1>6, <1>9, Zenon
  <2> QED BY <1>3, <1>7, <1>8, <2>1, <2>2, Zenon DEF Exact
<1>10. CASE pc[c] \notin Logging /\ pc'[c] \in {"readIndex", "delete"}
  <2>1. \A d \in Callers : pc[d] \notin Logging
    BY <1>3, <1>6, <1>10 DEF Alone, Logging
  <2>2. Exact(index, events, last)
    BY <1>4, <2>1, Zenon
  <2>3. Writing(c)'
    BY <1>7, <1>10, <2>2 DEF Writing, Exact
  <2>4. pc'[c] \in Logging
    BY <1>10 DEF Logging
  <2> QED BY <1>3, <1>8, <2>3, <2>4, Zenon
<1>11. CASE pc[c] = "lookUp" /\ pc'[c] \notin Logging
  <2>1. Exact(index, events, last)
    BY <1>4, <1>11, Zenon DEF Writing
  <2>2. Writing(c)'
    BY <1>11 DEF Writing, Logging
  <2> QED BY <1>3, <1>7, <1>8, <2>1, <2>2, Zenon DEF Exact
<1> QED BY <1>5, <1>9, <1>10, <1>11

\* A step of a writer that is alone and not struck.
LEMMA WriterKept ==
  ASSUME IInv, LogInv, NEW c \in Callers, Watch(c), LogFrame(c), pc[c] \in Logging,
         ~raced /\ Writing(c) /\ faults' = faults => 
           /\ pc'[c] \in Logging => Writing(c)'
           /\ pc'[c] \notin Logging => Exact(index, events, last)'
  PROVE  LogInv'
<1>1. raced' \in BOOLEAN
  BY DEF Watch
<1>2. SUFFICES ASSUME ~raced'
               PROVE  /\ Alone'
                      /\ \A d \in Callers : Writing(d)'
                      /\ (\A d \in Callers : pc'[d] \notin Logging) => Exact(index, events, last)'
  BY <1>1 DEF LogInv, LogFrame
<1>3. ~raced /\ faults' = faults /\ Alone'
  BY <1>2, NotRaced DEF LogInv
<1>4. Alone /\ Writing(c)
  BY <1>3 DEF LogInv
<1>5. /\ pc'[c] \in Logging => Writing(c)'
      /\ pc'[c] \notin Logging => Exact(index, events, last)'
  BY <1>3, <1>4
<1>6. \A d \in Callers \ {c} : pc'[d] \notin Logging
  BY <1>4 DEF Alone, LogFrame
<1>7. \A d \in Callers : pc'[d] \notin Logging => Writing(d)'
  BY DEF Writing, Logging
<1> QED BY <1>3, <1>5, <1>6, <1>7, Zenon

LEMMA BoundedTyped ==
  ASSUME NEW s \in Seq(Nat)
  PROVE  Bounded(s) \in Seq(Nat)
<1> DEFINE m == Shorter(MaxEntries, Len(s))
<1>1. m \in Nat /\ m <= Len(s) /\ Len(s) \in Nat
  BY MessagingAssumption DEF Shorter
<1>2. \A i \in 1 .. m : s[i] \in Nat
  BY <1>1
<1> HIDE DEF m
<1>3. SubSeq(s, 1, m) \in Seq(Nat)
  BY <1>1, <1>2, SubSeqProperties
<1> QED BY <1>3 DEF m, Bounded

LEMMA SendLog ==
  ASSUME IInv, LogInv, NEW c \in Callers, Watch(c), Send(c)
  PROVE  LogInv'
<1>1. pc[c] = "send" /\ UNCHANGED log
  BY DEF Send, At
<1>2. UNCHANGED <<index, events, last>>
  BY <1>1 DEF log
<1>3. CASE Leave(c)
  BY <1>1, <1>2, <1>3, LeaveLog, AwayKept DEF Logging, LogInv
<1>4. CASE Goto(c, "readIndex") /\ UNCHANGED <<event, snap>>
  <2>1. LogFrame(c) /\ pc'[c] = "readIndex"
    BY <1>1, <1>4, GoLog DEF Points, LogInv
  <2> QED BY <1>1, <1>2, <2>1, AwayKept DEF Logging
<1>5. CASE UNCHANGED <<pc, event, snap>>
  <2>1. LogFrame(c)
    BY <1>2, <1>5 DEF LogFrame, LogTyped, LogInv, IInv, Typed
  <2> QED BY <1>1, <1>2, <1>5, <2>1, AwayKept DEF Logging
<1> QED BY <1>3, <1>4, <1>5 DEF Send, Sent, NotSent, Throw, locals

\* The rest of the steps that leave the log as it is.
LEMMA OtherLog ==
  ASSUME IInv, LogInv, NEW c \in Callers, Watch(c),
         \/ Enqueue(c) \/ Get(c) \/ Set(c) \/ Check(c) \/ Mark(c) \/ Handle(c)
         \/ Request(c) \/ CutShort(c) \/ \E j \in DOMAIN jobs : RunJob(c, j)
  PROVE  LogInv'
<1> DEFINE Away(c1) == \/ pc[c1] \notin Logging
                       \/ faults' # faults /\ pc[c1] \in Logging
<1>1. CASE \/ Enqueue(c) \/ Get(c) \/ Set(c) \/ Check(c) \/ Mark(c) \/ Handle(c) \/ CutShort(c)
  <2>1. UNCHANGED log
    BY <1>1 DEF Enqueue, Get, Set, Check, Mark, Handle, CutShort
  <2>2. Away(c)
    <3>1. CASE CutShort(c)
      BY <3>1 DEF CutShort, Strike, IInv, Typed
    <3>2. CASE ~CutShort(c)
      BY <1>1, <3>2 DEF Enqueue, Get, Set, Check, Mark, Handle, At, Logging
    <3> QED BY <3>1, <3>2
  <2>3. UNCHANGED <<index, events, last>>
    BY <2>1 DEF log
  <2>4. CASE Leave(c)
    BY <2>1, <2>2, <2>3, <2>4, LeaveLog, AwayKept DEF Logging, LogInv
  <2>5. CASE \E point \in {"send", "mark", "handle"} : Go(c, point)
    <3>1. PICK point \in {"send", "mark", "handle"} : Go(c, point)
      BY <2>5
    <3>2. LogFrame(c) /\ pc'[c] = point
      BY <2>1, <3>1, GoLog DEF Go, locals, Points, LogInv
    <3> QED BY <2>2, <2>3, <3>2, AwayKept DEF Logging
  <2> QED BY <1>1, <2>4, <2>5 DEF Enqueue, Get, Set, Check, Mark, Handle, Pass, CutShort, Answer,
       Throw
<1>2. CASE Request(c)
  <2>1. PICK e \in 0 .. last, point \in {"get", "enqueue", "delete", "check"} :
          \E kind, s : Begin(c, kind, s, e, point)
    <3>1. 0 \in 0 .. last /\ \A e \in 1 .. last : e \in 0 .. last
      BY DEF LogInv, LogTyped
    <3>2. CASE \E r \in Requests : BeginSend(c, r) \/ BeginQueue(c, r)
      BY <3>1, <3>2, Zenon DEF BeginSend, BeginQueue, NoEvent
    <3>3. CASE \E e \in 1 .. last : BeginDelete(c, e)
      BY <3>1, <3>3, Zenon DEF BeginDelete
    <3>4. CASE \E n \in Notices : BeginVerify(c, n) \/ BeginRoute(c, n)
      BY <3>1, <3>4, Zenon DEF BeginVerify, BeginRoute, NoEvent
    <3> QED BY <1>2, <3>2, <3>3, <3>4, Zenon DEF Request
  <2>2. /\ pc[c] = "idle" /\ pc' = [pc EXCEPT ![c] = point] /\ event' = [event EXCEPT ![c] = e]
        /\ snap' = snap /\ index' = index /\ events' = events /\ last' = last
    BY <2>1 DEF Begin, At, Goto, log
  <2>3. LogFrame(c) /\ pc'[c] = point
    BY <2>2 DEF LogFrame, LogTyped, LogInv, IInv, Typed, Points
  <2> QED BY <2>2, <2>3, AwayKept DEF Logging
<1>3. CASE \E j \in DOMAIN jobs : RunJob(c, j)
  <2>1. pc[c] = "idle" /\ Goto(c, "get") /\ UNCHANGED <<log, snap, event>>
    BY <1>3 DEF RunJob, At, locals
  <2>2. LogFrame(c) /\ pc'[c] = "get" /\ UNCHANGED <<index, events, last>>
    BY <2>1, GoLog DEF Points, LogInv, log
  <2> QED BY <2>1, <2>2, AwayKept DEF Logging
<1> QED BY <1>1, <1>2, <1>3

LEMMA ReadIndexLog ==
  ASSUME IInv, LogInv, NEW c \in Callers, Watch(c), ReadIndex(c)
  PROVE  LogInv'
<1>1. /\ pc[c] = "readIndex" /\ pc' = [pc EXCEPT ![c] = "writeEvent"]
      /\ last' = last + 1 /\ event' = [event EXCEPT ![c] = last + 1]
      /\ index' = index /\ events' = events
      /\ \/ snap' = [snap EXCEPT ![c] = index] /\ faults' = faults
         \/ snap' = [snap EXCEPT ![c] = <<>>] /\ faults' = faults + 1
  BY DEF ReadIndex, At, Goto, Strike
<1>2. LogTyped
  BY DEF LogInv
<1>3. LogFrame(c)
  <2>1. snap' \in [Callers -> Seq(Nat)]
    <3>1. <<>> \in Seq(Nat) /\ index \in Seq(Nat) /\ snap \in [Callers -> Seq(Nat)]
      BY <1>2 DEF LogTyped
    <3> QED BY <1>1, <3>1
  <2>2. last' \in Nat /\ events' \subseteq 1 .. last' /\ event' \in [Callers -> Nat] /\ index' \in Seq(Nat)
    BY <1>1, <1>2 DEF LogTyped
  <2>3. pc' \in [Callers -> Points]
    BY <1>1 DEF IInv, Typed, Points
  <2>4. \A d \in Callers : event'[d] <= last' /\ (pc'[d] = "writeEvent" => event'[d] > 0)
    <3> TAKE d \in Callers
    <3>1. CASE d = c
      BY <1>1, <1>2, <3>1 DEF LogTyped
    <3>2. CASE d # c
      <4>1. event'[d] = event[d] /\ pc'[d] = pc[d] /\ event[d] \in Nat /\ last \in Nat
        BY <1>1, <1>2, <3>2 DEF LogTyped, IInv, Typed
      <4>2. event[d] <= last /\ (pc[d] = "writeEvent" => event[d] > 0)
        BY <1>2 DEF LogTyped
      <4> QED BY <1>1, <4>1, <4>2
    <3> QED BY <3>1, <3>2
  <2>5. \A d \in Callers \ {c} : pc'[d] = pc[d] /\ snap'[d] = snap[d] /\ event'[d] = event[d]
    BY <1>1, <1>2 DEF LogTyped, IInv, Typed
  <2> QED BY <2>1, <2>2, <2>3, <2>4, <2>5 DEF LogFrame, LogTyped
<1>4. faults' = faults => snap' = [snap EXCEPT ![c] = index]
  BY <1>1 DEF IInv, Typed
<1>5. ASSUME Writing(c), faults' = faults
      PROVE  pc'[c] = "writeEvent" /\ Writing(c)'
  <2>1. pc'[c] = "writeEvent" /\ snap'[c] = index' /\ event'[c] = last'
    BY <1>1, <1>2, <1>4, <1>5 DEF LogTyped, IInv, Typed
  <2>2. last' > 0 /\ last' \notin events' /\ last' - 1 = last
    BY <1>1, <1>2 DEF LogTyped
  <2>3. Exact(index', events', last' - 1)
    BY <1>1, <1>5, <2>2 DEF Writing
  <2> QED BY <2>1, <2>2, <2>3 DEF Writing
<1> QED BY <1>1, <1>3, <1>5, WriterKept DEF Logging

LEMMA WriteEventLog ==
  ASSUME IInv, LogInv, NEW c \in Callers, Watch(c), WriteEvent(c)
  PROVE  LogInv'
<1>1. /\ pc[c] = "writeEvent" /\ pc' = [pc EXCEPT ![c] = "writeIndex"]
      /\ last' = last /\ event' = event /\ snap' = snap /\ index' = index
      /\ \/ events' = events \cup {event[c]} /\ faults' = faults
         \/ events' = events /\ faults' = faults + 1
  BY DEF WriteEvent, At, Go, Goto, Strike, locals
<1>2. LogTyped
  BY DEF LogInv
<1>3. faults' = faults => events' = events \cup {event[c]}
  BY <1>1 DEF IInv, Typed
<1>4. event[c] \in 1 .. last
  BY <1>1, <1>2 DEF LogTyped
<1>5. LogFrame(c)
  BY <1>1, <1>2, <1>4 DEF LogFrame, LogTyped, IInv, Typed, Points
<1>6. ASSUME Writing(c), faults' = faults
      PROVE  pc'[c] = "writeIndex" /\ Writing(c)'
  <2>1. pc'[c] = "writeIndex" /\ snap'[c] = index' /\ event'[c] = last'
    BY <1>1, <1>6 DEF Writing, IInv, Typed
  <2>2. last' \in events' /\ events' \ {last'} = events
    BY <1>1, <1>3, <1>6 DEF Writing
  <2>3. Exact(index', events' \ {last'}, last' - 1)
    BY <1>1, <1>6, <2>2 DEF Writing
  <2> QED BY <2>1, <2>2, <2>3 DEF Writing
<1> QED BY <1>1, <1>5, <1>6, WriterKept DEF Logging

LEMMA WriteIndexLog ==
  ASSUME IInv, LogInv, NEW c \in Callers, Watch(c), WriteIndex(c)
  PROVE  LogInv'
<1>1. /\ pc[c] = "writeIndex" /\ last' = last /\ events' = events /\ AfterLog(c)
      /\ \/ index' = Bounded(<<event[c]>> \o snap[c]) /\ faults' = faults
         \/ index' = index /\ faults' = faults + 1
  BY DEF WriteIndex, At, Strike
<1>2. LogTyped
  BY DEF LogInv
<1>3. faults' = faults => index' = Bounded(<<event[c]>> \o snap[c])
  BY <1>1 DEF IInv, Typed
<1>4. index' \in Seq(Nat)
  <2>1. <<event[c]>> \o snap[c] \in Seq(Nat)
    BY <1>2 DEF LogTyped
  <2>2. Bounded(<<event[c]>> \o snap[c]) \in Seq(Nat)
    BY <2>1, BoundedTyped
  <2> QED BY <1>1, <1>2, <2>2 DEF LogTyped
<1>5. pc'[c] \in {"idle", "set"} /\ LogFrame(c)
  <2>1. CASE Leave(c)
    <3>1. /\ pc' = [pc EXCEPT ![c] = "idle"]
          /\ event' = [event EXCEPT ![c] = 0] /\ snap' = [snap EXCEPT ![c] = <<>>]
      BY <2>1 DEF Leave, Goto, NoEvent
    <3>2. <<>> \in Seq(Nat)
      OBVIOUS
    <3> QED BY <1>1, <1>2, <1>4, <3>1, <3>2 DEF LogFrame, LogTyped, IInv, Typed, Points
  <2>2. CASE Go(c, "set")
    <3>1. pc' = [pc EXCEPT ![c] = "set"] /\ event' = event /\ snap' = snap
      BY <2>2 DEF Go, Goto, locals
    <3> QED BY <1>1, <1>2, <1>4, <3>1 DEF LogFrame, LogTyped, IInv, Typed, Points
  <2> QED BY <1>1, <2>1, <2>2 DEF AfterLog, Answer
<1>6. ASSUME Writing(c), faults' = faults
      PROVE  Exact(index', events', last')
  <2>1. /\ snap[c] = index /\ event[c] = last /\ last > 0 /\ last \in events
        /\ Exact(index, events \ {last}, last - 1)
    BY <1>1, <1>2, <1>6 DEF Writing, LogTyped
  <2>2. index \in Seq(Nat) /\ last \in Nat \ {0} /\ events \in SUBSET (1 .. last)
    BY <1>2, <2>1 DEF LogTyped
  <2>3. Exact(Bounded(<<last>> \o index), events, last)
    BY <2>1, <2>2, PrependExact
  <2> QED BY <1>1, <1>3, <1>6, <2>1, <2>3
<1>7. pc'[c] \notin Logging
  BY <1>5 DEF Logging
<1> QED BY <1>1, <1>5, <1>6, <1>7, WriterKept DEF Logging

LEMMA DeleteLog ==
  ASSUME IInv, LogInv, NEW c \in Callers, Watch(c), ReadForDelete(c) \/ Drop(c)
  PROVE  LogInv'
<1>1. LogTyped
  BY DEF LogInv
<1>2. CASE ReadForDelete(c)
  <2>1. /\ pc[c] = "delete" /\ pc' = [pc EXCEPT ![c] = "lookUp"]
        /\ last' = last /\ event' = event /\ index' = index /\ events' = events
        /\ \/ snap' = [snap EXCEPT ![c] = index] /\ faults' = faults
           \/ snap' = [snap EXCEPT ![c] = <<>>] /\ faults' = faults + 1
    BY <1>2 DEF ReadForDelete, At, Goto, Strike, log
  <2>2. snap' \in [Callers -> Seq(Nat)]
    <3>1. <<>> \in Seq(Nat) /\ index \in Seq(Nat) /\ snap \in [Callers -> Seq(Nat)]
      BY <1>1 DEF LogTyped
    <3> QED BY <2>1, <3>1
  <2>3. LogFrame(c)
    BY <1>1, <2>1, <2>2 DEF LogFrame, LogTyped, IInv, Typed, Points
  <2>4. faults' = faults => snap' = [snap EXCEPT ![c] = index]
    BY <2>1 DEF IInv, Typed
  <2>5. ASSUME Writing(c), faults' = faults
        PROVE  pc'[c] = "lookUp" /\ Writing(c)'
    <3>1. pc'[c] = "lookUp" /\ snap'[c] = index'
      BY <1>1, <2>1, <2>4, <2>5 DEF LogTyped, IInv, Typed
    <3>2. Exact(index', events', last')
      BY <2>1, <2>5 DEF Writing
    <3> QED BY <3>1, <3>2 DEF Writing
  <2> QED BY <2>1, <2>3, <2>5, WriterKept DEF Logging
<1>3. CASE Drop(c)
  <2>1. /\ pc[c] = "drop" /\ pc' = [pc EXCEPT ![c] = "unlist"]
        /\ last' = last /\ event' = event /\ snap' = snap /\ index' = index
        /\ \/ events' = events \ {event[c]} /\ faults' = faults
           \/ events' = events /\ faults' = faults + 1
    BY <1>3 DEF Drop, At, Go, Goto, Strike, locals
  <2>2. LogFrame(c)
    BY <1>1, <2>1 DEF LogFrame, LogTyped, IInv, Typed, Points
  <2>3. faults' = faults => events' = events \ {event[c]}
    BY <2>1 DEF IInv, Typed
  <2>4. ASSUME Writing(c), faults' = faults
        PROVE  pc'[c] = "unlist" /\ Writing(c)'
    <3>1. /\ pc'[c] = "unlist" /\ snap'[c] = index' /\ event'[c] \notin events'
          /\ Exact(index, events, last)
      BY <2>1, <2>3, <2>4 DEF Writing, IInv, Typed
    <3>2. Exact(index', events' \cup {event'[c]}, last')
      <4>1. events' \cup {event'[c]} = events
        BY <2>1, <2>3, <2>4 DEF Writing
      <4> QED BY <2>1, <3>1, <4>1
    <3> QED BY <3>1, <3>2 DEF Writing
  <2> QED BY <2>1, <2>2, <2>4, WriterKept DEF Logging
<1> QED BY <1>2, <1>3

LEMMA LookUpLog ==
  ASSUME IInv, LogInv, NEW c \in Callers, Watch(c), LookUp(c)
  PROVE  LogInv'
<1>1. pc[c] = "lookUp" /\ UNCHANGED log /\ LogTyped
  BY DEF LookUp, At, LogInv
<1>2. CASE Leave(c)
  <2>1. LogFrame(c) /\ pc'[c] = "idle" /\ UNCHANGED <<index, events, last>>
    BY <1>1, <1>2, LeaveLog DEF log
  <2> QED BY <1>1, <2>1, AwayKept DEF Logging
<1>3. CASE Go(c, "drop") /\ event[c] \in events
  <2>1. /\ LogFrame(c) /\ pc'[c] = "drop"
        /\ last' = last /\ events' = events /\ index' = index /\ snap' = snap /\ event' = event
    BY <1>1, <1>3, GoLog DEF Go, locals, Points, log
  <2>2. Writing(c) => Writing(c)'
    BY <1>1, <1>3, <2>1 DEF Writing
  <2> QED BY <1>1, <2>1, <2>2, WriterKept DEF Logging
<1> QED BY <1>2, <1>3 DEF LookUp, Throw

LEMMA UnlistLog ==
  ASSUME IInv, LogInv, NEW c \in Callers, Watch(c), Unlist(c)
  PROVE  LogInv'
<1>1. /\ pc[c] = "unlist" /\ pc' = [pc EXCEPT ![c] = "readIndex"]
      /\ last' = last /\ event' = event /\ snap' = snap /\ events' = events
      /\ \/ index' = Without(snap[c], event[c]) /\ faults' = faults
         \/ index' = index /\ faults' = faults + 1
  BY DEF Unlist, At, Go, Goto, Strike, locals
<1>2. LogTyped
  BY DEF LogInv
<1>3. LogFrame(c)
  <2>1. Without(snap[c], event[c]) \in Seq(Nat)
    BY <1>2, WithoutTyped DEF LogTyped
  <2> QED BY <1>1, <1>2, <2>1 DEF LogFrame, LogTyped, IInv, Typed, Points
<1>4. ASSUME Writing(c), faults' = faults
      PROVE  pc'[c] = "readIndex" /\ Writing(c)'
  <2>1. index' = Without(snap[c], event[c])
    BY <1>1, <1>4 DEF IInv, Typed
  <2>2. snap[c] = index /\ event[c] \notin events /\ Exact(index, events \cup {event[c]}, last)
    BY <1>1, <1>4 DEF Writing
  <2>3. index \in Seq(Nat) /\ last \in Nat
    BY <1>2 DEF LogTyped
  <2>4. Exact(Without(index, event[c]), events, last)
    BY <2>2, <2>3, WithoutExact
  <2>5. pc'[c] = "readIndex" /\ Exact(index', events', last')
    BY <1>1, <2>1, <2>2, <2>4 DEF IInv, Typed
  <2> QED BY <2>5 DEF Writing
<1> QED BY <1>1, <1>3, <1>4, WriterKept DEF Logging

LEMMA LogInvInit ==
  ASSUME Init
  PROVE  LogInv
<1>1. LogTyped
  BY DEF Init, LogTyped, NoEvent
<1>2. Exact(index, events, last)
  BY MessagingAssumption DEF Init, Exact
<1>3. \A c \in Callers : pc[c] = "idle" /\ Writing(c)
  BY DEF Init, Writing
<1> QED BY <1>1, <1>2, <1>3 DEF Init, LogInv, Alone, Logging

LEMMA LogInvStep ==
  ASSUME IInv, LogInv, [Next]_vars
  PROVE  LogInv'
<1>1. CASE UNCHANGED vars
  <2>1. /\ pc' = pc /\ last' = last /\ events' = events /\ index' = index
        /\ snap' = snap /\ event' = event /\ raced' = raced
    BY <1>1 DEF vars, log, locals, history
  <2> QED BY <2>1 DEF LogInv, LogTyped, Alone, Writing
<1>2. ASSUME NEW s \in Subjects, KeyExpires(s)
      PROVE  LogInv'
  <2>1. /\ pc' = pc /\ last' = last /\ events' = events /\ index' = index
        /\ snap' = snap /\ event' = event /\ raced' = raced
    BY <1>2 DEF KeyExpires, Expire, log, locals
  <2> QED BY <2>1 DEF LogInv, LogTyped, Alone, Writing
<1>3. ASSUME NEW c \in Callers, CallerNext(c)
      PROVE  LogInv'
  BY <1>3, SendLog, OtherLog, ReadIndexLog, WriteEventLog, WriteIndexLog, DeleteLog, LookUpLog,
     UnlistLog DEF CallerNext, Step
<1> QED BY <1>1, <1>2, <1>3 DEF Next

\* While writers of the log neither overlap nor are struck, the index lists stored
\* events newest first, and a stored event has been pushed out of it only by
\* MaxEntries newer ones; however many events there were, and deletes between them.
THEOREM LogTruthful == Spec => []LogExact
<1>1. Init => LogInv
  BY LogInvInit
<1>2. IInv /\ LogInv /\ [Next]_vars => LogInv'
  BY LogInvStep
<1>3. LogInv => LogExact
  <2> SUFFICES ASSUME LogInv, ~raced, \A c \in Callers : pc[c] \notin Logging
               PROVE  /\ \A i, j \in DOMAIN index : i < j => index[i] > index[j]
                      /\ \A i \in DOMAIN index : index[i] \in events
                      /\ \A e \in events :
                           (\A i \in DOMAIN index : index[i] # e) => last >= e + MaxEntries
    BY DEF LogExact
  <2>1. Exact(index, events, last) /\ DOMAIN index = 1 .. Len(index)
    BY DEF LogInv, LogTyped
  <2> QED BY <2>1 DEF Exact
<1> QED BY <1>1, <1>2, <1>3, Invariance, PTL DEF Spec

=============================================================================
