---------------------------- MODULE JobRegister ----------------------------
(***************************************************************************)
(* What the executions of module Jobs take the job store for: registers    *)
(* that change by compare-and-swap.  A swap takes effect at one moment;    *)
(* its caller learns of it later or, when the call throws, never.          *)
(***************************************************************************)
EXTENDS Naturals

CONSTANTS
  Callers,
  Jobs,
  NoJob,
  Statuses,
  Blank       \* the register of a job not stored yet, of version 0

VARIABLES
  reg,    \* version and status of each job
  held,   \* the copy each caller has: job and version
  pend    \* callers whose swap has taken effect and not yet returned

registerVars == <<reg, held, pend>>

None == [job |-> NoJob, version |-> 0]

Start ==
  /\ reg \in [Jobs -> {Blank} \cup [version : {1}, status : Statuses]]
  /\ held = [c \in Callers |-> None]
  /\ pend = {}

Fetch(c, j) ==
  /\ held[c] = None
  /\ held' = [held EXCEPT ![c] = [job |-> j, version |-> reg[j].version]]
  /\ UNCHANGED <<reg, pend>>

\* The copy is the latest: the register takes its next version.
Effect(c, st) ==
  /\ c \notin pend
  /\ held[c].job # NoJob
  /\ reg[held[c].job].version = held[c].version
  /\ reg' = [reg EXCEPT ![held[c].job] =
               [version |-> held[c].version + 1, status |-> st]]
  /\ pend' = pend \cup {c}
  /\ UNCHANGED held

\* When the call returns its caller holds the version that is stored.
Return(c) ==
  /\ c \in pend
  /\ reg[held[c].job].version = held[c].version + 1
  /\ held' = [held EXCEPT ![c].version = @ + 1]
  /\ pend' = pend \ {c}
  /\ UNCHANGED reg

\* The copy is given up, after an error too.
Drop(c) ==
  /\ held' = [held EXCEPT ![c] = None]
  /\ pend' = pend \ {c}
  /\ UNCHANGED reg

RegisterNext ==
  \E c \in Callers :
    \/ \E j \in Jobs : Fetch(c, j)
    \/ \E st \in Statuses : Effect(c, st)
    \/ Return(c)
    \/ Drop(c)

RegisterSpec == Start /\ [][RegisterNext]_registerVars

=============================================================================
