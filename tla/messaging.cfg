\* Every call and every fault.
CONSTANTS
  c1 = c1
  c2 = c2
  batch = batch
  single = single
  notice = notice
  NoSubject = NoSubject
  Callers <- MCCallers
  Requests <- MCRequests
  Size <- MCSize
  Notices <- MCNotices
  Retries = 1
  JobRetries = 1
  MaxEntries = 2
  MaxAsked = 3
  Faults <- AllFaults
  MaxFaults = 2
SPECIFICATION Spec
SYMMETRY MCSymmetry
INVARIANTS
  SentOnce
  AnsweredIsDelivered
  AcceptedOnce
  LogExact
CHECK_DEADLOCK FALSE
