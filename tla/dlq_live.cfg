\* Batches as wide as the queue, with an idempotency key of one's own or none.
CONSTANTS
  c1 = c1
  c2 = c2
  j1 = j1
  j2 = j2
  k1 = k1
  k2 = k2
  NoCaller = NoCaller
  NoJob = NoJob
  NoKey = NoKey
  Callers <- MCCallers
  Jobs <- MCJobs
  Keys <- MCKeys
  KeysOf <- OneKeyed
  Calls <- ReplayOnly
  Width = 2
  Faults <- Throws
  MaxFaults = 1
SPECIFICATION FairSpec
PROPERTIES
  KeyedOnce
  Drains
