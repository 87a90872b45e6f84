\* Every kind of call, every fault, a job older than the index.
CONSTANTS
  c1 = c1
  c2 = c2
  j1 = j1
  j2 = j2
  p = p
  q = q
  NoCaller = NoCaller
  NoJob = NoJob
  Callers <- MCCallers
  Jobs <- MCJobs
  Prefixes <- MCPrefixes
  Prefix <- OnePrefix
  Default = q
  Statuses <- OneStatus
  BucketRoom = 1
  Legacy <- FirstJob
  Registered <- Nobody
  Scoped <- BothCalls
  Unscoped <- BothCalls
  Faults <- BothFaults
  MaxFaults = 1
  MaxVersion = 2
SPECIFICATION Spec
SYMMETRY MCSymmetry
INVARIANTS
  IInv
PROPERTIES
  LegacyKept
