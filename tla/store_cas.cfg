\* Two jobs written, read and listed, with every fault; everything is indexed.
CONSTANTS
  c1 = c1
  c2 = c2
  j1 = j1
  j2 = j2
  p = p
  q = q
  NoCaller = NoCaller
  NoJob = NoJob
  Callers <- MCCallers
  Jobs <- MCJobs
  Prefixes <- MCPrefixes
  Prefix <- TwoPrefixes
  Default = q
  Statuses <- MCStatuses
  BucketRoom = 1
  Legacy <- Nobody
  Registered <- MCPrefixes
  Scoped <- ReadCalls
  Unscoped <- ListCalls
  Faults <- BothFaults
  MaxFaults = 1
  MaxVersion = 3
SPECIFICATION Spec
SYMMETRY MCSymmetry
INVARIANTS
  ListComplete
PROPERTIES
  NoLostUpdate
  ImplementsRegister
