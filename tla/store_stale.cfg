\* A listing of one prefix puts an old summary back over a newer one.
CONSTANTS
  c1 = c1
  c2 = c2
  j1 = j1
  j2 = j2
  p = p
  q = q
  NoCaller = NoCaller
  NoJob = NoJob
  Callers <- MCCallers
  Jobs <- FirstJob
  Prefixes <- MCPrefixes
  Prefix <- OnePrefix
  Default = q
  Statuses <- MCStatuses
  BucketRoom = 1
  Legacy <- Nobody
  Registered <- MCPrefixes
  Scoped <- BothCalls
  Unscoped <- ListCalls
  Faults <- Nobody
  MaxFaults = 0
  MaxVersion = 2
SPECIFICATION Spec
SYMMETRY MCSymmetry
INVARIANTS
  ListComplete
