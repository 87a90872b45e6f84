\* Every call, a namespace with room for one entry.
CONSTANTS
  c1 = c1
  c2 = c2
  k1 = k1
  k2 = k2
  x = x
  y = y
  NoCaller = NoCaller
  NoKey = NoKey
  NoTag = NoTag
  Callers <- MCCallers
  Keys <- MCKeys
  Tags <- MCTags
  TagSets <- EitherTag
  Calls <- AllCalls
  MaxEntries = 1
  MaxFaults = 1
SPECIFICATION Spec
SYMMETRY MCSymmetry
INVARIANTS
  TypeOK
  IndexExact
  InvalidatedGone
  BoundedAtRest
PROPERTIES
  LiveEntriesKept
