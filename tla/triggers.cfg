\* Every call and every fault, two definitions.
CONSTANTS
  c1 = c1
  c2 = c2
  i1 = i1
  i2 = i2
  NoId = NoId
  Callers <- MCCallers
  Ids <- MCIds
  Wants <- MCWants
  Calls <- AllCalls
  MaxAsked = 3
  Faults <- AllFaults
  MaxFaults = 1
SPECIFICATION Spec
SYMMETRY MCSymmetry
INVARIANTS
  OneTrigger
  UpsertRepairs
  FiringFound
  FiringIsWanted
  ListingExact
CHECK_DEADLOCK FALSE
