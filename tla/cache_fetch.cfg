\* Every call and every fault.
CONSTANTS
  p1 = p1
  p2 = p2
  NoCaller = NoCaller
  Callers <- MCCallers
  Calls <- AllCalls
  MaxVersion = 2
  MaxPolls = 1
  Faults <- AllFaults
  MaxFaults = 1
SYMMETRY MCSymmetry
SPECIFICATION Spec
INVARIANTS
  IInv
  LeaderHoldsLease
  LeasedInOrder
  WrittenIsFinal
