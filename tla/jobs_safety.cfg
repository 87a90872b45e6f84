\* Every fault, twice, with cancel and replay at any time.
CONSTANTS
  w1 = w1
  w2 = w2
  NoWorker = NoWorker
  Workers <- MCWorkers
  NumSteps = 3
  DependsOn <- MCDependsOn
  MaxRetries = 1
  ReplayOn = TRUE
  Faults <- AllFaults
  MaxFaults = 2
SPECIFICATION Spec
SYMMETRY MCSymmetry
INVARIANTS
  IInv
  DependencyOrder
  StatusMatchesSteps
  RetryBudget
PROPERTIES
  ImplementsLifecycle
  TerminalFinal
  FencedWrites
  LeaseRespected
