\* Every fault, no replay: one handler per step, and the job comes to an end.
CONSTANTS
  w1 = w1
  w2 = w2
  NoWorker = NoWorker
  Workers <- MCWorkers
  NumSteps = 4
  MaxConcurrency = 2
  DependsOn <- MCDependsOn
  MaxRetries = 1
  ReplayOn = FALSE
  Faults <- AllFaults
  MaxFaults = 2
SPECIFICATION FairSpec
INVARIANTS
  HandlerExclusive
  WindowBounded
  ReduceAfterMap
PROPERTIES
  SettlesUnlessAbandoned
