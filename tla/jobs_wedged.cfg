\* One execution killed in a handler: the job never ends.
CONSTANTS
  w1 = w1
  w2 = w2
  NoWorker = NoWorker
  Workers <- MCWorkers
  NumSteps = 2
  DependsOn <- MCDependsOn
  MaxRetries = 0
  ReplayOn = FALSE
  Faults <- LostHandler
  MaxFaults = 1
SPECIFICATION FairSpec
PROPERTIES
  Settles
