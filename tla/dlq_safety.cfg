\* Every call, every fault.
CONSTANTS
  c1 = c1
  c2 = c2
  j1 = j1
  j2 = j2
  k1 = k1
  k2 = k2
  NoCaller = NoCaller
  NoJob = NoJob
  NoKey = NoKey
  Callers <- MCCallers
  Jobs <- MCJobs
  Keys <- NoKeys
  KeysOf <- Keyless
  Calls <- AllCalls
  Width = 2
  Faults <- AllFaults
  MaxFaults = 2
SPECIFICATION Spec
SYMMETRY MCSymmetry
INVARIANTS
  ReplayedNotFailed
  EntryListable
PROPERTIES
  ResetOnlyFailed
