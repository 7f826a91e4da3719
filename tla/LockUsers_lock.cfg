\* Every job, two callers, every fault.
SPECIFICATION FairSpec
CONSTANTS
  c1 = c1
  c2 = c2
  Jobs <- AllJobs
  Callers <- TwoCallers
  LockTimeout = 2
  Faults <- AllFaults
  CacheTTL = 2
  Jitter = 1
  MaxVersion = 1
INVARIANTS
  HolderInv
  Exclusion
  CacheTypeOK
PROPERTIES
  NoRollback
  LockReopens
  EventuallyFresh
