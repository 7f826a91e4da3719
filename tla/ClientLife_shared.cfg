\* Two tasks, a retried call, a command sent twice, two shutdowns, every fault.
SPECIFICATION FairSpec
CONSTANTS
  t1 = t1
  t2 = t2
  Tasks <- TwoTasks
  Attempts = 2
  Resends = 1
  Faults <- AllFaults
  MaxShutdowns = 2
INVARIANTS
  ClientTypeOK
  LeftBehindBound
  CleanUnlessRaced
  EffectsBound
PROPERTIES
  DropsOwn
  CallEnds
