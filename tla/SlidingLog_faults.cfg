\* Every fault: what the log, its expiry and a denial are worth.
SPECIFICATION FairSpec
CONSTANTS
  c1 = c1
  c2 = c2
  c3 = c3
  Callers <- TwoCallers
  Limit = 2
  Window = 2
  Faults <- AllFaults
  MaxTime = 3
  MaxCalls = 2
INVARIANTS
  LogInv
PROPERTIES
  FreshEntryKept
  KeyCollected
