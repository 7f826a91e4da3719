\* A task cancelled before its EXPIRE.
SPECIFICATION FairSpec
CONSTANTS
  c1 = c1
  c2 = c2
  c3 = c3
  Algorithms <- Expirers
  Callers <- TwoCallers
  Window = 4
  Faults <- CancelFaults
  Half = 2
  Limit = 2
  MaxCount = 2
  Capacity = 3
  RefillRate = 2
  Interval = 2
  MaxLag = 0
PROPERTIES
  AlwaysReopens
