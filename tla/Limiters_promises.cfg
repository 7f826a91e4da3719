\* Each limiter, three callers, every fault.
SPECIFICATION FairSpec
CONSTANTS
  c1 = c1
  c2 = c2
  c3 = c3
  Algorithms <- Every
  Callers <- ThreeCallers
  Window = 4
  Faults <- AllFaults
  Half = 2
  Limit = 2
  MaxCount = 4
  Capacity = 3
  RefillRate = 2
  Interval = 3
  MaxLag = 1
INVARIANTS
  QuotaInv
  FixedBurst
  SpacingInv
  BucketTypeOK
  SpanBound
PROPERTIES
  FixedRefines
  ThrottleRefines
  CallerSpaced
  PauseSuffices
  KeyReopens
