\* Two callers that miss at once.
SPECIFICATION Spec
CONSTANTS
  c1 = c1
  c2 = c2
  Jobs <- CacheJob
  Callers <- TwoCallers
  LockTimeout = 2
  Faults <- NoFaults
  CacheTTL = 2
  Jitter = 0
  MaxVersion = 1
PROPERTIES
  OneLoadPerMiss
