\* Every fault, both entry points: what the counter is worth.
SPECIFICATION Spec
CONSTANTS
  c1 = c1
  c2 = c2
  Callers <- TwoCallers
  Limit = 2
  Window = 3
  Faults <- AllFaults
  MaxCalls = 4
SYMMETRY CallerSymmetry
INVARIANTS
  TypeOK
  CountsOnlyPassed
  NeverOverPromises
  NeverAllFree
