\* Every policy, two callers: an entry per caller and key at most and one sent
\* twice, so that the bound is never met.
SPECIFICATION Spec
CONSTANTS
  c1 = c1
  c2 = c2
  k1 = k1
  k2 = k2
  k3 = k3
  Callers <- TwoCallers
  Keys <- ThreeKeys
  Policies <- Every
  Capacities <- OneOrTwo
  TTL = 2
  Faults <- AllFaults
  MaxStack = 8
  MaxResent = 1
SYMMETRY StackSymmetry
INVARIANTS
  TypeOK
  StackBound
  CopiesBound
