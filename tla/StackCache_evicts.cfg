\* One caller, no fault: what an eviction from the stack is worth.
SPECIFICATION Spec
CONSTANTS
  c1 = c1
  c2 = c2
  k1 = k1
  k2 = k2
  k3 = k3
  Callers <- OneCaller
  Keys <- ThreeKeys
  Policies <- WithStack
  Capacities <- OneOrTwo
  TTL = 2
  Faults <- NoFaults
  MaxStack = 8
  MaxResent = 0
SYMMETRY StackSymmetry
INVARIANTS
  CapacityKept
