\* A single caller, no fault: the limit as the docstring states it.
SPECIFICATION Spec
CONSTANTS
  c1 = c1
  c2 = c2
  c3 = c3
  Callers <- OneCaller
  Limit = 2
  Window = 2
  Faults <- NoFaults
  MaxTime = 3
  MaxCalls = 4
SYMMETRY CallerSymmetry
INVARIANTS
  LimitPerWindow
