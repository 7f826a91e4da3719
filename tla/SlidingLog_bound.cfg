\* How far two callers, slow or prompt, can overrun the limit.
SPECIFICATION Spec
CONSTANTS
  c1 = c1
  c2 = c2
  c3 = c3
  Callers <- TwoCallers
  Limit = 2
  Window = 2
  Faults <- NoFaults
  MaxTime = 5
  MaxCalls = 4
SYMMETRY CallerSymmetry
INVARIANTS
  AdmissionBound
  PromptBound
PROPERTIES
  DenialJustified
