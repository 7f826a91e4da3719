\* Every policy, four keys: no deadlock check, for the bounds stop the puts.
SPECIFICATION Spec
CONSTANTS
  k1 = k1
  k2 = k2
  k3 = k3
  k4 = k4
  Keys <- FourKeys
  Policies <- Every
  Capacities <- UpToThree
  MaxTime = 8
  MaxOrder = 7
SYMMETRY KeySymmetry
INVARIANTS
  TypeOK
  InStep
  HeapOrdered
  RaisesOnlyAtZero
PROPERTIES
  RightVictim
CHECK_DEADLOCK FALSE
