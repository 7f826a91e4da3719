---------------------------- MODULE MCSlidingLog ----------------------------
(* Small instances of SlidingLog for TLC.                                  *)
EXTENDS SlidingLog, TLC

CONSTANTS c1, c2, c3

OneCaller    == {c1}
TwoCallers   == {c1, c2}
ThreeCallers == {c1, c2, c3}

CallerSymmetry == Permutations(Callers)

NoFaults   == {}
AllFaults  == FaultKinds
=============================================================================
