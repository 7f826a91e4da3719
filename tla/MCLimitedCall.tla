---------------------------- MODULE MCLimitedCall ----------------------------
(* Small instances of LimitedCall for TLC.                                 *)
EXTENDS LimitedCall, TLC

CONSTANTS c1, c2

TwoCallers == {c1, c2}

CallerSymmetry == Permutations(Callers)

AllFaults == FaultKinds
=============================================================================
