---------------------------- MODULE MCStackCache ----------------------------
(* Small instances of StackCache for TLC.                                  *)
EXTENDS StackCache, TLC

CONSTANTS c1, c2, k1, k2, k3

OneCaller  == {c1}
TwoCallers == {c1, c2}
ThreeKeys  == {k1, k2, k3}

StackSymmetry == Permutations(Keys) \cup Permutations(Callers)

Every     == {"lifo", "mru", "server"}
WithStack == {"lifo", "mru"}

OneOrTwo == {1, 2}

NoFaults  == {}
AllFaults == FaultKinds
=============================================================================
