---------------------------- MODULE MCLocalCache ----------------------------
(* Small instances of LocalCache for TLC.                                  *)
EXTENDS LocalCache, TLC

CONSTANTS k1, k2, k3, k4

FourKeys == {k1, k2, k3, k4}

KeySymmetry == Permutations(Keys)

Every     == {"fifo", "lifo", "lru", "mru", "lfu"}
UpToThree == 0 .. 3
=============================================================================
