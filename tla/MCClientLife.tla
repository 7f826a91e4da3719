---------------------------- MODULE MCClientLife ----------------------------
(* Small instances of ClientLife for TLC.                                  *)
EXTENDS ClientLife, TLC

CONSTANTS t1, t2

TwoTasks == {t1, t2}

AllFaults == FaultKinds
=============================================================================
