----------------------------- MODULE MCLockUsers -----------------------------
(* Small instances of LockUsers for TLC.                                   *)
EXTENDS LockUsers, TLC

CONSTANTS c1, c2

TwoCallers == {c1, c2}

AllJobs  == {"block", "cache", "plain"}
CacheJob == {"cache"}

NoFaults    == {}
AllFaults   == FaultKinds
=============================================================================
