----------------------------- MODULE MCLimiters -----------------------------
(* Small instances of Limiters for TLC.                                    *)
EXTENDS Limiters, TLC

CONSTANTS c1, c2, c3

TwoCallers == {c1, c2}
ThreeCallers == {c1, c2, c3}

Every     == {"fixed", "throttle", "debounce", "pipeline", "bucket"}
Expirers  == {"fixed", "throttle"}

CancelFaults == {"cancel"}
AllFaults    == FaultKinds
=============================================================================
