------------------------------ MODULE Limiters ------------------------------
(***************************************************************************)
(* One endpoint and the limiter it was given, any of the five of           *)
(* src/algorithims/rate_limit/: the choice is made once, and every caller  *)
(* of the endpoint goes through the limiter chosen.                        *)
(***************************************************************************)
EXTENDS FixedWindow, Throttle, Debounce, SlidingWindow, TokenBucket

CONSTANT Algorithms   \* the limiters to choose from

ASSUME AlgorithmsAssumption ==
  Algorithms \subseteq {"fixed", "throttle", "debounce", "pipeline", "bucket"}

VARIABLE algo   \* the limiter of the endpoint

vars == <<algo, keyVars, bucketVars>>

Init ==
  /\ algo \in Algorithms
  /\ KeyInit
  /\ BucketInit

OnKey(name, step) == algo = name /\ step /\ UNCHANGED <<algo, bucketVars>>

Next ==
  \/ OnKey("fixed", FixedNext)
  \/ OnKey("throttle", ThrottleNext)
  \/ OnKey("debounce", DebounceNext)
  \/ OnKey("pipeline", PipelineNext)
  \/ algo = "bucket" /\ BucketNext /\ UNCHANGED <<algo, keyVars>>

Spec == Init /\ [][Next]_vars

\* Time passes, and a caller that created the key comes to send its EXPIRE.
Passing(name) == OnKey(name, KeyTick)

Expiring(name) == \E c \in Callers : OnKey(name, SendExpire(c))

FairSpec ==
  Spec /\ \A name \in Algorithms : WF_vars(Passing(name)) /\ WF_vars(Expiring(name))

-----------------------------------------------------------------------------
\* An endpoint with the fixed window keeps the promise of WindowQuota, whichever of
\* its commands, replies and tasks are lost.
FixedRefines == [][algo = "fixed" => FixedQuota!QuotaNext]_(FixedQuota!quotaVars)

\* So does one with the throttle, which has a single place to a window.
ThrottleRefines == [][algo = "throttle" => ThrottleQuota!QuotaNext]_(ThrottleQuota!quotaVars)

\* The fixed window never allows twice the limit within one window's length.
FixedBurst == algo = "fixed" => BurstBound

\* A key that two tasks set, or one sets and another makes expire, always goes away
\* again unless a fault cost it its expiry.
KeyReopens == algo \in {"fixed", "throttle"} => Reopens
=============================================================================
