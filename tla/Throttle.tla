------------------------------ MODULE Throttle ------------------------------
(***************************************************************************)
(* is_allowed_throttle of src/algorithims/rate_limit/throttle.py: SETNX a  *)
(* key, and give it an expiry if this call set it.  One call per interval. *)
(***************************************************************************)
EXTENDS LimiterKey

\* The mutant that sets the key without looking.
SetnxBlind(c) ==
  /\ pc[c] \in {"idle", "again"}
  /\ Write(1)
  /\ Allow
  /\ Goto(c, "expire")
  /\ UNCHANGED <<since, lost>>

\* The call that sets the key goes on to its expiry, every other is denied: so is
\* a call whose own first SETNX went unanswered and was sent again.
Setnx(c) ==
  /\ pc[c] \in {"idle", "again"}
  /\ Write(1)
  /\ \/ value = 0 /\ Allow /\ Goto(c, "expire") /\ UNCHANGED lost
     \/ value = 1 /\ Deny /\ Goto(c, "idle") /\ UNCHANGED lost
     \/ ReplyLost(c)
  /\ UNCHANGED since

ExpireThrottle(c) == SendExpire(c)

\* No connection or no SETNX, or a task cancelled on its way.
ThrottleFails(c) == FailOpen(c) \/ CancelCall(c)

ThrottleCall(c) == Setnx(c) \/ ExpireThrottle(c) \/ ThrottleFails(c)

ThrottleNext == KeyTick \/ \E c \in Callers : ThrottleCall(c)

-----------------------------------------------------------------------------
\* The throttle's one place in WindowQuota.
ThrottleQuota == INSTANCE WindowQuota WITH
                   Limit <- 1, used <- IF value = 0 THEN 0 ELSE 1
=============================================================================
