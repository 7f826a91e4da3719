----------------------------- MODULE FixedWindow -----------------------------
(***************************************************************************)
(* is_allowed_fixed_window of src/algorithims/rate_limit/fixed_window.py:  *)
(* INCR a counter, and give it an expiry if this call created it.          *)
(***************************************************************************)
EXTENDS LimiterKey, FiniteSetsExt

CONSTANT Limit   \* the parameter limit

ASSUME FixedAssumption == Limit \in Nat \ {0}

\* The mutant that compares the count before the INCR.
JudgeStale == IF value <= Limit THEN Allow ELSE Deny

\* return count <= limit
Judge == IF value' <= Limit THEN Allow ELSE Deny

\* The INCR is counted and judged; the call that created the key goes on to set
\* its expiry, every other returns.
Incr(c) ==
  /\ pc[c] \in {"idle", "again"}
  /\ value < MaxCount
  /\ Write(value + 1)
  /\ \/ /\ Judge
        /\ Goto(c, IF value' = 1 THEN "expire" ELSE "idle")
        /\ UNCHANGED lost
     \/ ReplyLost(c)
  /\ UNCHANGED since

\* The mutant that forgets the expiry.
ExpireNever(c) ==
  /\ pc[c] = "expire"
  /\ Goto(c, "idle")
  /\ UNCHANGED <<value, ttl, verdict, age, recent, since, lost>>

\* The mutant whose window is a tick short.
ExpireEarly(c) ==
  /\ pc[c] = "expire"
  /\ Goto(c, "idle")
  /\ ttl' = Window - 1
  /\ UNCHANGED <<value, verdict, age, recent, since, lost>>

\* The first caller's EXPIRE.  An error lets the call through, as its count did.
ExpireCounter(c) == SendExpire(c)

\* No connection or no INCR, or a task cancelled on its way.
FixedFails(c) == FailOpen(c) \/ CancelCall(c)

FixedCall(c) == Incr(c) \/ ExpireCounter(c) \/ FixedFails(c)

FixedNext == KeyTick \/ \E c \in Callers : FixedCall(c)

-----------------------------------------------------------------------------
\* The places of WindowQuota: a place is a count up to the limit, and a window
\* closes only when the key expires, which is never early.
FixedQuota == INSTANCE WindowQuota WITH
                used <- IF value <= Limit THEN value ELSE Limit

\* Any Window ticks in a row see the places of at most two windows, and not the
\* first place of the earlier one: less than twice the limit.
BurstBound == MapThenSumSet(LAMBDA i : recent[i], 0 .. Window - 1) <= 2 * Limit - 1
=============================================================================
