---------------------------- MODULE TokenBucket ----------------------------
(***************************************************************************)
(* is_allowed_token_bucket of src/algorithims/rate_limit/token_bucket.py:  *)
(* a Lua script refills a bucket and takes a token in one step of the      *)
(* server, but on the caller's clock, read before the script is sent.      *)
(* Time is relative; a tick is a second of that clock.  The bucket is a    *)
(* hash, so the state of LimiterKey is left alone.                         *)
(***************************************************************************)
EXTENDS LimiterKey, FiniteSetsExt

CONSTANTS
  Capacity,    \* the parameters capacity, refill_rate and interval
  RefillRate,
  Interval,
  MaxLag       \* bound: ticks between a caller's clock and its script

ASSUME BucketAssumption ==
  /\ Capacity \in Nat \ {0}
  /\ RefillRate \in Nat \ {0}
  /\ Interval \in Nat \ {0}
  /\ MaxLag \in Nat

Lifetime == 2 * Interval   \* EXPIRE key interval * 2

VARIABLES
  tokens,   \* field tokens of the bucket
  last,     \* now - field last: how long ago the bucket was refilled
  life,     \* ticks the bucket still lives; 0 when there is none
  evals,    \* the callers that have read their clock and not sent the script
  lag,      \* ticks since each caller read its clock
  quiet,    \* history: ticks since the last script, up to Lifetime
  spent     \* history: calls allowed i ticks ago, for each i <= Lifetime

bucketVars == <<tokens, last, life, evals, lag, quiet, spent>>

BucketTypeOK ==
  /\ tokens \in 0 .. Capacity
  /\ last \in 0 .. Lifetime + MaxLag
  /\ life \in 0 .. Lifetime
  /\ evals \in SUBSET Callers
  /\ lag \in [Callers -> 0 .. MaxLag]
  /\ quiet \in 0 .. Lifetime
  /\ spent \in [0 .. Lifetime -> Nat]

BucketInit ==
  /\ tokens = 0
  /\ last = 0
  /\ life = 0
  /\ evals = {}
  /\ lag = [c \in Callers |-> 0]
  /\ quiet = Lifetime
  /\ spent = [i \in 0 .. Lifetime |-> 0]

-----------------------------------------------------------------------------
Least(m, n)    == IF m < n THEN m ELSE n
Greatest(m, n) == IF m < n THEN n ELSE m

\* The mutant without the capacity.
RefilledUnbounded(c) ==
  LET delta == Greatest(0, last - lag[c])
  IN IF life = 0 THEN Capacity ELSE tokens + (delta \div Interval) * RefillRate

\* The mutant that counts an interval begun as one elapsed.
RefilledRoundedUp(c) ==
  LET delta == Greatest(0, last - lag[c])
  IN IF life = 0 THEN Capacity
     ELSE Least(Capacity, tokens + ((delta + Interval - 1) \div Interval) * RefillRate)

\* The mutant that never refills.
RefilledNever(c) == IF life = 0 THEN Capacity ELSE tokens

\* new_tokens: what the bucket of the caller's present holds.  A bucket that does
\* not exist is full.
Refilled(c) ==
  LET delta == Greatest(0, last - lag[c])
  IN IF life = 0 THEN Capacity
     ELSE Least(Capacity, tokens + (delta \div Interval) * RefillRate)

\* now = int(time.time()), before the script is sent.
ReadClock(c) ==
  /\ c \notin evals
  /\ evals' = evals \cup {c}
  /\ UNCHANGED <<tokens, last, life, lag, quiet, spent>>

Sent(c) == evals' = evals \ {c} /\ lag' = [lag EXCEPT ![c] = 0]

\* The script: either way last becomes the caller's clock and the key lives on.
\* A lost reply allows the call; it is not counted among those the bucket allowed.
Script(c) ==
  /\ c \in evals
  /\ Sent(c)
  /\ last' = lag[c]
  /\ life' = Lifetime
  /\ quiet' = 0
  /\ tokens' = IF Refilled(c) > 0 THEN Refilled(c) - 1 ELSE 0
  /\ \/ spent' = IF Refilled(c) > 0 THEN [spent EXCEPT ![0] = @ + 1] ELSE spent
     \/ "reply" \in Faults /\ UNCHANGED spent

\* No connection, or the script never ran: the call is let through.
ScriptFails(c) ==
  /\ "conn" \in Faults
  /\ c \in evals
  /\ Sent(c)
  /\ UNCHANGED <<tokens, last, life, quiet, spent>>

BucketTick ==
  /\ \A c \in evals : lag[c] < MaxLag
  /\ last' = IF life > 1 THEN last + 1 ELSE 0
  /\ life' = Greatest(0, life - 1)
  /\ tokens' = IF life > 1 THEN tokens ELSE 0
  /\ lag' = [c \in Callers |-> IF c \in evals THEN lag[c] + 1 ELSE 0]
  /\ quiet' = Least(Lifetime, quiet + 1)
  /\ spent' = [i \in 0 .. Lifetime |-> IF i = 0 THEN 0 ELSE spent[i - 1]]
  /\ UNCHANGED evals

BucketCall(c) == ReadClock(c) \/ Script(c) \/ ScriptFails(c)

BucketNext == BucketTick \/ \E c \in Callers : BucketCall(c)

-----------------------------------------------------------------------------
AllowedWithin(n) == MapThenSumSet(LAMBDA i : spent[i], 0 .. n - 1)

\* In any 2 * Interval ticks the bucket allows a full bucket and its refills: polling,
\* pausing and expiring gain nobody a call.  A script that is late puts the clock of
\* the bucket back, so the next one refills it again: the refills come at most once
\* in Interval - MaxLag ticks, where they should come once in Interval.
SpanBound ==
  MaxLag < Interval =>
    AllowedWithin(Lifetime)
      <= Capacity + RefillRate * ((Lifetime - 1) \div (Interval - MaxLag))

Denied(c) == Script(c) /\ Refilled(c) = 0

\* Whoever reads the clock an interval after the last call is not denied, however
\* the calls before, the late ones among them, exhausted the bucket.
PauseSuffices ==
  [][\A c \in Callers : Denied(c) => quiet < Interval + lag[c]]_bucketVars
=============================================================================
