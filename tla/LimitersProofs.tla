--------------------------- MODULE LimitersProofs ---------------------------
(***************************************************************************)
(* What the limiters promise, for any number of callers, any limit and     *)
(* window, and under every fault.  The limiters on one key share KeyInv:   *)
(*                                                                         *)
(*   QuotaInv: an expiry is set once in the life of a key, by the caller   *)
(*   that created it, and from then on the key lives a whole window, so a  *)
(*   window never ends early;                                              *)
(*                                                                         *)
(*   SpacingInv: the key of the debounce lives as long as the interval of  *)
(*   any caller that SET it, so no caller is let past it too soon;         *)
(*                                                                         *)
(*   and the debounce sends no EXPIRE of its own.                          *)
(*                                                                         *)
(* Two bounds need the history of the calls besides: BurstInv, for what    *)
(* two windows of the fixed window that touch allow together, and SpanInv, *)
(* for what the bucket allows in two intervals, each a sum over the last   *)
(* ticks.                                                                  *)
(***************************************************************************)
EXTENDS Limiters, DataTheorems

KeyInv ==
  /\ QuotaInv
  /\ SpacingInv
  /\ algo = "debounce" => \A c \in Callers : pc[c] # "expire"

\* The window is a number of ticks longer than the rounding of TTL.
LEMMA WindowLong ==
  Window \in Nat /\ Half \in Nat /\ 0 < Half /\ Half < Window /\ 0 < Window
BY KeyAssumption

-----------------------------------------------------------------------------
(* The steps that several limiters share.                                  *)

\* A command that never ran touches no key.
LEMMA FailOpenStep ==
  ASSUME KeyInv, NEW c \in Callers, FailOpen(c), algo' = algo
  PROVE  KeyInv'
BY WindowLong
DEF KeyInv, QuotaInv, SpacingInv, KeyTypeOK, FailOpen, Goto, Open, NoExpiry

\* Nor does a task that is cancelled.
LEMMA CancelStep ==
  ASSUME KeyInv, NEW c \in Callers, CancelCall(c), algo' = algo
  PROVE  KeyInv'
BY WindowLong
DEF KeyInv, QuotaInv, SpacingInv, KeyTypeOK, CancelCall, Goto, NoExpiry

\* The EXPIRE finds a key without an expiry and gives it a whole window.
LEMMA ExpireStep ==
  ASSUME KeyInv, NEW c \in Callers, SendExpire(c), algo' = algo
  PROVE  KeyInv'
<1> USE WindowLong DEF KeyInv, QuotaInv, SpacingInv, KeyTypeOK, NoExpiry
<1>1. /\ value > 0 /\ ttl = NoExpiry
      /\ ttl' \in {Window, NoExpiry}
      /\ \A d \in Callers : pc'[d] # "expire"
      /\ pc' \in [Callers -> {"idle", "again", "expire", "set"}]
      /\ \A d \in Callers : pc'[d] = "set" => pc[d] = "set"
  BY DEF SendExpire, Goto
<1>2. \A d \in Callers : since[d] = Window
  BY <1>1
<1>3. /\ UNCHANGED <<value, verdict, age, recent, since>>
      /\ lost' \in BOOLEAN
  BY DEF SendExpire
<1>4. KeyTypeOK'
  <2>1. ttl' \in (1 .. Window) \cup {NoExpiry}
    BY <1>1
  <2>. QED BY <1>1, <1>3, <2>1
<1>5. ttl' # NoExpiry => value' > 0 /\ age' + ttl' >= Window
  <2>1. value' = value /\ age' = age /\ age \in Nat
    BY <1>3
  <2>2. ttl' # NoExpiry => ttl' = Window
    BY <1>1
  <2>. QED BY <1>1, <2>1, <2>2
<1>6. /\ \A d \in Callers : since'[d] < Window => since'[d] + ttl' >= Window
      /\ \A d \in Callers : pc'[d] = "set" => since'[d] > Window - Half
  BY <1>1, <1>2, <1>3
<1>. QED BY <1>1, <1>4, <1>5, <1>6

\* Time takes a tick from the expiry and adds one to every age.
LEMMA TickStep ==
  ASSUME KeyInv, KeyTick, algo' = algo
  PROVE  KeyInv'
<1> USE WindowLong DEF KeyInv, QuotaInv, SpacingInv, KeyTypeOK, NoExpiry
<1>1. recent' \in [0 .. Window - 1 -> Nat]
  BY DEF KeyTick
<1>2. /\ age' \in 0 .. Window
      /\ since' \in [Callers -> 0 .. Window]
  <2>1. \A n \in 0 .. Window : Older(n) \in 0 .. Window
    BY DEF Older
  <2>. QED BY <2>1 DEF KeyTick
<1>3. \A c \in Callers : since'[c] < Window => since'[c] + ttl' >= Window
  BY DEF KeyTick, Older
<1>4. \A c \in Callers : pc'[c] = "set" => since'[c] > Window - Half
  BY DEF KeyTick, Older
<1>5. ttl' # NoExpiry => value' > 0 /\ age' + ttl' >= Window
  BY DEF KeyTick, Older
<1>. QED BY <1>1, <1>2, <1>3, <1>4, <1>5 DEF KeyTick

-----------------------------------------------------------------------------
(* The steps of each limiter.                                              *)

\* What a step that writes by INCR or SETNX does besides: its caller goes on to the
\* EXPIRE only from a key it created.
Besides(c) ==
  /\ pc' \in [Callers -> {"idle", "again", "expire", "set"}]
  /\ \A d \in Callers \ {c} : pc'[d] = pc[d]
  /\ pc'[c] # "set"
  /\ pc'[c] = "expire" => value = 0
  /\ verdict' \in {"none", "allowed", "denied", "open"}
  /\ recent' \in [0 .. Window - 1 -> Nat]
  /\ lost' \in BOOLEAN
  /\ UNCHANGED since

\* Nobody else is then on that way, for there was no key.
LEMMA WriteStep ==
  ASSUME KeyInv, NEW c \in Callers, NEW new \in Nat \ {0}, Write(new), Besides(c),
         algo # "debounce", algo' = algo
  PROVE  KeyInv'
<1> USE WindowLong DEF KeyInv, QuotaInv, SpacingInv, KeyTypeOK, NoExpiry, Besides
<1>1. /\ value' \in Nat /\ value' > 0
      /\ ttl' = ttl
      /\ age' \in 0 .. Window
      /\ value > 0 => age' = age
  BY DEF Write
<1>2. KeyTypeOK'
  BY <1>1
<1>3. ttl' # NoExpiry => value' > 0 /\ age' + ttl' >= Window
  BY <1>1
<1>4. /\ \A d, e \in Callers : pc'[d] = "expire" /\ pc'[e] = "expire" => d = e
      /\ (\E d \in Callers : pc'[d] = "expire") => value' > 0 /\ ttl' = NoExpiry
  <2>1. CASE pc'[c] = "expire"
    <3>1. value = 0 /\ \A d \in Callers : pc[d] # "expire"
      BY <2>1
    <3>2. ttl' = NoExpiry
      BY <1>1, <3>1
    <3>. QED BY <1>1, <3>1, <3>2
  <2>2. CASE pc'[c] # "expire"
    <3>1. \A d \in Callers : pc'[d] = "expire" => pc[d] = "expire"
      BY <2>2
    <3>. QED BY <1>1, <3>1
  <2>. QED BY <2>1, <2>2
<1>5. /\ \A d \in Callers : since'[d] < Window => since'[d] + ttl' >= Window
      /\ \A d \in Callers : pc'[d] = "set" => since'[d] > Window - Half
  BY <1>1
<1>. QED BY <1>2, <1>3, <1>4, <1>5

\* Every step of the fixed window.
LEMMA FixedStep ==
  ASSUME KeyInv, algo = "fixed", FixedNext, algo' = algo
  PROVE  KeyInv'
<1>1. ASSUME NEW c \in Callers, Incr(c) PROVE KeyInv'
  <2> USE WindowLong DEF KeyInv, QuotaInv, KeyTypeOK
  <2>1. value + 1 \in Nat \ {0} /\ Write(value + 1) /\ UNCHANGED since
    BY <1>1 DEF Incr
  <2>2. pc' \in [Callers -> {"idle", "again", "expire", "set"}] /\ lost' \in BOOLEAN
    BY <1>1 DEF Incr, Goto, ReplyLost
  <2>3. /\ \A d \in Callers \ {c} : pc'[d] = pc[d]
        /\ pc'[c] # "set"
        /\ pc'[c] = "expire" => value = 0
    BY <1>1, <2>1 DEF Incr, Goto, ReplyLost, Write
  <2>4. /\ verdict' \in {"none", "allowed", "denied", "open"}
        /\ recent' \in [0 .. Window - 1 -> Nat]
    BY <1>1 DEF Incr, Judge, Allow, Deny, Open, ReplyLost
  <2>. QED BY <2>1, <2>2, <2>3, <2>4, WriteStep DEF Besides
<1>. QED BY <1>1, ExpireStep, FailOpenStep, CancelStep, TickStep
     DEF FixedNext, FixedCall, ExpireCounter, FixedFails

\* Every step of the throttle.
LEMMA ThrottleStep ==
  ASSUME KeyInv, algo = "throttle", ThrottleNext, algo' = algo
  PROVE  KeyInv'
<1>1. ASSUME NEW c \in Callers, Setnx(c) PROVE KeyInv'
  <2> USE WindowLong DEF KeyInv, QuotaInv, KeyTypeOK
  <2>1. 1 \in Nat \ {0} /\ Write(1) /\ UNCHANGED since
    BY <1>1 DEF Setnx
  <2>2. pc' \in [Callers -> {"idle", "again", "expire", "set"}] /\ lost' \in BOOLEAN
    BY <1>1 DEF Setnx, Goto, ReplyLost
  <2>3. /\ \A d \in Callers \ {c} : pc'[d] = pc[d]
        /\ pc'[c] # "set"
        /\ pc'[c] = "expire" => value = 0
    BY <1>1 DEF Setnx, Goto, ReplyLost
  <2>4. /\ verdict' \in {"none", "allowed", "denied", "open"}
        /\ recent' \in [0 .. Window - 1 -> Nat]
    BY <1>1 DEF Setnx, Allow, Deny, Open, ReplyLost
  <2>. QED BY <2>1, <2>2, <2>3, <2>4, WriteStep DEF Besides
<1>. QED BY <1>1, ExpireStep, FailOpenStep, CancelStep, TickStep
     DEF ThrottleNext, ThrottleCall, ExpireThrottle, ThrottleFails

\* Every step of the debounce: a caller comes to the SET only on a key in its last
\* half second, and that key has outlived the caller's own interval but for it.
LEMMA DebounceStep ==
  ASSUME KeyInv, algo = "debounce", DebounceNext, algo' = algo
  PROVE  KeyInv'
<1>1. ASSUME NEW c \in Callers, ReadTTL(c) PROVE KeyInv'
  <2> USE WindowLong DEF KeyInv, QuotaInv, SpacingInv, KeyTypeOK, NoExpiry
  <2>1. pc'[c] = "set" => since[c] > Window - Half
    BY <1>1 DEF ReadTTL, PositiveTTL, Goto
  <2>2. recent' = recent /\ verdict' \in {"none", "allowed", "denied", "open"}
    BY <1>1 DEF ReadTTL, Deny
  <2>. QED BY <1>1, <2>1, <2>2 DEF ReadTTL, Goto
<1>2. ASSUME NEW c \in Callers, Set(c) PROVE KeyInv'
  BY <1>2, WindowLong
  DEF Set, Goto, KeyInv, QuotaInv, SpacingInv, KeyTypeOK, NoExpiry
<1>. QED BY <1>1, <1>2, FailOpenStep, CancelStep, TickStep
     DEF DebounceNext, DebounceCall, DebounceFails

\* Every step of the sliding window, which touches no key.
LEMMA PipelineStep ==
  ASSUME KeyInv, PipelineNext, algo' = algo
  PROVE  KeyInv'
<1>1. ASSUME PipelineCall PROVE KeyInv'
  BY <1>1, WindowLong
  DEF PipelineCall, Allow, KeyInv, QuotaInv, SpacingInv, KeyTypeOK, NoExpiry
<1>. QED BY <1>1, TickStep DEF PipelineNext

-----------------------------------------------------------------------------
(* The theorems.                                                           *)

\* Every step of an endpoint, whichever its limiter.
LEMMA KeyInvStep == KeyInv /\ [Next]_vars => KeyInv'
<1>1. KeyInv /\ Next => KeyInv'
  <2> SUFFICES ASSUME KeyInv, Next PROVE KeyInv'
    OBVIOUS
  <2>1. CASE OnKey("fixed", FixedNext)
    BY <2>1, FixedStep DEF OnKey
  <2>2. CASE OnKey("throttle", ThrottleNext)
    BY <2>2, ThrottleStep DEF OnKey
  <2>3. CASE OnKey("debounce", DebounceNext)
    BY <2>3, DebounceStep DEF OnKey
  <2>4. CASE OnKey("pipeline", PipelineNext)
    BY <2>4, PipelineStep DEF OnKey
  <2>5. CASE algo = "bucket" /\ BucketNext /\ UNCHANGED <<algo, keyVars>>
    BY <2>5 DEF keyVars, KeyInv, QuotaInv, SpacingInv, KeyTypeOK
  <2>. QED BY <2>1, <2>2, <2>3, <2>4, <2>5 DEF Next
<1>2. KeyInv /\ UNCHANGED vars => KeyInv'
  BY DEF vars, keyVars, KeyInv, QuotaInv, SpacingInv, KeyTypeOK
<1>. QED BY <1>1, <1>2

LEMMA KeyInvariant == Spec => []KeyInv
<1>1. Init => KeyInv
  <2> SUFFICES ASSUME KeyInit PROVE KeyInv
    BY DEF Init
  <2> USE WindowLong DEF KeyInit, NoExpiry
  <2>1. KeyTypeOK
    <3>1. recent \in [0 .. Window - 1 -> Nat]
      OBVIOUS
    <3>2. since \in [Callers -> 0 .. Window] /\ age \in 0 .. Window
      OBVIOUS
    <3>. QED BY <3>1, <3>2 DEF KeyTypeOK
  <2>. QED BY <2>1 DEF KeyInv, QuotaInv, SpacingInv
<1>. QED BY <1>1, KeyInvStep, PTL DEF Spec

\* One EXPIRE at a time, on a key without an expiry, and an expiry never ends a
\* window before its time.
THEOREM Quotas == Spec => []QuotaInv
BY KeyInvariant, PTL DEF KeyInv

\* The key of the debounce covers the interval of every caller that set it.
THEOREM Spacings == Spec => []SpacingInv
BY KeyInvariant, PTL DEF KeyInv

\* No caller is let past the debounce twice within an interval, less the rounding.
THEOREM Spaced == Spec => CallerSpaced
<1>1. KeyInv /\ [Next]_vars =>
        [\A c \in Callers : pc[c] = "set" /\ since'[c] = 0 /\ pc'[c] = "idle" =>
           since[c] > Window - Half]_keyVars
  BY DEF KeyInv, SpacingInv
<1>. QED BY <1>1, KeyInvariant, PTL DEF Spec, CallerSpaced

-----------------------------------------------------------------------------
\* The abstract places of a count.
Places == IF value <= Limit THEN value ELSE Limit

\* Each step of the fixed window is one of the promise: a count takes a place or
\* finds none left, and only the end of the key, Window ticks or more after its
\* creation, clears them.
LEMMA FixedQuotaStep ==
  ASSUME KeyInv, FixedNext
  PROVE  FixedQuota!QuotaNext \/ UNCHANGED <<Places, age, verdict>>
<1> USE WindowLong, FixedAssumption DEF KeyInv, QuotaInv, KeyTypeOK, NoExpiry
<1>1. ASSUME NEW c \in Callers, Incr(c)
      PROVE  FixedQuota!QuotaNext \/ UNCHANGED <<Places, age, verdict>>
  <2>1. CASE value < Limit
    <3>1. FixedQuota!TakePlace
      BY <1>1, <2>1 DEF Incr, Write, FixedQuota!TakePlace
    <3>2. verdict' \in {"allowed", "open", verdict}
      BY <1>1, <2>1 DEF Incr, Write, Judge, Allow, ReplyLost, Open
    <3>. QED BY <3>1, <3>2
         DEF FixedQuota!QuotaNext, FixedQuota!Allow, FixedQuota!Open, FixedQuota!Waste
  <2>2. CASE value >= Limit
    <3>1. Places = Limit /\ Places' = Limit /\ age' = age
      BY <1>1, <2>2 DEF Incr, Write, Places
    <3>2. verdict' \in {"denied", "open", verdict}
      BY <1>1, <2>2 DEF Incr, Write, Judge, Deny, ReplyLost, Open
    <3>. QED BY <3>1, <3>2
         DEF Places, FixedQuota!QuotaNext, FixedQuota!Deny, FixedQuota!Open
  <2>. QED BY <2>1, <2>2
<1>2. ASSUME NEW c \in Callers, SendExpire(c) \/ CancelCall(c)
      PROVE  UNCHANGED <<Places, age, verdict>>
  BY <1>2 DEF SendExpire, CancelCall, Places
<1>3. ASSUME NEW c \in Callers, FailOpen(c) PROVE FixedQuota!QuotaNext
  BY <1>3 DEF FailOpen, Open, FixedQuota!QuotaNext, FixedQuota!Open
<1>4. ASSUME KeyTick PROVE FixedQuota!QuotaNext
  BY <1>4 DEF KeyTick, Older, FixedQuota!QuotaNext, FixedQuota!Pass
<1>. QED BY <1>1, <1>2, <1>3, <1>4 DEF FixedNext, FixedCall, ExpireCounter, FixedFails

\* Whatever happens at an endpoint with the fixed window is a step of its quota.
LEMMA FixedMaps ==
  KeyInv /\ algo = "fixed" /\ [Next]_vars => [FixedQuota!QuotaNext]_(FixedQuota!quotaVars)
<1> SUFFICES ASSUME KeyInv, algo = "fixed", [Next]_vars
             PROVE  FixedQuota!QuotaNext \/ UNCHANGED <<Places, age, verdict>>
  BY DEF FixedQuota!quotaVars, Places
<1>1. CASE UNCHANGED vars
  BY <1>1 DEF vars, keyVars, Places
<1>2. CASE OnKey("fixed", FixedNext)
  BY <1>2, FixedQuotaStep DEF OnKey
<1>. QED BY <1>1, <1>2 DEF Next, OnKey

\* The fixed window implements its quota, for any limit and window.
THEOREM FixedPromise == Spec => FixedRefines
<1>1. KeyInv /\ [Next]_vars =>
        [algo = "fixed" => FixedQuota!QuotaNext]_(FixedQuota!quotaVars)
  BY FixedMaps
<1>. QED BY <1>1, KeyInvariant, PTL DEF Spec, FixedRefines

\* Each step of the throttle is one of the promise with a single place.
LEMMA ThrottleQuotaStep ==
  ASSUME KeyInv, ThrottleNext
  PROVE  \/ ThrottleQuota!QuotaNext
         \/ UNCHANGED <<IF value = 0 THEN 0 ELSE 1, age, verdict>>
<1> USE WindowLong DEF KeyInv, QuotaInv, KeyTypeOK, NoExpiry
<1>1. ASSUME NEW c \in Callers, Setnx(c)
      PROVE  \/ ThrottleQuota!QuotaNext
             \/ UNCHANGED <<IF value = 0 THEN 0 ELSE 1, age, verdict>>
  <2>1. CASE value = 0
    <3>1. ThrottleQuota!TakePlace
      BY <1>1, <2>1 DEF Setnx, Write, ThrottleQuota!TakePlace
    <3>2. verdict' \in {"allowed", "open", verdict}
      BY <1>1, <2>1 DEF Setnx, Allow, ReplyLost, Open
    <3>. QED BY <3>1, <3>2
         DEF ThrottleQuota!QuotaNext, ThrottleQuota!Allow, ThrottleQuota!Open,
             ThrottleQuota!Waste
  <2>2. CASE value # 0
    <3>1. value' = 1 /\ age' = age
      BY <1>1, <2>2 DEF Setnx, Write
    <3>2. verdict' \in {"denied", "open", verdict}
      BY <1>1, <2>2 DEF Setnx, Deny, ReplyLost, Open
    <3>. QED BY <2>2, <3>1, <3>2
         DEF ThrottleQuota!QuotaNext, ThrottleQuota!Deny, ThrottleQuota!Open
  <2>. QED BY <2>1, <2>2
<1>2. ASSUME NEW c \in Callers, SendExpire(c) \/ CancelCall(c)
      PROVE  UNCHANGED <<IF value = 0 THEN 0 ELSE 1, age, verdict>>
  BY <1>2 DEF SendExpire, CancelCall
<1>3. ASSUME NEW c \in Callers, FailOpen(c) PROVE ThrottleQuota!QuotaNext
  BY <1>3 DEF FailOpen, Open, ThrottleQuota!QuotaNext, ThrottleQuota!Open
<1>4. ASSUME KeyTick PROVE ThrottleQuota!QuotaNext
  BY <1>4 DEF KeyTick, Older, ThrottleQuota!QuotaNext, ThrottleQuota!Pass
<1>. QED BY <1>1, <1>2, <1>3, <1>4
     DEF ThrottleNext, ThrottleCall, ExpireThrottle, ThrottleFails

\* The same of the throttle.
LEMMA ThrottleMaps ==
  KeyInv /\ algo = "throttle" /\ [Next]_vars => [ThrottleQuota!QuotaNext]_(ThrottleQuota!quotaVars)
<1> SUFFICES ASSUME KeyInv, algo = "throttle", [Next]_vars
             PROVE  \/ ThrottleQuota!QuotaNext
                    \/ UNCHANGED <<IF value = 0 THEN 0 ELSE 1, age, verdict>>
  BY DEF ThrottleQuota!quotaVars
<1>1. CASE UNCHANGED vars
  BY <1>1 DEF vars, keyVars
<1>2. CASE OnKey("throttle", ThrottleNext)
  BY <1>2, ThrottleQuotaStep DEF OnKey
<1>. QED BY <1>1, <1>2 DEF Next, OnKey

\* The throttle implements a quota of one, for any interval.
THEOREM ThrottlePromise == Spec => ThrottleRefines
<1>1. KeyInv /\ [Next]_vars =>
        [algo = "throttle" => ThrottleQuota!QuotaNext]_(ThrottleQuota!quotaVars)
  BY ThrottleMaps
<1>. QED BY <1>1, KeyInvariant, PTL DEF Spec, ThrottleRefines

\* An endpoint with the fixed window is, from its first state on, a quota of Limit
\* places: its counter, its expiry and its verdicts implement WindowQuota.
THEOREM FixedImplements == Spec /\ algo = "fixed" => FixedQuota!QuotaSpec
<1>1. Init => FixedQuota!QuotaInit
  BY FixedAssumption DEF Init, KeyInit, FixedQuota!QuotaInit
<1>2. algo = "fixed" /\ [Next]_vars => (algo = "fixed")'
  BY DEF Next, OnKey, vars
<1>3. KeyInv /\ algo = "fixed" /\ [Next]_vars => [FixedQuota!QuotaNext]_(FixedQuota!quotaVars)
  BY FixedMaps
<1>. QED BY <1>1, <1>2, <1>3, KeyInvariant, PTL DEF Spec, FixedQuota!QuotaSpec

\* An endpoint with the throttle is a quota of one place.
THEOREM ThrottleImplements == Spec /\ algo = "throttle" => ThrottleQuota!QuotaSpec
<1>1. Init => ThrottleQuota!QuotaInit
  BY DEF Init, KeyInit, ThrottleQuota!QuotaInit
<1>2. algo = "throttle" /\ [Next]_vars => (algo = "throttle")'
  BY DEF Next, OnKey, vars
<1>3. KeyInv /\ algo = "throttle" /\ [Next]_vars => [ThrottleQuota!QuotaNext]_(ThrottleQuota!quotaVars)
  BY ThrottleMaps
<1>. QED BY <1>1, <1>2, <1>3, KeyInvariant, PTL DEF Spec, ThrottleQuota!QuotaSpec

-----------------------------------------------------------------------------
(* The bursts of the fixed window.                                         *)

\* The calls allowed in the last m ticks.
AllowedLast(m) == Prefix(recent, m)

\* A window of the key sees a place for each call it allows, its first place is on the
\* tick of its creation, and it outlasts what recent remembers: so of the windows before
\* the present one only the last is remembered, and without its first place.
BurstInv ==
  algo = "fixed" =>
    /\ value = 0 => recent[0] = 0 /\ AllowedLast(Window) <= Limit - 1
    /\ value > 0 => AllowedLast(age) + 1 <= Places
    /\ value > 0 /\ age < Window =>
         /\ AllowedLast(age + 1) <= Places
         /\ AllowedLast(Window) - AllowedLast(age + 1) <= Limit - 1

\* The sums of the first m values of recent, and what a step does to them.
LEMMA RecentSums ==
  ASSUME KeyTypeOK
  PROVE  /\ AllowedLast(0) = 0
         /\ \A m \in 0 .. Window : AllowedLast(m) \in Nat
         /\ \A m \in 0 .. Window - 1 : AllowedLast(m + 1) = AllowedLast(m) + recent[m]
<1>1. Window \in Nat /\ \A i \in 0 .. Window - 1 : recent[i] \in Nat
  BY WindowLong DEF KeyTypeOK
<1>. QED BY <1>1, PrefixSum DEF AllowedLast

LEMMA AllowSums ==
  ASSUME KeyTypeOK, Allow
  PROVE  /\ AllowedLast(0)' = 0
         /\ \A m \in 1 .. Window : AllowedLast(m)' = AllowedLast(m) + 1
<1>1. AllowedLast(0)' = 0
  BY TotalEmpty DEF AllowedLast, Prefix
<1>2. ASSUME NEW m \in 1 .. Window PROVE AllowedLast(m)' = AllowedLast(m) + 1
  <2>1. IsFiniteSet(0 .. m - 1) /\ 0 \in 0 .. m - 1
    BY FS_Interval, WindowLong
  <2>2. \A i \in 0 .. m - 1 : i \in 0 .. Window - 1
    BY WindowLong
  <2>3. \A i \in 0 .. m - 1 : recent[i] \in Int
    BY <2>2 DEF KeyTypeOK
  <2>4. recent'[0] = recent[0] + 1 /\ \A i \in (0 .. m - 1) \ {0} : recent'[i] = recent[i]
    BY <2>1, <2>2 DEF Allow, KeyTypeOK
  <2>5. 1 \in Int
    OBVIOUS
  <2>. QED BY <2>1, <2>3, <2>4, <2>5, TotalExcept DEF AllowedLast, Prefix
<1>. QED BY <1>1, <1>2

LEMMA TickSums ==
  ASSUME KeyTypeOK, KeyTick
  PROVE  /\ AllowedLast(0)' = 0
         /\ \A m \in 0 .. Window - 1 : AllowedLast(m + 1)' = AllowedLast(m)
<1>1. AllowedLast(0)' = 0
  BY TotalEmpty DEF AllowedLast, Prefix
<1>2. Window \in Nat /\ \A i \in 0 .. Window - 1 : recent[i] \in Nat
  BY WindowLong DEF KeyTypeOK
<1>3. recent' = [i \in 0 .. Window - 1 |-> IF i = 0 THEN 0 ELSE recent[i - 1]]
  BY DEF KeyTick
<1>4. \A m \in 1 .. Window : Prefix(recent', m) = Prefix(recent, m - 1)
  BY <1>2, <1>3, PrefixShift
<1>5. ASSUME NEW m \in 0 .. Window - 1 PROVE AllowedLast(m + 1)' = AllowedLast(m)
  <2>1. m + 1 \in 1 .. Window /\ (m + 1) - 1 = m
    BY <1>2
  <2>2. Prefix(recent', m + 1) = Prefix(recent, m)
    BY <1>4, <2>1
  <2>. QED BY <2>2 DEF AllowedLast
<1>. QED BY <1>1, <1>5

\* A count takes a place, and allows a call only on a place that was left.
LEMMA CountBurst ==
  ASSUME KeyInv, BurstInv, algo = "fixed", NEW c \in Callers, Incr(c), algo' = algo
  PROVE  BurstInv'
<1> USE WindowLong, FixedAssumption
<1>1. /\ KeyTypeOK /\ value \in Nat /\ age \in 0 .. Window
      /\ value' = value + 1 /\ age' = IF value = 0 THEN 0 ELSE age
      /\ recent[0] \in Nat
  BY DEF KeyInv, QuotaInv, KeyTypeOK, Incr, Write
<1>2. /\ AllowedLast(0) = 0 /\ AllowedLast(0 + 1) = AllowedLast(0) + recent[0]
      /\ \A m \in 0 .. Window : AllowedLast(m) \in Nat
  <2>1. 0 \in 0 .. Window - 1
    OBVIOUS
  <2>. QED BY <1>1, <2>1, RecentSums
<1>3. Places' = IF value < Limit THEN value + 1 ELSE Limit
  BY <1>1 DEF Places
<1>4. Places = IF value < Limit THEN value ELSE Limit
  BY <1>1 DEF Places
<1>5. CASE Allow /\ value < Limit
  <2>1. /\ AllowedLast(0)' = 0
        /\ \A m \in 1 .. Window : AllowedLast(m)' = AllowedLast(m) + 1
    BY <1>1, <1>5, AllowSums
  <2>2. CASE value = 0
    <3>1. recent[0] = 0 /\ AllowedLast(Window) <= Limit - 1
      BY <2>2 DEF BurstInv
    <3>2. AllowedLast(1)' = 1 /\ AllowedLast(Window)' = AllowedLast(Window) + 1
      BY <1>2, <2>1, <3>1
    <3>3. /\ age' = 0 /\ value' = 1 /\ Places' = 1
          /\ AllowedLast(age)' = 0 /\ AllowedLast(age + 1)' = 1
      BY <1>1, <1>3, <2>1, <2>2, <3>2 DEF AllowedLast
    <3>. QED BY <1>2, <3>1, <3>2, <3>3 DEF BurstInv
  <2>3. CASE value > 0
    <3>1. /\ age' = age /\ value' > 0 /\ Places' = Places + 1
          /\ AllowedLast(age)' = IF age = 0 THEN 0 ELSE AllowedLast(age) + 1
          /\ age < Window => AllowedLast(age + 1)' = AllowedLast(age + 1) + 1
          /\ AllowedLast(Window)' = AllowedLast(Window) + 1
      BY <1>1, <1>3, <1>4, <1>5, <2>1, <2>3 DEF AllowedLast
    <3>2. AllowedLast(age) \in Nat /\ AllowedLast(Window) \in Nat
          /\ (age < Window => AllowedLast(age + 1) \in Nat) /\ Places \in Nat
      BY <1>1, <1>2, <1>4
    <3>3. /\ AllowedLast(age) + 1 <= Places
          /\ age < Window => /\ AllowedLast(age + 1) <= Places
                             /\ AllowedLast(Window) - AllowedLast(age + 1) <= Limit - 1
      BY <2>3 DEF BurstInv
    <3>. QED BY <3>1, <3>2, <3>3 DEF BurstInv
  <2>. QED BY <1>1, <2>2, <2>3
<1>6. CASE UNCHANGED recent
  <2>1. \A m \in 0 .. Window : AllowedLast(m)' = AllowedLast(m)
    BY <1>6 DEF AllowedLast
  <2>2. CASE value = 0
    <3>1. recent[0] = 0 /\ AllowedLast(Window) <= Limit - 1
      BY <2>2 DEF BurstInv
    <3>2. /\ age' = 0 /\ value' = 1 /\ Places' = 1
          /\ AllowedLast(age)' = 0 /\ AllowedLast(age + 1)' = 0
          /\ AllowedLast(Window)' = AllowedLast(Window)
      BY <1>1, <1>2, <1>3, <1>6, <2>1, <2>2, <3>1 DEF AllowedLast
    <3>. QED BY <1>2, <3>1, <3>2 DEF BurstInv
  <2>3. CASE value > 0
    <3>1. /\ age' = age /\ value' > 0 /\ Places' \in {Places, Places + 1} /\ Places \in Nat
          /\ AllowedLast(age)' = AllowedLast(age)
          /\ AllowedLast(age + 1)' = AllowedLast(age + 1)
          /\ AllowedLast(Window)' = AllowedLast(Window)
      BY <1>1, <1>3, <1>4, <1>6, <2>3 DEF AllowedLast
    <3>2. AllowedLast(age) \in Nat /\ (age < Window => AllowedLast(age + 1) \in Nat)
      BY <1>1, <1>2
    <3>3. /\ AllowedLast(age) + 1 <= Places
          /\ age < Window => /\ AllowedLast(age + 1) <= Places
                             /\ AllowedLast(Window) - AllowedLast(age + 1) <= Limit - 1
      BY <2>3 DEF BurstInv
    <3>. QED BY <3>1, <3>2, <3>3 DEF BurstInv
  <2>. QED BY <1>1, <2>2, <2>3
<1>7. UNCHANGED recent \/ (Allow /\ value < Limit)
  BY <1>1 DEF Incr, Judge, Deny, ReplyLost, Open
<1>. QED BY <1>5, <1>6, <1>7

\* Time moves every call back by a tick, and the key ends only when its creation has
\* left what recent remembers.
LEMMA TickBurst ==
  ASSUME KeyInv, BurstInv, algo = "fixed", KeyTick, algo' = algo
  PROVE  BurstInv'
<1> USE WindowLong, FixedAssumption
<1>1. /\ KeyTypeOK /\ value \in Nat /\ age \in 0 .. Window
      /\ age' = IF age < Window THEN age + 1 ELSE age
      /\ value' \in {0, value}
      /\ recent'[0] = 0
  BY DEF KeyInv, QuotaInv, KeyTypeOK, KeyTick, Older
<1>2. /\ \A m \in 0 .. Window : AllowedLast(m) \in Nat
      /\ \A m \in 0 .. Window - 1 : AllowedLast(m + 1) = AllowedLast(m) + recent[m]
      /\ \A m \in 0 .. Window - 1 : AllowedLast(m + 1)' = AllowedLast(m)
  BY <1>1, RecentSums, TickSums
<1>3. /\ AllowedLast(Window)' = AllowedLast(Window - 1)
      /\ AllowedLast(Window - 1) <= AllowedLast(Window)
      /\ AllowedLast(Window) \in Nat /\ AllowedLast(Window - 1) \in Nat
  <2>1. Window - 1 \in 0 .. Window - 1 /\ (Window - 1) + 1 = Window
        /\ Window \in 0 .. Window /\ Window - 1 \in 0 .. Window
    OBVIOUS
  <2>2. recent[Window - 1] \in Nat
    BY <1>1, <2>1 DEF KeyTypeOK
  <2>3. /\ AllowedLast((Window - 1) + 1)' = AllowedLast(Window - 1)
        /\ AllowedLast((Window - 1) + 1) = AllowedLast(Window - 1) + recent[Window - 1]
        /\ AllowedLast(Window) \in Nat /\ AllowedLast(Window - 1) \in Nat
    BY <1>2, <2>1
  <2>4. AllowedLast(Window)' = AllowedLast(Window - 1)
    BY <2>1, <2>3
  <2>. QED BY <2>1, <2>2, <2>3, <2>4
<1>4. CASE value = 0
  BY <1>1, <1>3, <1>4 DEF BurstInv
<1>5. CASE value > 0 /\ value' = 0
  <2>1. age >= Window - 1
    BY <1>5 DEF KeyInv, QuotaInv, KeyTypeOK, KeyTick, NoExpiry
  <2>2. AllowedLast(age) + 1 <= Limit
    <3>1. AllowedLast(age) + 1 <= Places
      BY <1>5 DEF BurstInv
    <3>. QED BY <1>1, <1>2, <3>1 DEF Places
  <2>3. AllowedLast(Window - 1) <= Limit - 1
    <3>1. age = Window - 1 \/ age = Window
      BY <1>1, <2>1
    <3>. QED BY <1>3, <2>2, <3>1
  <2>. QED BY <1>1, <1>3, <1>5, <2>3 DEF BurstInv
<1>6. CASE value > 0 /\ value' = value
  <2>1. Places' = Places /\ Places \in Nat /\ Places <= Limit
    BY <1>1, <1>6 DEF Places
  <2>2. /\ AllowedLast(age) + 1 <= Places
        /\ age < Window => /\ AllowedLast(age + 1) <= Places
                           /\ AllowedLast(Window) - AllowedLast(age + 1) <= Limit - 1
    BY <1>6 DEF BurstInv
  <2>3. CASE age = Window
    <3>1. age' = Window /\ AllowedLast(age)' = AllowedLast(Window)'
      BY <1>1, <2>3 DEF AllowedLast
    <3>. QED BY <1>3, <1>6, <2>1, <2>2, <2>3, <3>1 DEF BurstInv
  <2>4. CASE age < Window
    <3>1. age \in 0 .. Window - 1 /\ age' = age + 1
      BY <1>1, <2>4
    <3>2. AllowedLast(age)' = AllowedLast(age)
      BY <1>2, <3>1 DEF AllowedLast
    <3>3. age' < Window => AllowedLast(age + 1)' = AllowedLast(age + 1)
      BY <1>2, <3>1 DEF AllowedLast
    <3>4. AllowedLast(age) \in Nat /\ AllowedLast(age + 1) \in Nat
      BY <1>2, <3>1
    <3>5. AllowedLast(age)' + 1 <= Places'
      BY <2>1, <2>2, <3>2
    <3>6. age' < Window => /\ AllowedLast(age + 1)' <= Places'
                           /\ AllowedLast(Window)' - AllowedLast(age + 1)' <= Limit - 1
      BY <1>3, <2>1, <2>2, <2>4, <3>3, <3>4
    <3>. QED BY <1>6, <3>5, <3>6 DEF BurstInv
  <2>. QED BY <1>1, <2>3, <2>4
<1>. QED BY <1>1, <1>4, <1>5, <1>6

LEMMA BurstStep == KeyInv /\ BurstInv /\ [Next]_vars => BurstInv'
<1> SUFFICES ASSUME KeyInv, BurstInv, [Next]_vars, algo' = "fixed"
             PROVE  BurstInv'
  BY DEF BurstInv
<1>1. CASE UNCHANGED <<algo, keyVars>>
  BY <1>1 DEF keyVars, BurstInv, AllowedLast, Places
<1>2. CASE OnKey("fixed", FixedNext)
  <2>1. algo = "fixed" /\ algo' = algo
    BY <1>2 DEF OnKey
  <2>2. ASSUME NEW c \in Callers, SendExpire(c) \/ FailOpen(c) \/ CancelCall(c)
        PROVE  BurstInv'
    BY <2>1, <2>2 DEF SendExpire, FailOpen, Open, CancelCall, BurstInv, AllowedLast, Places
  <2>. QED BY <1>2, <2>1, <2>2, CountBurst, TickBurst
       DEF OnKey, FixedNext, FixedCall, ExpireCounter, FixedFails
<1>. QED BY <1>1, <1>2 DEF Next, OnKey, vars

\* Whatever fails, the fixed window lets through less than twice its limit within any
\* Window ticks in a row, for any limit, window and number of callers.
THEOREM Bursts == Spec => []FixedBurst
<1>1. Init => BurstInv
  <2> SUFFICES ASSUME KeyInit PROVE BurstInv
    BY DEF Init
  <2>1. \A i \in 0 .. Window - 1 : recent[i] = 0
    BY DEF KeyInit
  <2>2. AllowedLast(Window) = 0
    <3>1. IsFiniteSet(0 .. Window - 1) /\ Window \in Nat
      BY FS_Interval, WindowLong
    <3>. QED BY <2>1, <3>1, TotalZero DEF AllowedLast, Prefix
  <2>. QED BY <2>1, <2>2, WindowLong, FixedAssumption DEF BurstInv, KeyInit
<1>2. KeyInv /\ BurstInv => FixedBurst
  <2> SUFFICES ASSUME KeyInv, BurstInv, algo = "fixed"
               PROVE  AllowedLast(Window) <= 2 * Limit - 1
    BY DEF FixedBurst, BurstBound, AllowedLast, Prefix, Total
  <2> USE WindowLong, FixedAssumption
  <2>1. KeyTypeOK /\ value \in Nat /\ age \in 0 .. Window
    BY DEF KeyInv, QuotaInv, KeyTypeOK
  <2>2. /\ \A m \in 0 .. Window : AllowedLast(m) \in Nat
        /\ Places \in Nat /\ Places <= Limit
    BY <2>1, RecentSums DEF Places
  <2>3. AllowedLast(Window) \in Nat /\ AllowedLast(age) \in Nat
        /\ (age < Window => AllowedLast(age + 1) \in Nat)
    BY <2>1, <2>2
  <2>4. CASE value = 0
    BY <2>3, <2>4 DEF BurstInv
  <2>5. CASE value > 0 /\ age < Window
    <3>1. AllowedLast(age + 1) <= Places /\ AllowedLast(Window) - AllowedLast(age + 1) <= Limit - 1
      BY <2>5 DEF BurstInv
    <3>. QED BY <2>2, <2>3, <2>5, <3>1
  <2>6. CASE value > 0 /\ age = Window
    <3>1. AllowedLast(age) + 1 <= Places
      BY <2>6 DEF BurstInv
    <3>. QED BY <2>2, <2>3, <2>6, <3>1
  <2>. QED BY <2>1, <2>4, <2>5, <2>6
<1>. QED BY <1>1, <1>2, BurstStep, KeyInvariant, PTL DEF Spec
-----------------------------------------------------------------------------
(* The token bucket.                                                       *)

\* What the invariant of the bucket says besides its types: the clock of a bucket is
\* never ahead of the last script, nor behind it by more than a script may be late.
BucketInv ==
  /\ BucketTypeOK
  /\ life > 0 => last >= quiet
  /\ life > 0 => last + life <= Lifetime + MaxLag

LEMMA BucketNumbers ==
  /\ Capacity \in Nat \ {0} /\ RefillRate \in Nat \ {0}
  /\ Interval \in Nat \ {0} /\ MaxLag \in Nat /\ Lifetime \in Nat \ {0}
BY BucketAssumption DEF Lifetime

\* A span of an interval or more holds at least one interval.
LEMMA WholeIntervals ==
  ASSUME NEW n \in Nat
  PROVE  /\ n \div Interval \in Nat
         /\ n >= Interval => n \div Interval >= 1
BY BucketNumbers

\* A refill leaves the bucket with no more than its capacity.
LEMMA RefilledBounded ==
  ASSUME BucketInv, NEW c \in Callers
  PROVE  /\ Refilled(c) \in 0 .. Capacity
         /\ life > 0 /\ last - lag[c] >= Interval => Refilled(c) > 0
         /\ life = 0 => Refilled(c) > 0
<1> DEFINE delta == Greatest(0, last - lag[c])
           refill == (delta \div Interval) * RefillRate
<1>1. delta \in Nat /\ (last - lag[c] >= Interval => delta >= Interval)
  BY BucketNumbers DEF BucketInv, BucketTypeOK, Greatest
<1>2. \A m, n \in Nat : m * n \in Nat /\ (m > 0 /\ n > 0 => m * n > 0)
  OBVIOUS
<1>3. delta \div Interval \in Nat /\ (delta >= Interval => delta \div Interval >= 1)
  <2> HIDE DEF delta
  <2>. QED BY <1>1, WholeIntervals
<1>4. refill \in Nat /\ (delta >= Interval => refill > 0)
  <2> DEFINE m == delta \div Interval
  <2>1. m \in Nat /\ (delta >= Interval => m > 0)
    BY <1>3
  <2> HIDE DEF m, delta
  <2>2. m * RefillRate \in Nat /\ (m > 0 => m * RefillRate > 0)
    BY <1>2, <2>1, BucketNumbers
  <2>. QED BY <2>1, <2>2 DEF m
<1>5. Refilled(c) = IF life = 0 THEN Capacity ELSE Least(Capacity, tokens + refill)
  BY DEF Refilled
<1> HIDE DEF delta, refill
<1>. QED BY <1>1, <1>4, <1>5, BucketNumbers DEF BucketInv, BucketTypeOK, Least

LEMMA BucketStep == BucketInv /\ [Next]_vars => BucketInv'
<1> SUFFICES ASSUME BucketInv, [Next]_vars PROVE BucketInv'
  OBVIOUS
<1> USE BucketNumbers DEF BucketInv, BucketTypeOK
<1>1. ASSUME NEW c \in Callers, ReadClock(c) PROVE BucketInv'
  BY <1>1 DEF ReadClock
<1>2. ASSUME NEW c \in Callers, Script(c) PROVE BucketInv'
  <2>1. tokens' \in 0 .. Capacity
    BY <1>2, RefilledBounded DEF Script
  <2>2. spent' \in [0 .. Lifetime -> Nat]
    BY <1>2 DEF Script
  <2>3. evals' \in SUBSET Callers /\ lag' \in [Callers -> 0 .. MaxLag]
    BY <1>2 DEF Script, Sent
  <2>4. last' = lag[c] /\ life' = Lifetime /\ quiet' = 0
    BY <1>2 DEF Script
  <2>. QED BY <2>1, <2>2, <2>3, <2>4
<1>3. ASSUME NEW c \in Callers, ScriptFails(c) PROVE BucketInv'
  BY <1>3 DEF ScriptFails, Sent
<1>4. CASE BucketTick
  <2>1. lag' \in [Callers -> 0 .. MaxLag]
    BY <1>4 DEF BucketTick
  <2>2. spent' \in [0 .. Lifetime -> Nat]
    BY <1>4 DEF BucketTick
  <2>3. tokens' \in 0 .. Capacity /\ evals' \in SUBSET Callers
    BY <1>4 DEF BucketTick
  <2>4. /\ last' = IF life > 1 THEN last + 1 ELSE 0
        /\ life' = IF life = 0 THEN 0 ELSE life - 1
        /\ quiet' = IF quiet < Lifetime THEN quiet + 1 ELSE Lifetime
    BY <1>4 DEF BucketTick, Greatest, Least
  <2>. QED BY <2>1, <2>2, <2>3, <2>4
<1>5. CASE UNCHANGED bucketVars
  BY <1>5 DEF bucketVars
<1>. QED
  BY <1>1, <1>2, <1>3, <1>4, <1>5
  DEF Next, OnKey, vars, bucketVars, BucketNext, BucketCall

LEMMA BucketInvariant == Spec => []BucketInv
<1>1. Init => BucketInv
  BY BucketNumbers DEF Init, BucketInit, BucketInv, BucketTypeOK
<1>. QED BY <1>1, BucketStep, PTL DEF Spec

\* The bucket never holds more than its capacity, nor outlives two intervals.
THEOREM BucketTypes == Spec => []BucketTypeOK
BY BucketInvariant, PTL DEF BucketInv

\* An interval's pause is enough to be allowed, however late the scripts before came.
THEOREM Pauses == Spec => PauseSuffices
<1>1. BucketInv /\ [Next]_vars =>
        [\A c \in Callers : Denied(c) => quiet < Interval + lag[c]]_bucketVars
  BY RefilledBounded, BucketNumbers DEF Denied, BucketInv, BucketTypeOK
<1>. QED BY <1>1, BucketInvariant, PTL DEF Spec, PauseSuffices

-----------------------------------------------------------------------------
(* The span of the bucket.                                                 *)

\* How far a late script lets the clock of the bucket be put back, an interval is
\* at least this long for the callers together.
Slack == Interval - MaxLag

\* The refills that u ticks have room for.
Refills(u) == RefillRate * (u \div Slack)

\* A bucket lives as long as its last script is remembered, so one that is created has
\* nothing behind it; and what a living bucket allowed within n ticks, with what it
\* holds, is a full bucket and the refills of the time between the first and the last
\* script of them.
SpanInv ==
  /\ life = 0 => quiet = Lifetime
  /\ life > 0 => life + quiet = Lifetime /\ last <= quiet + MaxLag
  /\ \A n \in 0 .. quiet : Prefix(spent, n) = 0
  /\ MaxLag < Interval /\ life > 0 =>
       \A n \in 1 .. Lifetime : quiet < n =>
         Prefix(spent, n) + tokens <= Capacity + Refills((n - 1) - quiet)

\* A whole part is what it says.
LEMMA WholePart ==
  ASSUME NEW d \in Nat \ {0}, NEW u \in Nat
  PROVE  /\ u \div d \in Nat
         /\ (u \div d) * d <= u
         /\ u < ((u \div d) + 1) * d
OBVIOUS

LEMMA Monotone ==
  ASSUME NEW d \in Nat, NEW a \in Nat, NEW b \in Nat
  PROVE  /\ a <= b => a * d <= b * d /\ d * a <= d * b
         /\ (a + b) * d = a * d + b * d
         /\ d * (a + b) = d * a + d * b
         /\ a * d = d * a
         /\ a * d \in Nat
OBVIOUS

\* k more refills need k more times Slack.
LEMMA RefillsMore ==
  ASSUME MaxLag < Interval, NEW u \in Nat, NEW v \in Nat, NEW k \in Nat, u + k * Slack <= v
  PROVE  /\ Refills(u) \in Nat /\ Refills(v) \in Nat
         /\ Refills(u) + k * RefillRate <= Refills(v)
<1> DEFINE p == u \div Slack
           q == v \div Slack
<1>1. Slack \in Nat \ {0} /\ RefillRate \in Nat
  BY BucketNumbers DEF Slack
<1>2. /\ p \in Nat /\ p * Slack <= u
      /\ q \in Nat /\ v < (q + 1) * Slack
  BY <1>1, WholePart
<1> HIDE DEF p, q
<1>3. k * Slack \in Nat /\ p * Slack \in Nat /\ (p + k) * Slack = p * Slack + k * Slack
  BY <1>1, <1>2, Monotone
<1>4. (p + k) * Slack < (q + 1) * Slack /\ (p + k) * Slack \in Nat /\ (q + 1) * Slack \in Nat
  <2>1. (q + 1) * Slack \in Nat
    BY <1>1, <1>2, Monotone
  <2>. QED BY <1>2, <1>3, <2>1
<1>5. p + k <= q
  <2>1. q + 1 <= p + k => (q + 1) * Slack <= (p + k) * Slack
    BY <1>1, <1>2, Monotone
  <2>. QED BY <1>2, <1>4, <2>1
<1>6. RefillRate * (p + k) <= RefillRate * q
  <2>1. p + k \in Nat
    BY <1>2
  <2>. QED BY <1>1, <1>2, <1>5, <2>1, Monotone
<1>7. /\ RefillRate * (p + k) = RefillRate * p + RefillRate * k
      /\ k * RefillRate = RefillRate * k /\ RefillRate * k \in Nat
      /\ RefillRate * p \in Nat /\ RefillRate * q \in Nat
  BY <1>1, <1>2, Monotone
<1>. QED BY <1>6, <1>7 DEF Refills, p, q

\* A script finds no more refills than the time since the last one has room for, the
\* lateness of both counted.
LEMMA RefillPace ==
  ASSUME BucketInv, SpanInv, MaxLag < Interval, life > 0, NEW c \in Callers
  PROVE  \E k \in Nat : /\ k * Slack <= quiet
                        /\ Refilled(c) <= tokens + k * RefillRate
<1> DEFINE delta == Greatest(0, last - lag[c])
           k == delta \div Interval
<1>1. /\ delta \in Nat /\ delta <= quiet + MaxLag /\ quiet \in Nat /\ tokens \in Nat
  BY BucketNumbers DEF BucketInv, BucketTypeOK, SpanInv, Greatest
<1>2. Refilled(c) <= tokens + k * RefillRate
  <2>1. k \in Nat
    <3> HIDE DEF delta
    <3>. QED BY <1>1, WholePart, BucketNumbers
  <2>2. Refilled(c) = Least(Capacity, tokens + k * RefillRate)
    BY DEF Refilled
  <2> HIDE DEF k
  <2>3. k * RefillRate \in Nat
    BY <2>1, BucketNumbers, Monotone
  <2>. QED BY <1>1, <2>2, <2>3, BucketNumbers DEF Least
<1> HIDE DEF delta
<1>3. k \in Nat /\ k * Interval <= delta
  BY <1>1, WholePart, BucketNumbers
<1> HIDE DEF k
<1>4. k * Slack <= quiet
  <2>1. k = 0 => k * Slack = 0
    BY BucketNumbers DEF Slack
  <2>2. k * Slack = k * Interval - k * MaxLag
    BY <1>3, BucketNumbers DEF Slack
  <2>3. k * Interval \in Nat /\ k * MaxLag \in Nat /\ (k >= 1 => MaxLag <= k * MaxLag)
    <3>1. k >= 1 => 1 * MaxLag <= k * MaxLag
      BY <1>3, BucketNumbers, Monotone
    <3>2. k * Interval \in Nat /\ k * MaxLag \in Nat /\ 1 * MaxLag = MaxLag
      BY <1>3, BucketNumbers, Monotone
    <3>. QED BY <3>1, <3>2
  <2>. QED BY <1>1, <1>3, <2>1, <2>2, <2>3, BucketNumbers
<1>. QED BY <1>2, <1>3, <1>4

\* What a script and a tick do to the sums.
LEMMA SpentSums ==
  ASSUME BucketTypeOK
  PROVE  \A n \in 0 .. Lifetime : Prefix(spent, n) \in Nat
<1>1. /\ Lifetime + 1 \in Nat
      /\ \A i \in 0 .. (Lifetime + 1) - 1 : spent[i] \in Nat
      /\ \A n \in 0 .. Lifetime : n \in 0 .. Lifetime + 1
  BY BucketNumbers DEF BucketTypeOK
<1>. QED BY <1>1, PrefixSum

LEMMA SpendSums ==
  ASSUME BucketTypeOK, spent' = [spent EXCEPT ![0] = @ + 1]
  PROVE  \A n \in 1 .. Lifetime : Prefix(spent', n) = Prefix(spent, n) + 1
<1>1. ASSUME NEW n \in 1 .. Lifetime PROVE Prefix(spent', n) = Prefix(spent, n) + 1
  <2>1. IsFiniteSet(0 .. n - 1) /\ 0 \in 0 .. n - 1
    BY FS_Interval, BucketNumbers
  <2>2. \A i \in 0 .. n - 1 : i \in 0 .. Lifetime
    BY BucketNumbers
  <2>3. \A i \in 0 .. n - 1 : spent[i] \in Int
    BY <2>2 DEF BucketTypeOK
  <2>4. spent'[0] = spent[0] + 1 /\ \A i \in (0 .. n - 1) \ {0} : spent'[i] = spent[i]
    BY <2>1, <2>2 DEF BucketTypeOK
  <2> DEFINE S == 0 .. n - 1
  <2>5. /\ 1 \in Int /\ IsFiniteSet(S) /\ 0 \in S /\ \A i \in S : spent[i] \in Int
        /\ spent'[0] = spent[0] + 1 /\ \A i \in S \ {0} : spent'[i] = spent[i]
    BY <2>1, <2>3, <2>4
  <2>6. Total(spent', S) = Total(spent, S) + 1
    <3> HIDE DEF S
    <3>. QED BY ONLY <2>5, TotalExcept
  <2>. QED BY <2>6 DEF Prefix
<1>. QED BY <1>1

LEMMA PassSums ==
  ASSUME BucketTypeOK, BucketTick
  PROVE  /\ Prefix(spent', 0) = 0
         /\ \A n \in 1 .. Lifetime : Prefix(spent', n) = Prefix(spent, n - 1)
<1>1. Prefix(spent', 0) = 0
  BY TotalEmpty DEF Prefix
<1>2. /\ Lifetime + 1 \in Nat
      /\ (Lifetime + 1) - 1 = Lifetime
      /\ \A i \in 0 .. Lifetime : spent[i] \in Nat
      /\ \A n \in 1 .. Lifetime : n \in 1 .. Lifetime + 1
  BY BucketNumbers DEF BucketTypeOK
<1>3. spent' = [i \in 0 .. Lifetime |-> IF i = 0 THEN 0 ELSE spent[i - 1]]
  BY DEF BucketTick
<1>4. \A n \in 1 .. Lifetime + 1 : Prefix(spent', n) = Prefix(spent, n - 1)
  BY <1>2, <1>3, PrefixShift
<1>. QED BY <1>1, <1>2, <1>4

\* A script takes a token for each call it allows, from what the bucket held and the
\* refills it found.
LEMMA ScriptSpan ==
  ASSUME BucketInv, SpanInv, NEW c \in Callers, Script(c)
  PROVE  SpanInv'
<1> USE BucketNumbers
<1>0. /\ BucketTypeOK /\ quiet \in 0 .. Lifetime /\ tokens \in Nat /\ lag[c] \in 0 .. MaxLag
      /\ life \in Nat
      /\ Refilled(c) \in Nat /\ Refilled(c) <= Capacity
      /\ life' = Lifetime /\ quiet' = 0 /\ last' = lag[c]
  BY RefilledBounded DEF BucketInv, BucketTypeOK, Script
<1>1. PICK g \in {0, 1} : /\ \A n \in 1 .. Lifetime : Prefix(spent', n) = Prefix(spent, n) + g
                          /\ tokens' + g <= Refilled(c)
                          /\ tokens' \in Nat
  <2>1. tokens' \in Nat /\ tokens' <= Refilled(c) /\ (Refilled(c) > 0 => tokens' + 1 <= Refilled(c))
    BY <1>0 DEF Script
  <2>2. CASE spent' = spent
    <3>1. \A n \in 1 .. Lifetime : Prefix(spent, n) \in Nat
      BY <1>0, SpentSums
    <3>2. \A n \in 1 .. Lifetime : Prefix(spent', n) = Prefix(spent, n) + 0
      BY <2>2, <3>1
    <3>3. tokens' + 0 <= Refilled(c)
      BY <2>1
    <3>. QED BY <2>1, <3>2, <3>3
  <2>3. CASE Refilled(c) > 0 /\ spent' = [spent EXCEPT ![0] = @ + 1]
    BY <1>0, <2>1, <2>3, SpendSums
  <2>. QED BY <2>2, <2>3 DEF Script
<1>2. \A n \in 0 .. Lifetime : Prefix(spent, n) \in Nat
  BY <1>0, SpentSums
<1>3. Prefix(spent', 0) = 0
  BY TotalEmpty DEF Prefix
<1>4. ASSUME MaxLag < Interval, NEW n \in 1 .. Lifetime
      PROVE  Prefix(spent', n) + tokens' <= Capacity + Refills(n - 1)
  <2>1. /\ n \in 0 .. Lifetime /\ n - 1 \in Nat
        /\ Prefix(spent, n) \in Nat /\ Prefix(spent', n) = Prefix(spent, n) + g
    BY <1>1, <1>2
  <2>2. Refills(n - 1) \in Nat
    <3>1. (n - 1) + 0 * Slack <= n - 1
      BY <1>4 DEF Slack
    <3>. QED BY <1>4, <2>1, <3>1, RefillsMore
  <2>3. CASE n <= quiet
    <3>1. Prefix(spent, n) = 0
      BY <1>0, <2>1, <2>3 DEF SpanInv
    <3>. QED BY <1>0, <1>1, <2>1, <2>2, <3>1
  <2>4. CASE quiet < n
    <3>1. life > 0
      BY <1>0, <2>4 DEF SpanInv
    <3>2. PICK k \in Nat : k * Slack <= quiet /\ Refilled(c) <= tokens + k * RefillRate
      BY <1>4, <3>1, RefillPace
    <3>3. Prefix(spent, n) + tokens <= Capacity + Refills((n - 1) - quiet)
      BY <1>4, <2>4, <3>1 DEF SpanInv
    <3>4. k * Slack \in Nat /\ k * RefillRate \in Nat
      <4>1. Slack \in Nat /\ RefillRate \in Nat
        BY <1>4 DEF Slack
      <4>. QED BY <3>2, <4>1, Monotone
    <3>5. (n - 1) - quiet \in Nat /\ ((n - 1) - quiet) + k * Slack <= n - 1
      BY <1>0, <2>1, <2>4, <3>2, <3>4
    <3>6. /\ Refills((n - 1) - quiet) \in Nat
          /\ Refills((n - 1) - quiet) + k * RefillRate <= Refills(n - 1)
      BY <1>4, <2>1, <3>2, <3>5, RefillsMore
    <3>. QED BY <1>0, <1>1, <2>1, <2>2, <3>2, <3>3, <3>4, <3>6
  <2>. QED BY <1>0, <2>1, <2>3, <2>4
<1>5. \A n \in 1 .. Lifetime : (n - 1) - 0 = n - 1
  OBVIOUS
<1>. QED BY <1>0, <1>3, <1>4, <1>5 DEF SpanInv

LEMMA TickSpan ==
  ASSUME BucketInv, SpanInv, BucketTick
  PROVE  SpanInv'
<1> USE BucketNumbers
<1>0. /\ BucketTypeOK /\ quiet \in 0 .. Lifetime /\ tokens \in Nat /\ last \in Nat
      /\ life \in 0 .. Lifetime
      /\ last' = IF life > 1 THEN last + 1 ELSE 0
      /\ life' = IF life = 0 THEN 0 ELSE life - 1
      /\ quiet' = IF quiet < Lifetime THEN quiet + 1 ELSE Lifetime
      /\ life > 1 => tokens' = tokens
  BY DEF BucketInv, BucketTypeOK, BucketTick, Greatest, Least
<1>1. /\ life = 0 => quiet = Lifetime
      /\ life > 0 => life + quiet = Lifetime /\ last <= quiet + MaxLag
  BY DEF SpanInv
<1>2. /\ life' = 0 => quiet' = Lifetime
      /\ life' > 0 => life' + quiet' = Lifetime /\ last' <= quiet' + MaxLag
                      /\ life > 1 /\ quiet' = quiet + 1 /\ tokens' = tokens
  BY <1>0, <1>1
<1>3. /\ Prefix(spent', 0) = 0
      /\ \A n \in 1 .. Lifetime : Prefix(spent', n) = Prefix(spent, n - 1)
  BY <1>0, PassSums
<1>4. ASSUME NEW n \in 0 .. quiet' PROVE Prefix(spent', n) = 0
  <2>1. n = 0 \/ (n \in 1 .. Lifetime /\ n - 1 \in 0 .. quiet)
    BY <1>0
  <2>. QED BY <1>3, <2>1 DEF SpanInv
<1>5. ASSUME MaxLag < Interval, life' > 0, NEW n \in 1 .. Lifetime, quiet' < n
      PROVE  Prefix(spent', n) + tokens' <= Capacity + Refills((n - 1) - quiet')
  <2>1. n - 1 \in 1 .. Lifetime /\ quiet < n - 1 /\ ((n - 1) - 1) - quiet = (n - 1) - quiet'
    BY <1>0, <1>2, <1>5
  <2>2. life > 0
    BY <1>0, <1>2, <1>5
  <2>3. Prefix(spent, n - 1) + tokens <= Capacity + Refills(((n - 1) - 1) - quiet)
    BY <1>5, <2>1, <2>2 DEF SpanInv
  <2>. QED BY <1>2, <1>3, <1>5, <2>1, <2>3
<1>. QED BY <1>2, <1>4, <1>5 DEF SpanInv

LEMMA SpanStep == BucketInv /\ SpanInv /\ [Next]_vars => SpanInv'
<1> SUFFICES ASSUME BucketInv, SpanInv, [Next]_vars PROVE SpanInv'
  OBVIOUS
<1>1. ASSUME UNCHANGED <<tokens, last, life, quiet, spent>> PROVE SpanInv'
  BY <1>1 DEF SpanInv
<1>2. ASSUME NEW c \in Callers, ReadClock(c) \/ ScriptFails(c) PROVE SpanInv'
  BY <1>1, <1>2 DEF ReadClock, ScriptFails
<1>. QED
  BY <1>1, <1>2, ScriptSpan, TickSpan
  DEF Next, OnKey, vars, bucketVars, BucketNext, BucketCall

\* In any two intervals the bucket allows a full bucket and a refill for every
\* Interval - MaxLag ticks, for any capacity, rate and interval and any number of
\* callers: neither a pause nor the end of the key gains anybody a call.
THEOREM Spans == Spec => []SpanBound
<1>1. Init => SpanInv
  <2> SUFFICES ASSUME BucketInit PROVE SpanInv
    BY DEF Init
  <2>1. ASSUME NEW n \in 0 .. quiet PROVE Prefix(spent, n) = 0
    <3>1. \A i \in 0 .. n - 1 : spent[i] = 0
      BY <2>1, BucketNumbers DEF BucketInit
    <3>2. IsFiniteSet(0 .. n - 1)
      BY <2>1, FS_Interval, BucketNumbers DEF BucketInit
    <3>. QED BY <3>1, <3>2, TotalZero DEF Prefix
  <2>. QED BY <2>1, BucketNumbers DEF BucketInit, SpanInv
<1>2. BucketInv /\ SpanInv => SpanBound
  <2> SUFFICES ASSUME BucketInv, SpanInv, MaxLag < Interval
               PROVE  Prefix(spent, Lifetime) <= Capacity + Refills(Lifetime - 1)
    BY DEF SpanBound, AllowedWithin, Prefix, Total, Refills, Slack
  <2> USE BucketNumbers
  <2>1. /\ quiet \in 0 .. Lifetime /\ life \in Nat /\ tokens \in Nat
        /\ Lifetime \in 1 .. Lifetime /\ Lifetime \in 0 .. Lifetime
        /\ Prefix(spent, Lifetime) \in Nat /\ Lifetime - 1 \in Nat
    BY SpentSums DEF BucketInv, BucketTypeOK
  <2>2. \A u \in Nat : u <= Lifetime - 1 => /\ Refills(u) \in Nat
                                            /\ Refills(Lifetime - 1) \in Nat
                                            /\ Refills(u) <= Refills(Lifetime - 1)
    <3>1. ASSUME NEW u \in Nat, u <= Lifetime - 1
          PROVE  /\ Refills(u) \in Nat
                 /\ Refills(Lifetime - 1) \in Nat
                 /\ Refills(u) <= Refills(Lifetime - 1)
      <4>1. u + 0 * Slack <= Lifetime - 1 /\ 0 * RefillRate = 0
        BY <3>1 DEF Slack
      <4>2. Refills(u) + 0 * RefillRate <= Refills(Lifetime - 1)
            /\ Refills(u) \in Nat /\ Refills(Lifetime - 1) \in Nat
        BY <2>1, <4>1, RefillsMore
      <4>. QED BY <4>1, <4>2
    <3>. QED BY <3>1
  <2>3. CASE quiet = Lifetime
    BY <2>1, <2>2, <2>3 DEF SpanInv
  <2>4. CASE quiet < Lifetime
    <3>1. Prefix(spent, Lifetime) + tokens <= Capacity + Refills((Lifetime - 1) - quiet)
      BY <2>1, <2>4 DEF SpanInv
    <3>2. (Lifetime - 1) - quiet \in Nat /\ (Lifetime - 1) - quiet <= Lifetime - 1
      BY <2>1, <2>4
    <3>. QED BY <2>1, <2>2, <3>1, <3>2
  <2>. QED BY <2>1, <2>3, <2>4
<1>. QED BY <1>1, <1>2, SpanStep, BucketInvariant, PTL DEF Spec
=============================================================================
