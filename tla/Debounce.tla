------------------------------ MODULE Debounce ------------------------------
(***************************************************************************)
(* is_allowed_debounce of src/algorithims/rate_limit/debounce.py: read the *)
(* TTL of a key, and if it has none left SET it for another interval.  The *)
(* server keeps milliseconds and TTL answers in seconds, rounded to the    *)
(* nearest, so a key in its last half second reads as 0.                   *)
(***************************************************************************)
EXTENDS LimiterKey

\* ttl > 0: TTL of the key, in seconds rounded to the nearest, is 1 or more; it is
\* 0 in the last half second and negative for a key that is gone.
PositiveTTL == ttl >= Half

\* The mutant that lets a call through while TTL is 1.
ReadTTLEarly(c) ==
  /\ pc[c] = "idle"
  /\ IF ttl >= 3 * Half THEN Deny /\ UNCHANGED pc
                        ELSE UNCHANGED <<verdict, recent>> /\ Goto(c, "set")
  /\ UNCHANGED <<value, ttl, age, since, lost>>

\* A positive TTL denies the call, which leaves the key as it is.
ReadTTL(c) ==
  /\ pc[c] = "idle"
  /\ IF PositiveTTL THEN Deny /\ UNCHANGED pc
                    ELSE UNCHANGED <<verdict, recent>> /\ Goto(c, "set")
  /\ UNCHANGED <<value, ttl, age, since, lost>>

\* The mutant that keeps the expiry of a key another caller has just set.
SetKeepTTL(c) ==
  /\ pc[c] = "set"
  /\ Goto(c, "idle")
  /\ value' = 1
  /\ ttl' = IF value = 1 THEN ttl ELSE Window
  /\ since' = [since EXCEPT ![c] = 0]
  /\ verdict' = "allowed"
  /\ UNCHANGED <<age, recent, lost>>

\* SET key now EX interval: the key lives for a whole interval from here and the
\* call is allowed; so it is when only the reply was lost.
Set(c) ==
  /\ pc[c] = "set"
  /\ Goto(c, "idle")
  /\ value' = 1
  /\ ttl' = Window
  /\ since' = [since EXCEPT ![c] = 0]
  /\ verdict' = "allowed"
  /\ UNCHANGED <<age, recent, lost>>

\* No connection or no answer, or a task cancelled on its way.
DebounceFails(c) == FailOpen(c) \/ CancelCall(c)

DebounceCall(c) == ReadTTL(c) \/ Set(c) \/ DebounceFails(c)

DebounceNext == KeyTick \/ \E c \in Callers : DebounceCall(c)

-----------------------------------------------------------------------------
\* The inductive invariant: the key lives as long as any caller's interval, and a
\* caller on its way to the SET has sat its own out.
SpacingInv ==
  /\ KeyTypeOK
  /\ \A c \in Callers : since[c] < Window => since[c] + ttl >= Window
  /\ \A c \in Callers : pc[c] = "set" => since[c] > Window - Half

\* Whoever races whom between the TTL and the SET, a caller that was let through
\* by the key is let through again only an interval later, less the half second
\* TTL rounds away: N callers are allowed at most N calls an interval.
CallerSpaced ==
  [][\A c \in Callers : pc[c] = "set" /\ since'[c] = 0 /\ pc'[c] = "idle" =>
       since[c] > Window - Half]_keyVars
=============================================================================
