----------------------------- MODULE WindowQuota -----------------------------
(***************************************************************************)
(* What a limiter with windows of its own promises, whatever its commands: *)
(* a window opens with a call, lasts at least Window ticks, and has Limit  *)
(* places.  A call is allowed only on a place and denied only when none is *)
(* left.  A call the limiter could not judge is let through ("open"), and  *)
(* may cost a place all the same; so may a command that is sent twice.     *)
(***************************************************************************)
EXTENDS Integers

CONSTANTS Limit, Window

VARIABLES
  used,     \* places taken in the window; 0 when no window is open
  age,      \* ticks since the window opened, up to Window
  verdict   \* what the last judged call was told

quotaVars == <<used, age, verdict>>

QuotaInit == used = 0 /\ age = 0 /\ verdict = "none"

TakePlace ==
  /\ used < Limit
  /\ used' = used + 1
  /\ age' = IF used = 0 THEN 0 ELSE age

Allow == TakePlace /\ verdict' = "allowed"

Deny == used = Limit /\ verdict' = "denied" /\ UNCHANGED <<used, age>>

Open == (TakePlace \/ UNCHANGED <<used, age>>) /\ verdict' = "open"

\* A command that is sent again takes a place for nobody.
Waste == TakePlace /\ UNCHANGED verdict

\* Time passes; the window may close once it has lasted Window ticks.
Pass ==
  /\ age' = IF age < Window THEN age + 1 ELSE age
  /\ used' = used \/ (age' = Window /\ used' = 0)
  /\ UNCHANGED verdict

QuotaNext == Allow \/ Deny \/ Open \/ Waste \/ Pass

QuotaSpec == QuotaInit /\ [][QuotaNext]_quotaVars
=============================================================================
