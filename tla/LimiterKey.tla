----------------------------- MODULE LimiterKey -----------------------------
(***************************************************************************)
(* What the limiters of src/algorithims/rate_limit/ have in common: one    *)
(* key of the server that every caller works on with INCR, SETNX, SET,     *)
(* EXPIRE and TTL, each command an await of its own, and the ways a        *)
(* command can fail.  FixedWindow, Throttle, Debounce and SlidingWindow    *)
(* add what the callers do.                                                *)
(*                                                                         *)
(* Time is relative (how long the key still lives, how long ago a call was *)
(* allowed), so the clock needs no bound.                                  *)
(***************************************************************************)
EXTENDS Integers

CONSTANTS
  Callers,   \* tasks that call one limiter on one key
  Window,    \* the parameter window or interval, in ticks; a second or more
  Half,      \* ticks in half a second
  Faults,    \* what may go wrong: a subset of FaultKinds
  MaxCount   \* bound: no INCR beyond it

\* "conn": no connection, or a command that never ran; "reply": a command ran and
\* its reply was lost; "resend": and the driver, given a Retry by the client,
\* sends it again; "expire": the EXPIRE fails; "cancel": the task is cancelled.
FaultKinds == {"conn", "reply", "resend", "expire", "cancel"}

ASSUME KeyAssumption ==
  /\ Half \in Nat \ {0}
  /\ Window \in Nat /\ 2 * Half <= Window
  /\ MaxCount \in Nat
  /\ Faults \subseteq FaultKinds

NoExpiry == -1

VARIABLES
  value,    \* the counter under the key; 0 when the key does not exist
  ttl,      \* ticks the key still lives; NoExpiry without an expiry or a key
  pc,       \* "idle", or the command each caller is about to send
  verdict,  \* what the last call was told
  age,      \* history: ticks since the key was created, up to Window
  recent,   \* history: calls allowed i ticks ago, for each i < Window
  since,    \* history: ticks since each caller's last SET, up to Window
  lost      \* history: whether a fault has cost a command or its caller

keyVars == <<value, ttl, pc, verdict, age, recent, since, lost>>

KeyTypeOK ==
  /\ value \in Nat
  /\ ttl \in (1 .. Window) \cup {NoExpiry}
  /\ pc \in [Callers -> {"idle", "again", "expire", "set"}]
  /\ verdict \in {"none", "allowed", "denied", "open"}
  /\ age \in 0 .. Window
  /\ recent \in [0 .. Window - 1 -> Nat]
  /\ since \in [Callers -> 0 .. Window]
  /\ lost \in BOOLEAN

KeyInit ==
  /\ value = 0
  /\ ttl = NoExpiry
  /\ pc = [c \in Callers |-> "idle"]
  /\ verdict = "none"
  /\ age = 0
  /\ recent = [i \in 0 .. Window - 1 |-> 0]
  /\ since = [c \in Callers |-> Window]
  /\ lost = FALSE

-----------------------------------------------------------------------------
Goto(c, step) == pc' = [pc EXCEPT ![c] = step]

Allow == verdict' = "allowed" /\ recent' = [recent EXCEPT ![0] = @ + 1]
Deny  == verdict' = "denied" /\ UNCHANGED recent
Open  == verdict' = "open" /\ UNCHANGED recent

\* INCR and SETNX, which writes 1: a key they create has no expiry.
Write(new) ==
  /\ value' = new
  /\ age' = IF value = 0 THEN 0 ELSE age
  /\ UNCHANGED ttl

\* The reply to a command that ran is lost: the limiter's except lets the call
\* through, or the driver sends the command again.
ReplyLost(c) ==
  /\ lost' = TRUE
  /\ \/ "reply" \in Faults /\ Goto(c, "idle") /\ Open
     \/ "resend" \in Faults /\ Goto(c, "again") /\ UNCHANGED <<verdict, recent>>

\* EXPIRE key window.  The key is there: nobody else gives it an expiry.
SendExpire(c) ==
  /\ pc[c] = "expire"
  /\ Goto(c, "idle")
  /\ \/ ttl' = Window /\ UNCHANGED lost
     \/ "expire" \in Faults /\ UNCHANGED ttl /\ lost' = TRUE
  /\ UNCHANGED <<value, verdict, age, recent, since>>

\* No connection, or a command that never ran: every limiter lets the call through.
FailOpen(c) ==
  /\ "conn" \in Faults
  /\ pc[c] \in {"idle", "again", "set"}
  /\ Goto(c, "idle")
  /\ Open
  /\ lost' = TRUE
  /\ UNCHANGED <<value, ttl, age, since>>

\* A task cancelled at an await: CancelledError passes by every except.
CancelCall(c) ==
  /\ "cancel" \in Faults
  /\ pc[c] # "idle"
  /\ Goto(c, "idle")
  /\ lost' = TRUE
  /\ UNCHANGED <<value, ttl, verdict, age, recent, since>>

Older(n) == IF n < Window THEN n + 1 ELSE n

KeyTick ==
  /\ ttl' = IF ttl \in {1, NoExpiry} THEN NoExpiry ELSE ttl - 1
  /\ value' = IF ttl = 1 THEN 0 ELSE value
  /\ age' = Older(age)
  /\ recent' = [i \in 0 .. Window - 1 |-> IF i = 0 THEN 0 ELSE recent[i - 1]]
  /\ since' = [c \in Callers |-> Older(since[c])]
  /\ UNCHANGED <<pc, verdict, lost>>

-----------------------------------------------------------------------------
(* Shared by the two limiters that let a first caller set the expiry.      *)

\* The inductive invariant of their refinement: at most one EXPIRE is on its way,
\* on a key that lives and has none yet; and an expiry never ends a window early.
QuotaInv ==
  /\ KeyTypeOK
  /\ \A c, d \in Callers : pc[c] = "expire" /\ pc[d] = "expire" => c = d
  /\ (\E c \in Callers : pc[c] = "expire") => value > 0 /\ ttl = NoExpiry
  /\ ttl # NoExpiry => value > 0 /\ age + ttl >= Window

\* The key always goes away again, and with it the denials, unless a fault cost
\* the key its expiry.
Reopens == []<>(value = 0 \/ lost)

\* test_rate_limit_algorithms.py:107, "Wait for window/interval and allow again".
AlwaysReopens == []<>(value = 0)
=============================================================================
