----------------------------- MODULE LimitedCall -----------------------------
(***************************************************************************)
(* The entry points around check_rate_limit in                             *)
(* src/limiting/rate_limit.py: service_rate_limit and verify_and_limit,    *)
(* the counter both keep beside the log (increment_rate_limit), and what   *)
(* get_remaining_limit makes of it.                                        *)
(*                                                                         *)
(* check_rate_limit itself is one step here: SlidingLog models its awaits. *)
(* The log is the number of entries of each age; time is relative.         *)
(***************************************************************************)
EXTENDS Integers, FiniteSetsExt

CONSTANTS
  Callers,   \* tasks that call the entry point for one key
  Limit,     \* the limit of the check
  Window,    \* its window, in ticks; the counter's expiry too
  Faults,    \* a subset of FaultKinds
  MaxCalls   \* bound: calls that are let past the check

\* "meta", "get", "set": that step's await raises; "check": the check fails open;
\* "cancel": the task is cancelled at an await.
FaultKinds == {"meta", "check", "get", "set", "cancel"}

ASSUME LimitedCallAssumption ==
  /\ IsFiniteSet(Callers)
  /\ Limit \in Nat \ {0}
  /\ Window \in Nat \ {0}
  /\ MaxCalls \in Nat
  /\ Faults \subseteq FaultKinds

VARIABLES
  entry,     \* the entry point of the endpoint: "service" or "verify"
  log,       \* entries of the sorted set, by age
  counter,   \* rate_limit:endpoint:key; 0 when the key does not exist
  ttl,       \* ticks the counter still lives
  pc,        \* the await each caller is at, or "idle"
  seen,      \* the count each caller has read
  outcome,   \* how each caller's last call ended
  passed,    \* history: how many calls the check let pass
  failed,    \* history: whether a call failed or was cancelled
  met        \* history: whether a call began while another was on its way

vars == <<entry, log, counter, ttl, pc, seen, outcome, passed, failed, met>>

Outcomes == {"none",
             "allowed", "denied",   \* service_rate_limit returned True, False
             "user",                \* verify_and_limit returned user_id
             "unbound",             \* it left through UnboundLocalError
             "cancelled"}

TypeOK ==
  /\ entry \in {"service", "verify"}
  /\ log \in [0 .. Window - 1 -> Nat]
  /\ counter \in Nat
  /\ ttl \in 0 .. Window
  /\ pc \in [Callers -> {"idle", "meta", "check", "get", "set"}]
  /\ seen \in [Callers -> Nat]
  /\ outcome \in [Callers -> Outcomes]
  /\ passed \in Nat
  /\ failed \in BOOLEAN
  /\ met \in BOOLEAN

Init ==
  /\ entry \in {"service", "verify"}
  /\ log = [i \in 0 .. Window - 1 |-> 0]
  /\ counter = 0
  /\ ttl = 0
  /\ pc = [c \in Callers |-> "idle"]
  /\ seen = [c \in Callers |-> 0]
  /\ outcome = [c \in Callers |-> "none"]
  /\ passed = 0
  /\ failed = FALSE
  /\ met = FALSE

-----------------------------------------------------------------------------
Goto(c, step) == pc' = [pc EXCEPT ![c] = step] /\ UNCHANGED outcome

Return(c, how) ==
  /\ pc' = [pc EXCEPT ![c] = "idle"]
  /\ outcome' = [outcome EXCEPT ![c] = how]

\* Either entry point catches every Exception and lets the call through.
FailOpen(c) == Return(c, IF entry = "service" THEN "allowed" ELSE "user")

\* A call begins.  verify_and_limit first checks the token; when that raises, for
\* a bad token or for a failing service, its except returns a user_id that was
\* never assigned.
Begin(c) ==
  /\ pc[c] = "idle"
  /\ passed < MaxCalls
  /\ \/ entry = "service" /\ Goto(c, "check")
     \/ entry = "verify" /\ (Goto(c, "meta") \/ Return(c, "unbound"))
  /\ met' = (met \/ \E d \in Callers : pc[d] # "idle")
  /\ UNCHANGED <<entry, log, counter, ttl, seen, passed, failed>>

\* HSET rate_meta:user_id, which nothing here reads.
Track(c) ==
  /\ pc[c] = "meta"
  /\ \/ Goto(c, "check") /\ UNCHANGED failed
     \/ "meta" \in Faults /\ FailOpen(c) /\ failed' = TRUE
  /\ UNCHANGED <<entry, log, counter, ttl, seen, passed, met>>

InWindow == MapThenSumSet(LAMBDA i : log[i], 0 .. Window - 1)

\* await check_rate_limit(client, rate_key, limit, window)
Pass(c) ==
  /\ \/ InWindow < Limit /\ log' = [log EXCEPT ![0] = @ + 1] /\ UNCHANGED failed
     \/ "check" \in Faults /\ UNCHANGED log /\ failed' = TRUE
  /\ passed' = passed + 1
  /\ Goto(c, "get")

\* The mutant that counts a call the check limited.
TurnAwayCounted(c) == Goto(c, "get")

\* A call over the limit: service_rate_limit returns False; verify_and_limit
\* raises a 429 that its own except turns into the user_id.
TurnAway(c) == IF entry = "service" THEN Return(c, "denied") ELSE Return(c, "user")

Limited(c) ==
  /\ InWindow >= Limit
  /\ TurnAway(c)
  /\ UNCHANGED <<log, passed, failed>>

Check(c) ==
  /\ pc[c] = "check"
  /\ Pass(c) \/ Limited(c)
  /\ UNCHANGED <<entry, counter, ttl, seen, met>>

\* increment_rate_limit: the count is read ...
GetCount(c) ==
  /\ pc[c] = "get"
  /\ \/ seen' = [seen EXCEPT ![c] = counter] /\ Goto(c, "set") /\ UNCHANGED failed
     \/ "get" \in Faults /\ UNCHANGED seen /\ FailOpen(c) /\ failed' = TRUE
  /\ UNCHANGED <<entry, log, counter, ttl, passed, met>>

\* The mutant that counts down.
CountedDown(c) == counter' = seen[c] - 1 /\ ttl' = Window

\* The mutant that keeps the expiry the counter has.
CountedKeepTTL(c) ==
  counter' = seen[c] + 1 /\ ttl' = IF counter = 0 THEN Window ELSE ttl

\* SET key count + 1 EX window
Counted(c) == counter' = seen[c] + 1 /\ ttl' = Window

\* ... and one more written, for another window.  The call returns what FailOpen
\* returns, whether the write succeeded or not.
SetCount(c) ==
  /\ pc[c] = "set"
  /\ \/ Counted(c) /\ UNCHANGED failed
     \/ "set" \in Faults /\ UNCHANGED <<counter, ttl>> /\ failed' = TRUE
  /\ FailOpen(c)
  /\ UNCHANGED <<entry, log, seen, passed, met>>

Cancel(c) ==
  /\ "cancel" \in Faults
  /\ pc[c] # "idle"
  /\ Return(c, "cancelled")
  /\ failed' = TRUE
  /\ UNCHANGED <<entry, log, counter, ttl, seen, passed, met>>

\* remaining, as get_remaining_limit reports it
Remaining == IF counter < Limit THEN Limit - counter ELSE 0

Tick ==
  /\ log' = [i \in 0 .. Window - 1 |-> IF i = 0 THEN 0 ELSE log[i - 1]]
  /\ counter' = IF ttl = 1 THEN 0 ELSE counter
  /\ ttl' = IF ttl = 0 THEN 0 ELSE ttl - 1
  /\ UNCHANGED <<entry, pc, seen, outcome, passed, failed, met>>

Call(c) == Begin(c) \/ Track(c) \/ Check(c) \/ GetCount(c) \/ SetCount(c) \/ Cancel(c)

Next == Tick \/ \E c \in Callers : Call(c)

Spec == Init /\ [][Next]_vars

-----------------------------------------------------------------------------
AllIdle == \A c \in Callers : pc[c] = "idle"

\* The calls on their way to the counter.
Counting == {c \in Callers : pc[c] \in {"get", "set"}}

\* Calls that were limited are never counted, however the counter's two commands
\* interleave, fail, expire in between or come back from the dead.
CountsOnlyPassed == counter + Cardinality(Counting) <= passed

Rough == failed \/ met

\* Nobody is promised a place the check will refuse, as long as calls have followed
\* each other and none has failed: the counter lives as long as the youngest entry
\* of the log and has counted all of them.
NeverOverPromises == AllIdle /\ ~Rough => Remaining <= Limit - InWindow

\* However calls meet, as long as none fails: increments are lost, down to the last
\* one, but get_remaining_limit never reports the whole limit free while the log
\* holds an entry whose call is through: that call has renewed the counter for a
\* window in which no other call's late write takes it back to 0.
NeverAllFree == ~failed /\ InWindow > Cardinality(Counting) => counter >= 1

=============================================================================
