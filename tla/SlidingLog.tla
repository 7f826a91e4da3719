----------------------------- MODULE SlidingLog -----------------------------
(***************************************************************************)
(* check_rate_limit of src/limiting/rate_limit.py: the sliding-log rate    *)
(* limiter.  Each admitted request leaves an entry, scored by the caller's *)
(* clock, in one sorted set of the server; a caller counts the entries of  *)
(* its window and is denied when there are Limit of them.                  *)
(*                                                                         *)
(* Every await is a step: callers interleave between the cleanup, the      *)
(* count, the ZADD and the EXPIRE, the clock moves, the key expires, a     *)
(* command fails before or after the server ran it, and a call is          *)
(* cancelled.  The handler swallows each failure its own way.              *)
(***************************************************************************)
EXTENDS Integers, FiniteSets

CONSTANTS
  Callers,   \* tasks (of any process) that call check_rate_limit on one key
  Limit,     \* the parameter limit
  Window,    \* the parameter window, in ticks
  Faults,    \* what may go wrong: a subset of FaultKinds
  MaxTime,   \* bound: no call starts, and no time passes under one, later
  MaxCalls   \* bound: calls a caller makes

FaultKinds == {"conn", "cleanup", "entries", "add", "expire", "cancel"}

ASSUME CallersAssumption == IsFiniteSet(Callers)
ASSUME LimitAssumption   == Limit \in Nat
ASSUME WindowAssumption  == Window \in Nat \ {0}
ASSUME FaultsAssumption  == Faults \subseteq FaultKinds
ASSUME BoundsAssumption  == MaxTime \in Nat /\ MaxCalls \in Nat

NoExpiry == -1   \* the expiry of a key without one, as TTL reports it

VARIABLES
  now,      \* the clock, shared by the callers and the server
  log,      \* the sorted set: its entries [id, score]; the key exists iff any
  expiry,   \* when the server drops the key, or NoExpiry
  pc,       \* the await each caller is at, or "idle"
  stamp,    \* current_time of each caller's call
  calls,    \* how many calls each caller has begun; with it, names the call
  result,   \* how each caller's last call ended
  granted,  \* history: the entries of the calls that found a place in the count
  exposed,  \* history: entries whose own EXPIRE did not reach the living key
  overtaken \* history: whether the clock has moved while a call was at an await

vars == <<now, log, expiry, pc, stamp, calls, result, granted, exposed,
          overtaken>>

CallIds  == Callers \X Nat
Entries  == [id : CallIds, score : Nat]
Steps    == {"idle", "cleanup", "entries", "add", "expire"}
Results  == {"none", "allowed", "denied", "unchecked", "cancelled"}

TypeOK ==
  /\ now \in Nat
  /\ log \in SUBSET Entries
  /\ expiry \in Nat \cup {NoExpiry}
  /\ pc \in [Callers -> Steps]
  /\ stamp \in [Callers -> Nat]
  /\ calls \in [Callers -> Nat]
  /\ result \in [Callers -> Results]
  /\ granted \in SUBSET Entries
  /\ exposed \in SUBSET CallIds
  /\ overtaken \in BOOLEAN

Init ==
  /\ now = 0
  /\ log = {}
  /\ expiry = NoExpiry
  /\ pc = [c \in Callers |-> "idle"]
  /\ stamp = [c \in Callers |-> 0]
  /\ calls = [c \in Callers |-> 0]
  /\ result = [c \in Callers |-> "none"]
  /\ granted = {}
  /\ exposed = {}
  /\ overtaken = FALSE

-----------------------------------------------------------------------------
(* The server's side of the four commands.                                 *)

\* request_id: current_time and a uuid, so no two calls share a member.
RequestEntry(c) == [id |-> <<c, calls[c]>>, score |-> stamp[c]]

CutoffTime(c) == stamp[c] - Window

\* The mutant that forgets the lower end of the window.
RemoveTooMuch(cutoff) ==
  /\ log' = {e \in log : e.score > cutoff + 1}
  /\ expiry' = IF log' = {} THEN NoExpiry ELSE expiry

\* ZREMRANGEBYSCORE key 0 cutoff; a sorted set left empty is a deleted key,
\* whose expiry goes with it.
RemoveUpTo(cutoff) ==
  /\ log' = {e \in log : e.score > cutoff}
  /\ expiry' = IF log' = {} THEN NoExpiry ELSE expiry

\* ZADD: a new key starts without an expiry, an existing one keeps its own.
AddEntry(e) ==
  /\ log' = log \cup {e}
  /\ UNCHANGED expiry

\* The mutant "set it only if the key has none".
SetExpirationOnce ==
  /\ expiry' = IF log = {} THEN NoExpiry
               ELSE IF expiry # NoExpiry THEN expiry ELSE now + Window
  /\ UNCHANGED log

\* The mutant that sets none.
SetNoExpiration == UNCHANGED <<log, expiry>>

\* EXPIRE key window: no effect on a key that is gone.
SetExpiration ==
  /\ expiry' = IF log = {} THEN NoExpiry ELSE now + Window
  /\ UNCHANGED log

-----------------------------------------------------------------------------
(* check_rate_limit                                                        *)

Goto(c, step) ==
  /\ pc' = [pc EXCEPT ![c] = step]
  /\ UNCHANGED <<result, granted>>

Return(c, outcome) ==
  /\ pc' = [pc EXCEPT ![c] = "idle"]
  /\ result' = [result EXCEPT ![c] = outcome]
  /\ UNCHANGED granted

\* The count left a place for the call, which goes on to record itself.
Admit(c) ==
  /\ pc' = [pc EXCEPT ![c] = "add"]
  /\ granted' = granted \cup {RequestEntry(c)}
  /\ UNCHANGED result

\* The call reads the clock once, then takes a connection; a call that gets
\* none is let through unchecked.
Begin(c) ==
  /\ pc[c] = "idle"
  /\ calls[c] < MaxCalls
  /\ now < MaxTime
  /\ stamp' = [stamp EXCEPT ![c] = now]
  /\ calls' = [calls EXCEPT ![c] = @ + 1]
  /\ \/ Goto(c, "cleanup")
     \/ "conn" \in Faults /\ Return(c, "unchecked")
  /\ UNCHANGED <<now, log, expiry, exposed, overtaken>>

\* Expired entries are removed; an error of the command is ignored.
Cleanup(c) ==
  /\ pc[c] = "cleanup"
  /\ \/ RemoveUpTo(CutoffTime(c))
     \/ "cleanup" \in Faults /\ UNCHANGED <<log, expiry>>
  /\ Goto(c, "entries")
  /\ UNCHANGED <<now, stamp, calls, exposed, overtaken>>

CurrentCount(c) == Cardinality({e \in log : e.score >= CutoffTime(c)})

\* The mutant that admits one call more.
GetEntriesOffByOne(c) ==
  /\ pc[c] = "entries"
  /\ \/ CurrentCount(c) > Limit /\ Return(c, "denied")
     \/ CurrentCount(c) <= Limit /\ Admit(c)
     \/ "entries" \in Faults /\ Return(c, "unchecked")
  /\ UNCHANGED <<now, log, expiry, stamp, calls, exposed, overtaken>>

\* The mutant that records a denied call too, as sliding_window.py means to.
GetEntriesRecordAll(c) ==
  /\ pc[c] = "entries"
  /\ \/ /\ CurrentCount(c) >= Limit
        /\ Return(c, "denied")
        /\ log' = log \cup {RequestEntry(c)}
        /\ expiry' = now + Window
     \/ CurrentCount(c) < Limit /\ Admit(c) /\ UNCHANGED <<log, expiry>>
  /\ UNCHANGED <<now, stamp, calls, exposed, overtaken>>

\* The entries from the cutoff on are read and counted; a failed read lets the
\* call through.
GetEntries(c) ==
  /\ pc[c] = "entries"
  /\ \/ CurrentCount(c) >= Limit /\ Return(c, "denied")
     \/ CurrentCount(c) < Limit /\ Admit(c)
     \/ "entries" \in Faults /\ Return(c, "unchecked")
  /\ UNCHANGED <<now, log, expiry, stamp, calls, exposed, overtaken>>

\* The request is recorded.  On an error the call is allowed at once, without
\* the EXPIRE; the server may have run the command all the same.
Add(c) ==
  /\ pc[c] = "add"
  /\ \/ /\ AddEntry(RequestEntry(c))
        /\ Goto(c, "expire")
        /\ UNCHANGED exposed
     \/ /\ "add" \in Faults
        /\ AddEntry(RequestEntry(c)) \/ UNCHANGED <<log, expiry>>
        /\ Return(c, "allowed")
        /\ exposed' = exposed \cup {RequestEntry(c).id}
  /\ UNCHANGED <<now, stamp, calls, overtaken>>

\* The key's expiry is moved; an error of the command is ignored.
Expire(c) ==
  /\ pc[c] = "expire"
  /\ \/ SetExpiration /\ UNCHANGED exposed
     \/ /\ "expire" \in Faults
        /\ UNCHANGED <<log, expiry>>
        /\ exposed' = exposed \cup {RequestEntry(c).id}
  /\ Return(c, "allowed")
  /\ UNCHANGED <<now, stamp, calls, overtaken>>

\* A task cancelled at an await leaves through no handler: CancelledError is
\* not an Exception.
Cancel(c) ==
  /\ "cancel" \in Faults
  /\ pc[c] # "idle"
  /\ Return(c, "cancelled")
  /\ exposed' = IF pc[c] = "expire" THEN exposed \cup {RequestEntry(c).id}
                                    ELSE exposed
  /\ UNCHANGED <<now, log, expiry, stamp, calls, overtaken>>

-----------------------------------------------------------------------------
AllIdle == \A c \in Callers : pc[c] = "idle"

Expiring == expiry # NoExpiry /\ expiry <= now + 1

\* Time passes, and with it the key.  An entry whose caller is still on its
\* way to the EXPIRE goes down with a key that a former call set to expire.
\* Past MaxTime the clock runs on only to let the last key expire.
Tick ==
  /\ now < MaxTime \/ (AllIdle /\ now < MaxTime + Window)
  /\ now' = now + 1
  /\ log' = IF Expiring THEN {} ELSE log
  /\ expiry' = IF Expiring THEN NoExpiry ELSE expiry
  /\ exposed' = IF Expiring
                  THEN exposed \cup
                       {RequestEntry(c).id : c \in {d \in Callers : pc[d] = "expire"}}
                  ELSE exposed
  /\ overtaken' = (overtaken \/ ~AllIdle)
  /\ UNCHANGED <<pc, stamp, calls, result, granted>>

\* Every call is over and the clock has run out: the model stops here, and
\* nowhere else.
Terminated == AllIdle /\ now = MaxTime + Window /\ UNCHANGED vars

Call(c) == Begin(c) \/ Cleanup(c) \/ GetEntries(c) \/ Add(c) \/ Expire(c) \/ Cancel(c)

Next == Tick \/ Terminated \/ \E c \in Callers : Call(c)

Spec == Init /\ [][Next]_vars

\* The event loop runs every ready task, and time passes.
Progress(c) == Cleanup(c) \/ GetEntries(c) \/ Add(c) \/ Expire(c)

FairSpec == Spec /\ WF_vars(Tick) /\ \A c \in Callers : WF_vars(Progress(c))
-----------------------------------------------------------------------------
(* Safety                                                                  *)

Pending(c) == pc[c] = "expire"

\* The key never expires before an entry has left its window (EXPIRE key window
\* after each ZADD, rate_limit.py:142): every entry is covered by the key's
\* expiry, unless its caller has yet to send the EXPIRE or never got it through.
ExpiryCoversEntries ==
  \A e \in log :
    \/ expiry = NoExpiry
    \/ e.score + Window <= expiry
    \/ e.id \in exposed
    \/ \E c \in Callers : Pending(c) /\ e = RequestEntry(c)

\* The inductive invariant: with it, no clock read is from the future and no
\* entry is scored later than now.
ClocksBehind ==
  /\ \A c \in Callers : stamp[c] <= now
  /\ \A e \in log : e.score <= now

LogInv == TypeOK /\ ClocksBehind /\ ExpiryCoversEntries

\* No step, a slow caller's cleanup and the key's expiry included, takes an
\* entry out of the log while it is still inside the window, except an exposed one.
FreshEntryKept ==
  [][\A e \in log \ log' : e.score + Window <= now' \/ e.id \in exposed']_vars

GrantedUpTo(t) == {g \in granted : t - Window < g.score /\ g.score <= t}

\* At most k calls that were counted begin within one window.
AtMostPerWindow(k) == \A g \in granted : Cardinality(GrantedUpTo(g.score)) <= k

\* How far check_rate_limit can be pushed past its limit.  The count and the ZADD
\* are two commands, so the other callers each slip one call in between; every
\* caller may have an entry that dies with a key set to expire before it; and
\* every caller may count with an old clock, after the entries of its window went.
AdmissionBound == AtMostPerWindow(Limit + 3 * Cardinality(Callers) - 1)

\* As long as no call has lasted past a tick of the clock only the first of the three
\* is left: one call per other caller, and a single caller keeps to the limit.
PromptBound == ~overtaken => AtMostPerWindow(Limit + Cardinality(Callers) - 1)

\* A caller is denied only for Limit calls that found a place and that began no
\* earlier than a window before it: a denied call, or one that was let through
\* unchecked, takes nobody's place.
DenialJustified ==
  [][\A c \in Callers :
       pc[c] = "entries" /\ result'[c] = "denied" /\ pc'[c] = "idle" =>
         Limit <= Cardinality({e \in granted : e.score + Window >= stamp[c]})]_vars

(* Liveness                                                                *)

\* Once traffic stops the server forgets the key, however the last calls
\* overlapped; only a call that lost its EXPIRE may leave a key for ever.
KeyCollected == <>[](log = {} \/ exposed # {})

-----------------------------------------------------------------------------
(* What the repository says of check_rate_limit, and the code does not do.  *)

\* rate_limit.py:54-55, "limit: Maximum number of requests allowed", "window: Time
\* window in seconds": a call that counts by the clock of the moment is let through only
\* if no more than Limit of its window then are.  With one caller and no fault it counts
\* too few only if an entry has died with the key between its ZADD and its EXPIRE.
LimitPerWindow ==
  \A c \in Callers :
    pc[c] = "add" /\ stamp[c] = now => Cardinality(GrantedUpTo(now)) <= Limit
=============================================================================
