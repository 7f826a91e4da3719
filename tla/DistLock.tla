------------------------------ MODULE DistLock ------------------------------
(***************************************************************************)
(* The distributed lock of client.py: ValkeyLock, and the lock of the      *)
(* driver it wraps, which get_or_set_cache takes too.  The server keeps    *)
(* the name of the owner (in truth a token of the acquisition, which no    *)
(* two share) for at most LockTimeout ticks; release is a script that      *)
(* deletes the key only under the releaser's own token.                    *)
(***************************************************************************)
EXTENDS Integers

CONSTANTS
  Callers,       \* tasks, of any process, that use one lock
  LockTimeout,   \* the parameter timeout, in ticks
  Faults         \* a subset of FaultKinds

\* "conn": a command does not run, and raises; "reply": it runs, and raises;
\* "load": the function under the cache raises; "cancel": a task is cancelled;
\* "crash": its process dies.
FaultKinds == {"conn", "reply", "load", "cancel", "crash"}

ASSUME LockAssumption ==
  /\ LockTimeout \in Nat \ {0}
  /\ Faults \subseteq FaultKinds

Nobody == "nobody"

ASSUME NobodyAssumption == Nobody \notin Callers

VARIABLES
  owner,   \* who the lock belongs to in the server, or Nobody
  left,    \* ticks it still does; 0 without an owner
  pc,      \* what each caller does next
  held,    \* history: ticks since each caller took the lock, up to LockTimeout
  overrun  \* history: whether the lock has ever run out inside somebody's block

lockVars == <<owner, left, pc, held, overrun>>

\* The callers between a successful acquire and their release.
InsideSteps == {"in", "load", "store", "unlock"}

Inside(c) == pc[c] \in InsideSteps

Steps ==
  InsideSteps \cup {"idle", "acquire", "lookup", "again", "read", "compute", "save"}

LockTypeOK ==
  /\ owner \in Callers \cup {Nobody}
  /\ left \in 0 .. LockTimeout
  /\ pc \in [Callers -> Steps]
  /\ held \in [Callers -> 0 .. LockTimeout]
  /\ overrun \in BOOLEAN

LockInit ==
  /\ owner = Nobody
  /\ left = 0
  /\ pc = [c \in Callers |-> "idle"]
  /\ held = [c \in Callers |-> LockTimeout]
  /\ overrun = FALSE

-----------------------------------------------------------------------------
(* The driver's lock.                                                      *)

Goto(c, step) == pc' = [pc EXCEPT ![c] = step]

\* The mutant that sets the key whether it is there or not.
TakeBlind(c) ==
  /\ owner' = c
  /\ left' = LockTimeout
  /\ held' = [held EXCEPT ![c] = 0]

\* The mutant that ignores the timeout.
TakeForEver(c) ==
  /\ owner = Nobody
  /\ owner' = c
  /\ left' = 0
  /\ held' = [held EXCEPT ![c] = 0]

\* SET name token NX PX timeout
Take(c) ==
  /\ owner = Nobody
  /\ owner' = c
  /\ left' = LockTimeout
  /\ held' = [held EXCEPT ![c] = 0]

\* The mutant that deletes the key whoever owns it.
GiveBackAny(c) == owner' = Nobody /\ left' = 0 /\ UNCHANGED held

\* The release script of the owner; of anybody else it fails, with LockNotOwnedError.
GiveBack(c) == owner = c /\ owner' = Nobody /\ left' = 0 /\ UNCHANGED held

Untouched == UNCHANGED <<owner, left, held>>

-----------------------------------------------------------------------------
(* async with client.lock(name, timeout): a block of some caller.          *)

\* lock() of a client that has not connected yet raises AttributeError, and the
\* caller stays where it is; of any other, the caller comes to __aenter__.
EnterBlock(c) ==
  /\ pc[c] = "idle"
  /\ Goto(c, "acquire")
  /\ Untouched
  /\ UNCHANGED overrun

\* __aenter__: a blocking acquire polls until the lock is free.  One that gives up,
\* for it does not block or its blocking_timeout is over, raises TimeoutError; one
\* that lost a reply leaves a lock that nobody will release.
Acquire(c) ==
  /\ pc[c] = "acquire"
  /\ \/ Take(c) /\ Goto(c, "in")
     \/ owner # Nobody /\ Goto(c, "idle") /\ Untouched
     \/ "conn" \in Faults /\ Goto(c, "idle") /\ Untouched
     \/ "reply" \in Faults /\ Take(c) /\ Goto(c, "idle")
  /\ UNCHANGED overrun

\* __aexit__, whether the block returned, raised or was cancelled.  A release that
\* fails raises in its place.
LeaveBlock(c) ==
  /\ pc[c] = "in"
  /\ Goto(c, "idle")
  /\ \/ GiveBack(c)
     \/ owner # c /\ Untouched
     \/ "conn" \in Faults /\ Untouched
  /\ UNCHANGED overrun

\* The process of a caller dies, and starts anew.
Crash(c) ==
  /\ "crash" \in Faults
  /\ pc[c] # "idle"
  /\ Goto(c, "idle")
  /\ Untouched
  /\ UNCHANGED overrun

LockTick ==
  /\ left' = IF left > 0 THEN left - 1 ELSE 0
  /\ owner' = IF left = 1 THEN Nobody ELSE owner
  /\ held' = [c \in Callers |-> IF held[c] < LockTimeout THEN held[c] + 1 ELSE held[c]]
  /\ overrun' = (overrun \/ (left = 1 /\ Inside(owner)))
  /\ UNCHANGED pc

BlockCall(c) == EnterBlock(c) \/ Acquire(c) \/ LeaveBlock(c) \/ Crash(c)

BlockNext == LockTick \/ \E c \in Callers : BlockCall(c)

-----------------------------------------------------------------------------
\* Whoever is inside, no longer than the timeout, owns the lock for the rest of it:
\* two callers are never both inside and in time, whoever overran, crashed, or
\* released too late.
HolderInv ==
  /\ LockTypeOK
  /\ \A c \in Callers : Inside(c) /\ held[c] < LockTimeout =>
       owner = c /\ left = LockTimeout - held[c]

Exclusion ==
  \A c, d \in Callers :
    /\ Inside(c) /\ held[c] < LockTimeout
    /\ Inside(d) /\ held[d] < LockTimeout
    => c = d

\* The lock always comes free again, whoever crashed with it (a lock with a timeout).
LockReopens == []<>(owner = Nobody)
=============================================================================
