---------------------------- MODULE GetOrSetCache ----------------------------
(***************************************************************************)
(* The decorators get_or_set_cache and invalidate_cache of                 *)
(* cache/decorators.py, over one key.  The function under the first reads  *)
(* some data that the function under the second writes; the data is a      *)
(* version number.                                                         *)
(***************************************************************************)
EXTENDS DistLock

CONSTANTS
  CacheTTL,     \* the parameter ttl, in ticks
  Jitter,       \* the most that random.randint adds to it
  MaxVersion    \* bound: updates of the data

ASSUME CacheAssumption ==
  /\ CacheTTL \in Nat \ {0}
  /\ Jitter \in Nat
  /\ MaxVersion \in Nat

None == -1

Versions == 0 .. MaxVersion

VARIABLES
  warm,      \* the parameter warm_cache
  data,      \* the version the functions would read
  cache,     \* the version under the key, or None
  live,      \* ticks the key still lives
  loaded,    \* the version each caller's function has returned, until it is stored
  ending,    \* how each caller's block ends: "done", "failed" or "cancelled"
  unbound,   \* the callers whose lookup raised, and left cached unassigned
  refresh,   \* a background task: "none", "load" or "store"; bound: one at a time
  fetched,   \* the version its function has returned, until it is stored
  update     \* the updating call: "idle", or "delete" between its two awaits

cacheVars == <<warm, data, cache, live, loaded, ending, unbound, refresh, fetched, update>>

CacheTypeOK ==
  /\ warm \in BOOLEAN
  /\ data \in Versions
  /\ cache \in Versions \cup {None}
  /\ live \in 0 .. CacheTTL + Jitter
  /\ loaded \in [Callers -> Versions]
  /\ ending \in [Callers -> {"done", "failed", "cancelled"}]
  /\ unbound \in SUBSET Callers
  /\ refresh \in {"none", "load", "store"}
  /\ fetched \in Versions
  /\ update \in {"idle", "delete"}

CacheInit ==
  /\ warm \in BOOLEAN
  /\ data = 0
  /\ cache = None
  /\ live = 0
  /\ loaded = [c \in Callers |-> 0]
  /\ ending = [c \in Callers |-> "done"]
  /\ unbound = {}
  /\ refresh = "none"
  /\ fetched = 0
  /\ update = "idle"

\* What a caller's steps leave alone, and what the lock's steps do.
Others == <<warm, data, refresh, fetched, update>>

-----------------------------------------------------------------------------
(* get_or_set_cache                                                        *)

BeginCall(c) ==
  /\ pc[c] = "idle"
  /\ Goto(c, "lookup")
  /\ Untouched
  /\ UNCHANGED <<overrun, cacheVars>>

\* A hit returns; with warm_cache it may leave a task behind that refreshes the key.
Hit(c) ==
  /\ cache # None
  /\ Goto(c, "idle")
  /\ \/ UNCHANGED refresh
     \/ warm /\ refresh = "none" /\ refresh' = "load"
  /\ UNCHANGED unbound

\* A miss goes on to the lock, and so does a lookup that raised.
Miss(c) ==
  /\ Goto(c, "acquire")
  /\ \/ cache = None /\ UNCHANGED unbound
     \/ "conn" \in Faults /\ unbound' = unbound \cup {c}
  /\ UNCHANGED refresh

Lookup(c) ==
  /\ pc[c] = "lookup"
  /\ Hit(c) \/ Miss(c)
  /\ Untouched
  /\ UNCHANGED <<overrun, warm, data, cache, live, loaded, ending, fetched, update>>

\* The except of the second try.  Where the lookup raised, cached is unassigned and
\* the call ends in UnboundLocalError; everywhere else nothing was cached, and the
\* function is called again, outside the lock.
Recover(c) ==
  /\ Goto(c, IF c \in unbound THEN "idle" ELSE "again")
  /\ unbound' = unbound \ {c}

\* The lock polls for ever; nobody looks again whether the key is there by now.
AcquireLock(c) ==
  /\ pc[c] = "acquire"
  /\ \/ Take(c) /\ Goto(c, "load") /\ UNCHANGED unbound
     \/ "conn" \in Faults /\ Untouched /\ Recover(c)
     \/ "reply" \in Faults /\ Take(c) /\ Recover(c)
  /\ UNCHANGED <<overrun, cache, live, loaded, ending, Others>>

\* The function under the decorator; a task cancelled in it still runs __aexit__.
Load(c) ==
  /\ pc[c] = "load"
  /\ \/ /\ loaded' = [loaded EXCEPT ![c] = data]
        /\ Goto(c, "store")
        /\ UNCHANGED ending
     \/ /\ "load" \in Faults
        /\ ending' = [ending EXCEPT ![c] = "failed"]
        /\ Goto(c, "unlock")
        /\ UNCHANGED loaded
     \/ /\ "cancel" \in Faults
        /\ ending' = [ending EXCEPT ![c] = "cancelled"]
        /\ Goto(c, "unlock")
        /\ UNCHANGED loaded
  /\ Untouched
  /\ UNCHANGED <<overrun, cache, live, unbound, Others>>

\* The mutant that adds another to the jitter.
ExpiriesTooLong == CacheTTL .. CacheTTL + Jitter + 1

\* ttl + random.randint(0, 60)
Expiries == CacheTTL .. CacheTTL + Jitter

\* The SET has run, or has not.
Stored(c) == cache' = loaded[c] /\ live' \in Expiries
NotStored == UNCHANGED <<cache, live>>

\* The SET, on the lock or long past it.
Store(c) ==
  /\ pc[c] = "store"
  /\ Goto(c, "unlock")
  /\ loaded' = [loaded EXCEPT ![c] = 0]
  /\ \/ Stored(c) /\ UNCHANGED ending
     \/ /\ \/ "conn" \in Faults /\ NotStored
           \/ "reply" \in Faults /\ Stored(c)
        /\ ending' = [ending EXCEPT ![c] = "failed"]
     \/ /\ "cancel" \in Faults
        /\ Stored(c) \/ NotStored
        /\ ending' = [ending EXCEPT ![c] = "cancelled"]
  /\ Untouched
  /\ UNCHANGED <<overrun, unbound, Others>>

\* __aexit__ of the lock.  A release that fails, of a lock that has run out for one,
\* sends even a call that has its result, or was cancelled, to the except.
Unlock(c) ==
  /\ pc[c] = "unlock"
  /\ ending' = [ending EXCEPT ![c] = "done"]
  /\ \/ GiveBack(c) /\ ending[c] = "failed" /\ Recover(c)
     \/ GiveBack(c) /\ ending[c] # "failed" /\ Goto(c, "idle") /\ unbound' = unbound \ {c}
     \/ owner # c /\ Untouched /\ Recover(c)
     \/ "conn" \in Faults /\ Untouched /\ Recover(c)
     \/ "reply" \in Faults /\ GiveBack(c) /\ Recover(c)
  /\ UNCHANGED <<overrun, cache, live, loaded, Others>>

\* return await func(): the second call of the function is neither locked nor cached.
LoadAgain(c) ==
  /\ pc[c] = "again"
  /\ Goto(c, "idle")
  /\ Untouched
  /\ UNCHANGED <<overrun, cacheVars>>

\* A crash; or a cancellation outside the block, which no except catches.
CacheCrash(c) ==
  /\ Crash(c)
  /\ loaded' = [loaded EXCEPT ![c] = 0]
  /\ ending' = [ending EXCEPT ![c] = "done"]
  /\ unbound' = unbound \ {c}
  /\ UNCHANGED <<cache, live, Others>>

-----------------------------------------------------------------------------
\* _refresh_cache, a task of its own: it takes no lock and ignores every error.
RefreshLoad ==
  /\ refresh = "load"
  /\ \/ refresh' = "store" /\ fetched' = data
     \/ "load" \in Faults /\ refresh' = "none" /\ UNCHANGED fetched
  /\ UNCHANGED <<lockVars, warm, data, cache, live, loaded, ending, unbound, update>>

RefreshStore ==
  /\ refresh = "store"
  /\ refresh' = "none"
  /\ fetched' = 0
  /\ \/ cache' = fetched /\ live' = CacheTTL
     \/ "conn" \in Faults /\ UNCHANGED <<cache, live>>
  /\ UNCHANGED <<lockVars, warm, data, loaded, ending, unbound, update>>

\* invalidate_cache: the function writes the data, and then the key is deleted.
Update ==
  /\ update = "idle"
  /\ data < MaxVersion
  /\ data' = data + 1
  /\ update' = "delete"
  /\ UNCHANGED <<lockVars, warm, cache, live, loaded, ending, unbound, refresh, fetched>>

Invalidate ==
  /\ update = "delete"
  /\ update' = "idle"
  /\ \/ cache' = None /\ live' = 0
     \/ "conn" \in Faults /\ UNCHANGED <<cache, live>>
  /\ UNCHANGED <<lockVars, warm, data, loaded, ending, unbound, refresh, fetched>>

CacheTick ==
  /\ LockTick
  /\ live' = IF live > 0 THEN live - 1 ELSE 0
  /\ cache' = IF live = 1 THEN None ELSE cache
  /\ UNCHANGED <<warm, data, loaded, ending, unbound, refresh, fetched, update>>

CacheStep(c) == Lookup(c) \/ AcquireLock(c) \/ Load(c) \/ Store(c) \/ Unlock(c) \/ LoadAgain(c)

RefreshStep == RefreshLoad \/ RefreshStore

CacheNext ==
  \/ CacheTick \/ Update \/ Invalidate \/ RefreshStep
  \/ \E c \in Callers : BeginCall(c) \/ CacheStep(c) \/ CacheCrash(c)

-----------------------------------------------------------------------------
\* Once updates stop, what is cached is the last version, whichever callers and
\* refreshes were late with an older one and whichever invalidations were lost.
EventuallyFresh == <>[](cache \in {None, data})

\* usage.md:229, locks for "Cache stampede protection": a caller that had to wait
\* for the lock does not load what has been cached meanwhile.
OneLoadPerMiss ==
  [][\A c \in Callers : pc[c] = "load" /\ pc'[c] = "store" => cache = None]_<<lockVars, cacheVars>>
=============================================================================
