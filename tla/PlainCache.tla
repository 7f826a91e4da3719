----------------------------- MODULE PlainCache -----------------------------
(***************************************************************************)
(* The caches that take no lock, over one key: cache and the warmers of    *)
(* cache/decorators.py; cache_result, get_or_set_cache and the methods of  *)
(* ValkeyCache of cache/valkey_cache.py, given a ttl.  What they store is  *)
(* the data of GetOrSetCache, and the same calls update it.                *)
(***************************************************************************)
EXTENDS GetOrSetCache

\* What a caller's steps leave alone.
PlainKept ==
  UNCHANGED <<owner, left, held, overrun, warm, data, refresh, fetched, update, ending, unbound>>

BeginPlain(c) ==
  /\ pc[c] = "idle"
  /\ Goto(c, "read")
  /\ PlainKept
  /\ UNCHANGED <<cache, live, loaded>>

\* The warmers load without a lookup.  A batch is sent once its last key is loaded.
WarmBatch(c) ==
  /\ pc[c] = "idle"
  /\ Goto(c, "compute")
  /\ PlainKept
  /\ UNCHANGED <<cache, live, loaded>>

\* A command that fails raises the error, or the HTTP error it is mapped to.
Raise(c) == "conn" \in Faults /\ Goto(c, "idle")

\* get_cached_result, and ValkeyCache.get: a failed lookup is a miss.
CachedResult(c) ==
  \/ cache # None /\ Goto(c, "idle")
  \/ cache = None /\ Goto(c, "compute")
  \/ "conn" \in Faults /\ Goto(c, "compute")

CacheResult(c) ==
  /\ pc[c] = "read"
  /\ CachedResult(c)
  /\ PlainKept
  /\ UNCHANGED <<cache, live, loaded>>

\* get_or_set_cache of valkey_cache.py: one try around everything, which raises again.
GetOrSet(c) ==
  /\ pc[c] = "read"
  /\ \/ cache # None /\ Goto(c, "idle")
     \/ cache = None /\ Goto(c, "compute")
     \/ Raise(c)
  /\ PlainKept
  /\ UNCHANGED <<cache, live, loaded>>

\* cache, and valkey_cache: ValkeyConfig has no VALKEY_TIMEOUT, so that every call
\* ends in AttributeError before the lookup, and the function is never called.
Decorated(c) ==
  /\ pc[c] = "read"
  /\ Goto(c, "idle")
  /\ PlainKept
  /\ UNCHANGED <<cache, live, loaded>>

\* The function; one that raises ends the call, and the batch it belongs to.
Compute(c) ==
  /\ pc[c] = "compute"
  /\ \/ loaded' = [loaded EXCEPT ![c] = data] /\ Goto(c, "save")
     \/ "load" \in Faults /\ Goto(c, "idle") /\ UNCHANGED loaded
  /\ PlainKept
  /\ UNCHANGED <<cache, live>>

\* The mutant that drops the expiry.
SavedForEver(c) == cache' = loaded[c] /\ live' = 0

\* SET key value EX ttl
Saved(c) == cache' = loaded[c] /\ live' = CacheTTL

\* ValkeyCache.set hides a failure, the others raise it; one whose SET has run all the
\* same leaves what a success leaves.
Save(c) ==
  /\ pc[c] = "save"
  /\ loaded' = [loaded EXCEPT ![c] = 0]
  /\ \/ Goto(c, "idle") /\ Saved(c)
     \/ Raise(c) /\ UNCHANGED <<cache, live>>
  /\ PlainKept

\* invalidate_cache_key, and ValkeyCache.delete, at any time; a failure is FALSE.
Drop ==
  /\ cache # None
  /\ cache' = None
  /\ live' = 0
  /\ UNCHANGED <<lockVars, warm, data, loaded, ending, unbound, refresh, fetched, update>>

PlainStep(c) == CacheResult(c) \/ GetOrSet(c) \/ Decorated(c) \/ Compute(c) \/ Save(c)

PlainNext ==
  \/ CacheTick \/ Update \/ Invalidate \/ Drop
  \/ \E c \in Callers : BeginPlain(c) \/ WarmBatch(c) \/ PlainStep(c) \/ CacheCrash(c)
=============================================================================
