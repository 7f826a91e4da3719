------------------------------ MODULE LockUsers ------------------------------
(***************************************************************************)
(* One lock and what it is used for: the blocks of client.lock, or the     *)
(* cache of get_or_set_cache; and the caches that go without.              *)
(***************************************************************************)
EXTENDS PlainCache

VARIABLE job   \* "block", "cache" or "plain"

vars == <<job, lockVars, cacheVars>>

CONSTANT Jobs

ASSUME JobsAssumption == Jobs \subseteq {"block", "cache", "plain"}

Init ==
  /\ job \in Jobs
  /\ LockInit
  /\ CacheInit
  /\ job # "cache" => ~warm

Next ==
  \/ job = "block" /\ BlockNext /\ UNCHANGED <<job, cacheVars>>
  \/ job = "cache" /\ CacheNext /\ UNCHANGED job
  \/ job = "plain" /\ PlainNext /\ UNCHANGED job

Spec == Init /\ [][Next]_vars

\* Time passes, and the event loop runs every task that can go on.
Passing(name) ==
  /\ job = name
  /\ IF name = "block" THEN LockTick /\ UNCHANGED cacheVars ELSE CacheTick
  /\ UNCHANGED job

Working(c) ==
  /\ \/ job = "cache" /\ CacheStep(c)
     \/ job = "plain" /\ PlainStep(c)
  /\ UNCHANGED job

Refreshing == job = "cache" /\ RefreshStep /\ UNCHANGED job

Deleting == job # "block" /\ Invalidate /\ UNCHANGED job

FairSpec ==
  /\ Spec
  /\ \A name \in Jobs : WF_vars(Passing(name))
  /\ WF_vars(Deleting) /\ WF_vars(Refreshing)
  /\ \A c \in Callers : WF_vars(Working(c))

-----------------------------------------------------------------------------
\* What the lock of get_or_set_cache is for: without the refresh, and as long as the
\* lock has not run out under anybody, the cached version never goes back: a slow
\* caller's old value does not replace a newer one.
NoRollback ==
  [][job = "cache" /\ ~warm /\ ~overrun /\ cache # None /\ cache' # None => cache' >= cache]_vars
=============================================================================
