--------------------------- MODULE LockUsersProofs ---------------------------
(***************************************************************************)
(* The lock excludes, for any number of callers and any timeout, under     *)
(* every fault and in each of the jobs: whoever has been inside for less   *)
(* than the timeout owns the lock for the rest of it.  The claim is        *)
(* inductive as it stands, HolderInv.                                      *)
(***************************************************************************)
EXTENDS LockUsers, TLAPS

\* What a step has to do with the lock: it leaves it alone, its caller takes it, or
\* its caller gives it back; and nobody else moves.
LockStep(c) ==
  /\ pc' \in [Callers -> Steps]
  /\ \A d \in Callers \ {c} : pc'[d] = pc[d]
  /\ UNCHANGED overrun
  /\ \/ Untouched /\ (Inside(c)' => Inside(c))
     \/ Take(c)
     \/ GiveBack(c) /\ ~Inside(c)'

\* A step of that kind keeps the claim: nobody is inside and in time where the lock
\* is free to take, and nobody but its owner where it is given back.
LEMMA LockStepKeeps ==
  ASSUME HolderInv, NEW c \in Callers, LockStep(c)
  PROVE  HolderInv'
<1> USE LockAssumption, NobodyAssumption DEF HolderInv, LockTypeOK, LockStep, Inside
<1>1. CASE Untouched /\ (Inside(c)' => Inside(c))
  BY <1>1 DEF Untouched
<1>2. CASE Take(c)
  <2>1. \A d \in Callers : Inside(d) => held[d] = LockTimeout
    BY <1>2 DEF Take
  <2>2. /\ owner' = c /\ left' = LockTimeout
        /\ held' = [held EXCEPT ![c] = 0]
    BY <1>2 DEF Take
  <2>3. LockTypeOK'
    BY <2>2
  <2>4. \A d \in Callers \ {c} : Inside(d)' => held'[d] = LockTimeout
    BY <2>1, <2>2
  <2>5. held'[c] = 0 /\ left' = LockTimeout - held'[c]
    BY <2>2
  <2>. QED BY <2>2, <2>3, <2>4, <2>5
<1>3. CASE GiveBack(c) /\ ~Inside(c)'
  <2>1. owner = c /\ owner' = Nobody /\ left' = 0 /\ held' = held
    BY <1>3 DEF GiveBack
  <2>2. \A d \in Callers \ {c} : Inside(d) => held[d] = LockTimeout
    BY <2>1
  <2>. QED BY <1>3, <2>1, <2>2
<1>. QED BY <1>1, <1>2, <1>3

\* Time takes from the lock what it adds to the stay of its owner.
LEMMA TickKeeps ==
  ASSUME HolderInv, LockTick
  PROVE  HolderInv'
<1> USE LockAssumption, NobodyAssumption DEF HolderInv, LockTypeOK, Inside
<1>1. /\ owner' \in Callers \cup {Nobody}
      /\ left' \in 0 .. LockTimeout
      /\ pc' = pc
      /\ overrun' \in BOOLEAN
  BY DEF LockTick
<1>2. held' \in [Callers -> 0 .. LockTimeout]
  BY DEF LockTick
<1>3. ASSUME NEW c \in Callers, Inside(c)', held'[c] < LockTimeout
      PROVE  owner' = c /\ left' = LockTimeout - held'[c]
  <2>1. Inside(c) /\ held[c] < LockTimeout /\ held'[c] = held[c] + 1
    BY <1>1, <1>3 DEF LockTick
  <2>2. owner = c /\ left = LockTimeout - held[c] /\ left > 1
    BY <1>3, <2>1
  <2>. QED BY <2>1, <2>2 DEF LockTick
<1>. QED BY <1>1, <1>2, <1>3

-----------------------------------------------------------------------------
\* The steps of client.lock's blocks.
LEMMA BlockSteps ==
  ASSUME HolderInv, NEW c \in Callers, BlockCall(c)
  PROVE  LockStep(c)
<1> USE DEF HolderInv, LockTypeOK, LockStep, Inside, InsideSteps, Steps, Goto
<1>1. CASE EnterBlock(c)
  BY <1>1 DEF EnterBlock
<1>2. CASE Acquire(c)
  BY <1>2 DEF Acquire
<1>3. CASE LeaveBlock(c)
  BY <1>3 DEF LeaveBlock
<1>4. CASE Crash(c)
  BY <1>4 DEF Crash
<1>. QED BY <1>1, <1>2, <1>3, <1>4 DEF BlockCall

\* The steps of get_or_set_cache.
LEMMA CacheSteps ==
  ASSUME HolderInv, NEW c \in Callers, BeginCall(c) \/ CacheStep(c) \/ CacheCrash(c)
  PROVE  LockStep(c)
<1> USE DEF HolderInv, LockTypeOK, LockStep, Inside, InsideSteps, Steps, Goto
<1>1. CASE BeginCall(c)
  BY <1>1 DEF BeginCall
<1>2. CASE Lookup(c)
  BY <1>2 DEF Lookup, Hit, Miss
<1>3. CASE AcquireLock(c)
  BY <1>3 DEF AcquireLock, Recover
<1>4. CASE Load(c)
  BY <1>4 DEF Load
<1>5. CASE Store(c)
  BY <1>5 DEF Store
<1>6. CASE Unlock(c)
  BY <1>6 DEF Unlock, Recover
<1>7. CASE LoadAgain(c)
  BY <1>7 DEF LoadAgain
<1>8. CASE CacheCrash(c)
  BY <1>8 DEF CacheCrash, Crash
<1>. QED BY <1>1, <1>2, <1>3, <1>4, <1>5, <1>6, <1>7, <1>8 DEF CacheStep

\* The steps of the caches that take no lock.
LEMMA PlainSteps ==
  ASSUME HolderInv, NEW c \in Callers, BeginPlain(c) \/ WarmBatch(c) \/ PlainStep(c)
  PROVE  LockStep(c)
<1> USE DEF HolderInv, LockTypeOK, LockStep, Inside, InsideSteps, Steps, Goto, PlainKept, Untouched
<1>1. CASE BeginPlain(c) \/ WarmBatch(c)
  BY <1>1 DEF BeginPlain, WarmBatch
<1>2. CASE CacheResult(c) \/ GetOrSet(c) \/ Decorated(c)
  BY <1>2 DEF CacheResult, CachedResult, GetOrSet, Raise, Decorated
<1>3. CASE Compute(c) \/ Save(c)
  BY <1>3 DEF Compute, Save, Raise
<1>. QED BY <1>1, <1>2, <1>3 DEF PlainStep

\* Every step of the lock's users.
LEMMA HolderStep == HolderInv /\ [Next]_vars => HolderInv'
<1> SUFFICES ASSUME HolderInv, [Next]_vars PROVE HolderInv'
  OBVIOUS
<1>1. CASE BlockNext
  BY <1>1, BlockSteps, LockStepKeeps, TickKeeps DEF BlockNext
<1>2. CASE CacheNext
  <2>1. CASE CacheTick
    BY <2>1, TickKeeps DEF CacheTick
  <2>2. CASE Update \/ Invalidate \/ RefreshStep
    <3>1. UNCHANGED lockVars
      BY <2>2 DEF Update, Invalidate, RefreshStep, RefreshLoad, RefreshStore
    <3>. QED BY <3>1 DEF lockVars, HolderInv, LockTypeOK, Inside
  <2>3. ASSUME NEW c \in Callers, BeginCall(c) \/ CacheStep(c) \/ CacheCrash(c)
        PROVE  HolderInv'
    BY <2>3, CacheSteps, LockStepKeeps
  <2>. QED BY <1>2, <2>1, <2>2, <2>3 DEF CacheNext
<1>3. CASE PlainNext
  <2>1. CASE CacheTick
    BY <2>1, TickKeeps DEF CacheTick
  <2>2. CASE Update \/ Invalidate \/ Drop
    <3>1. UNCHANGED lockVars
      BY <2>2 DEF Update, Invalidate, Drop
    <3>. QED BY <3>1 DEF lockVars, HolderInv, LockTypeOK, Inside
  <2>3. ASSUME NEW c \in Callers,
               BeginPlain(c) \/ WarmBatch(c) \/ PlainStep(c) \/ CacheCrash(c)
        PROVE  HolderInv'
    BY <2>3, CacheSteps, PlainSteps, LockStepKeeps
  <2>. QED BY <1>3, <2>1, <2>2, <2>3 DEF PlainNext
<1>4. CASE UNCHANGED vars
  BY <1>4 DEF vars, lockVars, HolderInv, LockTypeOK, Inside
<1>. QED BY <1>1, <1>2, <1>3, <1>4 DEF Next

\* Whoever is inside and in time owns the lock, in every behaviour.
THEOREM Holders == Spec => []HolderInv
<1>1. Init => HolderInv
  <2> SUFFICES ASSUME LockInit PROVE HolderInv
    BY DEF Init
  <2>1. LockTypeOK
    <3>1. pc \in [Callers -> Steps] /\ held \in [Callers -> 0 .. LockTimeout]
      BY LockAssumption DEF LockInit, Steps
    <3>2. left \in 0 .. LockTimeout
      BY LockAssumption DEF LockInit
    <3>. QED BY <3>1, <3>2 DEF LockInit, LockTypeOK
  <2>2. \A c \in Callers : ~Inside(c)
    BY DEF LockInit, Inside, InsideSteps
  <2>. QED BY <2>1, <2>2 DEF HolderInv
<1>. QED BY <1>1, HolderStep, PTL DEF Spec

\* Two callers are never inside together, both of them in time.
THEOREM Excludes == Spec => []Exclusion
<1>1. HolderInv => Exclusion
  BY DEF HolderInv, Exclusion
<1>. QED BY <1>1, Holders, PTL
-----------------------------------------------------------------------------
(* The cache.                                                              *)

\* The steps of the caches keep the types: what is stored has been loaded before.
LEMMA CacheTypeStep == CacheTypeOK /\ [Next]_vars => CacheTypeOK'
<1> SUFFICES ASSUME CacheTypeOK, [Next]_vars PROVE CacheTypeOK'
  OBVIOUS
<1> USE CacheAssumption DEF CacheTypeOK, Versions, None, Others
<1>1. ASSUME NEW c \in Callers, BeginCall(c) \/ CacheStep(c) \/ CacheCrash(c)
      PROVE  CacheTypeOK'
  <2>1. CASE BeginCall(c) \/ LoadAgain(c)
    BY <2>1 DEF BeginCall, LoadAgain, cacheVars
  <2>2. CASE Lookup(c)
    BY <2>2 DEF Lookup, Hit, Miss
  <2>3. CASE AcquireLock(c)
    BY <2>3 DEF AcquireLock, Recover
  <2>4. CASE Load(c)
    BY <2>4 DEF Load
  <2>5. CASE Store(c)
    BY <2>5 DEF Store, Stored, NotStored, Expiries
  <2>6. CASE Unlock(c)
    BY <2>6 DEF Unlock, Recover
  <2>7. CASE CacheCrash(c)
    BY <2>7 DEF CacheCrash
  <2>. QED BY <1>1, <2>1, <2>2, <2>3, <2>4, <2>5, <2>6, <2>7 DEF CacheStep
<1>2. CASE Update \/ Invalidate \/ RefreshStep \/ CacheTick
  BY <1>2 DEF Update, Invalidate, RefreshStep, RefreshLoad, RefreshStore, CacheTick
<1>3. ASSUME NEW c \in Callers, BeginPlain(c) \/ WarmBatch(c) \/ PlainStep(c)
      PROVE  CacheTypeOK'
  <2> USE DEF PlainKept
  <2>1. CASE BeginPlain(c) \/ WarmBatch(c)
    BY <2>1 DEF BeginPlain, WarmBatch
  <2>2. CASE CacheResult(c) \/ GetOrSet(c) \/ Decorated(c)
    BY <2>2 DEF CacheResult, GetOrSet, Decorated
  <2>3. CASE Compute(c)
    BY <2>3 DEF Compute
  <2>4. CASE Save(c)
    BY <2>4 DEF Save, Saved
  <2>. QED BY <1>3, <2>1, <2>2, <2>3, <2>4 DEF PlainStep
<1>4. CASE Drop
  BY <1>4 DEF Drop
<1>5. CASE UNCHANGED cacheVars
  BY <1>5 DEF cacheVars
<1>. QED
  BY <1>1, <1>2, <1>3, <1>4, <1>5 DEF Next, CacheNext, PlainNext, vars

\* The cached value, and its expiry, are in range in every behaviour.
THEOREM CacheTypes == Spec => []CacheTypeOK
<1>1. Init => CacheTypeOK
  <2> SUFFICES ASSUME CacheInit PROVE CacheTypeOK
    BY DEF Init
  <2>1. data \in Versions /\ live \in 0 .. CacheTTL + Jitter /\ fetched \in Versions
        /\ loaded \in [Callers -> Versions]
    BY CacheAssumption DEF CacheInit, Versions
  <2>. QED BY <2>1 DEF CacheInit, CacheTypeOK
<1>. QED BY <1>1, CacheTypeStep, PTL DEF Spec

-----------------------------------------------------------------------------
(* No rollback.  Until the lock first runs out under somebody, whoever is  *)
(* inside owns it, so only one caller at a time has a value to store; it   *)
(* was read inside, after everything the cache has been given.             *)

Alone == \A c \in Callers : Inside(c) => owner = c

VersionInv ==
  job = "cache" /\ ~warm =>
    /\ refresh = "none"
    /\ \A c \in Callers : loaded[c] <= data
    /\ cache <= data
    /\ ~overrun => Alone /\ \A c \in Callers : pc[c] = "store" => cache <= loaded[c]

\* A step of a caller keeps the owner alone inside.
LEMMA AloneKept ==
  ASSUME HolderInv, Alone, NEW c \in Callers, LockStep(c)
  PROVE  Alone'
BY NobodyAssumption DEF Alone, HolderInv, LockTypeOK, LockStep, Inside, Untouched, Take, GiveBack

\* So does time, unless it takes the lock from under somebody.
LEMMA AloneInTime ==
  ASSUME HolderInv, Alone, LockTick, ~overrun'
  PROVE  Alone' /\ ~overrun
<1>1. ~overrun /\ ~(left = 1 /\ Inside(owner))
  BY DEF LockTick
<1>. QED BY <1>1 DEF Alone, LockTick, Inside

LEMMA VersionStep ==
  HolderInv /\ CacheTypeOK /\ VersionInv /\ [Next]_vars => VersionInv'
<1> SUFFICES ASSUME HolderInv, CacheTypeOK, VersionInv, [Next]_vars,
                    job' = "cache", ~warm'
             PROVE  VersionInv'
  BY DEF VersionInv
<1>1. job = "cache" /\ warm' = warm
  BY DEF Next, BlockNext, CacheNext, CacheTick, Update, Invalidate, RefreshStep,
     RefreshLoad, RefreshStore, BeginCall, CacheStep, Lookup, AcquireLock, Load, Store,
     Unlock, LoadAgain, CacheCrash, Others, cacheVars, vars
<1>2. /\ refresh = "none" /\ cache <= data
      /\ \A c \in Callers : loaded[c] <= data
      /\ ~overrun => Alone /\ \A c \in Callers : pc[c] = "store" => cache <= loaded[c]
  BY <1>1 DEF VersionInv
<1> USE CacheAssumption DEF CacheTypeOK, Versions, None
<1>3. ASSUME NEW c \in Callers, BeginCall(c) \/ CacheStep(c) \/ CacheCrash(c)
      PROVE  VersionInv'
  <2>1. LockStep(c) /\ UNCHANGED overrun
    BY <1>3, CacheSteps DEF LockStep
  <2>2. ~overrun => Alone'
    BY <1>2, <2>1, AloneKept
  <2>3. refresh' = "none" /\ data' = data
    BY <1>1, <1>2, <1>3 DEF BeginCall, CacheStep, Lookup, Hit, Miss, AcquireLock, Load,
       Store, Unlock, LoadAgain, CacheCrash, Others, cacheVars
  <2>4. CASE Store(c)
    <3>1. /\ cache' \in {cache, loaded[c]}
          /\ loaded' = [loaded EXCEPT ![c] = 0]
          /\ pc' = [pc EXCEPT ![c] = "unlock"]
      BY <2>4 DEF Store, Stored, NotStored, Goto
    <3>2. ~overrun => \A d \in Callers : pc'[d] # "store"
      BY <1>2, <2>4, <3>1 DEF Store, Alone, Inside, InsideSteps, HolderInv, LockTypeOK
    <3>. QED BY <1>2, <2>1, <2>2, <2>3, <3>1, <3>2 DEF VersionInv
  <2>5. CASE Load(c)
    <3>1. /\ cache' = cache
          /\ loaded' \in {loaded, [loaded EXCEPT ![c] = data]}
      BY <2>5 DEF Load
    <3>2. pc'[c] = "store" => loaded'[c] = data
      BY <2>5 DEF Load, Goto, HolderInv, LockTypeOK
    <3>3. \A d \in Callers \ {c} : pc'[d] = pc[d]
      BY <2>1 DEF LockStep
    <3>. QED BY <1>2, <2>1, <2>2, <2>3, <3>1, <3>2, <3>3 DEF VersionInv
  <2>6. CASE BeginCall(c) \/ Lookup(c) \/ AcquireLock(c) \/ Unlock(c) \/ LoadAgain(c)
             \/ CacheCrash(c)
    <3>1. cache' = cache /\ loaded' \in {loaded, [loaded EXCEPT ![c] = 0]}
      BY <2>6 DEF BeginCall, Lookup, AcquireLock, Unlock, LoadAgain, CacheCrash, cacheVars
    <3>2. pc'[c] # "store"
      BY <2>6 DEF BeginCall, Lookup, Hit, Miss, AcquireLock, Unlock, Recover, LoadAgain,
         CacheCrash, Crash, Goto, HolderInv, LockTypeOK
    <3>3. \A d \in Callers \ {c} : pc'[d] = pc[d]
      BY <2>1 DEF LockStep
    <3>. QED BY <1>2, <2>1, <2>2, <2>3, <3>1, <3>2, <3>3 DEF VersionInv
  <2>. QED BY <1>3, <2>4, <2>5, <2>6 DEF CacheStep
<1>4. CASE CacheTick
  <2>1. cache' \in {cache, None} /\ UNCHANGED <<pc, data, loaded, refresh>>
    BY <1>4 DEF CacheTick, LockTick
  <2>2. ~overrun' => ~overrun /\ Alone'
    <3>1. ~overrun' => ~overrun
      BY <1>4 DEF CacheTick, LockTick
    <3>. QED BY <1>2, <1>4, <3>1, AloneInTime DEF CacheTick
  <2>. QED BY <1>2, <2>1, <2>2 DEF VersionInv
<1>5. CASE Update \/ Invalidate \/ UNCHANGED vars
  <2>1. UNCHANGED <<lockVars, loaded, refresh>>
    BY <1>5 DEF Update, Invalidate, vars, cacheVars
  <2>2. cache' \in {cache, None} /\ data' \in Nat /\ data <= data'
    BY <1>5 DEF Update, Invalidate, vars, cacheVars
  <2>3. Alone' <=> Alone
    BY <2>1 DEF Alone, Inside, lockVars
  <2>. QED BY <1>2, <2>1, <2>2, <2>3 DEF VersionInv, lockVars
<1>6. ~RefreshStep
  BY <1>2 DEF RefreshStep, RefreshLoad, RefreshStore
<1>. QED BY <1>1, <1>3, <1>4, <1>5, <1>6 DEF Next, CacheNext

LEMMA VersionInvariant == Spec => [](CacheTypeOK /\ VersionInv)
<1>1. Init => VersionInv
  BY DEF Init, CacheInit, LockInit, VersionInv, Alone, Inside, InsideSteps, None
<1>. QED BY <1>1, Holders, CacheTypes, VersionStep, PTL DEF Spec

\* The lock of get_or_set_cache does what it is there for: for any number of callers and
\* updates the cached version never goes back before the lock first runs out under a
\* caller.
THEOREM NeverRolledBack == Spec => NoRollback
<1>1. CacheTypeOK /\ VersionInv /\ [Next]_vars =>
        [job = "cache" /\ ~warm /\ ~overrun /\ cache # None /\ cache' # None =>
           cache' >= cache]_vars
  <2> SUFFICES ASSUME CacheTypeOK, VersionInv, [Next]_vars, job = "cache", ~warm, ~overrun,
                      cache' # None
               PROVE  cache' >= cache
    OBVIOUS
  <2>1. /\ refresh = "none"
        /\ \A c \in Callers : pc[c] = "store" => cache <= loaded[c]
    BY DEF VersionInv
  <2>2. cache' = cache \/ \E c \in Callers : pc[c] = "store" /\ cache' = loaded[c]
    BY <2>1 DEF Next, CacheNext, CacheTick, Update, Invalidate, RefreshStep,
       RefreshLoad, RefreshStore, BeginCall, CacheStep, Lookup, AcquireLock, Load, Store,
       Stored, NotStored, Unlock, LoadAgain, CacheCrash, cacheVars, vars
  <2>. QED BY <2>1, <2>2, CacheAssumption DEF CacheTypeOK, Versions, None
<1>. QED BY <1>1, VersionInvariant, PTL DEF Spec, NoRollback
=============================================================================
