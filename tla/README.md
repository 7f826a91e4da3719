# valkey_core: a verification project

This directory models the Valkey client layer of this repository in TLA+, checks the models
with TLC on small instances, and proves the central facts about them with TLAPS for all
instances. Paths below are relative to `src/`.

## 1. The system

The package wraps a Valkey (Redis) server for an asyncio application. Every component is code
that runs in the tasks of several processes and keeps what it shares in the server. An
`await` is where tasks interleave; a command is atomic in the server; a command can fail before it
ran, or after it ran; a task can be cancelled at any await, and `CancelledError` passes by
`except Exception`.

| Component | State | Operations | Modelled in |
|---|---|---|---|
| Sliding log, `limiting/rate_limit.py` `check_rate_limit` | a sorted set of requests and its expiry | one call: cleanup, count, ZADD, EXPIRE | `SlidingLog` |
| Entry points, `service_rate_limit`, `verify_and_limit`, `increment_rate_limit`, `get_remaining_limit` | a counter beside the log | a call of either entry point; reading what is left | `LimitedCall` |
| Five limiters, `algorithims/rate_limit/` | a counter, a flag or a hash, with an expiry | `is_allowed_*` | `LimiterKey`, `FixedWindow`, `Throttle`, `Debounce`, `SlidingWindow`, `TokenBucket`, composed in `Limiters` |
| Lock, `client.py` `ValkeyLock`, `ValkeyClient.lock` | a key with an owner and a timeout | acquire, release | `DistLock` |
| `get_or_set_cache`, `invalidate_cache`, `cache/decorators.py` | a cached value with a ttl; a lock | lookup, locked load, background refresh, update | `GetOrSetCache` |
| Caches without a lock: `cache`, `valkey_cache`, the warmers; all of `cache/valkey_cache.py` | a cached value with a ttl | lookup, load, store, delete | `PlainCache`; with the two above in `LockUsers` |
| In-process caches, `algorithims/caching/{fifo,lifo,lru,mru,lfu}_cache.py` | a dict and a queue, stack, list or heap | put, get, delete | `LocalCache`, `BinaryHeap` |
| Server-backed LIFO and MRU caches, `algorithims/caching/valkey_{lifo,mru}_cache.py` | a list of keys and the values | set, get, delete, clear | `StackCache` |
| Server-backed FIFO, LRU, LFU caches, `algorithims/caching/valkey_{fifo,lru,lfu}_cache.py` | the values only | set, get, delete, clear | `StackCache`, as the policy without a stack |
| Client, `client.py` `get_client`, `shutdown`, command wrappers | one attribute, `_client`, and the connections behind it | connect, shut down, commands | `ClientLife`; what a command does in the server is in the models of its callers |
| Retry, `limiting/retry.py` | none | call, sleep, call again | `ClientLife` |
| Exceptions, `exceptions/exceptions.py` | none | map an exception to a status | that it raises, in `PlainCache` and `ClientLife` |
| Limiter decorators, health check, metrics, configuration | see section 8 | | not modelled |

Interactions: the entry points call `check_rate_limit` and then the counter; `get_or_set_cache`
and the blocks of applications take the driver's lock; updates run next to cache loads on one
key; all limiters and caches see the server through the client's wrappers.

What is hard here, and which property speaks of it, is listed line by line under "hazards" in
`PROJECT.json`. In short: limiters and caches are written as series of commands, so other
callers' commands, a key's own expiry, a failure or a cancellation come in between; each
`except` swallows errors its own way; the driver may send a command twice; locks run out under
their owners; clocks are read before an await and used after it; and two structures that must
agree (dict and heap, stack and values) are changed one after the other.

## 2. Modules and their correspondence to the code

**SlidingLog** — `check_rate_limit`. One action per await: `Begin` (clock, connection),
`Cleanup` (ZREMRANGEBYSCORE), `GetEntries` (ZRANGEBYSCORE and the decision), `Add` (ZADD),
`Expire` (EXPIRE), each with the failure its own `except` handles: a failed cleanup or EXPIRE
is ignored, a failed read lets the call through, a failed ZADD allows the call without an
EXPIRE and may have run. `Cancel` is a cancelled task. `Tick` moves the clock and expires the
key. `granted`, `exposed`, `overtaken` are history: the calls that found a place, the entries
whose EXPIRE did not reach them, whether a call has lasted past a tick.

**LimiterKey** — what four limiters share: one key, INCR/SETNX (`Write`), EXPIRE
(`SendExpire`), the ways to fail (`FailOpen`, `ReplyLost`, `CancelCall`), the key's expiry
(`KeyTick`). Time is relative, so that the clock needs no bound.
**FixedWindow** (INCR, then EXPIRE by the caller that saw 1), **Throttle** (SETNX, then EXPIRE by
the caller that set it), **Debounce** (TTL, then SET EX; TTL answers in rounded seconds) and
**SlidingWindow** (the pipeline is used without being awaited, so every call is let through and
nothing reaches the server) add the callers. **TokenBucket** is its script, one step of the
server on a clock the caller read earlier, up to `MaxLag` ticks ago. **Limiters** composes
them: an endpoint has one of the five.

**WindowQuota** is the abstract specification of a limiter with windows of its own: a window
lasts at least `Window` and has `Limit` places; a call is allowed only on a place and denied
only when none is left. `FixedWindow` and `Throttle` implement it, under every fault, by the
refinement mappings `FixedQuota` (a place is a count up to the limit) and `ThrottleQuota`.

**LimitedCall** — both entry points with `check_rate_limit` as one step (its awaits are
SlidingLog's), and the read and the write of the counter as two. `TurnAway` is what either does
with a call over the limit, `Counted` the SET of the counter. `failed` and `met` are history:
whether a call has failed, and whether two were on their way at once.

**DistLock** — the driver's lock (`Take`: SET NX PX; `GiveBack`: deletion under the
releaser's own token; `LockTick`: it runs out) and the blocks `async with client.lock(...)` around it:
`EnterBlock`, `Acquire`, `LeaveBlock`, `Crash`.
**GetOrSetCache** — `Lookup`, `AcquireLock`, `Load`, `Store`, `Unlock`, `LoadAgain` are the
awaits of `get_or_set_cache`, `Recover` its last `except`; `RefreshLoad`/`RefreshStore` the task it
may leave behind; `Update`/`Invalidate` the two awaits of `invalidate_cache`. A SET or a release that
fails, or whose caller is cancelled, may have run (`Stored`) or not (`NotStored`). The data is a
version number, so that old and new can be told apart. **PlainCache** — the caches that go
without the lock: `CacheResult`, `GetOrSet`, `Decorated`, `WarmBatch` are the ways into
`Compute` and `Save`; `Drop` deletes the key. **LockUsers** composes the three: its callers do one of
the jobs "block", "cache", "plain".

**LocalCache** — the five in-process caches; each `...Put` has the branches of its `put`, with
`Raise` for popping an empty list, removing what is not in a list or deleting what is not in a dict (of
which `FIFOPut` has the first only; the last is never met, by `InStep`). **BinaryHeap** is `heapq`
as the standard library defines it (external); its loops are recursive functions, as are
`PopLive` and the `Without` of **Lists** (LREM), so that they can be proved about. Histories by insertion, writing and use say
which key should go, without knowing of queues, stacks or heaps.

**StackCache** — the five server-backed caches, every command a step. The LIFO and the MRU
cache have a stack beside the values; the other three, policy "server", have the values only,
and their `clear` is the same SCAN and DELETE without the last command. A reply of RPOP
is bytes, so that the name made from it is no value's (`ValuesNamed` is empty). `Faults` are
the commands that fail or are cancelled ("abort") and the pushes and pops whose reply is lost, so
that the driver sends them again ("reply").

**ClientLife** — one `ValkeyClient` and the tasks that share it. `GetClient` is `get_client`
(it looks and makes without an await, so it is one step with the command that follows);
a call is a series of reads and at most one write under `async_retry`: `Begin`, `Follow`
(the next command: on the client of the moment in a wrapper such as `scan`, on the one `aconn`
returned elsewhere), `Return`, `Fail`, `Retry`, `Cancel`; a bare call has one attempt. `Resend`
is the driver's own retry. `Shutdown` is the await of `close()`, `Forget` the assignment after
it, `CloseFails` a close that raises or is cancelled. `open` is the set of clients that may hold
connections; a closed client connects again when a command is sent on it (`Connected`), whether
the command then runs (`Runs`) or fails (`DoesNotRun`, which may also fail to connect). `raced`,
`overlapped`, `runs`, `made`, `done` are history.

`MC<module>` instantiates a module for TLC; `<module>_<run>.cfg` is a run. Definitions whose
comment begins "The mutant" change one definition the way a plausible bug would; no
specification uses them. They show that each property can fail.

## 3. Runs

| Run | Bounds | What it shows |
|---|---|---|
| `SlidingLog_bound` | 2 callers with 4 calls each, Limit 2, Window 2, clock to 5, no fault | slow callers exceed the limit by at most 3N-1 calls in a window (`AdmissionBound`), prompt ones by N-1 (`PromptBound`); a denial always has Limit calls behind it that found a place (`DenialJustified`) |
| `SlidingLog_faults` | 2 callers with 2 calls each, clock to 3, every fault | the inductive invariant `LogInv`; no entry that is not exposed leaves the log inside its window (`FreshEntryKept`); when traffic stops the key goes away, unless an EXPIRE was lost (`KeyCollected`) |
| `SlidingLog_overrun` | 1 caller with 4 calls, Limit 2, Window 2, clock to 3, no fault | violation: `LimitPerWindow`. The key set to expire by the call at 0 goes at 2, after the ZADD of the call at 1 and before its EXPIRE; two calls at 2 are let through, three of one window |
| `Limiters_promises` | each of five limiters, 3 callers, every fault, Window 4 ticks (1 s) | refinement of `WindowQuota`; `FixedBurst`: less than twice the limit in any window; `CallerSpaced`: the debounce spaces each caller; `SpanBound`, `PauseSuffices`: what a bucket gives at most, and at least, when scripts run late; `KeyReopens` |
| `Limiters_stuck` | fixed window and throttle, cancelled tasks only | violation: `AlwaysReopens` |
| `LimitedCall_counter` | 2 callers, 4 passed calls, every fault | the counter holds only calls the check let pass (`CountsOnlyPassed`); after calls in sequence `get_remaining_limit` promises no more than the check still allows (`NeverOverPromises`); calls that met without a failure leave at least one count (`NeverAllFree`) |
| `LockUsers_lock` | 2 callers, timeout 2, every job, every fault | the owner in time is alone (`HolderInv`, `Exclusion`); the lock comes free (`LockReopens`); a prompt caller never puts an old version over a newer (`NoRollback`); when updates stop, the cache ends with the last version or none (`EventuallyFresh`) |
| `LockUsers_stampede` | 2 callers that miss at once, no fault | violation: `OneLoadPerMiss` |
| `LocalCache_policies` | 4 keys, capacities 0 to 3, 8 LFU operations, 7 stack or heap entries | dict and order stay in step (`InStep`), the heap is a heap except after an update (`HeapOrdered`), nothing raises with a capacity (`RaisesOnlyAtZero`), the key that goes is the one the cache is named for (`RightVictim`) |
| `StackCache_bounds` | 2 callers, 3 keys, three policies, capacities 1 and 2, one push sent twice | how long the stack gets (`StackBound`) and how often it has a key (`CopiesBound`) |
| `StackCache_evicts` | 1 caller, 3 keys, the LIFO and the MRU cache, capacities 1 and 2, no fault | violation: `CapacityKept` |
| `ClientLife_shared` | 2 tasks, 2 attempts, 1 resend, 2 shutdowns, every fault | no more clients left with connections than shutdowns have ended, however they are raced (`LeftBehindBound`); nothing stays open behind a shutdown that no command and no other shutdown raced (`CleanUnlessRaced`), which forgets only what it closed (`DropsOwn`); a write runs at most attempts times sends (`EffectsBound`); every call and shutdown ends (`CallEnds`) |

Why the bounds are enough. Two callers give every pair of interleaved awaits, the third of
`Limiters_promises` a caller between two others; the limit of 2 tells "one more" from "none".
`MaxTime` 5 with a window of 2 covers two windows and the expiry of a key across them; the bound
of `AdmissionBound` is for any N: it is checked for N = 2 and proved for every N. The debounce needs a window of a
second in ticks of a quarter (`Half` is the two ticks of half a second) for TTL's rounding to matter. `MaxCount` and `MaxVersion`
bound counters in the guards. The bucket has an interval of 3 and a lag of 1, so that the bound of
`SpanBound`, one refill per interval less the lag, differs from one per interval; TLC reaches
it. Two shutdowns make the second drop what was made after the first. One update is enough for a stale store, since versions only grow.
Four keys with a capacity of 3 make a heap in which an update in place can hide
the least used node. `MaxStack` is above the longest stack, of seven entries, that two callers reach with three
keys and one push sent twice, so that it never cuts a push off.
`LocalCache` is checked without a deadlock check, because its bounds stop the puts; everywhere
else deadlock is checked.

## 4. Fairness

Liveness is stated under weak fairness of time passing (`Tick`, `KeyTick`, `LockTick`,
`CacheTick`) and of the steps of a task that can go on: the event loop runs every ready task,
and a command either answers or raises within the socket timeout. In `ClientLife` that is a command of a
call that ends (`Return`, `Fail`, or `Follow` to its write: a scan comes to its end), the
sleep of a retry (`Retry`), and a close that ends or raises (`Forget`, `CloseFails`). Nothing is assumed of how often
calls begin, of faults, of which of several outcomes a command has, or of a blocked caller
getting the lock before another: a polling acquire can starve and no property says otherwise.

## 5. Where the code and what is said of it disagree

With a run each (see "findings" in `PROJECT.json`):

1. `LimitPerWindow`: `limiting/rate_limit.py` sends ZADD (132) and EXPIRE (144) apart; the key
   can expire between them, by the EXPIRE of an earlier call, and take the new entry along. The call of
   that entry was let through and is counted by nobody: with a limit of two, the two calls that
   follow are let through in the same window, by a single caller and without a fault. Nothing else
   lets a single caller through too often: with ZADD and EXPIRE in one step the property holds.
2. `AlwaysReopens`: only the caller that created the key sends its EXPIRE
   (`throttle.py:22`, `fixed_window.py:20`); if it is cancelled in between, the limiter is
   closed for ever.
3. `CapacityKept`: RPOP returns bytes, so that `valkey_lifo_cache.py:34` and its counterpart in the MRU
   cache delete a key that is no value's. Their line 7 says "Evicts the most recently added entry
   when capacity is exceeded" ("used" for the MRU cache), and so does
   `_tests/core/test_caching_algorithims.py:171`; after two sets with a capacity of 1 both values
   are there. Lines 148 and 184 of that test expect as much ("Key will only be evicted if Valkey is under
   memory pressure"). With the reply decoded the property holds in the same run.
4. `OneLoadPerMiss`: `get_or_set_cache` does not look again once it has the lock.

Without a run of their own, noted while modelling:

- `rate_limit.py:74` fails open, where `_tests/performance_and_monitoring/test_rate_limit.py:85` says
  "(fail-closed)"; line 72 of that test expects exactly 15 allowed requests of a concurrent burst,
  which N callers can exceed.
- `rate_limit.py:272`: the 429 of `verify_and_limit` is raised inside the `try` whose `except` returns the
  user (`TurnAway`): a caller over its limit is served.
- `rate_limit.py:141`, "Set expiration on the key if it doesn't have one": line 144 sets it on every call.
- `rate_limit.py:288` returns `user_id` that a failing token check never assigned.
- `rate_limit.py:178-185`: read, add one, write: concurrent calls lose counts, down to the last one
  (`NeverAllFree`), and every call renews the expiry.
- `sliding_window.py:28` uses `client.pipeline()`, a coroutine function (`client.py:347`), without
  awaiting it; the limiter lets everything through.
- `debounce.py` spaces allowed calls (a throttle); its docstring speaks of a period of inactivity.
- `token_bucket.py:26-30` on an old clock sets `last` back; a denied poll restarts the interval, so
  a caller that polls faster than the interval is never refilled.
- `cache/decorators.py:73` and `:132` use `ValkeyConfig.VALKEY_TIMEOUT`, which does not exist: every
  call of a function under `cache` or `valkey_cache` raises `AttributeError`.
- `cache/decorators.py:188`: where the lookup raised, `cached` is unassigned; and as nothing truthy was
  cached whenever the lock is reached, the stale fallback is never taken, whatever `stale_ttl` says.
- `client.py:59` takes the lock from `client._client`, which is None before the first command.
- The default of `lock()` has no timeout: a crash inside keeps the lock for ever.
- `lifo_cache.py:17` evicts for an update too; a pattern of
  `clear()` includes the stack, and a key named "stack" collides with it.
- `lfu_cache.py:34-37`: a put of a key that is there changes its node inside the heap and pushes it
  once more; the heap is out of order until the next get, and an eviction before it can take a key
  that was used more often than another, where line 14 says "Least Frequently Used". `HeapOrdered`
  and `RightVictim` except those states (`dirty`).
- `_tests/resilience/test_retry.py:82`, "retry does not duplicate side effects on each attempt": a
  write whose reply is lost runs once per attempt and per resend (`EffectsBound`).
- `limiting/retry.py:33`: with `attempts` 0 the function is never called and None is returned. A
  list of exceptions such as `(TimeoutError,)` never matches a wrapped command, which raises
  `HTTPException` for whatever happened.
- `client.py:25` gives the asyncio client a `Retry` of the synchronous package; the models let the
  driver send a command again, or not.
- `client.py:197`: `__aenter__` without `__aexit__`: `async with` of a `ValkeyClient` fails.
- `client.py:192-193`: a command that starts or ends while `close()` is awaited leaves connections that
  nothing closes; a second shutdown at the same time drops a client that it did not close.
- `ValkeyClient.get_default()`, the default client of the five server-backed caches, does not exist.
- Capacity 0: the FIFO, LIFO and MRU caches raise `IndexError`.

## 6. What is proved

All proofs hold for any number of callers, any parameters that satisfy the named assumptions,
and, where nothing else is said, every set of faults; the assumptions say that windows, timeouts and ttls are positive.

- `SlidingLogProofs`: `TypeCorrect`; `ExpiryCovers` (`LogInv`): every entry that is not exposed
  is covered by the key's expiry. The strengthening needed is `ClocksBehind` (no score lies in
  the future), because EXPIRE counts from a clock that is at least the entry's. `FreshKept`
  derives the action property from it: a cleanup cuts off a window before a past clock, and
  an expiry comes after every entry it covers. `DenialsJustified` has an invariant of its own, `GrantedInv`:
  all that is in the log, or about to be, has found a place; the count is then a subset of the places.
  `PromptLimit` proves the bound N-1 on prompt calls, under the assumption that only commands
  before the ZADD fail (`Faults \subseteq EarlyFaults`): `PromptInv` says that a place found in the
  present window is in the log unless its caller is at the ZADD, so that a count misses at most one
  call per other caller. With the other faults an entry may be lost, and the bound is not
  claimed. `OverrunLimit` proves `AdmissionBound` under the same assumption: however slow the calls
  are, at most `Limit + 3N - 1` of those that begin in a window are counted.
- `LimitersProofs`: one invariant, `KeyInv`, for the limiters on one key. `QuotaInv`: at most
  one EXPIRE is on its way, to a key that has none, so an expiry never ends a window early.
  `SpacingInv`: the debounce's key lives as long as the interval of any caller that set it. From
  them `Quotas`, `Spacings`, `Spaced` (action property), the step simulation of the
  two refinements, `FixedPromise` and `ThrottlePromise`, and with the first states and the choice of
  the limiter the refinements as a whole, `FixedImplements` and `ThrottleImplements`
  (`... => FixedQuota!QuotaSpec`). `Bursts` proves `FixedBurst` for any limit and window, from
  `BurstInv`: what the last window had is remembered without its first place, and a stretch of
  `Window` ticks reaches at most one window back. `BucketInv`, for the bucket: the clock
  it was last set to is at least as old as the last call, and not older than its lifetime and the
  lag allow; from it `BucketTypes` and `Pauses`. `Spans` proves `SpanBound`, from `SpanInv`: the
  calls of the last n ticks and the tokens left are never more than a bucket and the refills of n
  ticks, for every n.
- `LimitedCallProofs`: `CallTypes`, and `CountsPassed` from `CountInv`. `SeenBehind` is needed
  because the counter is overwritten with what was read earlier: a caller's count, with itself and the
  others on their way added, is behind the passed calls too. `Promises` proves `NeverOverPromises`
  from `CoverInv`: as long as calls follow each other and none fails, the counter has counted every
  entry of the log but the one on its way, and lives as long as the youngest of them. `SomeCounted`
  proves `NeverAllFree` from `RenewedInv`: the entries that outlive the counter are no more than the
  calls on their way to it, however many counts those that met have lost.
- `LockUsersProofs`: `Holders`: whoever is inside and in time owns the lock for the rest of its
  time, inductive as it stands; `Excludes` follows. The proof has one notion of what a step
  may do to the lock (`LockStep`), which each action of each job is shown to be. `CacheTypes` is
  the cache's type invariant; `NeverRolledBack` derives `NoRollback` from the exclusion and
  from versions that only grow (`VersionInv`): as long as no caller has overrun the lock, whoever
  stores is alone (`Alone`) and read its value after everything the cache has been given.
- `ClientLifeProofs`: `ShareInv` has, beside `CleanUnlessRaced`, that a client is made only where one has
  been forgotten (`SingleClient`), that without an
  overlap one task closes (`OneCloser`) and that the client it closes has no connections
  (`ClosingIsClosed`); `NothingLeftOpen` and `OwnDropped` follow. `LeftBehind` proves `LeftBehindBound`
  from `SingleClient` by counting the clients made. `CallInv` counts
  the runs of a write by the attempts and sends so far; `Effects` follows.
- `StackCacheProofs`: `StackTyped`. `CopiesBounded` and `StackBounded` bound the stack for any finite set of callers. Both are
  inductive once the callers that are yet to push are counted with the stack: `CopiesInv` counts the
  copies of a key and the callers that owe it a push (`Owing`), `DepthInv` the entries and the
  callers that have seen room or made it (`Pending`). An LREM takes every copy of its key out before
  its caller owes one. A caller sees room only while the stack is below capacity, and at that moment at
  most all the others are pending.
- `LocalCacheProofs`, for any set of keys and any capacities: `CacheTyped`, `OrdersInStep` (`InStep`),
  `HeapInOrder` (`HeapOrdered`), `RaisesNever` (`RaisesOnlyAtZero`) and `EvictsTheRight` (`RightVictim`).
  All five come from `CacheInv`. `Listed` in it says what each order is in terms of the
  histories: the queue is `inserted`, the lists of the LRU and the MRU cache are `used`, and the stack of
  the LIFO cache has the last written key on top. From it the first four policies follow. For
  the LFU cache `Heaped` keeps the node of every cached key in the heap, which may hold anything
  else besides, and `Stamped` ties the nodes to the histories: a key's node counts its uses,
  and `used` is sorted by the nodes' stamps (`Later`). A use stamps its node with the time it leaves, an
  insertion with the time it finds, so a node inserted right after a use has the same stamp: the
  invariant needs that a stamp equal to the clock belongs to a node with a frequency above 1. For
  `HeapOrdered` the proof is that of `heapq`: an entry that moves up leaves all in order but itself
  below its parent (`Rising`), one that moves down all but itself with its parent and its children
  (`Sinking`), both within the entries under the start of the loop (`Heirs`); `Heapify` extends the part
  that is in order entry by entry, from the leaves on.

`DataTheorems` has what the proofs need of data. The prover cannot use an induction rule that has
a property as its parameter, so induction is stated for sets: a set of numbers that has 0 and
the successor of each member has every number (`EveryNatural`), and likewise for finite sets
(`EveryFinite`). From them come that a recursion over `0 .. n` has a solution (`RecursionExists`),
which recursive functions rest on, the sums over histories and logs (`MapThenSumSet`, a fold) and the
sequences that list a set without repetition (`Enumerates`). A loop is proved about by
a set of states that no round leaves: it ends in one of them where a further round changes nothing.

Every safety invariant and every action property that a passing run checks is stated by a theorem.
Only model-checked: liveness (`KeyCollected`, `KeyReopens`, `LockReopens`, `EventuallyFresh`,
`CallEnds`), for which the prover has no rule of fairness. Not claimed at all: `AdmissionBound` and
`PromptBound` under faults that lose an entry of the log; they do not hold there. The four
findings of section 5 are traces of TLC.

## 7. Abstractions

Names, values, JSON, logging and metrics are left out. The clock of SlidingLog is one clock for
all hosts, in ticks. The server does not crash or fail over. A cache is one key. A caller of
`PlainCache` has a ttl; with ttl None, the default of `cache_result`, a late store of an old
value stays for ever. A lock has a timeout. SCAN in `StackCache` is atomic; commands other than
RPUSH and RPOP are not sent twice there.

## 8. What is not modelled, and why

- The metadata hash and the weekly clean-up script of `rate_limit.py`: nothing reads the first and the
  second only deletes it.
- `limiting/decorators.py` and `health_check.py`: they import names that do not exist and cannot be
  loaded; the first also calls `check_rate_limit` without a client and reads its answer the
  wrong way round, the second uses `ValkeyConfig.VALKEY_TIMEOUT`, which does not exist.
- The table of `exceptions/exceptions.py` from exceptions to statuses: that a failure raises is modelled,
  which status it gets is a lookup without state.
- The conversion of values by `_maybe_json_decode`: values are left out everywhere.
- `decorators.py` (prometheus counters), `config.py`, `valkey.conf`, `models/credit.py`: no state, or
  no behaviour.
- The driver (`valkey-py`), its pools and retries, except for their outcomes; the cluster mode, which differs
  in the class that `get_client` makes.
- Eviction by the server under memory pressure: the server-backed caches have memory enough.

## 9. Plan

Done: the modules of section 2, in the order SlidingLog, the limiters, LimitedCall, the lock and
the caches behind it, LocalCache, StackCache, ClientLife; the theorems of section 6.

Left, in this order:

1. Lemmas about the abstract `WindowQuota` of which `FixedBurst` could be an instance.
2. `SlidingLog` with skewed clocks between hosts, and the bound it then keeps.
3. `ClientLife` with the server's side of a command, so that a retried INCR of the fixed window is
   one trace from the lost reply to the count.
4. The exception table as operators, checked against the class hierarchy.
