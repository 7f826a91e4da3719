----------------------------- MODULE StackCache -----------------------------
(***************************************************************************)
(* The caches of src/algorithims/caching/ that live in the server.         *)
(* valkey_lifo_cache and valkey_mru_cache keep a capacity of their own:    *)
(* each has a list, the stack, next to the keys of its values, and every   *)
(* operation is a series of commands between which other callers' run.     *)
(* valkey_fifo_cache, valkey_lru_cache and valkey_lfu_cache, one policy    *)
(* here, have the values only and leave evictions to the server, which has *)
(* memory enough.  The values are left out; what is there, and for how     *)
(* long, is not.  A get other than the MRU cache's only reads, and is no   *)
(* action.                                                                 *)
(***************************************************************************)
EXTENDS Lists, SequencesExt, FiniteSets

CONSTANTS
  Callers,
  Keys,
  Policies,    \* the policies to choose from
  Capacities,  \* the capacities to choose from
  TTL,         \* the parameter ttl, in ticks
  Faults,      \* a subset of FaultKinds
  MaxStack,    \* bound: the entries of the stack
  MaxResent    \* bound: commands that the driver sends twice

\* "abort": a command raises or a task is cancelled; "reply": a reply is lost.
FaultKinds == {"abort", "reply"}

NoKey    == "nokey"
StackKey == "stack"   \* the name of the stack itself

ASSUME StackAssumption ==
  /\ IsFiniteSet(Callers)
  /\ Policies \subseteq {"lifo", "mru", "server"}
  /\ Capacities \subseteq Nat \ {0}
  /\ Faults \subseteq FaultKinds
  /\ TTL \in Nat \ {0} /\ MaxStack \in Nat /\ MaxResent \in Nat
  /\ NoKey \notin Keys /\ StackKey \notin Keys

VARIABLES
  policy,   \* "lifo", "mru", or "server" for the three that have no stack
  capacity,
  stack,    \* the list under stack_key
  data,     \* ticks that the value of each key will live
  pc,       \* the next command of each caller
  arg,      \* the key of the operation it is in
  popped,   \* what its RPOP returned
  seen,     \* the keys its SCAN returned
  resent    \* history: how many pushes the driver has sent twice

config == <<policy, capacity>>
server == <<stack, data>>
vars   == <<config, server, pc, arg, popped, seen, resent>>

Steps == {"idle", "len", "pop", "evict", "push", "put", "take", "back", "unstack", "wipe", "drop"}

TypeOK ==
  /\ policy \in Policies /\ capacity \in Capacities
  /\ \A i \in DOMAIN stack : stack[i] \in Keys
  /\ data \in [Keys -> 0 .. TTL]
  /\ pc \in [Callers -> Steps]
  /\ arg \in [Callers -> Keys \cup {NoKey}]
  /\ popped \in [Callers -> Keys \cup {NoKey}]
  /\ seen \in [Callers -> SUBSET (Keys \cup {StackKey})]
  /\ resent \in 0 .. MaxResent
  /\ \A c \in Callers : pc[c] = "evict" => popped[c] \in Keys

Init ==
  /\ policy \in Policies
  /\ capacity \in Capacities
  /\ stack = <<>>
  /\ data = [k \in Keys |-> 0]
  /\ pc = [c \in Callers |-> "idle"]
  /\ arg = [c \in Callers |-> NoKey]
  /\ popped = [c \in Callers |-> NoKey]
  /\ seen = [c \in Callers |-> {}]
  /\ resent = 0

-----------------------------------------------------------------------------
(* Commands.                                                               *)

\* A caller goes on to its next command.  One that is done forgets its key.
Goto(c, step) ==
  /\ pc' = [pc EXCEPT ![c] = step]
  /\ arg' = IF step = "idle" THEN [arg EXCEPT ![c] = NoKey] ELSE arg

\* A command raises, or the task ends: before it ran, or after the one before it did.
Abort(c) ==
  /\ "abort" \in Faults
  /\ pc[c] # "idle"
  /\ Goto(c, "idle")
  /\ popped' = [popped EXCEPT ![c] = NoKey]
  /\ seen' = [seen EXCEPT ![c] = {}]
  /\ UNCHANGED <<config, server, resent>>

\* The reply of an RPUSH or an RPOP is lost after it ran, and the driver, given a Retry
\* by the client, sends it again.  The other commands do twice what they do once,
\* unless another caller's comes between: that is left out.
Resend(c) ==
  /\ "reply" \in Faults
  /\ \/ /\ pc[c] \in {"push", "back"}
        /\ resent < MaxResent /\ Len(stack) < MaxStack
        /\ stack' = Append(stack, arg[c])
        /\ resent' = resent + 1
     \/ /\ pc[c] = "pop" /\ stack # <<>>
        /\ stack' = Front(stack)
        /\ UNCHANGED resent
  /\ UNCHANGED <<config, data, pc, arg, popped, seen>>

Locals == UNCHANGED <<popped, seen, resent>>

\* The first command of an operation on k, which leads to step.
Starts(c, k, step) ==
  /\ pc[c] = "idle"
  /\ pc' = [pc EXCEPT ![c] = step]
  /\ arg' = [arg EXCEPT ![c] = k]
  /\ UNCHANGED config /\ Locals

\* The mutant that takes nothing out.
LRemNothing(k) == UNCHANGED stack

\* LREM stack_key 0 k
LRem(k) == stack' = Without(stack, k)

-----------------------------------------------------------------------------
(* set(key, value, ttl)                                                    *)

\* Where there is a stack, the key is taken out of it first.
Set(c, k) ==
  \/ policy # "server" /\ Starts(c, k, "len") /\ LRem(k) /\ UNCHANGED data
  \/ policy = "server" /\ Starts(c, k, "put") /\ UNCHANGED server

\* The mutant that lets the stack grow one over the capacity.
IsFullLate(len) == len > capacity

IsFull(len) == len >= capacity

SetLen(c) ==
  /\ pc[c] = "len"
  /\ Goto(c, IF IsFull(Len(stack)) THEN "pop" ELSE "push")
  /\ UNCHANGED <<config, server>> /\ Locals

\* The mutant that does not look at what it popped.
AfterPopUnchecked(top) == "evict"

AfterPop(top) == IF top = NoKey THEN "push" ELSE "evict"

\* RPOP; by now the stack may be empty.
SetPop(c) ==
  LET top == IF stack = <<>> THEN NoKey ELSE Last(stack)
  IN /\ pc[c] = "pop"
     /\ stack' = IF top = NoKey THEN stack ELSE Front(stack)
     /\ Goto(c, AfterPop(top))
     /\ popped' = [popped EXCEPT ![c] = top]
     /\ UNCHANGED <<config, data, seen, resent>>

\* The values that _key of a reply of RPOP names: the reply is bytes, and the name has
\* its b'...' in it, which no value's has.
ValuesNamed(reply) == {}

SetEvict(c) ==
  /\ pc[c] = "evict"
  /\ data' = [k \in Keys |-> IF k \in ValuesNamed(popped[c]) THEN 0 ELSE data[k]]
  /\ Goto(c, "push")
  /\ popped' = [popped EXCEPT ![c] = NoKey]
  /\ UNCHANGED <<config, stack, seen, resent>>

SetPush(c) ==
  /\ pc[c] = "push"
  /\ Len(stack) < MaxStack
  /\ stack' = Append(stack, arg[c])
  /\ Goto(c, "put")
  /\ UNCHANGED <<config, data>> /\ Locals

SetPut(c) ==
  /\ pc[c] = "put"
  /\ data' = [data EXCEPT ![arg[c]] = TTL]
  /\ Goto(c, "idle")
  /\ UNCHANGED <<config, stack>> /\ Locals

-----------------------------------------------------------------------------
(* get(key) of the MRU cache, of a key that is there: no look at the       *)
(* capacity, nor at whether the stack still held the key.                  *)

Get(c, k) ==
  /\ policy = "mru"
  /\ data[k] > 0
  /\ Starts(c, k, "take")
  /\ UNCHANGED server

GetTake(c) ==
  /\ pc[c] = "take"
  /\ LRem(arg[c])
  /\ Goto(c, "back")
  /\ UNCHANGED <<config, data>> /\ Locals

GetBack(c) ==
  /\ pc[c] = "back"
  /\ Len(stack) < MaxStack
  /\ stack' = Append(stack, arg[c])
  /\ Goto(c, "idle")
  /\ UNCHANGED <<config, data>> /\ Locals

-----------------------------------------------------------------------------
(* delete(key) and clear()                                                 *)

Delete(c, k) ==
  /\ \/ policy # "server" /\ Starts(c, k, "unstack")
     \/ policy = "server" /\ pc[c] = "idle" /\ Goto(c, "idle") /\ UNCHANGED config /\ Locals
  /\ data' = [data EXCEPT ![k] = 0]
  /\ UNCHANGED stack

DeleteUnstack(c) ==
  /\ pc[c] = "unstack"
  /\ LRem(arg[c])
  /\ Goto(c, "idle")
  /\ UNCHANGED <<config, data>> /\ Locals

\* What the SCAN returns: its pattern takes in the stack itself.
Scanned == {k \in Keys : data[k] > 0} \cup (IF stack = <<>> THEN {} ELSE {StackKey})

\* Where there is a stack, it is deleted last.
AfterWipe == IF policy = "server" THEN "idle" ELSE "drop"

Clear(c) ==
  /\ pc[c] = "idle"
  /\ seen' = [seen EXCEPT ![c] = Scanned]
  /\ Goto(c, IF Scanned = {} THEN AfterWipe ELSE "wipe")
  /\ UNCHANGED <<config, server, popped, resent>>

ClearWipe(c) ==
  /\ pc[c] = "wipe"
  /\ data' = [k \in Keys |-> IF k \in seen[c] THEN 0 ELSE data[k]]
  /\ stack' = IF StackKey \in seen[c] THEN <<>> ELSE stack
  /\ Goto(c, AfterWipe)
  /\ seen' = [seen EXCEPT ![c] = {}]
  /\ UNCHANGED <<config, popped, resent>>

ClearDrop(c) ==
  /\ pc[c] = "drop"
  /\ stack' = <<>>
  /\ Goto(c, "idle")
  /\ UNCHANGED <<config, data>> /\ Locals

-----------------------------------------------------------------------------
\* The stack never expires.
Tick ==
  /\ data' = [k \in Keys |-> IF data[k] > 0 THEN data[k] - 1 ELSE 0]
  /\ UNCHANGED <<config, stack, pc, arg, popped, seen, resent>>

SetStep(c)   == (\E k \in Keys : Set(c, k)) \/ SetLen(c) \/ SetPop(c) \/ SetEvict(c) \/ SetPush(c) \/ SetPut(c)
GetStep(c)   == (\E k \in Keys : Get(c, k)) \/ GetTake(c) \/ GetBack(c)
DeleteStep(c) == (\E k \in Keys : Delete(c, k)) \/ DeleteUnstack(c)
ClearStep(c) == Clear(c) \/ ClearWipe(c) \/ ClearDrop(c)

Next ==
  \/ \E c \in Callers : SetStep(c) \/ GetStep(c) \/ DeleteStep(c) \/ ClearStep(c)
                       \/ Resend(c) \/ Abort(c)
  \/ Tick

Spec == Init /\ [][Next]_vars

-----------------------------------------------------------------------------
Pushing == {c \in Callers : pc[c] = "push"}

\* However the callers' commands interleave and fail, the stack of the LIFO cache is
\* at most one entry per further caller over its capacity, with those counted that a
\* caller is about to push; and one per push that the driver has sent twice.
StackBound ==
  policy = "lifo" =>
    Len(stack) + Cardinality(Pushing) <= capacity + Cardinality(Callers) - 1 + resent

\* A key is in the stack at most once per caller: two that push the same key between
\* each other's LREM and RPUSH leave it there twice, and the next of them cleans up.
CopiesBound ==
  \A k \in Keys :
    Cardinality({i \in DOMAIN stack : stack[i] = k}) <= Cardinality(Callers) + resent

-----------------------------------------------------------------------------
\* valkey_lifo_cache.py:7, "Evicts the most recently added entry when capacity is
\* exceeded", and valkey_mru_cache.py:7: the cache has no more values than its capacity.
CapacityKept ==
  policy # "server" => Cardinality({k \in Keys : data[k] > 0}) <= capacity
=============================================================================
