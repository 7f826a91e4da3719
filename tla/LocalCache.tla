----------------------------- MODULE LocalCache -----------------------------
(***************************************************************************)
(* The in-process caches of src/algorithims/caching/: fifo_cache,          *)
(* lifo_cache, lru_cache, mru_cache and lfu_cache.  Each keeps a dict and  *)
(* an order of its own - the queue, the stack, the linked list, the heap - *)
(* and has to keep the two in step.  Values are left out: what matters is  *)
(* which keys are there and which one goes.                                *)
(***************************************************************************)
EXTENDS BinaryHeap, Lists, SequencesExt, FiniteSets

CONSTANTS
  Keys,
  Policies,    \* the policies to choose from
  Capacities,  \* the capacities to choose from
  MaxTime,     \* bound: the logical clock of the LFU cache
  MaxOrder     \* bound: entries in the stack or the heap, which updates make grow

NoKey == "nokey"

ASSUME LocalAssumption ==
  /\ Policies \subseteq {"fifo", "lifo", "lru", "mru", "lfu"}
  /\ Capacities \subseteq Nat
  /\ MaxTime \in Nat /\ MaxOrder \in Nat
  /\ NoKey \notin Keys

VARIABLES
  policy,
  capacity,
  cache,      \* the keys of the dict
  order,      \* FIFO: the queue; LIFO, MRU: the stack; LRU: the list from head to tail
  heap,       \* LFU: the heap, of references to nodes
  node,       \* LFU: the nodes made so far, [key, freq, stamp]
  current,    \* LFU: the reference in the dict, for each key in it
  time,       \* LFU: the logical clock
  victim,     \* the key the last operation evicted, or NoKey
  raised,     \* whether the last operation raised, by popping an empty list, by
              \* removing what is not in a list or deleting what is not in the dict
  dirty,      \* history, LFU: whether a node changed since the heap was last ordered
  inserted,   \* history: the cached keys, by when they came in
  written,    \* history: by when they were last put
  used,       \* history: by when they were last put or found
  uses        \* history, LFU: how often, since they came in

codeVars == <<policy, capacity, cache, order, heap, node, current, time, victim, raised>>
history  == <<dirty, inserted, written, used, uses>>
vars     == <<codeVars, history>>

TypeOK ==
  /\ policy \in Policies /\ capacity \in Capacities
  /\ cache \in SUBSET Keys
  /\ \A i \in DOMAIN order : order[i] \in Keys
  /\ \A i \in DOMAIN heap : heap[i] \in DOMAIN node
  /\ \A k \in cache : policy = "lfu" => current[k] \in DOMAIN node
  /\ victim \in Keys \cup {NoKey}
  /\ ToSet(inserted) = cache /\ ToSet(written) = cache /\ ToSet(used) = cache

Init ==
  /\ policy \in Policies
  /\ capacity \in Capacities
  /\ cache = {}
  /\ order = <<>> /\ heap = <<>> /\ node = <<>>
  /\ current = [k \in Keys |-> 0]
  /\ time = 0
  /\ victim = NoKey
  /\ raised = FALSE
  /\ dirty = FALSE
  /\ inserted = <<>> /\ written = <<>> /\ used = <<>>
  /\ uses = [k \in Keys |-> 0]

-----------------------------------------------------------------------------
(* Bookkeeping.                                                            *)

Newest(keys, k) == Append(Without(keys, k), k)

\* Only the LFU cache counts.
Counted(k, n) == uses' = IF policy = "lfu" THEN [uses EXCEPT ![k] = n] ELSE uses

\* What a put of k that evicted v means to the history; v may be NoKey.
Recorded(k, v) ==
  /\ inserted' = LET left == Without(inserted, v)
                  IN IF k \in cache /\ k # v THEN left ELSE Append(left, k)
  /\ written' = Newest(Without(written, v), k)
  /\ used' = Newest(Without(used, v), k)
  /\ Counted(k, IF k \in cache /\ k # v THEN uses[k] + 1 ELSE 1)

Found(k) ==
  /\ used' = Newest(used, k)
  /\ Counted(k, uses[k] + 1)
  /\ UNCHANGED <<inserted, written>>

\* An operation that raises on an empty list, or on one without the key, has done
\* nothing before it did.  One that popped a key the dict does not have would raise at
\* the del, after its pop; TopCached stands for that too, and FIFOPut leaves it out:
\* InStep says that no such key is ever popped.
Raise ==
  /\ raised' = TRUE
  /\ victim' = NoKey
  /\ UNCHANGED <<policy, capacity, cache, order, heap, node, current, time, history>>

\* The keys and their order after a put of k that evicted v; v may be NoKey.
Leave(k, v, newOrder) ==
  /\ cache' = (cache \ {v}) \cup {k}
  /\ order' = newOrder
  /\ victim' = v
  /\ raised' = FALSE
  /\ Recorded(k, v)
  /\ UNCHANGED <<policy, capacity, heap, node, current, time, dirty>>

Full == Cardinality(cache) >= capacity

\* Whether popping the stack and deleting what comes off it from the dict would work.
TopCached == IF order = <<>> THEN FALSE ELSE Last(order) \in cache

-----------------------------------------------------------------------------
(* FIFOCache                                                               *)

FIFOPut(k) ==
  /\ policy = "fifo"
  /\ \/ k \in cache /\ Leave(k, NoKey, order)
     \/ k \notin cache /\ ~Full /\ Leave(k, NoKey, Append(order, k))
     \/ k \notin cache /\ Full /\ order = <<>> /\ Raise
     \/ k \notin cache /\ Full /\ order # <<>> /\ Leave(k, Head(order), Append(Tail(order), k))

\* del cache[k], which MutableMapping's pop and clear come down to.
FIFODelete(k) ==
  /\ policy = "fifo"
  /\ k \in cache
  /\ cache' = cache \ {k}
  /\ order' = RemoveFirst(order, k)
  /\ victim' = NoKey /\ raised' = FALSE
  /\ inserted' = Without(inserted, k) /\ written' = Without(written, k) /\ used' = Without(used, k)
  /\ UNCHANGED <<policy, capacity, heap, node, current, time, dirty, uses>>

-----------------------------------------------------------------------------
(* LIFOCache                                                               *)

\* A put at capacity evicts the top of the stack, a key that is there or not.
LIFOPut(k) ==
  /\ policy = "lifo"
  /\ Len(order) < MaxOrder
  /\ \/ ~Full /\ Leave(k, NoKey, Append(order, k))
     \/ Full /\ ~TopCached /\ Raise
     \/ Full /\ TopCached /\ Leave(k, Last(order), Append(Front(order), k))

-----------------------------------------------------------------------------
(* LRUCache and MRUCache                                                   *)

\* The mutant that leaves a key where it is.
Unmoved(k) == IF Contains(order, k) THEN order ELSE Append(order, k)

\* A key taken out of the order and put at its end.
Moved(k) == Append(RemoveFirst(order, k), k)

\* A key that is found moves to the tail of the list, or to the top of the stack;
\* the stack is searched for it.
MoveToEnd(k) ==
  /\ policy \in {"lru", "mru"}
  /\ k \in cache
  /\ IF policy = "mru" /\ ~Contains(order, k)
       THEN Raise
       ELSE /\ order' = Moved(k)
            /\ victim' = NoKey /\ raised' = FALSE
            /\ Found(k)
            /\ UNCHANGED <<policy, capacity, cache, heap, node, current, time, dirty>>

\* The LRU cache adds first; where that is one too many the head of the list goes.
LRUPut(k) ==
  LET list == Moved(k)
  IN /\ policy = "lru"
     /\ \/ Cardinality(cache \cup {k}) <= capacity /\ Leave(k, NoKey, list)
        \/ /\ Cardinality(cache \cup {k}) > capacity
           /\ cache' = (cache \cup {k}) \ {Head(list)}
           /\ order' = Tail(list)
           /\ victim' = Head(list) /\ raised' = FALSE
           /\ IF Head(list) = k
                THEN UNCHANGED <<inserted, written, used, uses>>
                ELSE Recorded(k, Head(list))
           /\ UNCHANGED <<policy, capacity, heap, node, current, time, dirty>>

\* The mutant that does not push a key again that it took out.
UpdatedUnpushed(k) == RemoveFirst(order, k)

\* The stack after a put of a key that is there.
Updated(k) == Moved(k)

\* The MRU cache evicts the top of the stack for a key it does not have.
MRUPut(k) ==
  /\ policy = "mru"
  /\ \/ k \in cache /\ Contains(order, k) /\ Leave(k, NoKey, Updated(k))
     \/ k \in cache /\ ~Contains(order, k) /\ Raise
     \/ k \notin cache /\ ~Full /\ Leave(k, NoKey, Append(order, k))
     \/ k \notin cache /\ Full /\ ~TopCached /\ Raise
     \/ k \notin cache /\ Full /\ TopCached /\ Leave(k, Last(order), Append(Front(order), k))

-----------------------------------------------------------------------------
(* LFUCache                                                                *)

\* A node's use: it changes where it is.
Touched(k) == [node EXCEPT ![current[k]].freq = @ + 1, ![current[k]].stamp = time + 1]

\* The mutant of a get that leaves the heap as it is.
NotReordered(nodes) == heap

Reordered(nodes) == Heapify(nodes, heap)

\* A get that finds its key orders the whole heap anew.
LFUGet(k) ==
  /\ policy = "lfu"
  /\ k \in cache
  /\ time < MaxTime
  /\ node' = Touched(k)
  /\ time' = time + 1
  /\ heap' = Reordered(node')
  /\ victim' = NoKey /\ raised' = FALSE /\ dirty' = FALSE
  /\ Found(k)
  /\ UNCHANGED <<policy, capacity, cache, order, current>>

\* A put of a key that is there changes its node and pushes it once more, on a heap
\* that may be out of order by now.
LFUUpdate(k) ==
  /\ k \in cache
  /\ node' = Touched(k)
  /\ heap' = HeapPush(node', heap, current[k])
  /\ victim' = NoKey /\ dirty' = TRUE
  /\ Recorded(k, NoKey)
  /\ UNCHANGED <<cache, current>>

IsCurrent(ref) == node[ref].key \in cache /\ current[node[ref].key] = ref

\* Pop until a node that the dict refers to comes up: what it was, and the rest.
PopLive(h) ==
  LET left[n \in 0 .. Len(h)] ==
        IF n = 0 THEN h
        ELSE IF left[n - 1] = <<>> THEN <<>>
        ELSE IF IsCurrent(left[n - 1][1]) THEN left[n - 1]
        ELSE HeapPop(node, left[n - 1])
      live == left[Len(h)]
  IN IF live = <<>> THEN [key |-> NoKey, heap |-> live]
     ELSE [key |-> node[live[1]].key, heap |-> HeapPop(node, live)]

\* The mutant that leaves the dict as it is.
LinkedNever(k, ref) == current

Linked(k, ref) == [current EXCEPT ![k] = ref]

LFUInsert(k) ==
  LET popped == IF Full THEN PopLive(heap) ELSE [key |-> NoKey, heap |-> heap]
      ref    == Len(node) + 1
  IN /\ k \notin cache
     /\ node' = Append(node, [key |-> k, freq |-> 1, stamp |-> time])
     /\ current' = Linked(k, ref)
     /\ cache' = (cache \ {popped.key}) \cup {k}
     /\ heap' = HeapPush(node', popped.heap, ref)
     /\ victim' = popped.key
     /\ Recorded(k, popped.key)
     /\ UNCHANGED dirty

LFUPut(k) ==
  /\ policy = "lfu"
  /\ capacity > 0
  /\ time < MaxTime /\ Len(heap) < MaxOrder
  /\ LFUUpdate(k) \/ LFUInsert(k)
  /\ time' = time + 1
  /\ raised' = FALSE
  /\ UNCHANGED <<policy, capacity, order>>

-----------------------------------------------------------------------------
Put(k) == FIFOPut(k) \/ LIFOPut(k) \/ LRUPut(k) \/ MRUPut(k) \/ LFUPut(k)
Get(k) == MoveToEnd(k) \/ LFUGet(k)

Next == \E k \in Keys : Put(k) \/ Get(k) \/ FIFODelete(k)

Spec == Init /\ [][Next]_vars

-----------------------------------------------------------------------------
\* However puts, gets and deletes follow each other, a cache holds no more than its
\* capacity, and its order what its dict holds: the queue, the list and the stack of
\* the MRU cache every key once, the stack of the LIFO cache a cached key on top, the
\* heap every node of the dict.
InStep ==
  /\ Cardinality(cache) <= capacity
  /\ policy \in {"fifo", "lru", "mru"} => ToSet(order) = cache /\ Len(order) = Cardinality(cache)
  /\ policy = "lifo" /\ cache # {} => Last(order) \in cache
  /\ policy = "lfu" => \A k \in cache : Contains(heap, current[k]) /\ node[current[k]].key = k

\* The heap is in order except after an update in place.
HeapOrdered == policy = "lfu" /\ ~dirty => IsHeap(node, heap)

\* Nothing raises while there is a capacity.
RaisesOnlyAtZero == raised => capacity = 0

\* j was used after k.
UsedAfter(j, k) == \E m, n \in DOMAIN used : m < n /\ used[m] = k /\ used[n] = j

LeastUsed(k) ==
  \A j \in cache \ {k} : uses[k] < uses[j] \/ (uses[k] = uses[j] /\ UsedAfter(j, k))

\* The key that goes is the one the cache is named for, by a history that knows
\* nothing of queues, stacks, lists and heaps: the first in, the last in, the least
\* recently used, the most recently used, and while no node has changed in place the
\* least frequently used.
RightVictim ==
  [][victim' \in cache =>
       /\ policy = "fifo" => victim' = Head(inserted)
       /\ policy = "lifo" => victim' = Last(written)
       /\ policy = "lru"  => victim' = Head(used)
       /\ policy = "mru"  => victim' = Last(used)
       /\ policy = "lfu" /\ ~dirty => LeastUsed(victim')]_vars

=============================================================================
