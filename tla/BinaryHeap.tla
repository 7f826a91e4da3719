----------------------------- MODULE BinaryHeap -----------------------------
(***************************************************************************)
(* heapq, the binary heap of Python's library, as lfu_cache.py uses it: a  *)
(* sequence of references, compared by the nodes they refer to.  A node    *)
(* that changes in place does not move.                                    *)
(***************************************************************************)
EXTENDS Integers, Sequences

\* LFUNode.__lt__: by frequency, then by the time of the last use.
Less(m, n) == m.freq < n.freq \/ (m.freq = n.freq /\ m.stamp < n.stamp)

Swap(heap, i, j) == [heap EXCEPT ![i] = heap[j], ![j] = heap[i]]

\* A loop over the heap is given by what one round does to the heap and the position
\* it has reached; a round after the last changes nothing.
State(heap, pos) == [heap |-> heap, pos |-> pos]

\* The entry moves up, past a larger parent.
Rise(node, start, at) ==
  LET parent == at.pos \div 2
  IN IF at.pos > start /\ Less(node[at.heap[at.pos]], node[at.heap[parent]])
       THEN State(Swap(at.heap, at.pos, parent), parent)
       ELSE at

\* The entry at pos moves up towards start, past every larger parent.
SiftDown(node, heap, start, pos) ==
  LET at[n \in 0 .. pos] == IF n = 0 THEN State(heap, pos) ELSE Rise(node, start, at[n - 1])
  IN at[pos].heap

\* The entry moves down, past the smaller child.
Sink(node, at) ==
  LET left  == 2 * at.pos
      right == left + 1
      child == IF right <= Len(at.heap) /\ ~Less(node[at.heap[left]], node[at.heap[right]])
                 THEN right ELSE left
  IN IF left > Len(at.heap) THEN at ELSE State(Swap(at.heap, at.pos, child), child)

\* The entry at pos moves down to a leaf, and from there up again.
SiftUp(node, heap, start, pos) ==
  LET at[n \in 0 .. Len(heap)] == IF n = 0 THEN State(heap, pos) ELSE Sink(node, at[n - 1])
      leaf == at[Len(heap)]
  IN SiftDown(node, leaf.heap, start, leaf.pos)

HeapPush(node, heap, ref) == SiftDown(node, Append(heap, ref), 1, Len(heap) + 1)

\* heap[0] is the result; this is what remains.
HeapPop(node, heap) ==
  LET last == heap[Len(heap)]
      rest == SubSeq(heap, 1, Len(heap) - 1)
  IN IF rest = <<>> THEN rest ELSE SiftUp(node, [rest EXCEPT ![1] = last], 1, 1)

\* Every entry that has a child sinks, the last one first.
Heapify(node, heap) ==
  LET half == Len(heap) \div 2
      done[n \in 0 .. half] ==
        IF n = 0 THEN heap ELSE SiftUp(node, done[n - 1], half + 1 - n, half + 1 - n)
  IN done[half]

IsHeap(node, heap) ==
  \A i \in 2 .. Len(heap) : ~Less(node[heap[i]], node[heap[i \div 2]])
=============================================================================
