-------------------------- MODULE LocalCacheProofs --------------------------
(***************************************************************************)
(* The in-process caches hold what they promise for any keys and any       *)
(* capacity: their orders keep step with their dicts, the heap of the LFU  *)
(* cache stays in order until a node changes in place, and the right key   *)
(* is evicted.                                                             *)
(*                                                                         *)
(* The first part is about the heap.  What a loop over it leaves is found  *)
(* by a set of states that no round leaves: the loop ends in one of them   *)
(* where a further round would change nothing.                             *)
(***************************************************************************)
EXTENDS LocalCache, DataTheorems

-----------------------------------------------------------------------------
(* The loops.                                                              *)

\* What holds at 0 and, up to m, with every number of its successor, holds up to m.
LEMMA UpTo ==
  ASSUME NEW m \in Nat, NEW T, 0 \in T, \A n \in 0 .. m - 1 : n \in T => n + 1 \in T
  PROVE  \A n \in 0 .. m : n \in T
<1> DEFINE U == {n \in Nat : n <= m => n \in T}
<1>1. 0 \in U
  OBVIOUS
<1>2. \A n \in U : n + 1 \in U
  OBVIOUS
<1>3. \A n \in Nat : n \in U
  <2> HIDE DEF U
  <2>. QED BY <1>1, <1>2, EveryNatural DEF U
<1>. QED BY <1>3

RiseLoop(at, nodes, start, heap0, p) ==
  at = [n \in 0 .. p |-> IF n = 0 THEN State(heap0, p) ELSE Rise(nodes, start, at[n - 1])]

LEMMA SiftDownLoop ==
  ASSUME NEW nodes, NEW start, NEW h, NEW p
  PROVE  SiftDown(nodes, h, start, p) = (CHOOSE at : RiseLoop(at, nodes, start, h, p))[p].heap
BY DEF SiftDown, RiseLoop

\* SiftDown ends where the entry rises no more.
LEMMA SiftDownEnds ==
  ASSUME NEW nodes, NEW start, NEW h, NEW p \in Nat, NEW P, State(h, p) \in P,
         \A st \in P : /\ st.pos \in Nat
                       /\ Rise(nodes, start, st) \in P
                       /\ Rise(nodes, start, st) = st \/ Rise(nodes, start, st).pos < st.pos
  PROVE  \E st \in P : SiftDown(nodes, h, start, p) = st.heap /\ Rise(nodes, start, st) = st
<1> DEFINE G == [n \in 1 .. p |-> [st \in P |-> Rise(nodes, start, st)]]
<1>1. \A n \in 1 .. p : G[n] \in [P -> P]
  OBVIOUS
<1>2. PICK f : Recurs(f, p, P, State(h, p), G)
  <2> HIDE DEF G
  <2>. QED BY <1>1, RecursionExists
<1>3. \A n \in 1 .. p : f[n] = Rise(nodes, start, f[n - 1])
  <2> SUFFICES ASSUME NEW n \in 1 .. p PROVE f[n] = Rise(nodes, start, f[n - 1])
    OBVIOUS
  <2>1. f[n - 1] \in P
    <3>1. f \in [0 .. p -> P] /\ n - 1 \in 0 .. p
      BY <1>2 DEF Recurs
    <3>. QED BY <3>1
  <2>2. f[n] = G[n][f[n - 1]]
    <3> HIDE DEF G
    <3>. QED BY <1>2 DEF Recurs
  <2>. QED BY <2>1, <2>2
<1>4. \E at : RiseLoop(at, nodes, start, h, p)
  <2>1. f = [n \in 0 .. p |-> f[n]] /\ f[0] = State(h, p)
    BY <1>2 DEF Recurs
  <2>2. \A n \in 0 .. p : f[n] = IF n = 0 THEN State(h, p) ELSE Rise(nodes, start, f[n - 1])
    <3>1. \A n \in 0 .. p : n = 0 \/ n \in 1 .. p
      OBVIOUS
    <3>. QED BY ONLY <1>3, <2>1, <3>1, Zenon
  <2>3. RiseLoop(f, nodes, start, h, p)
    BY ONLY <2>1, <2>2, Zenon DEF RiseLoop
  <2>. QED BY <2>3
<1> DEFINE at == CHOOSE at : RiseLoop(at, nodes, start, h, p)
<1>5. RiseLoop(at, nodes, start, h, p) /\ SiftDown(nodes, h, start, p) = at[p].heap
  BY <1>4, SiftDownLoop
<1> HIDE DEF at
<1>6. \A n \in 0 .. p : at[n] = IF n = 0 THEN State(h, p) ELSE Rise(nodes, start, at[n - 1])
  BY <1>5, Zenon DEF RiseLoop
<1>7. at[0] = State(h, p)
  <2>1. 0 \in 0 .. p
    OBVIOUS
  <2>. QED BY <1>6, <2>1, Zenon
<1> DEFINE T == {n \in 0 .. p : /\ at[n] \in P
                                /\ Rise(nodes, start, at[n]) = at[n] \/ at[n].pos <= p - n}
<1>8. 0 \in T
  BY <1>7 DEF State
<1>9. ASSUME NEW n \in 0 .. p - 1, n \in T PROVE n + 1 \in T
  <2>1. n + 1 \in 0 .. p /\ n + 1 # 0 /\ (n + 1) - 1 = n
    OBVIOUS
  <2>2. at[n + 1] = Rise(nodes, start, at[n])
    BY <1>6, <2>1, Zenon
  <2>3. at[n] \in P /\ (Rise(nodes, start, at[n]) = at[n] \/ at[n].pos <= p - n)
    BY <1>9
  <2>4. CASE Rise(nodes, start, at[n]) = at[n]
    BY <2>1, <2>2, <2>3, <2>4
  <2>5. CASE Rise(nodes, start, at[n]).pos < at[n].pos /\ at[n].pos <= p - n
    <3>1. at[n + 1] \in P /\ at[n + 1].pos \in Nat /\ at[n].pos \in Nat
      BY <2>2, <2>3
    <3>2. at[n + 1].pos <= p - (n + 1)
      BY <2>2, <2>5, <3>1
    <3>. QED BY <2>1, <3>1, <3>2
  <2>. QED BY <2>3, <2>4, <2>5
<1>10. p \in T
  <2> HIDE DEF T
  <2>1. \A n \in 0 .. p : n \in T
    BY ONLY p \in Nat, <1>8, <1>9, UpTo
  <2>. QED BY <2>1
<1>11. Rise(nodes, start, at[p]) = at[p] /\ at[p] \in P
  BY <1>10
<1>. QED BY <1>5, <1>11

SinkLoop(at, nodes, heap0, p) ==
  at = [n \in 0 .. Len(heap0) |-> IF n = 0 THEN State(heap0, p) ELSE Sink(nodes, at[n - 1])]

LEMMA SiftUpLoop ==
  ASSUME NEW nodes, NEW start, NEW h, NEW p
  PROVE  LET leaf == (CHOOSE at : SinkLoop(at, nodes, h, p))[Len(h)]
         IN SiftUp(nodes, h, start, p) = SiftDown(nodes, leaf.heap, start, leaf.pos)
BY DEF SiftUp, SinkLoop

\* SiftUp goes on as SiftDown where the entry sinks no more.
LEMMA SiftUpEnds ==
  ASSUME NEW nodes, NEW start, NEW h, Len(h) \in Nat, NEW p \in Nat, p > 0,
         NEW P, State(h, p) \in P,
         \A st \in P : /\ st.pos \in 0 .. Len(h)
                       /\ Sink(nodes, st) \in P
                       /\ Sink(nodes, st) = st \/ Sink(nodes, st).pos > st.pos
  PROVE  \E st \in P : /\ SiftUp(nodes, h, start, p) = SiftDown(nodes, st.heap, start, st.pos)
                       /\ Sink(nodes, st) = st
<1> DEFINE m == Len(h)
           G == [n \in 1 .. m |-> [st \in P |-> Sink(nodes, st)]]
<1>1. \A n \in 1 .. m : G[n] \in [P -> P]
  OBVIOUS
<1>2. PICK f : Recurs(f, m, P, State(h, p), G)
  <2> HIDE DEF G
  <2>. QED BY <1>1, RecursionExists
<1>3. \A n \in 1 .. m : f[n] = Sink(nodes, f[n - 1])
  <2> SUFFICES ASSUME NEW n \in 1 .. m PROVE f[n] = Sink(nodes, f[n - 1])
    OBVIOUS
  <2>1. f[n - 1] \in P
    <3>1. f \in [0 .. m -> P] /\ n - 1 \in 0 .. m
      BY <1>2 DEF Recurs
    <3>. QED BY <3>1
  <2>2. f[n] = G[n][f[n - 1]]
    <3> HIDE DEF G
    <3>. QED BY <1>2 DEF Recurs
  <2>. QED BY <2>1, <2>2
<1>4. \E at : SinkLoop(at, nodes, h, p)
  <2>1. f = [n \in 0 .. m |-> f[n]] /\ f[0] = State(h, p)
    BY <1>2 DEF Recurs
  <2>2. \A n \in 0 .. m : f[n] = IF n = 0 THEN State(h, p) ELSE Sink(nodes, f[n - 1])
    <3>1. \A n \in 0 .. m : n = 0 \/ n \in 1 .. m
      OBVIOUS
    <3>. QED BY ONLY <1>3, <2>1, <3>1, Zenon
  <2>3. SinkLoop(f, nodes, h, p)
    BY ONLY <2>1, <2>2, Zenon DEF SinkLoop
  <2>. QED BY <2>3
<1> DEFINE at == CHOOSE at : SinkLoop(at, nodes, h, p)
<1>5. /\ SinkLoop(at, nodes, h, p)
      /\ SiftUp(nodes, h, start, p) = SiftDown(nodes, at[m].heap, start, at[m].pos)
  BY <1>4, SiftUpLoop
<1> HIDE DEF at
<1>6. \A n \in 0 .. m : at[n] = IF n = 0 THEN State(h, p) ELSE Sink(nodes, at[n - 1])
  BY <1>5, Zenon DEF SinkLoop
<1>7. at[0] = State(h, p)
  <2>1. 0 \in 0 .. m
    OBVIOUS
  <2>. QED BY <1>6, <2>1, Zenon
<1> DEFINE T == {n \in 0 .. m : /\ at[n] \in P
                                /\ Sink(nodes, at[n]) = at[n] \/ at[n].pos > n}
<1>8. 0 \in T
  BY <1>7 DEF State
<1>9. ASSUME NEW n \in 0 .. m - 1, n \in T PROVE n + 1 \in T
  <2>1. n + 1 \in 0 .. m /\ n + 1 # 0 /\ (n + 1) - 1 = n
    OBVIOUS
  <2>2. at[n + 1] = Sink(nodes, at[n])
    BY <1>6, <2>1, Zenon
  <2>3. at[n] \in P /\ (Sink(nodes, at[n]) = at[n] \/ at[n].pos > n)
    BY <1>9
  <2>4. CASE Sink(nodes, at[n]) = at[n]
    BY <2>1, <2>2, <2>3, <2>4
  <2>5. CASE Sink(nodes, at[n]).pos > at[n].pos /\ at[n].pos > n
    <3>1. at[n + 1] \in P /\ at[n + 1].pos \in Nat /\ at[n].pos \in Nat
      BY <2>2, <2>3
    <3>2. at[n + 1].pos > n + 1
      BY <2>2, <2>5, <3>1
    <3>. QED BY <2>1, <3>1, <3>2
  <2>. QED BY <2>3, <2>4, <2>5
<1>10. m \in T
  <2> HIDE DEF T
  <2>1. \A n \in 0 .. m : n \in T
    BY ONLY Len(h) \in Nat, <1>8, <1>9, UpTo
  <2>. QED BY <2>1
<1>11. Sink(nodes, at[m]) = at[m] /\ at[m] \in P
  BY <1>10
<1>. QED BY <1>5, <1>11

-----------------------------------------------------------------------------
(* What the heap holds.                                                    *)

\* The heaps of n entries that hold the references of S, and no others.
Heaps(n, S) == Surjection(1 .. n, S)
States(n, S) == [heap : Heaps(n, S), pos : 1 .. n]

LEMMA HeapIs ==
  ASSUME NEW n \in Nat, NEW S, NEW h \in Heaps(n, S)
  PROVE  /\ h \in Seq(S) /\ Len(h) = n /\ DOMAIN h = 1 .. n
         /\ \A i \in 1 .. n : h[i] \in S
         /\ \A r \in S : \E i \in 1 .. n : h[i] = r
         /\ ToSet(h) = S
<1>1. h \in [1 .. n -> S] /\ \A r \in S : \E i \in 1 .. n : h[i] = r
  BY DEF Heaps, Surjection
<1>2. h \in Seq(S) /\ Len(h) = n
  BY <1>1
<1>. QED BY <1>1, <1>2 DEF ToSet

LEMMA IsAHeap ==
  ASSUME NEW R, NEW h \in Seq(R)
  PROVE  h \in Heaps(Len(h), ToSet(h)) /\ ToSet(h) \subseteq R /\ Len(h) \in Nat
BY DEF Heaps, Surjection, ToSet

LEMMA SwapIs ==
  ASSUME NEW n \in Nat, NEW S, NEW h \in Heaps(n, S), NEW i \in 1 .. n, NEW j \in 1 .. n
  PROVE  /\ Swap(h, i, j) \in Heaps(n, S)
         /\ Swap(h, i, j)[i] = h[j] /\ Swap(h, i, j)[j] = h[i]
         /\ \A m \in (1 .. n) \ {i, j} : Swap(h, i, j)[m] = h[m]
<1>1. h \in [1 .. n -> S]
  BY DEF Heaps, Surjection
<1>2. /\ Swap(h, i, j) \in [1 .. n -> S]
      /\ Swap(h, i, j)[i] = h[j] /\ Swap(h, i, j)[j] = h[i]
      /\ \A m \in (1 .. n) \ {i, j} : Swap(h, i, j)[m] = h[m]
  BY <1>1 DEF Swap
<1>3. ASSUME NEW r \in S PROVE \E m \in 1 .. n : Swap(h, i, j)[m] = r
  <2>1. PICK m \in 1 .. n : h[m] = r
    BY HeapIs
  <2>2. m = i \/ m = j \/ m \in (1 .. n) \ {i, j}
    OBVIOUS
  <2>. QED BY <1>2, <2>1, <2>2
<1>. QED BY <1>2, <1>3 DEF Heaps, Surjection

LEMMA Halves ==
  ASSUME NEW i \in Nat
  PROVE  /\ i \div 2 \in Nat /\ i \div 2 <= i /\ (i > 0 => i \div 2 < i)
         /\ i > 1 => i \div 2 > 0
         /\ i = 2 * (i \div 2) \/ i = 2 * (i \div 2) + 1
         /\ (2 * i) \div 2 = i /\ (2 * i + 1) \div 2 = i
OBVIOUS

\* A round of the way up.
LEMMA RiseIs ==
  ASSUME NEW n \in Nat, NEW S, NEW nodes, NEW start \in Nat, start > 0,
         NEW st \in States(n, S)
  PROVE  /\ st.heap \in Heaps(n, S) /\ st.pos \in 1 .. n
         /\ Rise(nodes, start, st) \in States(n, S)
         /\ \/ Rise(nodes, start, st) = st
            \/ /\ Rise(nodes, start, st).pos < st.pos
               /\ st.pos > start
               /\ st.pos \div 2 \in 1 .. n
               /\ Less(nodes[st.heap[st.pos]], nodes[st.heap[st.pos \div 2]])
               /\ Rise(nodes, start, st) =
                    State(Swap(st.heap, st.pos, st.pos \div 2), st.pos \div 2)
         /\ Rise(nodes, start, st) = st =>
              \/ st.pos <= start
              \/ ~Less(nodes[st.heap[st.pos]], nodes[st.heap[st.pos \div 2]])
<1> DEFINE p == st.pos
           h == st.heap
<1>1. h \in Heaps(n, S) /\ p \in 1 .. n
  BY DEF States
<1>2. CASE p > start /\ Less(nodes[h[p]], nodes[h[p \div 2]])
  <2>1. p \div 2 \in 1 .. n /\ p \div 2 < p
    BY <1>1, <1>2, Halves
  <2>2. Swap(h, p, p \div 2) \in Heaps(n, S)
    <3> HIDE DEF p, h
    <3>. QED BY <1>1, <2>1, SwapIs
  <2>3. Rise(nodes, start, st) = State(Swap(h, p, p \div 2), p \div 2)
    BY <1>2 DEF Rise
  <2>4. Rise(nodes, start, st).pos = p \div 2 /\ Rise(nodes, start, st) # st
    BY <2>1, <2>3 DEF State
  <2>5. Rise(nodes, start, st) \in States(n, S)
    BY <2>1, <2>2, <2>3 DEF State, States
  <2>. QED BY <1>1, <1>2, <2>1, <2>3, <2>4, <2>5
<1>3. CASE ~(p > start /\ Less(nodes[h[p]], nodes[h[p \div 2]]))
  <2>1. Rise(nodes, start, st) = st
    BY <1>3 DEF Rise
  <2>2. p <= start \/ ~Less(nodes[h[p]], nodes[h[p \div 2]])
    BY <1>1, <1>3
  <2>. QED BY <1>1, <2>1, <2>2
<1>. QED BY <1>2, <1>3

\* A round of the way down, past the child c.
LEMMA SinkIs ==
  ASSUME NEW n \in Nat, NEW S, NEW nodes, NEW st \in States(n, S)
  PROVE  /\ st.heap \in Heaps(n, S) /\ st.pos \in 1 .. n
         /\ Sink(nodes, st) \in States(n, S)
         /\ \/ Sink(nodes, st) = st /\ 2 * st.pos > n
            \/ \E c \in 1 .. n :
                 /\ c = 2 * st.pos \/ c = 2 * st.pos + 1
                 /\ c = 2 * st.pos + 1 =>
                      ~Less(nodes[st.heap[2 * st.pos]], nodes[st.heap[c]])
                 /\ c = 2 * st.pos /\ c + 1 <= n =>
                      Less(nodes[st.heap[c]], nodes[st.heap[c + 1]])
                 /\ Sink(nodes, st) = State(Swap(st.heap, st.pos, c), c)
                 /\ Sink(nodes, st) # st
                 /\ Sink(nodes, st).pos > st.pos
<1> DEFINE p == st.pos
           h == st.heap
           lower == 2 * p + 1 <= n /\ ~Less(nodes[h[2 * p]], nodes[h[2 * p + 1]])
           c == IF lower THEN 2 * p + 1 ELSE 2 * p
<1>1. h \in Heaps(n, S) /\ p \in 1 .. n /\ Len(h) = n
  BY HeapIs DEF States
<1>2. CASE 2 * p > n
  <2>1. Sink(nodes, st) = st
    BY <1>1, <1>2 DEF Sink
  <2>. QED BY <1>1, <1>2, <2>1
<1>3. CASE ~(2 * p > n)
  <2>1. Sink(nodes, st) = State(Swap(h, p, c), c)
    BY <1>1, <1>3 DEF Sink
  <2>2. c \in 1 .. n /\ c > p /\ (c = 2 * p \/ c = 2 * p + 1)
    BY <1>1, <1>3
  <2>3. c = 2 * p + 1 => ~Less(nodes[h[2 * p]], nodes[h[c]])
    BY <1>1
  <2>4. c = 2 * p /\ c + 1 <= n => Less(nodes[h[c]], nodes[h[c + 1]])
    BY <1>1
  <2> HIDE DEF c
  <2>5. Swap(h, p, c) \in Heaps(n, S)
    <3> HIDE DEF p, h
    <3>. QED BY <1>1, <2>2, SwapIs
  <2>6. Sink(nodes, st).pos = c /\ Sink(nodes, st) # st
    BY <2>1, <2>2 DEF State
  <2>7. Sink(nodes, st) \in States(n, S)
    BY <2>1, <2>2, <2>5 DEF State, States
  <2>. QED BY <1>1, <2>1, <2>2, <2>3, <2>4, <2>6, <2>7
<1>. QED BY <1>2, <1>3

\* Moving an entry up or down keeps the references, how many there are and which.
LEMMA SiftDownKeeps ==
  ASSUME NEW n \in Nat, NEW S, NEW nodes, NEW start \in Nat, start > 0,
         NEW h \in Heaps(n, S), NEW p \in 1 .. n
  PROVE  SiftDown(nodes, h, start, p) \in Heaps(n, S)
<1> DEFINE P == States(n, S)
<1>1. State(h, p) \in P
  BY DEF State, States
<1>2. \A st \in P : /\ st.pos \in Nat
                    /\ Rise(nodes, start, st) \in P
                    /\ Rise(nodes, start, st) = st \/ Rise(nodes, start, st).pos < st.pos
                    /\ st.heap \in Heaps(n, S)
  <2> SUFFICES ASSUME NEW st \in States(n, S)
               PROVE  /\ st.pos \in Nat
                      /\ Rise(nodes, start, st) \in P
                      /\ Rise(nodes, start, st) = st \/ Rise(nodes, start, st).pos < st.pos
                      /\ st.heap \in Heaps(n, S)
    OBVIOUS
  <2>1. /\ st.heap \in Heaps(n, S) /\ st.pos \in 1 .. n /\ Rise(nodes, start, st) \in P
        /\ Rise(nodes, start, st) = st \/ Rise(nodes, start, st).pos < st.pos
    BY RiseIs
  <2>. QED BY <2>1
<1> HIDE DEF P
<1>3. p \in Nat
  OBVIOUS
<1>4. PICK st \in P : SiftDown(nodes, h, start, p) = st.heap
  BY ONLY <1>1, <1>2, <1>3, SiftDownEnds
<1>. QED BY <1>2, <1>4

LEMMA SiftUpKeeps ==
  ASSUME NEW n \in Nat, NEW S, NEW nodes, NEW start \in Nat, start > 0,
         NEW h \in Heaps(n, S), NEW p \in 1 .. n
  PROVE  SiftUp(nodes, h, start, p) \in Heaps(n, S)
<1> DEFINE P == States(n, S)
<1>1. State(h, p) \in P
  BY DEF State, States
<1>2. Len(h) = n
  BY HeapIs
<1>3. \A st \in P : /\ st.pos \in 1 .. n /\ st.pos \in 0 .. Len(h)
                    /\ Sink(nodes, st) \in P
                    /\ Sink(nodes, st) = st \/ Sink(nodes, st).pos > st.pos
                    /\ st.heap \in Heaps(n, S)
  <2> SUFFICES ASSUME NEW st \in States(n, S)
               PROVE  /\ st.pos \in 1 .. n /\ st.pos \in 0 .. Len(h)
                      /\ Sink(nodes, st) \in P
                      /\ Sink(nodes, st) = st \/ Sink(nodes, st).pos > st.pos
                      /\ st.heap \in Heaps(n, S)
    OBVIOUS
  <2>1. /\ st.heap \in Heaps(n, S) /\ st.pos \in 1 .. n /\ Sink(nodes, st) \in P
        /\ Sink(nodes, st) = st \/ Sink(nodes, st).pos > st.pos
    BY SinkIs
  <2>. QED BY <1>2, <2>1
<1> HIDE DEF P
<1>4. p \in Nat /\ p > 0 /\ Len(h) \in Nat
  BY <1>2
<1>5. PICK st \in P : SiftUp(nodes, h, start, p) = SiftDown(nodes, st.heap, start, st.pos)
  BY ONLY <1>1, <1>3, <1>4, SiftUpEnds
<1>. QED BY <1>3, <1>5, SiftDownKeeps

\* A push adds its reference.
LEMMA HeapPushKeeps ==
  ASSUME NEW R, NEW h \in Seq(R), NEW nodes, NEW ref \in R
  PROVE  /\ HeapPush(nodes, h, ref) \in Seq(R)
         /\ Len(HeapPush(nodes, h, ref)) = Len(h) + 1
         /\ ToSet(HeapPush(nodes, h, ref)) = ToSet(h) \cup {ref}
<1> DEFINE g == Append(h, ref)
           n == Len(h) + 1
           S == ToSet(h) \cup {ref}
<1>1. g \in Seq(R) /\ Len(g) = n /\ n \in Nat /\ n \in 1 .. n
      /\ g[n] = ref /\ \A i \in 1 .. Len(h) : g[i] = h[i]
  OBVIOUS
<1>2. ToSet(g) = S
  BY <1>1 DEF ToSet
<1>3. g \in Heaps(n, S) /\ S \subseteq R
  BY <1>1, <1>2, IsAHeap
<1>4. HeapPush(nodes, h, ref) = SiftDown(nodes, g, 1, n)
  BY DEF HeapPush
<1> HIDE DEF g, n, S
<1>5. HeapPush(nodes, h, ref) \in Heaps(n, S)
  BY <1>1, <1>3, <1>4, SiftDownKeeps
<1>6. /\ HeapPush(nodes, h, ref) \in Seq(S) /\ Len(HeapPush(nodes, h, ref)) = n
      /\ ToSet(HeapPush(nodes, h, ref)) = S
  BY <1>1, <1>5, HeapIs
<1>. QED BY <1>3, <1>6 DEF n, S

\* What a pop sifts: the heap without its first entry, the last one in its place.
Topped(h) == [SubSeq(h, 1, Len(h) - 1) EXCEPT ![1] = h[Len(h)]]

LEMMA ToppedIs ==
  ASSUME NEW R, NEW h \in Seq(R), h # <<>>
  PROVE  /\ Len(h) = 1 => \A nodes : HeapPop(nodes, h) = <<>>
         /\ Len(h) > 1 =>
              /\ Topped(h) \in Seq(R) /\ Len(Topped(h)) = Len(h) - 1
              /\ Topped(h)[1] = h[Len(h)]
              /\ \A i \in 2 .. Len(h) - 1 : Topped(h)[i] = h[i]
              /\ \A nodes : HeapPop(nodes, h) = SiftUp(nodes, Topped(h), 1, 1)
<1> DEFINE n == Len(h) - 1
           rest == SubSeq(h, 1, n)
<1>1. /\ n \in Nat /\ 1 \in Int /\ n \in Int /\ n - 1 + 1 = n
      /\ \A i \in 1 .. n : h[i] \in R /\ 1 + i - 1 = i
  OBVIOUS
<1>2. /\ rest \in Seq(R) /\ Len(rest) = IF 1 <= n THEN n - 1 + 1 ELSE 0
      /\ \A i \in 1 .. n - 1 + 1 : rest[i] = h[1 + i - 1]
  <2> HIDE DEF n
  <2>. QED BY <1>1, SubSeqProperties
<1>3. rest \in Seq(R) /\ Len(rest) = n /\ \A i \in 1 .. n : rest[i] = h[i]
  <2> HIDE DEF n, rest
  <2>. QED BY <1>1, <1>2
<1>4. Len(h) \in Nat /\ n = Len(h) - 1 /\ (n = 0 \/ n > 0)
  BY <1>1
<1>5. CASE n = 0
  <2>1. rest = <<>>
    <3> HIDE DEF rest, n
    <3>. QED BY <1>3, <1>5
  <2>2. \A nodes : HeapPop(nodes, h) = <<>>
    BY <2>1 DEF HeapPop
  <2> HIDE DEF n
  <2>3. Len(h) = 1
    BY ONLY <1>4, <1>5
  <2>4. ~(Len(h) > 1)
    BY ONLY <2>3
  <2>. QED BY <2>2, <2>4
<1>6. CASE n > 0
  <2>1. rest # <<>> /\ 1 \in 1 .. n /\ h[Len(h)] \in R /\ Len(h) # 1
    <3> HIDE DEF rest, n
    <3>1. Len(h) \in 1 .. Len(h) /\ Len(rest) # 0 /\ Len(h) # 1 /\ 1 \in 1 .. n
      BY <1>3, <1>4, <1>6
    <3>. QED BY <3>1
  <2>2. Topped(h) = [rest EXCEPT ![1] = h[Len(h)]]
    BY DEF Topped
  <2>3. \A nodes : HeapPop(nodes, h) = SiftUp(nodes, Topped(h), 1, 1)
    BY <2>1, <2>2 DEF HeapPop
  <2> HIDE DEF rest, n
  <2>4. /\ Topped(h) \in Seq(R) /\ Len(Topped(h)) = n /\ Topped(h)[1] = h[Len(h)]
        /\ \A i \in 2 .. n : Topped(h)[i] = rest[i]
    BY <1>3, <2>1, <2>2
  <2>5. \A i \in 2 .. n : i \in 1 .. n
    BY <1>1
  <2>6. \A i \in 2 .. n : Topped(h)[i] = h[i]
    BY <1>3, <2>4, <2>5
  <2>. QED BY ONLY <1>4, <2>1, <2>3, <2>4, <2>6
<1>. QED BY <1>4, <1>5, <1>6

\* A pop takes the first entry and no other.
LEMMA HeapPopKeeps ==
  ASSUME NEW R, NEW h \in Seq(R), h # <<>>, NEW nodes
  PROVE  /\ HeapPop(nodes, h) \in Seq(R)
         /\ Len(HeapPop(nodes, h)) = Len(h) - 1
         /\ \A r \in ToSet(h) : r # h[1] => r \in ToSet(HeapPop(nodes, h))
<1>1. Len(h) \in Nat /\ Len(h) > 0 /\ DOMAIN h = 1 .. Len(h)
  OBVIOUS
<1>2. CASE Len(h) = 1
  <2>1. HeapPop(nodes, h) = <<>>
    BY <1>2, ToppedIs
  <2>2. \A r \in ToSet(h) : r = h[1]
    BY <1>1, <1>2 DEF ToSet
  <2>. QED BY <1>2, <2>1, <2>2
<1>3. CASE Len(h) > 1
  <2> DEFINE g == Topped(h)
             n == Len(h) - 1
  <2>1. /\ g \in Seq(R) /\ Len(g) = n /\ g[1] = h[Len(h)]
        /\ \A i \in 2 .. n : g[i] = h[i]
        /\ HeapPop(nodes, h) = SiftUp(nodes, g, 1, 1)
    BY <1>3, ToppedIs
  <2>2. n \in Nat /\ 1 \in 1 .. n
    BY <1>1, <1>3
  <2> HIDE DEF g
  <2>3. g \in Heaps(n, ToSet(g)) /\ ToSet(g) \subseteq R
    BY <2>1, IsAHeap
  <2>4. HeapPop(nodes, h) \in Heaps(n, ToSet(g))
    BY <2>1, <2>2, <2>3, SiftUpKeeps
  <2>5. /\ HeapPop(nodes, h) \in Seq(ToSet(g)) /\ Len(HeapPop(nodes, h)) = n
        /\ ToSet(HeapPop(nodes, h)) = ToSet(g)
    BY <2>2, <2>4, HeapIs
  <2>6. ASSUME NEW r \in ToSet(h), r # h[1] PROVE r \in ToSet(g)
    <3>1. PICK i \in 1 .. Len(h) : r = h[i]
      BY <1>1 DEF ToSet
    <3>0. i # 1
      BY <2>6, <3>1
    <3>2. i = Len(h) \/ i \in 2 .. n
      <4>1. \A m \in Nat : \A j \in 1 .. m : j = 1 \/ j = m \/ j \in 2 .. m - 1
        OBVIOUS
      <4>. QED BY ONLY <1>1, <3>0, <4>1, i \in 1 .. Len(h), Zenon
    <3>3. \E j \in 1 .. n : g[j] = r
      BY <2>1, <2>2, <3>1, <3>2
    <3>. QED BY <2>1, <3>3 DEF ToSet
  <2>. QED BY <2>3, <2>5, <2>6
<1>4. Len(h) = 1 \/ Len(h) > 1
  BY <1>1
<1>. QED BY ONLY <1>2, <1>3, <1>4

HeapifyLoop(done, nodes, h) ==
  done = [n \in 0 .. Len(h) \div 2 |->
            IF n = 0 THEN h
            ELSE SiftUp(nodes, done[n - 1], Len(h) \div 2 + 1 - n, Len(h) \div 2 + 1 - n)]

LEMMA HeapifyIs ==
  ASSUME NEW nodes, NEW h
  PROVE  Heapify(nodes, h) = (CHOOSE done : HeapifyLoop(done, nodes, h))[Len(h) \div 2]
BY DEF Heapify, HeapifyLoop

\* What sifting the n-th entry from the last parent on brings about, Heapify does for
\* them all.
LEMMA HeapifyEnds ==
  ASSUME NEW nodes, NEW h, NEW half \in Nat, half = Len(h) \div 2, NEW V, h \in V,
         \A g \in V : \A s \in 1 .. half : SiftUp(nodes, g, s, s) \in V,
         NEW Q, h \in Q[0],
         \A n \in 1 .. half : \A g \in V \cap Q[n - 1] :
           SiftUp(nodes, g, half + 1 - n, half + 1 - n) \in Q[n]
  PROVE  Heapify(nodes, h) \in V \cap Q[half]
<1> DEFINE Pass(n, g) == SiftUp(nodes, g, half + 1 - n, half + 1 - n)
           G == [n \in 1 .. half |-> [g \in V |-> Pass(n, g)]]
<1>0. \A n \in 1 .. half : half + 1 - n \in 1 .. half
  OBVIOUS
<1>1. \A n \in 1 .. half : G[n] \in [V -> V]
  BY <1>0
<1>2. PICK f : Recurs(f, half, V, h, G)
  <2> HIDE DEF G
  <2>. QED BY <1>1, RecursionExists
<1>3. \A n \in 1 .. half : f[n] = Pass(n, f[n - 1])
  <2> SUFFICES ASSUME NEW n \in 1 .. half PROVE f[n] = Pass(n, f[n - 1])
    OBVIOUS
  <2>1. f[n - 1] \in V
    <3>1. f \in [0 .. half -> V] /\ n - 1 \in 0 .. half
      BY <1>2 DEF Recurs
    <3>. QED BY <3>1
  <2>2. f[n] = G[n][f[n - 1]]
    <3> HIDE DEF G
    <3>. QED BY <1>2 DEF Recurs
  <2> HIDE DEF Pass
  <2>. QED BY <2>1, <2>2
<1>4. \E done : HeapifyLoop(done, nodes, h)
  <2>1. f = [n \in 0 .. half |-> f[n]] /\ f[0] = h
    BY <1>2 DEF Recurs
  <2>2. \A n \in 0 .. half : f[n] = IF n = 0 THEN h ELSE Pass(n, f[n - 1])
    <3> HIDE DEF Pass
    <3>1. \A n \in 0 .. half : n = 0 \/ n \in 1 .. half
      OBVIOUS
    <3>. QED BY ONLY <1>3, <2>1, <3>1, Zenon
  <2>3. HeapifyLoop(f, nodes, h)
    BY ONLY half = Len(h) \div 2, <2>1, <2>2, Zenon DEF HeapifyLoop
  <2>. QED BY <2>3
<1> DEFINE done == CHOOSE done : HeapifyLoop(done, nodes, h)
<1>5. HeapifyLoop(done, nodes, h) /\ Heapify(nodes, h) = done[half]
  BY <1>4, HeapifyIs
<1> HIDE DEF done
<1>6. \A n \in 0 .. half : done[n] = IF n = 0 THEN h ELSE Pass(n, done[n - 1])
  BY ONLY <1>5, half = Len(h) \div 2, Zenon DEF HeapifyLoop
<1>7. done[0] = h
  <2>1. 0 \in 0 .. half
    OBVIOUS
  <2>. QED BY <1>6, <2>1, Zenon
<1> DEFINE T == {n \in 0 .. half : done[n] \in V \cap Q[n]}
<1>8. 0 \in T
  BY <1>7
<1>9. ASSUME NEW n \in 0 .. half - 1, n \in T PROVE n + 1 \in T
  <2>1. n + 1 \in 0 .. half /\ n + 1 \in 1 .. half /\ n + 1 # 0 /\ (n + 1) - 1 = n
    OBVIOUS
  <2>2. done[n + 1] = Pass(n + 1, done[n])
    <3> HIDE DEF Pass
    <3>. QED BY <1>6, <2>1, Zenon
  <2>3. done[n] \in V \cap Q[n]
    BY <1>9
  <2>4. Pass(n + 1, done[n]) \in V
    <3>1. half + 1 - (n + 1) \in 1 .. half
      BY <1>0, <2>1
    <3>. QED BY <2>3, <3>1
  <2>5. Pass(n + 1, done[n]) \in Q[n + 1]
    <3>1. done[n] \in V \cap Q[(n + 1) - 1]
      BY <2>1, <2>3
    <3>. QED BY <2>1, <3>1
  <2> HIDE DEF Pass
  <2>. QED BY <2>1, <2>2, <2>4, <2>5
<1>10. half \in T
  <2> HIDE DEF T
  <2>1. \A n \in 0 .. half : n \in T
    BY ONLY half \in Nat, <1>8, <1>9, UpTo
  <2>. QED BY <2>1
<1>. QED BY <1>5, <1>10

-----------------------------------------------------------------------------
(* The order of the heap.                                                  *)

\* The nodes of S can be compared.
Ranked(nodes, S) == \A r \in S : nodes[r].freq \in Int /\ nodes[r].stamp \in Int

\* The entry at j is no smaller than that at i.
Below(nodes, h, i, j) == ~Less(nodes[h[j]], nodes[h[i]])

LEMMA BelowOrders ==
  ASSUME NEW n \in Nat, NEW S, NEW h \in Heaps(n, S), NEW nodes, Ranked(nodes, S)
  PROVE  /\ \A i, j, m \in 1 .. n :
              Below(nodes, h, i, j) /\ Below(nodes, h, j, m) => Below(nodes, h, i, m)
         /\ \A i, j \in 1 .. n : Less(nodes[h[i]], nodes[h[j]]) => Below(nodes, h, i, j)
         /\ \A i \in 1 .. n : Below(nodes, h, i, i)
<1>1. \A i \in 1 .. n : nodes[h[i]].freq \in Int /\ nodes[h[i]].stamp \in Int
  BY HeapIs DEF Ranked
<1>. QED BY <1>1 DEF Below, Less

\* Every entry is no smaller than its parent, where that is at s or after it.
Ordered(nodes, h, n, s) == \A i \in 2 .. n : i \div 2 >= s => Below(nodes, h, i \div 2, i)

LEMMA OrderedIsHeap ==
  ASSUME NEW n \in Nat, NEW S, NEW h \in Heaps(n, S), NEW nodes
  PROVE  IsHeap(nodes, h) <=> Ordered(nodes, h, n, 1)
<1>1. Len(h) = n
  BY HeapIs
<1>2. \A i \in 2 .. n : i \div 2 >= 1
  BY Halves
<1>. QED BY <1>1, <1>2 DEF IsHeap, Ordered, Below

\* The places under s, s among them.
Heirs(s) ==
  {i \in Nat : \A T \in SUBSET Nat : s \in T /\ (\A j \in T : 2 * j \in T /\ 2 * j + 1 \in T)
                                       => i \in T}

LEMMA HeirsAre ==
  ASSUME NEW s \in Nat, s > 0
  PROVE  /\ s \in Heirs(s)
         /\ \A i \in Heirs(s) : /\ i \in Nat /\ i >= s
                                /\ 2 * i \in Heirs(s) /\ 2 * i + 1 \in Heirs(s)
                                /\ i # s => i \div 2 \in Heirs(s)
<1>1. s \in Heirs(s)
  BY DEF Heirs
<1>2. ASSUME NEW i \in Heirs(s) PROVE 2 * i \in Heirs(s) /\ 2 * i + 1 \in Heirs(s)
  BY DEF Heirs
<1>3. ASSUME NEW i \in Heirs(s) PROVE i \in Nat /\ i >= s
  <2> DEFINE T == {j \in Nat : j >= s}
  <2>1. T \in SUBSET Nat /\ s \in T /\ \A j \in T : 2 * j \in T /\ 2 * j + 1 \in T
    OBVIOUS
  <2>2. i \in T
    <3> HIDE DEF T
    <3>. QED BY <2>1 DEF Heirs
  <2>. QED BY <2>2
<1>4. ASSUME NEW i \in Heirs(s), i # s PROVE i \div 2 \in Heirs(s)
  <2> DEFINE T == {s} \cup {j \in Heirs(s) : j \div 2 \in Heirs(s)}
  <2>1. T \in SUBSET Nat /\ s \in T /\ \A j \in T : j \in Heirs(s)
    BY <1>1, <1>3
  <2>2. ASSUME NEW j \in T PROVE 2 * j \in T /\ 2 * j + 1 \in T
    <3>1. j \in Heirs(s) /\ j \in Nat
      BY <1>3, <2>1
    <3>2. 2 * j \in Heirs(s) /\ 2 * j + 1 \in Heirs(s)
      BY <1>2, <3>1
    <3>3. (2 * j) \div 2 = j /\ (2 * j + 1) \div 2 = j
      BY <3>1
    <3>. QED BY <3>1, <3>2, <3>3
  <2>3. i \in T
    <3> HIDE DEF T
    <3>. QED BY <2>1, <2>2 DEF Heirs
  <2>. QED BY <1>4, <2>3
<1>. QED BY <1>1, <1>2, <1>3, <1>4

\* Every place is under the first.
LEMMA HeirsOfOne ==
  ASSUME NEW n \in Nat, n > 0
  PROVE  n \in Heirs(1)
<1> DEFINE T == {i \in Nat : i > 0 /\ i \notin Heirs(1)}
<1>1. CASE T # {}
  <2>1. T \subseteq Nat
    OBVIOUS
  <2>2. PICK m \in T : \A i \in T : m <= i
    <3> HIDE DEF T
    <3>. QED BY <1>1, <2>1, Smallest
  <2>3. m \in Nat /\ m > 0 /\ m \notin Heirs(1) /\ 1 \in Nat /\ 1 > 0
    OBVIOUS
  <2>4. m # 1
    BY <2>3, HeirsAre
  <2>5. /\ m \div 2 \in Nat /\ m \div 2 < m /\ m \div 2 > 0
        /\ m = 2 * (m \div 2) \/ m = 2 * (m \div 2) + 1
    BY <2>3, <2>4, Halves
  <2>6. m \div 2 \in Heirs(1)
    <3>1. m \div 2 \notin T
      <4> HIDE DEF T
      <4>1. m \in Nat
        BY <2>3
      <4>. QED BY <2>2, <2>5, <4>1
    <3>. QED BY <2>5, <3>1
  <2>7. 2 * (m \div 2) \in Heirs(1) /\ 2 * (m \div 2) + 1 \in Heirs(1)
    BY <2>3, <2>6, HeirsAre
  <2>. QED BY <2>3, <2>5, <2>7
<1>2. CASE T = {}
  BY <1>2
<1>. QED BY <1>1, <1>2

\* On the way up only the entry that moves may be smaller than its parent, and what is
\* under it is no smaller than that parent.
Rising(nodes, n, S, s) ==
  {st \in States(n, S) :
     /\ st.pos \in Heirs(s)
     /\ \A i \in 2 .. n : i \div 2 >= s =>
          /\ i # st.pos => Below(nodes, st.heap, i \div 2, i)
          /\ i \div 2 = st.pos /\ st.pos # s => Below(nodes, st.heap, st.pos \div 2, i)}

\* On the way down what is under the entry that moves may be smaller than it too.
Sinking(nodes, n, S, s) ==
  {st \in States(n, S) :
     /\ st.pos \in Heirs(s)
     /\ \A i \in 2 .. n : i \div 2 >= s =>
          /\ i # st.pos /\ i \div 2 # st.pos => Below(nodes, st.heap, i \div 2, i)
          /\ i \div 2 = st.pos /\ st.pos # s => Below(nodes, st.heap, st.pos \div 2, i)}

\* Where the entries of a swap come from.
LEMMA BelowSwap ==
  ASSUME NEW n \in Nat, NEW S, NEW h \in Heaps(n, S), NEW nodes,
         NEW p \in 1 .. n, NEW q \in 1 .. n
  PROVE  LET From(i) == IF i = p THEN q ELSE IF i = q THEN p ELSE i
         IN \A i, j \in 1 .. n :
              Below(nodes, Swap(h, p, q), i, j) <=> Below(nodes, h, From(i), From(j))
<1> DEFINE From(i) == IF i = p THEN q ELSE IF i = q THEN p ELSE i
<1>1. /\ Swap(h, p, q)[p] = h[q] /\ Swap(h, p, q)[q] = h[p]
      /\ \A m \in (1 .. n) \ {p, q} : Swap(h, p, q)[m] = h[m]
  BY SwapIs
<1>2. \A i \in 1 .. n : Swap(h, p, q)[i] = h[From(i)]
  BY <1>1
<1>. QED BY <1>2 DEF Below

LEMMA RisingStays ==
  ASSUME NEW n \in Nat, NEW S, NEW nodes, Ranked(nodes, S), NEW s \in Nat, s > 0,
         NEW st \in Rising(nodes, n, S, s)
  PROVE  Rise(nodes, s, st) \in Rising(nodes, n, S, s)
<1>1. /\ st \in States(n, S) /\ st.pos \in Heirs(s)
      /\ \A i \in 2 .. n : i \div 2 >= s =>
           /\ i # st.pos => Below(nodes, st.heap, i \div 2, i)
           /\ i \div 2 = st.pos /\ st.pos # s => Below(nodes, st.heap, st.pos \div 2, i)
  BY DEF Rising
<1>2. CASE Rise(nodes, s, st) = st
  BY <1>2
<1>3. CASE Rise(nodes, s, st) # st
  <2>1. PICK p, q, h : p = st.pos /\ q = p \div 2 /\ h = st.heap
    OBVIOUS
  <2>2. /\ h \in Heaps(n, S) /\ p \in 1 .. n /\ q \in 1 .. n /\ p > s
        /\ Less(nodes[h[p]], nodes[h[q]])
        /\ Rise(nodes, s, st) = State(Swap(h, p, q), q)
        /\ Rise(nodes, s, st) \in States(n, S)
    BY <1>1, <1>3, <2>1, RiseIs
  <2>3. q \in Heirs(s) /\ q >= s /\ q < p /\ (q # s => q \div 2 >= s /\ q \div 2 < q)
    <3>1. p \in Heirs(s) /\ p # s /\ p \in Nat /\ q \in Nat /\ p > 0 /\ q > 0
      BY <1>1, <2>1, <2>2
    <3>2. q \in Heirs(s) /\ q >= s
      BY <2>1, <3>1, HeirsAre
    <3>3. q # s => q \div 2 >= s
      BY <3>2, HeirsAre
    <3>. QED BY <2>1, <3>1, <3>2, <3>3, Halves
  <2>4. /\ \A i \in 2 .. n : i \div 2 >= s /\ i # p => Below(nodes, h, i \div 2, i)
        /\ \A i \in 2 .. n : i \div 2 >= s /\ i \div 2 = p => Below(nodes, h, q, i)
    BY <1>1, <2>1, <2>2
  <2> DEFINE From(i) == IF i = p THEN q ELSE IF i = q THEN p ELSE i
             g == Swap(h, p, q)
  <2>5. \A i, j \in 1 .. n : Below(nodes, g, i, j) <=> Below(nodes, h, From(i), From(j))
    BY <2>2, BelowSwap
  <2>6. /\ \A i, j, m \in 1 .. n :
             Below(nodes, h, i, j) /\ Below(nodes, h, j, m) => Below(nodes, h, i, m)
        /\ Below(nodes, h, p, q)
    BY <2>2, BelowOrders
  <2>7. ASSUME NEW i \in 2 .. n, i \div 2 >= s
        PROVE  /\ i # q => Below(nodes, g, i \div 2, i)
               /\ i \div 2 = q /\ q # s => Below(nodes, g, q \div 2, i)
    <3>0. i \in 1 .. n /\ i \div 2 \in 1 .. n /\ i \div 2 < i
      BY <2>7, Halves
    <3>1. CASE i = p
      <4>1. i \div 2 = q
        BY <2>1, <3>1
      <4>2. Below(nodes, g, i \div 2, i)
        BY <2>2, <2>3, <2>5, <2>6, <3>1, <4>1
      <4>3. q # s => Below(nodes, g, q \div 2, i)
        <5>1. CASE q # s
          <6>1. q \in 2 .. n /\ q \div 2 \in 1 .. n /\ q # p /\ q \div 2 # p /\ q \div 2 # q
            BY <2>2, <2>3, <5>1
          <6>2. Below(nodes, h, q \div 2, q)
            BY <2>3, <2>4, <5>1, <6>1
          <6>. QED BY <2>2, <2>5, <3>1, <6>1, <6>2
        <5>. QED BY <5>1
      <4>. QED BY <4>2, <4>3
    <3>2. CASE i \div 2 = p
      <4>1. i # p /\ i # q /\ p # q
        BY <2>2, <2>3, <3>0, <3>2
      <4>2. Below(nodes, h, q, i)
        BY <2>4, <2>7, <3>2
      <4>3. Below(nodes, g, p, i)
        BY <2>2, <2>5, <3>0, <4>1, <4>2
      <4>. QED BY <3>2, <4>1, <4>3
    <3>3. CASE i \div 2 = q /\ i # p
      <4>1. i # q /\ Below(nodes, h, q, i)
        BY <2>4, <2>7, <3>0, <3>3
      <4>2. Below(nodes, h, p, i)
        BY <2>2, <2>6, <3>0, <4>1
      <4>3. Below(nodes, g, q, i)
        BY <2>2, <2>3, <2>5, <3>0, <3>3, <4>1, <4>2
      <4>4. q # s => Below(nodes, g, q \div 2, i)
        <5>1. CASE q # s
          <6>1. q \in 2 .. n /\ q \div 2 \in 1 .. n /\ q # p /\ q \div 2 # p /\ q \div 2 # q
            BY <2>2, <2>3, <5>1
          <6>2. Below(nodes, h, q \div 2, q)
            BY <2>3, <2>4, <5>1, <6>1
          <6>3. Below(nodes, h, q \div 2, i)
            BY <2>2, <2>6, <3>0, <4>1, <6>1, <6>2
          <6>. QED BY <2>5, <3>0, <3>3, <4>1, <6>1, <6>3
        <5>. QED BY <5>1
      <4>. QED BY <3>3, <4>3, <4>4
    <3>4. CASE i # p /\ i \div 2 # p /\ i \div 2 # q
      BY <2>4, <2>5, <2>7, <3>0, <3>4
    <3>. QED BY <3>1, <3>2, <3>3, <3>4
  <2> HIDE DEF g, From
  <2>8. State(g, q).pos = q /\ State(g, q).heap = g
    BY DEF State
  <2>9. Rise(nodes, s, st) = State(g, q)
    BY <2>2 DEF g
  <2>. QED BY <2>2, <2>3, <2>7, <2>8, <2>9 DEF Rising
<1>. QED BY <1>2, <1>3

LEMMA SinkingStays ==
  ASSUME NEW n \in Nat, NEW S, NEW nodes, Ranked(nodes, S), NEW s \in Nat, s > 0,
         NEW st \in Sinking(nodes, n, S, s)
  PROVE  Sink(nodes, st) \in Sinking(nodes, n, S, s)
<1>1. /\ st \in States(n, S) /\ st.pos \in Heirs(s)
      /\ \A i \in 2 .. n : i \div 2 >= s =>
           /\ i # st.pos /\ i \div 2 # st.pos => Below(nodes, st.heap, i \div 2, i)
           /\ i \div 2 = st.pos /\ st.pos # s => Below(nodes, st.heap, st.pos \div 2, i)
  BY DEF Sinking
<1>2. CASE Sink(nodes, st) = st
  BY <1>2
<1>3. CASE Sink(nodes, st) # st
  <2>1. PICK p, h : p = st.pos /\ h = st.heap
    OBVIOUS
  <2>2. h \in Heaps(n, S) /\ p \in 1 .. n /\ Sink(nodes, st) \in States(n, S)
    BY <1>1, <2>1, SinkIs
  <2>3. PICK c \in 1 .. n :
          /\ c = 2 * p \/ c = 2 * p + 1
          /\ c = 2 * p + 1 => ~Less(nodes[h[2 * p]], nodes[h[c]])
          /\ c = 2 * p /\ c + 1 <= n => Less(nodes[h[c]], nodes[h[c + 1]])
          /\ Sink(nodes, st) = State(Swap(h, p, c), c)
    BY <1>1, <1>3, <2>1, SinkIs
  <2>4. /\ p \in Heirs(s) /\ p >= s /\ c \in Heirs(s) /\ c > p /\ c # s /\ c \div 2 = p
        /\ c \in 2 .. n
    <3>1. p \in Heirs(s) /\ p \in Nat
      BY <1>1, <2>1, <2>2
    <3>2. p >= s /\ c \in Heirs(s)
      BY <2>3, <3>1, HeirsAre
    <3>. QED BY <2>2, <2>3, <3>1, <3>2, Halves
  <2>5. /\ \A i \in 2 .. n : i \div 2 >= s /\ i # p /\ i \div 2 # p
                               => Below(nodes, h, i \div 2, i)
        /\ \A i \in 2 .. n : i \div 2 >= s /\ i \div 2 = p /\ p # s
                               => Below(nodes, h, p \div 2, i)
    BY <1>1, <2>1
  <2> DEFINE From(i) == IF i = p THEN c ELSE IF i = c THEN p ELSE i
             g == Swap(h, p, c)
  <2>6. \A i, j \in 1 .. n : Below(nodes, g, i, j) <=> Below(nodes, h, From(i), From(j))
    BY <2>2, BelowSwap
  <2>7. \A i, j \in 1 .. n : Less(nodes[h[i]], nodes[h[j]]) => Below(nodes, h, i, j)
    BY <2>2, BelowOrders
  <2>8. ASSUME NEW i \in 2 .. n, i \div 2 >= s
        PROVE  /\ i # c /\ i \div 2 # c => Below(nodes, g, i \div 2, i)
               /\ i \div 2 = c => Below(nodes, g, p, i)
    <3>0. /\ i \in 1 .. n /\ i \div 2 \in 1 .. n /\ i \div 2 < i
          /\ i = 2 * (i \div 2) \/ i = 2 * (i \div 2) + 1
      BY <2>8, Halves
    <3>1. CASE i \div 2 = p /\ i # c
      <4>1. Below(nodes, h, c, i)
        <5>1. CASE c = 2 * p
          <6>1. i = c + 1 /\ c + 1 <= n
            BY <3>0, <3>1, <5>1
          <6>. QED BY <2>3, <2>7, <3>0, <5>1, <6>1
        <5>2. CASE c = 2 * p + 1
          <6>1. i = 2 * p
            BY <3>0, <3>1, <5>2
          <6>. QED BY <2>3, <5>2, <6>1 DEF Below
        <5>. QED BY <2>3, <5>1, <5>2
      <4>2. i # p /\ p # c
        BY <2>2, <2>4, <3>0, <3>1
      <4>3. Below(nodes, g, p, i)
        BY <2>2, <2>6, <3>0, <3>1, <4>1, <4>2
      <4>. QED BY <2>4, <3>1, <4>2, <4>3
    <3>2. CASE i = p
      <4>1. p # s /\ p \div 2 # p /\ p \div 2 # c /\ p # c
        BY <2>4, <2>8, <3>0, <3>2
      <4>2. Below(nodes, h, p \div 2, c)
        BY <2>4, <2>5, <4>1
      <4>3. Below(nodes, g, p \div 2, p)
        BY <2>6, <3>0, <3>2, <4>1, <4>2
      <4>. QED BY <3>2, <4>1, <4>3
    <3>3. CASE i \div 2 = c
      <4>1. i # p /\ i # c /\ c # p
        BY <2>2, <2>4, <3>0, <3>3
      <4>2. Below(nodes, h, c, i)
        BY <2>5, <2>8, <3>3, <4>1
      <4>3. Below(nodes, g, p, i)
        BY <2>2, <2>6, <3>0, <4>1, <4>2
      <4>. QED BY <3>3, <4>3
    <3>4. CASE i # p /\ i # c /\ i \div 2 # p /\ i \div 2 # c
      <4>1. Below(nodes, h, i \div 2, i)
        BY <2>5, <2>8, <3>4
      <4>. QED BY <2>6, <3>0, <3>4, <4>1
    <3>5. CASE i = c
      BY <2>4, <3>0, <3>5
    <3>. QED BY <3>1, <3>2, <3>3, <3>4, <3>5
  <2> HIDE DEF g, From
  <2>9. State(g, c).pos = c /\ State(g, c).heap = g
    BY DEF State
  <2>10. Sink(nodes, st) = State(g, c)
    BY <2>3 DEF g
  <2>. QED BY <2>2, <2>4, <2>8, <2>9, <2>10 DEF Sinking
<1>. QED BY <1>2, <1>3

\* So the entry that rose leaves the heap in order from s on.
LEMMA SiftDownOrders ==
  ASSUME NEW n \in Nat, NEW S, NEW nodes, Ranked(nodes, S), NEW s \in Nat, s > 0,
         NEW h, NEW p, State(h, p) \in Rising(nodes, n, S, s)
  PROVE  Ordered(nodes, SiftDown(nodes, h, s, p), n, s)
<1> DEFINE P == Rising(nodes, n, S, s)
<1>1. \A st \in P : /\ st \in States(n, S) /\ st.pos \in Nat
                    /\ Rise(nodes, s, st) \in P
                    /\ Rise(nodes, s, st) = st \/ Rise(nodes, s, st).pos < st.pos
  <2> SUFFICES ASSUME NEW st \in P
               PROVE  /\ st \in States(n, S) /\ st.pos \in Nat
                      /\ Rise(nodes, s, st) \in P
                      /\ Rise(nodes, s, st) = st \/ Rise(nodes, s, st).pos < st.pos
    OBVIOUS
  <2>1. st \in States(n, S)
    BY DEF Rising
  <2>2. st.pos \in 1 .. n /\ (Rise(nodes, s, st) = st \/ Rise(nodes, s, st).pos < st.pos)
    BY <2>1, RiseIs
  <2>. QED BY <2>1, <2>2, RisingStays
<1>2. p \in Nat /\ State(h, p) \in P
  <2>1. State(h, p) \in States(n, S)
    BY DEF Rising
  <2>. QED BY <2>1 DEF State, States
<1>3. PICK st \in P : SiftDown(nodes, h, s, p) = st.heap /\ Rise(nodes, s, st) = st
  <2> HIDE DEF P
  <2>. QED BY ONLY <1>1, <1>2, SiftDownEnds
<1>4. /\ st \in States(n, S) /\ st.pos \in Heirs(s)
      /\ \A i \in 2 .. n : i \div 2 >= s /\ i # st.pos => Below(nodes, st.heap, i \div 2, i)
  BY DEF Rising
<1>5. st.pos <= s \/ Below(nodes, st.heap, st.pos \div 2, st.pos)
  BY <1>3, <1>4, RiseIs DEF Below
<1>6. ASSUME NEW i \in 2 .. n, i \div 2 >= s PROVE Below(nodes, st.heap, i \div 2, i)
  <2>1. i > s
    BY <1>6, Halves
  <2>2. CASE i = st.pos
    BY <1>5, <2>1, <2>2
  <2>. QED BY <1>4, <1>6, <2>2
<1>. QED BY <1>3, <1>6 DEF Ordered

\* An entry in a heap that is in order beyond s finds its place.
LEMMA SiftUpOrders ==
  ASSUME NEW n \in Nat, NEW S, NEW nodes, Ranked(nodes, S), NEW s \in 1 .. n,
         NEW h \in Heaps(n, S), Ordered(nodes, h, n, s + 1)
  PROVE  Ordered(nodes, SiftUp(nodes, h, s, s), n, s)
<1> DEFINE P == Sinking(nodes, n, S, s)
<1>0. s \in Nat /\ s > 0 /\ Len(h) = n
  BY HeapIs
<1>1. State(h, s) \in P
  <2>1. State(h, s).heap = h /\ State(h, s).pos = s /\ State(h, s) \in States(n, S)
    BY DEF State, States
  <2>2. s \in Heirs(s)
    BY <1>0, HeirsAre
  <2>3. \A i \in 2 .. n : i \div 2 >= s /\ i \div 2 # s => Below(nodes, h, i \div 2, i)
    BY <1>0 DEF Ordered
  <2>. QED BY <2>1, <2>2, <2>3 DEF Sinking
<1>2. \A st \in P : /\ st \in States(n, S) /\ st.pos \in 0 .. Len(h)
                    /\ Sink(nodes, st) \in P
                    /\ Sink(nodes, st) = st \/ Sink(nodes, st).pos > st.pos
  <2> SUFFICES ASSUME NEW st \in P
               PROVE  /\ st \in States(n, S) /\ st.pos \in 0 .. Len(h)
                      /\ Sink(nodes, st) \in P
                      /\ Sink(nodes, st) = st \/ Sink(nodes, st).pos > st.pos
    OBVIOUS
  <2>1. st \in States(n, S)
    BY DEF Sinking
  <2>2. st.pos \in 1 .. n /\ (Sink(nodes, st) = st \/ Sink(nodes, st).pos > st.pos)
    BY <2>1, SinkIs
  <2>. QED BY <1>0, <2>1, <2>2, SinkingStays
<1>3. PICK st \in P : /\ SiftUp(nodes, h, s, s) = SiftDown(nodes, st.heap, s, st.pos)
                      /\ Sink(nodes, st) = st
  <2> HIDE DEF P
  <2>1. Len(h) \in Nat
    BY <1>0
  <2>. QED BY ONLY <1>0, <1>1, <1>2, <2>1, SiftUpEnds
<1>4. /\ st \in States(n, S) /\ st.pos \in Heirs(s)
      /\ \A i \in 2 .. n : i \div 2 >= s /\ i # st.pos /\ i \div 2 # st.pos
                             => Below(nodes, st.heap, i \div 2, i)
  BY DEF Sinking
<1>5. st.heap \in Heaps(n, S) /\ st.pos \in 1 .. n /\ 2 * st.pos > n
  BY <1>3, <1>4, SinkIs
<1>6. \A i \in 2 .. n : i \div 2 # st.pos
  BY <1>5, Halves
<1>7. State(st.heap, st.pos) \in Rising(nodes, n, S, s)
  <2>1. /\ State(st.heap, st.pos).heap = st.heap /\ State(st.heap, st.pos).pos = st.pos
        /\ State(st.heap, st.pos) \in States(n, S)
    BY <1>5 DEF State, States
  <2>. QED BY <1>4, <1>6, <2>1 DEF Rising
<1>. QED BY <1>0, <1>3, <1>7, SiftDownOrders

LEMMA HeapPushOrders ==
  ASSUME NEW R, NEW h \in Seq(R), NEW nodes, Ranked(nodes, R), NEW ref \in R, IsHeap(nodes, h)
  PROVE  IsHeap(nodes, HeapPush(nodes, h, ref))
<1> DEFINE g == Append(h, ref)
           n == Len(h) + 1
           S == ToSet(h) \cup {ref}
<1>1. g \in Seq(R) /\ Len(g) = n /\ n \in Nat /\ n \in 1 .. n
      /\ g[n] = ref /\ \A i \in 1 .. Len(h) : g[i] = h[i]
  OBVIOUS
<1>2. ToSet(g) = S
  BY <1>1 DEF ToSet
<1>3. g \in Heaps(n, S) /\ S \subseteq R
  BY <1>1, <1>2, IsAHeap
<1>4. HeapPush(nodes, h, ref) = SiftDown(nodes, g, 1, n)
  BY DEF HeapPush
<1>5. Len(h) \in Nat /\ \A i \in 1 .. n : i < n => i \in 1 .. Len(h)
  OBVIOUS
<1>6. \A i \in 2 .. Len(h) : Below(nodes, h, i \div 2, i)
  BY DEF IsHeap, Below
<1> HIDE DEF g, S
<1>7. ASSUME NEW i \in 2 .. n
      PROVE  (i # n => Below(nodes, g, i \div 2, i)) /\ i \div 2 # n
  <2>1. i \div 2 \in 1 .. n /\ i \div 2 < i
    BY Halves
  <2>2. CASE i # n
    <3>1. i \in 2 .. Len(h) /\ i \in 1 .. Len(h) /\ i \div 2 \in 1 .. Len(h)
      BY <1>5, <2>1, <2>2
    <3>. QED BY <1>1, <1>6, <2>1, <3>1 DEF Below
  <2>. QED BY <2>1, <2>2
<1> HIDE DEF n
<1>8. Ranked(nodes, S)
  BY <1>3 DEF Ranked
<1>9. State(g, n) \in Rising(nodes, n, S, 1)
  <2>1. State(g, n).heap = g /\ State(g, n).pos = n /\ State(g, n) \in States(n, S)
    BY <1>1, <1>3 DEF State, States
  <2>2. n \in Heirs(1)
    BY <1>1, HeirsOfOne
  <2>. QED BY <1>7, <2>1, <2>2 DEF Rising
<1>10. SiftDown(nodes, g, 1, n) \in Heaps(n, S)
  BY <1>1, <1>3, SiftDownKeeps
<1>11. Ordered(nodes, SiftDown(nodes, g, 1, n), n, 1)
  BY <1>1, <1>8, <1>9, SiftDownOrders
<1>. QED BY <1>1, <1>4, <1>10, <1>11, OrderedIsHeap

LEMMA HeapPopOrders ==
  ASSUME NEW R, NEW h \in Seq(R), h # <<>>, NEW nodes, Ranked(nodes, R), IsHeap(nodes, h)
  PROVE  IsHeap(nodes, HeapPop(nodes, h))
<1>1. Len(h) \in Nat /\ (Len(h) = 1 \/ Len(h) > 1)
  <2>1. Len(h) \in Nat /\ Len(h) # 0
    OBVIOUS
  <2>2. \A m \in Nat : m # 0 => m = 1 \/ m > 1
    OBVIOUS
  <2>. QED BY ONLY <2>1, <2>2, Zenon
<1>2. CASE Len(h) = 1
  <2>1. HeapPop(nodes, h) = <<>>
    BY <1>2, ToppedIs
  <2>. QED BY <2>1 DEF IsHeap
<1>3. CASE Len(h) > 1
  <2>1. PICK g, n : g = Topped(h) /\ n = Len(h) - 1
    OBVIOUS
  <2>2. /\ g \in Seq(R) /\ Len(g) = n /\ \A i \in 2 .. n : g[i] = h[i]
        /\ HeapPop(nodes, h) = SiftUp(nodes, g, 1, 1)
    BY <1>3, <2>1, ToppedIs
  <2>3. n \in Nat /\ 1 \in 1 .. n /\ \A i \in 2 .. n : i \in 2 .. Len(h)
    BY <1>1, <1>3, <2>1
  <2>4. g \in Heaps(n, ToSet(g)) /\ ToSet(g) \subseteq R
    BY <2>2, IsAHeap
  <2>5. Ranked(nodes, ToSet(g))
    BY <2>4 DEF Ranked
  <2>6. \A i \in 2 .. Len(h) : Below(nodes, h, i \div 2, i)
    BY DEF IsHeap, Below
  <2>7. ASSUME NEW i \in 2 .. n, i \div 2 >= 1 + 1 PROVE Below(nodes, g, i \div 2, i)
    <3>0. i \in Nat
      BY <2>3
    <3>1. i \div 2 \in 2 .. n
      BY <2>3, <2>7, <3>0, Halves
    <3>. QED BY <2>2, <2>3, <2>6, <3>1 DEF Below
  <2>8. Ordered(nodes, SiftUp(nodes, g, 1, 1), n, 1)
    <3>1. Ordered(nodes, g, n, 1 + 1)
      BY <2>7 DEF Ordered
    <3>. QED BY <2>3, <2>4, <2>5, <3>1, SiftUpOrders
  <2>9. SiftUp(nodes, g, 1, 1) \in Heaps(n, ToSet(g))
    BY <2>3, <2>4, SiftUpKeeps
  <2>. QED BY <2>2, <2>3, <2>8, <2>9, OrderedIsHeap
<1>. QED BY <1>1, <1>2, <1>3

\* Heapify keeps what the heap holds and puts it in order.
LEMMA HeapifyOrders ==
  ASSUME NEW R, NEW h \in Seq(R), NEW nodes, Ranked(nodes, R)
  PROVE  /\ Heapify(nodes, h) \in Seq(R)
         /\ Len(Heapify(nodes, h)) = Len(h)
         /\ ToSet(Heapify(nodes, h)) = ToSet(h)
         /\ IsHeap(nodes, Heapify(nodes, h))
<1>1. PICK n, S, half : n = Len(h) /\ S = ToSet(h) /\ half = Len(h) \div 2
  OBVIOUS
<1>2. n \in Nat /\ h \in Heaps(n, S) /\ S \subseteq R /\ half \in Nat /\ half <= n /\ half = n \div 2
  BY <1>1, IsAHeap, Halves
<1>3. Ranked(nodes, S)
  BY <1>2 DEF Ranked
<1> DEFINE V == Heaps(n, S)
           Q == [k \in 0 .. half |-> {g \in V : Ordered(nodes, g, n, half + 1 - k)}]
<1>4. \A g \in V : \A s \in 1 .. half : SiftUp(nodes, g, s, s) \in V
  <2> SUFFICES ASSUME NEW g \in Heaps(n, S), NEW s \in 1 .. half
               PROVE  SiftUp(nodes, g, s, s) \in Heaps(n, S)
    OBVIOUS
  <2>1. s \in 1 .. n /\ s \in Nat /\ s > 0
    BY <1>2
  <2>. QED BY <1>2, <2>1, SiftUpKeeps
<1>5. h \in Q[0]
  <2>1. 0 \in 0 .. half /\ half + 1 - 0 = half + 1
    BY <1>2
  <2>2. \A i \in 2 .. n : ~(i \div 2 >= half + 1)
    BY <1>2
  <2>. QED BY <1>2, <2>1, <2>2 DEF Ordered
<1>6. \A k \in 1 .. half : \A g \in V \cap Q[k - 1] :
        SiftUp(nodes, g, half + 1 - k, half + 1 - k) \in Q[k]
  <2> SUFFICES ASSUME NEW k \in 1 .. half, NEW g \in Heaps(n, S), g \in Q[k - 1]
               PROVE  SiftUp(nodes, g, half + 1 - k, half + 1 - k) \in Q[k]
    OBVIOUS
  <2>1. PICK s : s = half + 1 - k
    OBVIOUS
  <2>2. /\ s \in 1 .. half /\ s \in 1 .. n /\ k \in 0 .. half
        /\ k - 1 \in 0 .. half /\ half + 1 - (k - 1) = s + 1
    BY <1>2, <2>1
  <2>3. Ordered(nodes, g, n, s + 1)
    BY <2>2
  <2>4. Ordered(nodes, SiftUp(nodes, g, s, s), n, s)
    BY <1>2, <1>3, <2>2, <2>3, SiftUpOrders
  <2>5. SiftUp(nodes, g, s, s) \in V
    BY <1>4, <2>2
  <2>. QED BY <2>1, <2>2, <2>4, <2>5
<1>7. Heapify(nodes, h) \in V \cap Q[half]
  <2> HIDE DEF V, Q
  <2>1. h \in V
    BY <1>2 DEF V
  <2>. QED BY ONLY <1>1, <1>2, <1>4, <1>5, <1>6, <2>1, HeapifyEnds
<1>8. Heapify(nodes, h) \in Heaps(n, S) /\ Ordered(nodes, Heapify(nodes, h), n, 1)
  <2>1. half \in 0 .. half /\ half + 1 - half = 1
    BY <1>2
  <2>. QED BY <1>7, <2>1
<1> HIDE DEF V, Q
<1>9. IsHeap(nodes, Heapify(nodes, h))
  BY <1>2, <1>8, OrderedIsHeap
<1>10. /\ Heapify(nodes, h) \in Seq(S) /\ Len(Heapify(nodes, h)) = n
       /\ ToSet(Heapify(nodes, h)) = S
  BY <1>2, <1>8, HeapIs
<1>. QED BY <1>1, <1>2, <1>9, <1>10

\* Nothing is smaller than the first entry.
LEMMA HeapTop ==
  ASSUME NEW R, NEW h \in Seq(R), NEW nodes, Ranked(nodes, R), IsHeap(nodes, h)
  PROVE  \A i \in 1 .. Len(h) : ~Less(nodes[h[i]], nodes[h[1]])
<1>1. PICK n, S : n = Len(h) /\ S = ToSet(h)
  OBVIOUS
<1>2. n \in Nat /\ h \in Heaps(n, S) /\ S \subseteq R
  BY <1>1, IsAHeap
<1>3. Ranked(nodes, S)
  BY <1>2 DEF Ranked
<1>4. \A i \in 2 .. n : Below(nodes, h, i \div 2, i)
  BY <1>1 DEF IsHeap, Below
<1> DEFINE T == {i \in 1 .. n : ~Below(nodes, h, 1, i)}
<1>5. T = {}
  <2> SUFFICES ASSUME T # {} PROVE FALSE
    OBVIOUS
  <2>1. T \subseteq Nat
    OBVIOUS
  <2>2. PICK m \in T : \A i \in T : m <= i
    <3> HIDE DEF T
    <3>. QED BY <2>1, Smallest
  <2>3. m \in 1 .. n /\ ~Below(nodes, h, 1, m)
    OBVIOUS
  <2>4. m # 1
    BY <1>2, <1>3, <2>3, BelowOrders
  <2>5. m \in 2 .. n /\ m \div 2 \in 1 .. n /\ m \div 2 < m /\ 1 \in 1 .. n
    BY <1>2, <2>3, <2>4, Halves
  <2>6. m \div 2 \notin T
    <3> HIDE DEF T
    <3>. QED BY <2>2, <2>3, <2>5
  <2>7. Below(nodes, h, 1, m \div 2)
    BY <2>5, <2>6
  <2>8. Below(nodes, h, m \div 2, m)
    BY <1>4, <2>5
  <2>. QED BY <1>2, <1>3, <2>3, <2>5, <2>7, <2>8, BelowOrders
<1>6. \A i \in 1 .. n : Below(nodes, h, 1, i)
  BY <1>5
<1>. QED BY <1>1, <1>6 DEF Below

\* One round of the search for a node that the dict refers to.
PopOne(g) ==
  IF g = <<>> THEN <<>> ELSE IF IsCurrent(g[1]) THEN g ELSE HeapPop(node, g)

PopLoop(left, h) ==
  left = [n \in 0 .. Len(h) |->
            IF n = 0 THEN h
            ELSE IF left[n - 1] = <<>> THEN <<>>
            ELSE IF IsCurrent(left[n - 1][1]) THEN left[n - 1]
            ELSE HeapPop(node, left[n - 1])]

LEMMA PopLiveIs ==
  ASSUME NEW h
  PROVE  LET live == (CHOOSE left : PopLoop(left, h))[Len(h)]
         IN PopLive(h) = IF live = <<>> THEN [key |-> NoKey, heap |-> live]
                         ELSE [key |-> node[live[1]].key, heap |-> HeapPop(node, live)]
BY DEF PopLive, PopLoop

\* The search ends in one of the heaps that no further round leaves: an empty one, or
\* one with such a node on top.
LEMMA PopLiveEnds ==
  ASSUME NEW R, NEW P, P \subseteq Seq(R), NEW h \in P,
         \A g \in P : g # <<>> /\ ~IsCurrent(g[1]) => HeapPop(node, g) \in P
  PROVE  \E g \in P :
           /\ g = <<>> \/ IsCurrent(g[1])
           /\ PopLive(h) = IF g = <<>> THEN [key |-> NoKey, heap |-> g]
                           ELSE [key |-> node[g[1]].key, heap |-> HeapPop(node, g)]
<1>1. PICK m : m = Len(h)
  OBVIOUS
<1>2. m \in Nat
  BY <1>1
<1>3. \A g \in P : PopOne(g) \in P
  BY DEF PopOne
<1> DEFINE G == [n \in 1 .. m |-> [g \in P |-> PopOne(g)]]
<1>4. \A n \in 1 .. m : G[n] \in [P -> P]
  BY <1>3
<1>5. PICK f : Recurs(f, m, P, h, G)
  <2> HIDE DEF G
  <2>. QED BY <1>2, <1>4, RecursionExists
<1>6. \A n \in 1 .. m : f[n] = PopOne(f[n - 1])
  <2> SUFFICES ASSUME NEW n \in 1 .. m PROVE f[n] = PopOne(f[n - 1])
    OBVIOUS
  <2>1. f[n - 1] \in P
    <3>1. f \in [0 .. m -> P] /\ n - 1 \in 0 .. m
      BY <1>2, <1>5 DEF Recurs
    <3>. QED BY <3>1
  <2>2. f[n] = G[n][f[n - 1]]
    <3> HIDE DEF G
    <3>. QED BY <1>5 DEF Recurs
  <2>. QED BY <2>1, <2>2
<1>7. \E left : PopLoop(left, h)
  <2>1. f = [n \in 0 .. m |-> f[n]] /\ f[0] = h
    BY <1>5 DEF Recurs
  <2>2. \A n \in 0 .. m : f[n] = IF n = 0 THEN h ELSE PopOne(f[n - 1])
    <3>1. \A n \in 0 .. m : n = 0 \/ n \in 1 .. m
      BY <1>2
    <3>. QED BY ONLY <1>6, <2>1, <3>1, Zenon
  <2>3. PopLoop(f, h)
    BY ONLY <1>1, <2>1, <2>2, Zenon DEF PopLoop, PopOne
  <2>. QED BY <2>3
<1> DEFINE left == CHOOSE left : PopLoop(left, h)
<1>8. PopLoop(left, h)
  BY <1>7
<1>9. PopLive(h) = IF left[m] = <<>> THEN [key |-> NoKey, heap |-> left[m]]
                   ELSE [key |-> node[left[m][1]].key, heap |-> HeapPop(node, left[m])]
  BY <1>1, PopLiveIs
<1> HIDE DEF left
<1>10. \A n \in 0 .. m : left[n] = IF n = 0 THEN h ELSE PopOne(left[n - 1])
  BY ONLY <1>1, <1>8, Zenon DEF PopLoop, PopOne
<1>11. left[0] = h
  <2>1. 0 \in 0 .. m
    BY <1>2
  <2>. QED BY <1>10, <2>1, Zenon
<1> DEFINE Done(g) == g = <<>> \/ IsCurrent(g[1])
           T == {n \in 0 .. m : left[n] \in P /\ (Done(left[n]) \/ Len(left[n]) = m - n)}
<1>12. 0 \in T
  BY <1>1, <1>2, <1>11
<1>13. ASSUME NEW n \in 0 .. m - 1, n \in T PROVE n + 1 \in T
  <2>1. n + 1 \in 0 .. m /\ n + 1 # 0 /\ (n + 1) - 1 = n
    BY <1>2
  <2>2. left[n + 1] = PopOne(left[n])
    BY <1>10, <2>1, Zenon
  <2>3. left[n] \in P /\ (Done(left[n]) \/ Len(left[n]) = m - n)
    BY <1>13
  <2>4. CASE Done(left[n])
    <3>1. left[n + 1] = left[n]
      BY <2>2, <2>4 DEF PopOne
    <3>. QED BY <2>1, <2>3, <2>4, <3>1
  <2>5. CASE ~Done(left[n])
    <3>1. left[n + 1] = HeapPop(node, left[n]) /\ left[n] # <<>> /\ left[n] \in Seq(R)
      BY <2>2, <2>3, <2>5 DEF PopOne
    <3>2. Len(left[n + 1]) = Len(left[n]) - 1
      BY <3>1, HeapPopKeeps
    <3>3. Len(left[n + 1]) = m - (n + 1)
      BY <1>2, <2>3, <2>5, <3>2
    <3>4. left[n + 1] \in P
      BY <2>3, <2>5, <3>1
    <3>. QED BY <2>1, <3>3, <3>4
  <2>. QED BY <2>4, <2>5
<1>14. m \in T
  <2> HIDE DEF T
  <2>1. \A n \in 0 .. m : n \in T
    BY ONLY <1>2, <1>12, <1>13, UpTo
  <2>. QED BY <1>2, <2>1
<1>15. left[m] \in P /\ Done(left[m])
  <2>1. left[m] \in P /\ (Done(left[m]) \/ Len(left[m]) = m - m)
    BY <1>14
  <2>2. Len(left[m]) = 0 => left[m] = <<>>
    BY <2>1
  <2>. QED BY <1>2, <2>1, <2>2
<1>. QED BY <1>9, <1>15

-----------------------------------------------------------------------------
(* The inductive invariant.                                                *)

Nodes == [key : Keys, freq : Nat \ {0}, stamp : Nat]

\* The keys in the order of the last use of their nodes.  A touch is stamped with the
\* time it leaves, an insertion with the time it finds: a node inserted right after a
\* touch has the same stamp, and has been used once where the other has been used more.
Later ==
  {p \in Keys \X Keys :
     LET m == node[current[p[1]]]
         n == node[current[p[2]]]
     IN m.stamp < n.stamp \/ (m.stamp = n.stamp /\ m.freq > 1 /\ n.freq = 1)}

Sorted(s, Q) == \A i, j \in 1 .. Len(s) : i < j => <<s[i], s[j]>> \in Q

\* A cache holds no more than it may, and raises where it may hold nothing.
Held ==
  /\ policy \in Policies /\ capacity \in Capacities /\ capacity \in Nat
  /\ cache \in SUBSET Keys
  /\ victim \in Keys \cup {NoKey}
  /\ Cardinality(cache) <= capacity
  /\ raised => capacity = 0

\* The histories know every cached key once.
Known == Enumerates(inserted, cache) /\ Enumerates(written, cache) /\ Enumerates(used, cache)

\* The order is what the histories say it is.
Listed ==
  /\ order \in Seq(Keys)
  /\ policy = "fifo" => order = inserted
  /\ policy \in {"lru", "mru"} => order = used
  /\ policy = "lifo" /\ cache # {} => order # <<>> /\ Last(order) = Last(written)

\* The heap holds the node of every cached key, and is in order while no node has
\* changed in place.
Heaped ==
  /\ time \in Nat
  /\ node \in Seq(Nodes) /\ heap \in Seq(DOMAIN node)
  /\ current \in [Keys -> Nat]
  /\ policy = "lfu" => \A k \in cache : /\ current[k] \in DOMAIN node
                                        /\ node[current[k]].key = k
                                        /\ current[k] \in ToSet(heap)
  /\ policy = "lfu" /\ ~dirty => IsHeap(node, heap)

\* The nodes count and stamp the uses that the histories know.
Stamped ==
  policy = "lfu" =>
    /\ uses \in [Keys -> Nat]
    /\ \A k \in cache : /\ node[current[k]].freq = uses[k]
                        /\ node[current[k]].stamp <= time
                        /\ node[current[k]].stamp = time => node[current[k]].freq > 1
    /\ Sorted(used, Later)

CacheInv == Held /\ Known /\ Listed /\ Heaped /\ Stamped

\* What may be evicted.
Right ==
  victim' \in cache =>
    /\ policy = "fifo" => victim' = Head(inserted)
    /\ policy = "lifo" => victim' = Last(written)
    /\ policy = "lru"  => victim' = Head(used)
    /\ policy = "mru"  => victim' = Last(used)
    /\ policy = "lfu" /\ ~dirty => LeastUsed(victim')

-----------------------------------------------------------------------------
(* What the actions have in common.                                        *)

\* An enumeration of S with k at its end.
Renews(r, s, S, k) ==
  /\ Enumerates(r, S \cup {k})
  /\ r # <<>> /\ Last(r) = k
  /\ k \notin S => r = Append(s, k)
  /\ r = Append(RemoveFirst(s, k), k)

LEMMA NewestIs ==
  ASSUME NEW S, NEW s, Enumerates(s, S), NEW k
  PROVE  Renews(Newest(s, k), s, S, k)
<1> DEFINE r == Without(s, k)
<1>1. Enumerates(r, S \ {k}) /\ RemoveFirst(s, k) = r /\ (k \notin S => r = s)
  BY EnumeratesWithout
<1>2. Newest(s, k) = Append(r, k)
  BY DEF Newest
<1> HIDE DEF r
<1>3. Enumerates(Append(r, k), (S \ {k}) \cup {k})
  BY <1>1, EnumeratesAppend
<1>4. (S \ {k}) \cup {k} = S \cup {k}
  OBVIOUS
<1>5. Append(r, k) # <<>> /\ Last(Append(r, k)) = k
  <2>1. r \in Seq(S \cup {k}) /\ k \in S \cup {k}
    BY <1>1 DEF Enumerates
  <2>2. /\ Append(r, k) \in Seq(S \cup {k}) /\ Len(Append(r, k)) = Len(r) + 1
        /\ Append(r, k)[Len(r) + 1] = k
    BY <2>1, AppendProperties
  <2>3. Len(r) + 1 # 0
    BY <2>1
  <2>. QED BY <2>2, <2>3 DEF Last
<1>. QED BY <1>1, <1>2, <1>3, <1>4, <1>5 DEF Renews

LEMMA EnumeratesEmpty ==
  ASSUME NEW S, NEW s, Enumerates(s, S)
  PROVE  s = <<>> <=> S = {}
<1>1. s \in Seq(S) /\ Len(s) \in Nat /\ \A x \in S : \E i \in 1 .. Len(s) : s[i] = x
  BY DEF Enumerates
<1>2. CASE S = {}
  <2>1. Len(s) = 0
    <3>1. \A i \in 1 .. Len(s) : s[i] \in S
      BY <1>1
    <3>2. ~(1 \in 1 .. Len(s))
      BY <1>2, <3>1
    <3>. QED BY <1>1, <3>2
  <2>. QED BY <1>1, <1>2, <2>1
<1>3. CASE S # {}
  <2>1. s # <<>>
    BY <1>1, <1>3
  <2>. QED BY <1>3, <2>1
<1>. QED BY <1>2, <1>3

\* The histories after a put of k that evicted v.
LEMMA RecordedIs ==
  ASSUME Known, NEW k, NEW v, Recorded(k, v), cache' = (cache \ {v}) \cup {k}
  PROVE  /\ Known'
         /\ written' # <<>> /\ Last(written') = k
         /\ used' = Newest(Without(used, v), k)
         /\ v \notin cache => /\ used' = Newest(used, k)
                              /\ k \in cache => inserted' = inserted
                              /\ k \notin cache => inserted' = Append(inserted, k)
         /\ v \in cache /\ k \notin cache =>
              /\ used' = Append(Without(used, v), k)
              /\ inserted' = Append(Without(inserted, v), k)
<1>0. PICK left : left = cache \ {v}
  OBVIOUS
<1>1. /\ Enumerates(Without(inserted, v), left) /\ (v \notin cache => Without(inserted, v) = inserted)
      /\ Enumerates(Without(written, v), left)
      /\ Enumerates(Without(used, v), left) /\ (v \notin cache => Without(used, v) = used)
  BY <1>0, EnumeratesWithout DEF Known
<1>2. /\ written' = Newest(Without(written, v), k) /\ used' = Newest(Without(used, v), k)
      /\ inserted' = IF k \in cache /\ k # v THEN Without(inserted, v)
                     ELSE Append(Without(inserted, v), k)
  BY DEF Recorded
<1>3. cache' = left \cup {k}
  BY <1>0
<1>4. /\ Enumerates(written', cache') /\ written' # <<>> /\ Last(written') = k
      /\ Enumerates(used', cache') /\ (k \notin left => used' = Append(Without(used, v), k))
  <2>1. /\ Renews(Newest(Without(written, v), k), Without(written, v), left, k)
        /\ Renews(Newest(Without(used, v), k), Without(used, v), left, k)
    BY ONLY <1>1, NewestIs
  <2>2. Enumerates(Newest(Without(written, v), k), cache') /\ Newest(Without(written, v), k) # <<>>
        /\ Last(Newest(Without(written, v), k)) = k
    BY ONLY <1>3, <2>1 DEF Renews
  <2>3. /\ Enumerates(Newest(Without(used, v), k), cache')
        /\ k \notin left => Newest(Without(used, v), k) = Append(Without(used, v), k)
    BY ONLY <1>3, <2>1 DEF Renews
  <2>. QED BY ONLY <1>2, <2>2, <2>3
<1>5. Enumerates(inserted', cache')
  <2>1. CASE k \in cache /\ k # v
    <3>1. cache' = left
      BY <1>0, <1>3, <2>1
    <3>. QED BY <1>1, <1>2, <2>1, <3>1
  <2>2. CASE ~(k \in cache /\ k # v)
    <3>1. k \notin left
      BY <1>0, <2>2
    <3>. QED BY <1>1, <1>2, <1>3, <2>2, <3>1, EnumeratesAppend
  <2>. QED BY <2>1, <2>2
<1>6. v \notin cache => (k \in cache => k # v)
  OBVIOUS
<1>. QED BY <1>0, <1>1, <1>2, <1>4, <1>5, <1>6 DEF Known

LEMMA CacheFinite ==
  ASSUME Known
  PROVE  IsFiniteSet(cache) /\ Cardinality(cache) \in Nat
BY EnumeratesCounts, FS_CardinalityType DEF Known

\* Where a put leaves a cache that may hold what it holds.
LEMMA Fits ==
  ASSUME Known, Held, NEW k, NEW v, v \in cache \/ (v \notin cache /\ (k \in cache \/ ~Full))
  PROVE  Cardinality((cache \ {v}) \cup {k}) <= capacity
<1>1. /\ IsFiniteSet(cache) /\ Cardinality(cache) \in Nat /\ capacity \in Nat
      /\ Cardinality(cache) <= capacity
  BY CacheFinite DEF Held
<1>2. PICK left : left = cache \ {v}
  OBVIOUS
<1>3. /\ IsFiniteSet(left) /\ Cardinality(left) \in Nat
      /\ v \in cache => Cardinality(left) = Cardinality(cache) - 1
      /\ v \notin cache => left = cache
  BY <1>1, <1>2, FS_RemoveElement, FS_CardinalityType
<1>4. /\ k \in left => left \cup {k} = left
      /\ k \notin left => Cardinality(left \cup {k}) = Cardinality(left) + 1
  BY <1>3, FS_AddElement
<1>5. v \in cache \/ k \in cache \/ Cardinality(cache) + 1 <= capacity
  BY <1>1 DEF Full
<1>6. v \notin cache /\ k \in cache => k \in left
  BY <1>2
<1>7. Cardinality(left \cup {k}) <= capacity
  <2>1. CASE k \in left
    <3>1. Cardinality(left) <= Cardinality(cache)
      BY ONLY <1>1, <1>3
    <3>2. Cardinality(left) <= capacity
      BY ONLY <1>1, <1>3, <3>1
    <3>. QED BY ONLY <1>4, <2>1, <3>2, Zenon
  <2>2. CASE k \notin left /\ v \in cache
    <3>1. Cardinality(left \cup {k}) = Cardinality(cache)
      BY ONLY <1>1, <1>3, <1>4, <2>2
    <3>. QED BY ONLY <1>1, <3>1
  <2>3. CASE k \notin left /\ v \notin cache
    <3>1. Cardinality(left \cup {k}) = Cardinality(cache) + 1
      BY ONLY <1>1, <1>3, <1>4, <2>3
    <3>. QED BY ONLY <1>5, <1>6, <2>3, <3>1
  <2>. QED BY <2>1, <2>2, <2>3
<1>. QED BY <1>2, <1>7

LEMMA FullEmpty ==
  ASSUME Known, Held, Full, cache = {}
  PROVE  capacity = 0
BY FS_EmptySet DEF Full, Held

LEMMA NoKeyNoKey == NoKey \notin Keys
BY LocalAssumption

\* The heap is the LFU cache's.
LEMMA ListsOnly ==
  ASSUME CacheInv, policy # "lfu", UNCHANGED <<policy, heap, node, current, time, dirty>>
  PROVE  Heaped' /\ Stamped'
BY DEF CacheInv, Heaped, Stamped

LEMMA RaiseKeeps ==
  ASSUME CacheInv, Raise, capacity = 0
  PROVE  CacheInv' /\ Right
<1>1. Known' /\ Listed'
  BY DEF CacheInv, Known, Listed, Raise, history
<1>2. Held'
  BY DEF CacheInv, Held, Raise
<1>3. Heaped'
  BY DEF CacheInv, Heaped, Raise, history
<1>4. Stamped'
  <2>1. Later' = Later
    BY DEF Later, Raise
  <2>. QED BY <2>1 DEF CacheInv, Stamped, Raise, history, Sorted
<1>5. Right
  BY NoKeyNoKey DEF CacheInv, Held, Raise, Right
<1>. QED BY <1>1, <1>2, <1>3, <1>4, <1>5 DEF CacheInv

\* A put of one of the other caches keeps everything but what is said of its order.
LEMMA LeaveKeeps ==
  ASSUME CacheInv, policy # "lfu", NEW k \in Keys, NEW v \in Keys \cup {NoKey}, NEW newOrder,
         Leave(k, v, newOrder), v \in cache \/ (v \notin cache /\ (k \in cache \/ ~Full))
  PROVE  /\ Held' /\ Known' /\ Heaped' /\ Stamped'
         /\ order' = newOrder /\ victim' = v /\ policy' = policy
<1>1. /\ Known /\ Held /\ cache' = (cache \ {v}) \cup {k} /\ Recorded(k, v)
      /\ order' = newOrder /\ victim' = v /\ raised' = FALSE
      /\ UNCHANGED <<policy, capacity, heap, node, current, time, dirty>>
  BY DEF CacheInv, Leave
<1>2. Known'
  BY <1>1, RecordedIs
<1>3. Cardinality(cache') <= capacity
  BY <1>1, Fits
<1>4. Held'
  BY <1>1, <1>3 DEF Held
<1>. QED BY <1>1, <1>2, <1>4, ListsOnly

-----------------------------------------------------------------------------
(* The lists and the stacks.                                               *)

\* The ends of the order are those of the history it follows.
LEMMA Ends ==
  ASSUME NEW s, Enumerates(s, cache), NEW k, k \notin cache, s # <<>>, cache \in SUBSET Keys
  PROVE  /\ Head(s) \in cache /\ Tail(s) = Without(s, Head(s))
         /\ Last(s) \in cache /\ Front(s) = Without(s, Last(s))
         /\ Head(s) \in Keys /\ Last(s) \in Keys
         /\ Head(Append(s, k)) = Head(s) /\ Tail(Append(s, k)) = Append(Tail(s), k)
<1>1. /\ Head(s) \in cache /\ Tail(s) = Without(s, Head(s))
      /\ Last(s) \in cache /\ Front(s) = Without(s, Last(s))
  BY EnumeratesEnds
<1>2. PICK S : S = cache \cup {k}
  OBVIOUS
<1>3. s \in Seq(S) /\ k \in S
  BY <1>2 DEF Enumerates
<1>4. Head(Append(s, k)) = Head(s) /\ Tail(Append(s, k)) = Append(Tail(s), k)
  <2>1. PICK r, t, u : r = Append(s, k) /\ t = Tail(s) /\ u = Append(t, k)
    OBVIOUS
  <2>2. Len(s) \in Nat /\ Len(s) # 0
    BY <1>3
  <2>3. /\ r \in Seq(S) /\ Len(r) = Len(s) + 1 /\ r[Len(s) + 1] = k
        /\ \A i \in 1 .. Len(s) : r[i] = s[i]
    BY ONLY <1>3, <2>1, AppendProperties
  <2>4. t \in Seq(S) /\ Len(t) = Len(s) - 1 /\ \A i \in 1 .. Len(s) - 1 : t[i] = s[i + 1]
    BY ONLY <1>3, <2>1, s # <<>>, HeadTailProperties
  <2>5. /\ u \in Seq(S) /\ Len(u) = Len(t) + 1 /\ u[Len(t) + 1] = k
        /\ \A i \in 1 .. Len(t) : u[i] = t[i]
    BY ONLY <1>3, <2>1, <2>4, AppendProperties
  <2>6. r # <<>> /\ Head(r) = r[1] /\ Head(s) = s[1] /\ 1 \in 1 .. Len(s)
    BY ONLY <1>3, <2>2, <2>3
  <2>7. Tail(r) \in Seq(S) /\ Len(Tail(r)) = Len(s) /\ \A i \in 1 .. Len(s) : Tail(r)[i] = r[i + 1]
    <3>1. /\ Tail(r) \in Seq(S) /\ Len(Tail(r)) = Len(r) - 1
          /\ \A i \in 1 .. Len(r) - 1 : Tail(r)[i] = r[i + 1]
      BY ONLY <2>3, <2>6, HeadTailProperties
    <3>2. Len(r) - 1 = Len(s)
      BY ONLY <2>2, <2>3
    <3>. QED BY ONLY <3>1, <3>2
  <2>8. Len(u) = Len(s) /\ Len(t) + 1 = Len(s) /\ Len(t) \in Nat
    BY ONLY <2>2, <2>4, <2>5
  <2>9. ASSUME NEW i \in 1 .. Len(s) PROVE Tail(r)[i] = u[i]
    <3>1. CASE i = Len(s)
      BY ONLY <2>3, <2>5, <2>7, <2>8, <3>1, i \in 1 .. Len(s)
    <3>2. CASE i # Len(s)
      <4>1. i \in 1 .. Len(s) - 1 /\ i \in 1 .. Len(t) /\ i + 1 \in 1 .. Len(s)
        BY ONLY <2>2, <2>8, <3>2, i \in 1 .. Len(s)
      <4>. QED BY ONLY <2>3, <2>4, <2>5, <2>7, <4>1, i \in 1 .. Len(s)
    <3>. QED BY <3>1, <3>2
  <2>10. Tail(r) = u
    BY ONLY <2>5, <2>7, <2>8, <2>9, SeqEqual
  <2>. QED BY <2>1, <2>3, <2>6, <2>10
<1>. QED BY <1>1, <1>4

\* What is enumerated is a sequence of keys.
LEMMA KeysOnly ==
  ASSUME NEW s, NEW S \in SUBSET Keys, Enumerates(s, S)
  PROVE  s \in Seq(Keys)
BY DEF Enumerates

LEMMA FIFOPutKeeps ==
  ASSUME CacheInv, NEW k \in Keys, FIFOPut(k)
  PROVE  CacheInv' /\ Right
<1>1. /\ policy = "fifo" /\ policy # "lfu" /\ order = inserted /\ order \in Seq(Keys)
      /\ Known /\ Held /\ cache \in SUBSET Keys
  BY DEF CacheInv, Listed, FIFOPut, Held
<1>2. NoKey \notin cache
  BY <1>1, NoKeyNoKey
<1>3. CASE \E newOrder : /\ Leave(k, NoKey, newOrder) /\ (k \in cache \/ ~Full)
                         /\ newOrder = IF k \in cache THEN order ELSE Append(order, k)
  <2>1. PICK newOrder : /\ Leave(k, NoKey, newOrder) /\ (k \in cache \/ ~Full)
                        /\ newOrder = IF k \in cache THEN order ELSE Append(order, k)
    BY <1>3
  <2>2. /\ Held' /\ Known' /\ Heaped' /\ Stamped'
        /\ order' = newOrder /\ victim' = NoKey /\ policy' = policy
    BY <1>1, <1>2, <2>1, LeaveKeeps
  <2>3. inserted' = newOrder
    BY <1>1, <1>2, <2>1, RecordedIs DEF Leave
  <2>4. Listed'
    BY <1>1, <2>2, <2>3, KeysOnly DEF Listed, Known, Held
  <2>5. Right
    BY <1>1, <2>2, NoKeyNoKey DEF Right
  <2>. QED BY <2>2, <2>4, <2>5 DEF CacheInv
<1>4. CASE Full /\ order = <<>> /\ Raise
  <2>1. cache = {}
    BY <1>1, <1>4, EnumeratesEmpty DEF Known
  <2>. QED BY <1>1, <1>4, <2>1, FullEmpty, RaiseKeeps
<1>5. CASE k \notin cache /\ order # <<>> /\ Leave(k, Head(order), Append(Tail(order), k))
  <2>1. /\ Head(order) \in cache /\ Head(order) \in Keys
        /\ Tail(order) = Without(order, Head(order))
    BY <1>1, <1>5, Ends DEF Known
  <2>2. /\ Held' /\ Known' /\ Heaped' /\ Stamped' /\ order' = Append(Tail(order), k)
        /\ victim' = Head(order) /\ policy' = policy
    BY <1>1, <1>5, <2>1, LeaveKeeps
  <2>3. inserted' = Append(Tail(order), k)
    BY <1>1, <1>5, <2>1, RecordedIs DEF Leave
  <2>4. Listed'
    BY <1>1, <2>2, <2>3, KeysOnly DEF Listed, Known, Held
  <2>5. Right
    BY <1>1, <2>2 DEF Right
  <2>. QED BY <2>2, <2>4, <2>5 DEF CacheInv
<1>. QED BY <1>3, <1>4, <1>5 DEF FIFOPut

LEMMA FIFODeleteKeeps ==
  ASSUME CacheInv, NEW k \in Keys, FIFODelete(k)
  PROVE  CacheInv' /\ Right
<1>1. /\ policy = "fifo" /\ policy # "lfu" /\ order = inserted
      /\ Known /\ Held /\ cache \in SUBSET Keys
      /\ cache' = cache \ {k} /\ order' = RemoveFirst(order, k)
      /\ victim' = NoKey /\ raised' = FALSE
      /\ inserted' = Without(inserted, k) /\ written' = Without(written, k)
      /\ used' = Without(used, k)
      /\ UNCHANGED <<policy, capacity, heap, node, current, time, dirty>>
  BY DEF CacheInv, Listed, FIFODelete, Held
<1>2. Known'
  BY <1>1, EnumeratesWithout DEF Known
<1>3. Held'
  <2>1. IsFiniteSet(cache)
    BY <1>1, CacheFinite
  <2>2. Cardinality(cache \ {k}) <= Cardinality(cache) /\ Cardinality(cache \ {k}) \in Nat
        /\ Cardinality(cache) \in Nat
    BY <2>1, FS_Subset, FS_CardinalityType
  <2>3. Cardinality(cache') <= capacity
    BY <1>1, <2>2 DEF Held
  <2>. QED BY <1>1, <2>3 DEF Held
<1>4. order' = inserted'
  BY <1>1, EnumeratesWithout DEF Known
<1>5. Listed'
  BY <1>1, <1>2, <1>3, <1>4, KeysOnly DEF Listed, Known, Held
<1>6. Right
  BY <1>1, NoKeyNoKey DEF Right
<1>. QED BY <1>1, <1>2, <1>3, <1>5, <1>6, ListsOnly DEF CacheInv

LEMMA LIFOPutKeeps ==
  ASSUME CacheInv, NEW k \in Keys, LIFOPut(k)
  PROVE  CacheInv' /\ Right
<1>1. /\ policy = "lifo" /\ policy # "lfu" /\ order \in Seq(Keys)
      /\ cache # {} => order # <<>> /\ Last(order) = Last(written)
      /\ Known /\ Held /\ cache \in SUBSET Keys
  BY DEF CacheInv, Listed, LIFOPut, Held
<1>2. cache # {} => Last(order) \in cache
  BY <1>1, EnumeratesEnds, EnumeratesEmpty DEF Known
<1>3. NoKey \notin cache
  BY <1>1, NoKeyNoKey
<1>4. ASSUME NEW s \in Seq(Keys)
      PROVE  Append(s, k) \in Seq(Keys) /\ Append(s, k) # <<>> /\ Last(Append(s, k)) = k
  <2>1. /\ Append(s, k) \in Seq(Keys) /\ Len(Append(s, k)) = Len(s) + 1
        /\ Append(s, k)[Len(s) + 1] = k
    BY AppendProperties
  <2>2. Len(s) + 1 # 0
    OBVIOUS
  <2>. QED BY <2>1, <2>2 DEF Last
<1>5. CASE ~Full /\ Leave(k, NoKey, Append(order, k))
  <2>1. /\ Held' /\ Known' /\ Heaped' /\ Stamped'
        /\ order' = Append(order, k) /\ victim' = NoKey /\ policy' = policy
    BY <1>1, <1>3, <1>5, LeaveKeeps
  <2>2. Last(written') = k
    BY <1>1, <1>5, RecordedIs DEF Leave
  <2>3. Listed'
    BY <1>1, <1>4, <2>1, <2>2 DEF Listed
  <2>4. Right
    BY <1>1, <2>1, NoKeyNoKey DEF Right
  <2>. QED BY <2>1, <2>3, <2>4 DEF CacheInv
<1>6. CASE Full /\ ~TopCached /\ Raise
  <2>1. cache = {}
    BY <1>1, <1>2, <1>6 DEF TopCached
  <2>. QED BY <1>1, <1>6, <2>1, FullEmpty, RaiseKeeps
<1>7. CASE TopCached /\ Leave(k, Last(order), Append(Front(order), k))
  <2>1. Last(order) \in cache /\ Last(order) \in Keys /\ order # <<>>
    BY <1>1, <1>7 DEF TopCached
  <2>2. /\ Held' /\ Known' /\ Heaped' /\ Stamped'
        /\ order' = Append(Front(order), k) /\ victim' = Last(order) /\ policy' = policy
    BY <1>1, <1>7, <2>1, LeaveKeeps
  <2>3. Last(written') = k
    BY <1>1, <1>7, RecordedIs DEF Leave
  <2>4. Front(order) \in Seq(Keys)
    BY <1>1, <2>1, FrontIs
  <2>5. Listed'
    BY <1>1, <1>4, <2>2, <2>3, <2>4 DEF Listed
  <2>6. Right
    BY <1>1, <2>1, <2>2 DEF Right
  <2>. QED BY <2>2, <2>5, <2>6 DEF CacheInv
<1>. QED BY <1>5, <1>6, <1>7 DEF LIFOPut

\* The key that is found is at the end of both.
LEMMA MoveToEndKeeps ==
  ASSUME CacheInv, NEW k \in Keys, MoveToEnd(k)
  PROVE  CacheInv' /\ Right
<1>1. /\ policy \in {"lru", "mru"} /\ policy # "lfu" /\ order = used
      /\ k \in cache /\ Known /\ Held /\ cache \in SUBSET Keys
  BY DEF CacheInv, Listed, MoveToEnd, Held
<1>2. Contains(order, k)
  BY <1>1 DEF Contains, Known, Enumerates
<1>3. /\ order' = Moved(k) /\ victim' = NoKey /\ raised' = FALSE
      /\ used' = Newest(used, k) /\ UNCHANGED <<inserted, written>>
      /\ UNCHANGED <<policy, capacity, cache, heap, node, current, time, dirty>>
  BY <1>2 DEF MoveToEnd, Found
<1>4. Renews(used', used, cache, k)
  BY <1>1, <1>3, NewestIs DEF Known
<1>5. Enumerates(used', cache') /\ order' = used'
  <2>1. cache \cup {k} = cache
    BY <1>1
  <2>. QED BY <1>1, <1>3, <1>4, <2>1 DEF Renews, Moved
<1>6. Known'
  BY <1>1, <1>3, <1>5 DEF Known
<1>7. Held'
  BY <1>1, <1>3 DEF Held
<1>8. Listed'
  BY <1>1, <1>3, <1>5, KeysOnly DEF Listed
<1>9. Right
  BY <1>1, <1>3, NoKeyNoKey DEF Right
<1>. QED BY <1>1, <1>3, <1>6, <1>7, <1>8, <1>9, ListsOnly DEF CacheInv

LEMMA AppendToNone ==
  ASSUME NEW K, NEW k \in K, NEW s \in Seq(K), Len(s) = 0
  PROVE  Head(Append(s, k)) = k /\ Tail(Append(s, k)) = <<>>
<1>1. PICK r : r = Append(s, k)
  OBVIOUS
<1>2. r \in Seq(K) /\ Len(r) = 1 /\ r[1] = k
  <2>1. /\ r \in Seq(K) /\ Len(r) = Len(s) + 1 /\ r[Len(s) + 1] = k
    BY ONLY <1>1, k \in K, s \in Seq(K), AppendProperties
  <2>. QED BY <2>1
<1>3. r # <<>>
  BY ONLY <1>2, EmptySeq
<1>4. Head(r) = r[1] /\ Tail(r) \in Seq(K) /\ Len(Tail(r)) = Len(r) - 1
  BY ONLY <1>2, <1>3, HeadTailProperties
<1>5. Tail(r) = <<>>
  <2>1. Tail(r) # <<>> => Len(Tail(r)) \in Nat \ {0}
    BY ONLY <1>4, EmptySeq
  <2>2. Len(Tail(r)) \notin Nat \ {0}
    BY ONLY <1>2, <1>4
  <2>. QED BY <2>1, <2>2
<1>. QED BY <1>1, <1>2, <1>4, <1>5

LEMMA LRUPutKeeps ==
  ASSUME CacheInv, NEW k \in Keys, LRUPut(k)
  PROVE  CacheInv' /\ Right
<1>1. /\ policy = "lru" /\ policy # "lfu" /\ order = used
      /\ Known /\ Held /\ cache \in SUBSET Keys /\ NoKey \notin cache
  BY NoKeyNoKey DEF CacheInv, Listed, LRUPut, Held
<1>2. Moved(k) = Newest(used, k) /\ Renews(Newest(used, k), used, cache, k)
  <2>1. Renews(Newest(used, k), used, cache, k)
    BY <1>1, NewestIs DEF Known
  <2>. QED BY <1>1, <2>1 DEF Renews, Moved
<1>3. IsFiniteSet(cache) /\ Cardinality(cache) \in Nat /\ capacity \in Nat /\ Cardinality(cache) <= capacity
  BY <1>1, CacheFinite DEF Held
<1>4. CASE Cardinality(cache \cup {k}) <= capacity /\ Leave(k, NoKey, Moved(k))
  <2>1. k \in cache \/ ~Full
    BY <1>3, <1>4, FS_AddElement DEF Full
  <2>2. /\ Held' /\ Known' /\ Heaped' /\ Stamped'
        /\ order' = Moved(k) /\ victim' = NoKey /\ policy' = policy
    BY <1>1, <1>4, <2>1, LeaveKeeps
  <2>3. used' = Newest(used, k)
    BY <1>1, <1>4, RecordedIs DEF Leave
  <2>4. Listed'
    BY <1>1, <1>2, <2>2, <2>3, KeysOnly DEF Listed, Known, Held
  <2>5. Right
    BY <1>1, <2>2, NoKeyNoKey DEF Right
  <2>. QED BY <2>2, <2>4, <2>5 DEF CacheInv
<1>5. CASE ~(Cardinality(cache \cup {k}) <= capacity)
  <2>1. k \notin cache
    <3>1. k \in cache => cache \cup {k} = cache
      OBVIOUS
    <3>. QED BY <1>3, <1>5, <3>1
  <2>2. PICK list : list = Append(order, k) /\ list = Moved(k)
    BY <1>1, <1>2, <2>1 DEF Renews
  <2>3. /\ cache' = (cache \cup {k}) \ {Head(list)} /\ order' = Tail(list)
        /\ victim' = Head(list) /\ raised' = FALSE
        /\ IF Head(list) = k THEN UNCHANGED <<inserted, written, used, uses>>
           ELSE Recorded(k, Head(list))
        /\ UNCHANGED <<policy, capacity, heap, node, current, time, dirty>>
    <3>1. Cardinality(cache \cup {k}) > capacity
      BY <1>5 DEF LRUPut
    <3>. QED BY <1>5, <2>2, <3>1 DEF LRUPut
  <2>4. Heaped' /\ Stamped'
    BY <1>1, <2>3, ListsOnly
  <2>5. CASE order = <<>>
    <3>1. cache = {}
      BY <1>1, <2>5, EnumeratesEmpty DEF Known
    <3>2. Head(list) = k /\ Tail(list) = <<>>
      <4>1. order \in Seq(Keys) /\ Len(order) = 0
        BY <2>5
      <4>. QED BY ONLY <2>2, <4>1, k \in Keys, AppendToNone
    <3>3. cache' = cache /\ order' = order /\ inserted' = inserted /\ written' = written /\ used' = used
      BY <2>3, <2>5, <3>1, <3>2
    <3>4. Known' /\ Held' /\ Listed'
      <4>1. Known'
        BY <1>1, <3>3 DEF Known
      <4>2. Held'
        BY <1>1, <2>3, <3>2, <3>3 DEF Held
      <4>3. Listed'
        BY <2>3, <3>3 DEF CacheInv, Listed
      <4>. QED BY <4>1, <4>2, <4>3
    <3>5. Right
      BY <1>1, <2>3, <3>1, <3>2 DEF Right
    <3>. QED BY <2>4, <3>4, <3>5 DEF CacheInv
  <2>6. CASE order # <<>>
    <3>1. /\ Head(order) \in cache /\ Head(order) \in Keys
          /\ Tail(order) = Without(order, Head(order))
          /\ Head(list) = Head(order) /\ Tail(list) = Append(Tail(order), k)
      BY <1>1, <2>1, <2>2, <2>6, Ends DEF Known
    <3>2. Head(list) # k
      BY <2>1, <3>1
    <3>3. Recorded(k, Head(list)) /\ cache' = (cache \ {Head(list)}) \cup {k}
      BY <2>3, <3>2
    <3>4. Known' /\ used' = Append(Without(used, Head(list)), k)
      BY <1>1, <2>1, <3>1, <3>3, RecordedIs
    <3>5. Cardinality(cache') <= capacity
      BY <1>1, <3>1, <3>3, Fits
    <3>6. Held'
      BY <1>1, <2>3, <3>1, <3>3, <3>5 DEF Held
    <3>7. order' = used'
      BY <1>1, <2>3, <3>1, <3>4
    <3>8. Listed'
      BY <1>1, <2>3, <3>4, <3>6, <3>7, KeysOnly DEF Listed, Known, Held
    <3>9. Right
      BY <1>1, <2>3, <3>1 DEF Right
    <3>. QED BY <2>4, <3>4, <3>6, <3>8, <3>9 DEF CacheInv
  <2>. QED BY <2>5, <2>6
<1>6. Cardinality(cache \cup {k}) > capacity => ~(Cardinality(cache \cup {k}) <= capacity)
  <2>1. Cardinality(cache \cup {k}) \in Nat
    BY <1>3, FS_AddElement, FS_CardinalityType
  <2>. QED BY <1>3, <2>1
<1>. QED BY <1>4, <1>5, <1>6 DEF LRUPut

LEMMA MRUPutKeeps ==
  ASSUME CacheInv, NEW k \in Keys, MRUPut(k)
  PROVE  CacheInv' /\ Right
<1>1. /\ policy = "mru" /\ policy # "lfu" /\ order = used
      /\ Known /\ Held /\ cache \in SUBSET Keys /\ NoKey \notin cache
  BY NoKeyNoKey DEF CacheInv, Listed, MRUPut, Held
<1>2. k \in cache => Contains(order, k)
  BY <1>1 DEF Contains, Known, Enumerates
<1>3. Moved(k) = Newest(used, k) /\ Renews(Newest(used, k), used, cache, k)
  <2>1. Renews(Newest(used, k), used, cache, k)
    BY <1>1, NewestIs DEF Known
  <2>. QED BY <1>1, <2>1 DEF Renews, Moved
<1>4. cache # {} => order # <<>> /\ Last(order) \in cache
  BY <1>1, EnumeratesEnds, EnumeratesEmpty DEF Known
<1>5. CASE \E newOrder : /\ Leave(k, NoKey, newOrder) /\ (k \in cache \/ ~Full)
                         /\ newOrder = Newest(used, k)
  <2>1. PICK newOrder : /\ Leave(k, NoKey, newOrder) /\ (k \in cache \/ ~Full)
                        /\ newOrder = Newest(used, k)
    BY <1>5
  <2>2. /\ Held' /\ Known' /\ Heaped' /\ Stamped'
        /\ order' = newOrder /\ victim' = NoKey /\ policy' = policy
    BY <1>1, <2>1, LeaveKeeps
  <2>3. used' = Newest(used, k)
    BY <1>1, <2>1, RecordedIs DEF Leave
  <2>4. Listed'
    BY <1>1, <2>1, <2>2, <2>3, KeysOnly DEF Listed, Known, Held
  <2>5. Right
    BY <1>1, <2>2, NoKeyNoKey DEF Right
  <2>. QED BY <2>2, <2>4, <2>5 DEF CacheInv
<1>6. CASE Full /\ ~TopCached /\ Raise
  <2>1. cache = {}
    BY <1>1, <1>4, <1>6 DEF TopCached
  <2>. QED BY <1>1, <1>6, <2>1, FullEmpty, RaiseKeeps
<1>7. CASE k \notin cache /\ TopCached /\ Leave(k, Last(order), Append(Front(order), k))
  <2>1. order # <<>>
    BY <1>7 DEF TopCached
  <2>2. /\ Last(order) \in cache /\ Last(order) \in Keys
        /\ Front(order) = Without(order, Last(order))
    BY <1>1, <1>7, <2>1, Ends DEF Known
  <2>3. /\ Held' /\ Known' /\ Heaped' /\ Stamped' /\ order' = Append(Front(order), k)
        /\ victim' = Last(order) /\ policy' = policy
    BY <1>1, <1>7, <2>2, LeaveKeeps
  <2>4. used' = Append(Front(order), k)
    BY <1>1, <1>7, <2>2, RecordedIs DEF Leave
  <2>5. Listed'
    BY <1>1, <2>3, <2>4, KeysOnly DEF Listed, Known, Held
  <2>6. Right
    BY <1>1, <2>3 DEF Right
  <2>. QED BY <2>3, <2>5, <2>6 DEF CacheInv
<1>8. CASE k \in cache /\ Contains(order, k) /\ Leave(k, NoKey, Updated(k))
  BY <1>3, <1>5, <1>8 DEF Updated
<1>9. CASE k \notin cache /\ ~Full /\ Leave(k, NoKey, Append(order, k))
  <2>1. Append(order, k) = Newest(used, k)
    BY <1>1, <1>3, <1>9 DEF Renews
  <2>. QED BY <1>5, <1>9, <2>1
<1>. QED BY <1>2, <1>6, <1>7, <1>8, <1>9 DEF MRUPut

-----------------------------------------------------------------------------
(* The LFU cache.                                                          *)

LEMMA SortedWithout ==
  ASSUME NEW S, NEW s, Enumerates(s, S), NEW Q, Sorted(s, Q), NEW x
  PROVE  Sorted(Without(s, x), Q)
<1>1. s \in Seq(S) /\ Len(s) \in Nat
  BY DEF Enumerates
<1>2. CASE x \notin S
  BY <1>2, EnumeratesWithout
<1>3. CASE x \in S
  <2>1. PICK p \in 1 .. Len(s) : s[p] = x
    BY <1>3 DEF Enumerates
  <2>2. PICK r : r = Cut(s, p) /\ r = Without(s, x)
    BY <2>1, EnumeratesWithout
  <2>3. Len(r) = Len(s) - 1 /\ \A i \in 1 .. Len(s) - 1 : r[i] = IF i < p THEN s[i] ELSE s[i + 1]
    BY <1>1, <2>2, CutIs
  <2>4. ASSUME NEW i \in 1 .. Len(r), NEW j \in 1 .. Len(r), i < j PROVE <<r[i], r[j]>> \in Q
    <3> DEFINE At(m) == IF m < p THEN m ELSE m + 1
    <3>1. /\ At(i) \in 1 .. Len(s) /\ At(j) \in 1 .. Len(s) /\ At(i) < At(j)
          /\ r[i] = s[At(i)] /\ r[j] = s[At(j)]
      BY <1>1, <2>3, <2>4
    <3> HIDE DEF At
    <3>. QED BY <3>1 DEF Sorted
  <2>. QED BY <2>2, <2>4 DEF Sorted
<1>. QED BY <1>2, <1>3

LEMMA SortedNewest ==
  ASSUME NEW S, NEW s, Enumerates(s, S), NEW Q, Sorted(s, Q), NEW k, NEW Q2,
         \A x, y \in S \ {k} : <<x, y>> \in Q => <<x, y>> \in Q2,
         \A x \in S \ {k} : <<x, k>> \in Q2
  PROVE  Sorted(Newest(s, k), Q2)
<1>1. PICK r, g, U : r = Without(s, k) /\ g = Append(r, k) /\ U = S \cup {k}
  OBVIOUS
<1>2. Enumerates(r, S \ {k}) /\ Sorted(r, Q)
  BY <1>1, EnumeratesWithout, SortedWithout
<1>3. r \in Seq(S \ {k}) /\ r \in Seq(U) /\ Len(r) \in Nat /\ k \in U
  BY <1>1, <1>2 DEF Enumerates
<1>4. /\ Len(g) = Len(r) + 1 /\ g[Len(r) + 1] = k
      /\ \A i \in 1 .. Len(r) : g[i] = r[i] /\ r[i] \in S \ {k}
  BY <1>1, <1>3, AppendProperties
<1>5. ASSUME NEW i \in 1 .. Len(g), NEW j \in 1 .. Len(g), i < j PROVE <<g[i], g[j]>> \in Q2
  <2>1. i \in 1 .. Len(r)
    BY <1>3, <1>4, <1>5
  <2>2. CASE j \in 1 .. Len(r)
    <3>1. <<r[i], r[j]>> \in Q
      BY <1>2, <1>5, <2>1, <2>2 DEF Sorted
    <3>. QED BY <1>4, <2>1, <2>2, <3>1
  <2>3. CASE j = Len(r) + 1
    BY <1>4, <2>1, <2>3
  <2>. QED BY <1>3, <1>4, <2>2, <2>3
<1>6. Newest(s, k) = g
  BY <1>1 DEF Newest
<1>. QED BY <1>5, <1>6 DEF Sorted

\* What the dict of the LFU cache refers to.
LEMMA LiveNodes ==
  ASSUME CacheInv, policy = "lfu"
  PROVE  /\ Known /\ Held /\ cache \in SUBSET Keys /\ NoKey \notin cache
         /\ time \in Nat /\ node \in Seq(Nodes) /\ DOMAIN node = 1 .. Len(node)
         /\ heap \in Seq(DOMAIN node) /\ current \in [Keys -> Nat] /\ Len(node) \in Nat
         /\ Ranked(node, DOMAIN node)
         /\ \A r \in DOMAIN node : node[r] \in Nodes
         /\ \A k \in cache : /\ current[k] \in DOMAIN node /\ node[current[k]].key = k
                             /\ current[k] \in ToSet(heap)
                             /\ node[current[k]].freq \in Nat \ {0}
                             /\ node[current[k]].stamp \in Nat
                             /\ node[current[k]].freq = uses[k]
                             /\ node[current[k]].stamp <= time
                             /\ node[current[k]].stamp = time => node[current[k]].freq > 1
         /\ \A j, k \in cache : current[j] = current[k] => j = k
         /\ uses \in [Keys -> Nat] /\ Sorted(used, Later)
<1>1. /\ Known /\ Held /\ cache \in SUBSET Keys /\ NoKey \notin cache
      /\ time \in Nat /\ node \in Seq(Nodes) /\ heap \in Seq(DOMAIN node)
      /\ current \in [Keys -> Nat]
      /\ \A k \in cache : /\ current[k] \in DOMAIN node /\ node[current[k]].key = k
                          /\ current[k] \in ToSet(heap)
                          /\ node[current[k]].freq = uses[k]
                          /\ node[current[k]].stamp <= time
                          /\ node[current[k]].stamp = time => node[current[k]].freq > 1
      /\ uses \in [Keys -> Nat] /\ Sorted(used, Later)
  BY NoKeyNoKey DEF CacheInv, Held, Heaped, Stamped
<1>2. DOMAIN node = 1 .. Len(node) /\ Len(node) \in Nat /\ \A r \in DOMAIN node : node[r] \in Nodes
  BY <1>1
<1>3. \A r \in DOMAIN node : node[r].freq \in Nat \ {0} /\ node[r].stamp \in Nat
  BY <1>2 DEF Nodes
<1>4. Ranked(node, DOMAIN node)
  BY <1>3 DEF Ranked
<1>5. \A j, k \in cache : current[j] = current[k] => j = k
  BY <1>1
<1>. QED BY <1>1, <1>2, <1>3, <1>4, <1>5

\* A use of a node leaves the others alone.
LEMMA TouchedIs ==
  ASSUME CacheInv, policy = "lfu", NEW k \in cache
  PROVE  /\ Touched(k) \in Seq(Nodes) /\ DOMAIN Touched(k) = DOMAIN node
         /\ Ranked(Touched(k), DOMAIN node)
         /\ Touched(k)[current[k]].key = k
         /\ Touched(k)[current[k]].freq = node[current[k]].freq + 1
         /\ Touched(k)[current[k]].stamp = time + 1
         /\ \A j \in cache \ {k} : Touched(k)[current[j]] = node[current[j]]
<1>1. PICK c, m : c = current[k] /\ m = node[c]
  OBVIOUS
<1>2. /\ c \in DOMAIN node /\ m \in Nodes /\ time \in Nat /\ node \in Seq(Nodes)
      /\ DOMAIN node = 1 .. Len(node)
      /\ \A r \in DOMAIN node : node[r] \in Nodes
      /\ m.key = k /\ \A j \in cache \ {k} : current[j] \in DOMAIN node /\ current[j] # c
  BY <1>1, LiveNodes
<1>3. PICK t : t = [m EXCEPT !.freq = m.freq + 1, !.stamp = time + 1]
  OBVIOUS
<1>4. t \in Nodes /\ t.key = k /\ t.freq = m.freq + 1 /\ t.stamp = time + 1
  <2>1. /\ m = [key |-> m.key, freq |-> m.freq, stamp |-> m.stamp]
        /\ m.key \in Keys /\ m.freq \in Nat \ {0} /\ m.stamp \in Nat
    BY <1>2 DEF Nodes
  <2>2. t = [key |-> k, freq |-> m.freq + 1, stamp |-> time + 1]
    BY <1>2, <1>3, <2>1
  <2>3. m.freq + 1 \in Nat \ {0} /\ time + 1 \in Nat
    BY <1>2, <2>1
  <2>. QED BY <1>2, <2>1, <2>2, <2>3 DEF Nodes
<1>5. Touched(k) = [node EXCEPT ![c] = t]
  BY <1>1, <1>2, <1>3 DEF Touched, Nodes
<1>6. /\ Touched(k) \in Seq(Nodes) /\ DOMAIN Touched(k) = DOMAIN node
      /\ Touched(k)[c] = t /\ \A r \in DOMAIN node \ {c} : Touched(k)[r] = node[r]
  BY <1>2, <1>4, <1>5
<1>7. \A r \in DOMAIN node : Touched(k)[r] \in Nodes
  BY <1>2, <1>4, <1>6
<1>8. Ranked(Touched(k), DOMAIN node)
  BY <1>7 DEF Ranked, Nodes
<1>. QED BY <1>1, <1>2, <1>4, <1>6, <1>8

LEMMA TouchKeeps ==
  ASSUME CacheInv, policy = "lfu", NEW k \in cache, node' = Touched(k), time' = time + 1,
         UNCHANGED <<policy, cache, current>>, used' = Newest(used, k), Counted(k, uses[k] + 1)
  PROVE  Stamped'
<1>1. PICK c : c = current[k]
  OBVIOUS
<1>2. /\ time \in Nat /\ cache \in SUBSET Keys /\ uses \in [Keys -> Nat] /\ Known
      /\ \A j \in cache : /\ node[current[j]].freq \in Nat \ {0}
                          /\ node[current[j]].stamp \in Nat
                          /\ node[current[j]].freq = uses[j]
                          /\ node[current[j]].stamp <= time
      /\ Sorted(used, Later)
  BY LiveNodes
<1>3. /\ node'[c].freq = node[c].freq + 1 /\ node'[c].stamp = time + 1
      /\ \A j \in cache \ {k} : node'[current[j]] = node[current[j]]
  BY <1>1, TouchedIs
<1>4. uses' = [uses EXCEPT ![k] = uses[k] + 1] /\ uses' \in [Keys -> Nat]
  BY <1>2 DEF Counted
<1>5. ASSUME NEW j \in cache
      PROVE  /\ node'[current[j]].freq = uses'[j]
             /\ node'[current[j]].stamp <= time'
             /\ node'[current[j]].stamp = time' => node'[current[j]].freq > 1
  <2>1. CASE j = k
    BY <1>1, <1>2, <1>3, <1>4, <2>1
  <2>2. CASE j # k
    BY <1>2, <1>3, <1>4, <2>2
  <2>. QED BY <2>1, <2>2
<1>6. Sorted(used', Later')
  <2>1. \A x, y \in cache \ {k} : <<x, y>> \in Later => <<x, y>> \in Later'
    BY <1>2, <1>3 DEF Later
  <2>2. \A x \in cache \ {k} : <<x, k>> \in Later'
    <3> SUFFICES ASSUME NEW x \in cache \ {k} PROVE <<x, k>> \in Later'
      OBVIOUS
    <3>1. node'[current[x]].stamp < node'[c].stamp
      BY <1>2, <1>3
    <3>. QED BY <1>1, <1>2, <3>1 DEF Later
  <2>3. Sorted(Newest(used, k), Later')
    BY <1>2, <2>1, <2>2, SortedNewest DEF Known
  <2>. QED BY <2>3
<1>. QED BY <1>4, <1>5, <1>6 DEF Stamped

LEMMA LFUGetKeeps ==
  ASSUME CacheInv, NEW k \in Keys, LFUGet(k)
  PROVE  CacheInv' /\ Right
<1>1. /\ policy = "lfu" /\ k \in cache
      /\ node' = Touched(k) /\ time' = time + 1 /\ heap' = Heapify(node', heap)
      /\ victim' = NoKey /\ raised' = FALSE
      /\ used' = Newest(used, k) /\ Counted(k, uses[k] + 1) /\ UNCHANGED <<inserted, written>>
      /\ UNCHANGED <<policy, capacity, cache, order, current>>
  BY DEF LFUGet, Found, Reordered
<1>2. /\ Known /\ Held /\ cache \in SUBSET Keys /\ NoKey \notin cache /\ time \in Nat
      /\ heap \in Seq(DOMAIN node) /\ current \in [Keys -> Nat]
      /\ \A j \in cache : /\ current[j] \in DOMAIN node /\ node[current[j]].key = j
                          /\ current[j] \in ToSet(heap)
  BY <1>1, LiveNodes
<1>3. /\ node' \in Seq(Nodes) /\ DOMAIN node' = DOMAIN node
      /\ Ranked(node', DOMAIN node) /\ node'[current[k]].key = k
      /\ \A j \in cache \ {k} : node'[current[j]] = node[current[j]]
  BY <1>1, TouchedIs
<1>4. heap' \in Seq(DOMAIN node) /\ ToSet(heap') = ToSet(heap) /\ IsHeap(node', heap')
  BY <1>1, <1>2, <1>3, HeapifyOrders
<1>5. Heaped'
  BY <1>1, <1>2, <1>3, <1>4 DEF Heaped
<1>6. Stamped'
  BY <1>1, TouchKeeps
<1>7. Renews(used', used, cache, k) /\ cache \cup {k} = cache
  BY <1>1, <1>2, NewestIs DEF Known
<1>8. Known'
  BY <1>1, <1>2, <1>7 DEF Known, Renews
<1>9. Held'
  BY <1>1, <1>2 DEF Held
<1>10. Listed'
  BY <1>1 DEF CacheInv, Listed
<1>11. Right
  BY <1>1, <1>2 DEF Right
<1>. QED BY <1>5, <1>6, <1>8, <1>9, <1>10, <1>11 DEF CacheInv

LEMMA LFUUpdateKeeps ==
  ASSUME CacheInv, NEW k \in Keys, policy = "lfu", LFUUpdate(k), time' = time + 1,
         raised' = FALSE, UNCHANGED <<policy, capacity, order>>
  PROVE  CacheInv' /\ Right
<1>1. /\ k \in cache /\ node' = Touched(k) /\ heap' = HeapPush(node', heap, current[k])
      /\ victim' = NoKey /\ dirty' = TRUE /\ Recorded(k, NoKey) /\ UNCHANGED <<cache, current>>
  BY DEF LFUUpdate
<1>2. /\ Known /\ Held /\ cache \in SUBSET Keys /\ NoKey \notin cache /\ time \in Nat
      /\ heap \in Seq(DOMAIN node) /\ current \in [Keys -> Nat]
      /\ \A j \in cache : /\ current[j] \in DOMAIN node /\ node[current[j]].key = j
                          /\ current[j] \in ToSet(heap)
  BY LiveNodes
<1>3. /\ node' \in Seq(Nodes) /\ DOMAIN node' = DOMAIN node /\ node'[current[k]].key = k
      /\ \A j \in cache \ {k} : node'[current[j]] = node[current[j]]
  BY <1>1, TouchedIs
<1>4. heap' \in Seq(DOMAIN node) /\ ToSet(heap') = ToSet(heap) \cup {current[k]}
  BY <1>1, <1>2, HeapPushKeeps
<1>5. Heaped'
  <2>1. ASSUME NEW j \in cache'
        PROVE  /\ current'[j] \in DOMAIN node' /\ node'[current'[j]].key = j
               /\ current'[j] \in ToSet(heap')
    <3>1. CASE j = k
      BY <1>1, <1>2, <1>3, <1>4, <3>1
    <3>2. CASE j # k
      BY <1>1, <1>2, <1>3, <1>4, <3>2
    <3>. QED BY <3>1, <3>2
  <2>2. time' \in Nat /\ current' \in [Keys -> Nat] /\ heap' \in Seq(DOMAIN node')
    BY <1>1, <1>2, <1>3, <1>4
  <2>. QED BY <1>1, <1>3, <2>1, <2>2 DEF Heaped
<1>6. cache' = (cache \ {NoKey}) \cup {k}
  BY <1>1, <1>2
<1>7. Known' /\ used' = Newest(used, k)
  BY <1>1, <1>2, <1>6, RecordedIs
<1>8. Counted(k, uses[k] + 1)
  <2>1. k # NoKey
    BY NoKeyNoKey
  <2>. QED BY <1>1, <2>1 DEF Recorded
<1>9. Stamped'
  BY <1>1, <1>7, <1>8, TouchKeeps
<1>10. Held'
  BY <1>1, <1>2 DEF Held
<1>11. Listed'
  BY <1>1 DEF CacheInv, Listed
<1>12. Right
  BY <1>1, <1>2 DEF Right
<1>. QED BY <1>5, <1>7, <1>9, <1>10, <1>11, <1>12 DEF CacheInv

\* What comes off the heap where one has to go.
LEMMA PopLiveKeeps ==
  ASSUME CacheInv, policy = "lfu", cache # {}
  PROVE  LET popped == PopLive(heap)
         IN /\ popped.key \in cache /\ popped.heap \in Seq(DOMAIN node)
            /\ \A j \in cache \ {popped.key} : current[j] \in ToSet(popped.heap)
            /\ ~dirty => /\ IsHeap(node, popped.heap)
                         /\ \A j \in cache : ~Less(node[current[j]], node[current[popped.key]])
<1> DEFINE R == DOMAIN node
           P == {g \in Seq(R) : /\ \A j \in cache : current[j] \in ToSet(g)
                                /\ ~dirty => IsHeap(node, g)}
<1>1. /\ heap \in Seq(R) /\ Ranked(node, R)
      /\ \A j \in cache : current[j] \in R /\ node[current[j]].key = j /\ current[j] \in ToSet(heap)
      /\ \A j, k \in cache : current[j] = current[k] => j = k
  BY LiveNodes
<1>2. heap \in P /\ P \subseteq Seq(R)
  BY <1>1 DEF CacheInv, Heaped
<1>3. ASSUME NEW g \in P, g # <<>>
      PROVE  /\ HeapPop(node, g) \in Seq(R)
             /\ \A r \in ToSet(g) : r # g[1] => r \in ToSet(HeapPop(node, g))
             /\ ~dirty => IsHeap(node, HeapPop(node, g))
  <2>1. g \in Seq(R) /\ (~dirty => IsHeap(node, g))
    OBVIOUS
  <2> HIDE DEF P, R
  <2>2. /\ HeapPop(node, g) \in Seq(R)
        /\ \A r \in ToSet(g) : r # g[1] => r \in ToSet(HeapPop(node, g))
    BY <1>3, <2>1, HeapPopKeeps
  <2>3. CASE ~dirty
    BY <1>1, <1>3, <2>1, <2>2, <2>3, HeapPopOrders
  <2>. QED BY <2>2, <2>3
<1>4. ASSUME NEW g \in P, g # <<>>, ~IsCurrent(g[1]) PROVE HeapPop(node, g) \in P
  <2>1. \A j \in cache : IsCurrent(current[j])
    BY <1>1 DEF IsCurrent
  <2>2. \A j \in cache : current[j] \in ToSet(HeapPop(node, g))
    BY <1>3, <1>4, <2>1
  <2>. QED BY <1>3, <1>4, <2>2
<1>5. PICK g \in P :
        /\ g = <<>> \/ IsCurrent(g[1])
        /\ PopLive(heap) = IF g = <<>> THEN [key |-> NoKey, heap |-> g]
                           ELSE [key |-> node[g[1]].key, heap |-> HeapPop(node, g)]
  <2> HIDE DEF P, R
  <2>. QED BY ONLY <1>2, <1>4, PopLiveEnds
<1>6. g # <<>>
  <2>1. PICK j \in cache : TRUE
    OBVIOUS
  <2>2. current[j] \in ToSet(g)
    OBVIOUS
  <2>. QED BY <2>2 DEF ToSet
<1>7. PICK v : v = node[g[1]].key
  OBVIOUS
<1>8. v \in cache /\ current[v] = g[1] /\ IsCurrent(g[1])
  BY <1>5, <1>6, <1>7 DEF IsCurrent
<1>9. PopLive(heap).key = v /\ PopLive(heap).heap = HeapPop(node, g)
  BY <1>5, <1>6, <1>7
<1>10. \A j \in cache \ {v} : current[j] \in ToSet(HeapPop(node, g))
  BY <1>1, <1>3, <1>6, <1>8
<1>11. ASSUME ~dirty, NEW j \in cache PROVE ~Less(node[current[j]], node[current[v]])
  <2>1. g \in Seq(R) /\ IsHeap(node, g) /\ current[j] \in ToSet(g)
    BY <1>11
  <2>2. PICK i \in 1 .. Len(g) : g[i] = current[j]
    BY <2>1 DEF ToSet
  <2> HIDE DEF R
  <2>3. ~Less(node[g[i]], node[g[1]])
    BY <1>1, <2>1, HeapTop
  <2>. QED BY <1>8, <2>2, <2>3
<1>. QED BY <1>3, <1>6, <1>8, <1>9, <1>10, <1>11

\* The key on top has been used the least.
LEMMA TopLeastUsed ==
  ASSUME CacheInv, policy = "lfu", NEW v \in cache,
         \A j \in cache : ~Less(node[current[j]], node[current[v]])
  PROVE  LeastUsed(v)
<1> SUFFICES ASSUME NEW j \in cache \ {v}
             PROVE  uses[v] < uses[j] \/ (uses[v] = uses[j] /\ UsedAfter(j, v))
  BY DEF LeastUsed
<1>1. PICK a, b : a = node[current[v]] /\ b = node[current[j]]
  OBVIOUS
<1>2. /\ a.freq \in Nat /\ b.freq \in Nat /\ a.stamp \in Nat /\ b.stamp \in Nat
      /\ a.freq = uses[v] /\ b.freq = uses[j] /\ ~Less(b, a)
      /\ Known /\ Sorted(used, Later)
  BY <1>1, LiveNodes
<1>3. a.freq < b.freq \/ (a.freq = b.freq /\ a.stamp <= b.stamp)
  BY <1>2 DEF Less
<1>4. CASE a.freq = b.freq /\ a.stamp <= b.stamp
  <2>1. <<j, v>> \notin Later
    BY <1>1, <1>2, <1>4 DEF Later
  <2>2. PICK m \in 1 .. Len(used), n \in 1 .. Len(used) : used[m] = v /\ used[n] = j
    BY <1>2 DEF Known, Enumerates
  <2>3. used \in Seq(cache)
    BY <1>2 DEF Known, Enumerates
  <2>4. m \in Nat /\ n \in Nat /\ m # n
    BY <2>2, <2>3
  <2>5. ~(n < m)
    BY <1>2, <2>1, <2>2 DEF Sorted
  <2>6. m < n
    BY <2>4, <2>5
  <2>7. DOMAIN used = 1 .. Len(used)
    BY <2>3
  <2>. QED BY <1>2, <1>4, <2>2, <2>6, <2>7 DEF UsedAfter
<1>. QED BY <1>2, <1>3, <1>4

LEMMA LFUInsertKeeps ==
  ASSUME CacheInv, NEW k \in Keys, policy = "lfu", capacity > 0, LFUInsert(k),
         time' = time + 1, raised' = FALSE, UNCHANGED <<policy, capacity, order>>
  PROVE  CacheInv' /\ Right
<1>1. PICK popped, ref, new :
        /\ popped = IF Full THEN PopLive(heap) ELSE [key |-> NoKey, heap |-> heap]
        /\ ref = Len(node) + 1
        /\ new = [key |-> k, freq |-> 1, stamp |-> time]
  OBVIOUS
<1>2. PICK v, h : v = popped.key /\ h = popped.heap
  OBVIOUS
<1>3. /\ k \notin cache /\ node' = Append(node, new)
      /\ current' = [current EXCEPT ![k] = ref]
      /\ cache' = (cache \ {v}) \cup {k} /\ heap' = HeapPush(node', h, ref)
      /\ victim' = v /\ Recorded(k, v) /\ UNCHANGED dirty
  BY <1>1, <1>2 DEF LFUInsert, Linked
<1>4. /\ Known /\ Held /\ cache \in SUBSET Keys /\ NoKey \notin cache /\ NoKey \notin Keys
      /\ time \in Nat /\ node \in Seq(Nodes) /\ DOMAIN node = 1 .. Len(node) /\ Len(node) \in Nat
      /\ heap \in Seq(DOMAIN node) /\ current \in [Keys -> Nat]
      /\ uses \in [Keys -> Nat] /\ Sorted(used, Later)
      /\ \A r \in DOMAIN node : node[r] \in Nodes
  BY LiveNodes, NoKeyNoKey
<1>5. \A j \in cache : /\ current[j] \in DOMAIN node /\ node[current[j]].key = j
                       /\ current[j] \in ToSet(heap)
                       /\ node[current[j]].freq \in Nat \ {0}
                       /\ node[current[j]].stamp \in Nat
                       /\ node[current[j]].freq = uses[j]
                       /\ node[current[j]].stamp <= time
                       /\ node[current[j]].stamp = time => node[current[j]].freq > 1
  BY LiveNodes
<1>6. /\ h \in Seq(DOMAIN node)
      /\ v \in cache \/ (v = NoKey /\ v \notin cache /\ ~Full)
      /\ \A j \in cache \ {v} : current[j] \in ToSet(h)
      /\ ~dirty => IsHeap(node, h)
      /\ ~dirty /\ v \in cache => \A j \in cache : ~Less(node[current[j]], node[current[v]])
  <2>1. CASE Full
    <3>1. cache # {}
      BY <1>4, <2>1, FullEmpty DEF Held
    <3>2. popped = PopLive(heap)
      BY <1>1, <2>1
    <3>. QED BY <1>2, <3>1, <3>2, PopLiveKeeps
  <2>2. CASE ~Full
    <3>1. v = NoKey /\ h = heap
      BY <1>1, <1>2, <2>2
    <3>2. ~dirty => IsHeap(node, heap)
      BY DEF CacheInv, Heaped
    <3>. QED BY <1>4, <1>5, <2>2, <3>1, <3>2
  <2>. QED BY <2>1, <2>2
<1>7. /\ node' \in Seq(Nodes) /\ DOMAIN node' = DOMAIN node \cup {ref}
      /\ node'[ref] = new /\ \A r \in DOMAIN node : node'[r] = node[r]
      /\ ref \in Nat /\ ref \notin DOMAIN node
  <2>1. new \in Nodes
    BY <1>1, <1>4 DEF Nodes
  <2>2. /\ node' \in Seq(Nodes) /\ Len(node') = Len(node) + 1 /\ node'[Len(node) + 1] = new
        /\ \A r \in 1 .. Len(node) : node'[r] = node[r]
    BY <1>3, <1>4, <2>1, AppendProperties
  <2>3. DOMAIN node' = 1 .. Len(node) + 1
    BY <2>2
  <2>4. ref \in Nat /\ ref \notin 1 .. Len(node)
        /\ 1 .. Len(node) + 1 = (1 .. Len(node)) \cup {ref}
    BY <1>1, <1>4
  <2>. QED BY <1>1, <1>4, <2>2, <2>3, <2>4
<1>8. h \in Seq(DOMAIN node') /\ ref \in DOMAIN node'
  BY <1>6, <1>7
<1>9. heap' \in Seq(DOMAIN node') /\ ToSet(heap') = ToSet(h) \cup {ref}
  BY <1>3, <1>8, HeapPushKeeps
<1>10. ~dirty => IsHeap(node', heap')
  <2>1. CASE ~dirty
    <3>1. \A i \in 1 .. Len(h) : h[i] \in DOMAIN node
      BY <1>6
    <3>2. \A i \in 2 .. Len(h) : i \in 1 .. Len(h) /\ i \div 2 \in 1 .. Len(h)
      <4> SUFFICES ASSUME NEW i \in 2 .. Len(h) PROVE i \in 1 .. Len(h) /\ i \div 2 \in 1 .. Len(h)
        OBVIOUS
      <4>1. Len(h) \in Nat
        BY <1>6
      <4>2. i \in Nat /\ i \div 2 \in Nat /\ i \div 2 > 0 /\ i \div 2 <= i
        BY <4>1, Halves
      <4>. QED BY <4>1, <4>2
    <3>3. IsHeap(node', h)
      BY <1>6, <1>7, <2>1, <3>1, <3>2 DEF IsHeap
    <3>4. Ranked(node', DOMAIN node')
      <4>1. \A r \in DOMAIN node' : node'[r] \in Nodes
        <5>1. node'[ref] \in Nodes
          BY <1>1, <1>4, <1>7 DEF Nodes
        <5>. QED BY <1>4, <1>7, <5>1
      <4>. QED BY <4>1 DEF Ranked, Nodes
    <3>. QED BY <1>3, <1>8, <3>3, <3>4, HeapPushOrders
  <2>. QED BY <2>1
<1>11. /\ current' \in [Keys -> Nat] /\ current'[k] = ref
       /\ \A j \in cache : j # k /\ current'[j] = current[j] /\ node'[current'[j]] = node[current[j]]
  BY <1>3, <1>4, <1>5, <1>7
<1>12. Heaped'
  <2>1. ASSUME NEW j \in cache'
        PROVE  /\ current'[j] \in DOMAIN node' /\ node'[current'[j]].key = j
               /\ current'[j] \in ToSet(heap')
    <3>1. CASE j = k
      BY <1>1, <1>7, <1>9, <1>11, <3>1
    <3>2. CASE j # k
      <4>1. j \in cache \ {v}
        BY <1>3, <3>2
      <4>. QED BY <1>5, <1>6, <1>7, <1>9, <1>11, <4>1
    <3>. QED BY <3>1, <3>2
  <2>2. time' \in Nat
    BY <1>4
  <2>. QED BY <1>3, <1>7, <1>9, <1>10, <1>11, <2>1, <2>2 DEF Heaped
<1>13. Known' /\ used' = Newest(Without(used, v), k)
  BY <1>3, <1>4, RecordedIs
<1>14. uses' = [uses EXCEPT ![k] = 1]
  BY <1>3 DEF Recorded, Counted
<1>15. Stamped'
  <2>1. ASSUME NEW j \in cache'
        PROVE  /\ node'[current'[j]].freq = uses'[j]
               /\ node'[current'[j]].stamp <= time'
               /\ node'[current'[j]].stamp = time' => node'[current'[j]].freq > 1
    <3>1. CASE j = k
      BY <1>1, <1>4, <1>7, <1>11, <1>14, <3>1
    <3>2. CASE j # k
      <4>1. j \in cache
        BY <1>3, <3>2
      <4>2. uses'[j] = uses[j]
        BY <1>4, <1>14, <3>2, <4>1
      <4>. QED BY <1>4, <1>5, <1>11, <4>1, <4>2
    <3>. QED BY <3>1, <3>2
  <2>2. Sorted(used', Later')
    <3>1. PICK left, S : left = Without(used, v) /\ S = cache \ {v}
      OBVIOUS
    <3>2. Enumerates(left, S) /\ Sorted(left, Later)
      BY <1>4, <3>1, EnumeratesWithout, SortedWithout DEF Known
    <3>3. \A x, y \in S \ {k} : <<x, y>> \in Later => <<x, y>> \in Later'
      BY <1>4, <1>11, <3>1 DEF Later
    <3>4. \A x \in S \ {k} : <<x, k>> \in Later'
      <4> SUFFICES ASSUME NEW x \in S \ {k} PROVE <<x, k>> \in Later'
        OBVIOUS
      <4>1. PICK m, n : m = node'[current'[x]] /\ n = node'[current'[k]]
        OBVIOUS
      <4>2. x \in cache /\ x \in Keys
        BY <1>4, <3>1
      <4>3. n.stamp = time /\ n.freq = 1
        BY <1>1, <1>7, <1>11, <4>1
      <4>4. m.stamp \in Nat /\ m.stamp <= time /\ (m.stamp = time => m.freq > 1)
        BY <1>5, <1>11, <4>1, <4>2
      <4>5. m.stamp < n.stamp \/ (m.stamp = n.stamp /\ m.freq > 1 /\ n.freq = 1)
        BY <1>4, <4>3, <4>4
      <4>. QED BY <4>1, <4>2, <4>5 DEF Later
    <3>5. Sorted(Newest(left, k), Later')
      BY <3>2, <3>3, <3>4, SortedNewest
    <3>. QED BY <1>13, <3>1, <3>5
  <2>3. uses' \in [Keys -> Nat]
    BY <1>4, <1>14
  <2>. QED BY <2>1, <2>2, <2>3 DEF Stamped
<1>16. Cardinality(cache') <= capacity
  BY <1>3, <1>4, <1>6, Fits
<1>17. Held'
  BY <1>3, <1>4, <1>6, <1>16 DEF Held
<1>18. Listed'
  BY DEF CacheInv, Listed
<1>19. Right
  <2>1. v \in cache /\ ~dirty => LeastUsed(v)
    BY <1>6, TopLeastUsed
  <2>. QED BY <1>3, <2>1 DEF Right
<1>. QED BY <1>12, <1>13, <1>15, <1>17, <1>18, <1>19 DEF CacheInv

-----------------------------------------------------------------------------
(* The theorems.                                                           *)

LEMMA InitKeeps == Init => CacheInv
<1> SUFFICES ASSUME Init PROVE CacheInv
  OBVIOUS
<1>1. capacity \in Nat /\ policy \in Policies /\ capacity \in Capacities
  BY LocalAssumption DEF Init
<1>2. Held
  BY <1>1, FS_EmptySet DEF Init, Held
<1>3. Known
  BY EnumeratesNone DEF Init, Known
<1>4. Listed
  BY DEF Init, Listed
<1>5. Heaped
  BY DEF Init, Heaped, IsHeap
<1>6. Stamped
  BY DEF Init, Stamped, Sorted
<1>. QED BY <1>2, <1>3, <1>4, <1>5, <1>6 DEF CacheInv

LEMMA NextKeeps == CacheInv /\ [Next]_vars => CacheInv' /\ [Right]_vars
<1> SUFFICES ASSUME CacheInv, [Next]_vars PROVE CacheInv' /\ [Right]_vars
  OBVIOUS
<1>1. ASSUME NEW k \in Keys, Put(k) \/ Get(k) \/ FIFODelete(k) PROVE CacheInv' /\ Right
  <2>1. CASE FIFOPut(k)
    BY <2>1, FIFOPutKeeps
  <2>2. CASE LIFOPut(k)
    BY <2>2, LIFOPutKeeps
  <2>3. CASE LRUPut(k)
    BY <2>3, LRUPutKeeps
  <2>4. CASE MRUPut(k)
    BY <2>4, MRUPutKeeps
  <2>5. CASE LFUPut(k)
    <3>1. /\ policy = "lfu" /\ capacity > 0
          /\ LFUUpdate(k) \/ LFUInsert(k)
          /\ time' = time + 1 /\ raised' = FALSE /\ UNCHANGED <<policy, capacity, order>>
      BY <2>5 DEF LFUPut
    <3>. QED BY <3>1, LFUUpdateKeeps, LFUInsertKeeps
  <2>6. CASE MoveToEnd(k)
    BY <2>6, MoveToEndKeeps
  <2>7. CASE LFUGet(k)
    BY <2>7, LFUGetKeeps
  <2>8. CASE FIFODelete(k)
    BY <2>8, FIFODeleteKeeps
  <2>. QED BY <1>1, <2>1, <2>2, <2>3, <2>4, <2>5, <2>6, <2>7, <2>8 DEF Put, Get
<1>2. CASE UNCHANGED vars
  <2>1. /\ UNCHANGED <<policy, capacity, cache, order, heap, node, current, time, victim, raised>>
        /\ UNCHANGED <<dirty, inserted, written, used, uses>>
    BY <1>2 DEF vars, codeVars, history
  <2>2. Held' /\ Known' /\ Listed' /\ Heaped'
    BY <2>1 DEF CacheInv, Held, Known, Listed, Heaped
  <2>3. Stamped'
    <3>1. Later' = Later
      BY <2>1 DEF Later
    <3>. QED BY <2>1, <3>1 DEF CacheInv, Stamped, Sorted
  <2>. QED BY <1>2, <2>2, <2>3 DEF CacheInv
<1>. QED BY <1>1, <1>2 DEF Next

LEMMA Inductive == Spec => []CacheInv
<1>1. CacheInv /\ [Next]_vars => CacheInv'
  BY NextKeeps
<1>. QED BY <1>1, InitKeeps, PTL DEF Spec

\* The five caches keep to the types of their dicts and orders.
THEOREM CacheTyped == Spec => []TypeOK
<1>1. CacheInv => TypeOK
  <2> SUFFICES ASSUME CacheInv PROVE TypeOK
    OBVIOUS
  <2>1. ToSet(inserted) = cache /\ ToSet(written) = cache /\ ToSet(used) = cache
    BY EnumeratesCounts DEF CacheInv, Known
  <2>2. \A i \in DOMAIN order : order[i] \in Keys
    BY DEF CacheInv, Listed
  <2>3. \A i \in DOMAIN heap : heap[i] \in DOMAIN node
    <3>1. heap \in Seq(DOMAIN node)
      BY DEF CacheInv, Heaped
    <3>. QED BY <3>1
  <2>. QED BY <2>1, <2>2, <2>3 DEF CacheInv, Held, Heaped, TypeOK
<1>. QED BY <1>1, Inductive, PTL

\* However puts, gets and deletes follow each other, no cache holds more than its
\* capacity, and the order of each keeps step with its dict: no key is left in a queue,
\* a list, a stack or a heap alone, or in the dict alone.
THEOREM OrdersInStep == Spec => []InStep
<1>1. CacheInv => InStep
  <2> SUFFICES ASSUME CacheInv PROVE InStep
    OBVIOUS
  <2>1. /\ Cardinality(cache) = Len(inserted) /\ ToSet(inserted) = cache
        /\ Cardinality(cache) = Len(used) /\ ToSet(used) = cache
    BY EnumeratesCounts DEF CacheInv, Known
  <2>2. cache # {} => Last(written) \in cache
    BY EnumeratesEnds, EnumeratesEmpty DEF CacheInv, Known
  <2>3. policy = "lfu" =>
          \A k \in cache : Contains(heap, current[k]) /\ node[current[k]].key = k
    <3>1. heap \in Seq(DOMAIN node)
      BY DEF CacheInv, Heaped
    <3>2. DOMAIN heap = 1 .. Len(heap)
      BY <3>1
    <3>. QED BY <3>2 DEF CacheInv, Heaped, Contains, ToSet
  <2>. QED BY <2>1, <2>2, <2>3 DEF CacheInv, Held, Listed, InStep
<1>. QED BY <1>1, Inductive, PTL

\* While no node has changed in place, no entry of the LFU cache's heap is smaller than
\* its parent, whatever was pushed, popped and evicted.
THEOREM HeapInOrder == Spec => []HeapOrdered
<1>1. CacheInv => HeapOrdered
  BY DEF CacheInv, Heaped, HeapOrdered
<1>. QED BY <1>1, Inductive, PTL

\* A cache that may hold a key never pops an empty list, and never looks in vain for a
\* key in an order or a dict.
THEOREM RaisesNever == Spec => []RaisesOnlyAtZero
<1>1. CacheInv => RaisesOnlyAtZero
  BY DEF CacheInv, Held, RaisesOnlyAtZero
<1>. QED BY <1>1, Inductive, PTL

\* Each cache evicts the key it is named for, the LFU cache while no node has changed in
\* place.
THEOREM EvictsTheRight == Spec => RightVictim
<1>1. CacheInv /\ [Next]_vars => [Right]_vars
  BY NextKeeps
<1>. QED BY <1>1, Inductive, PTL DEF Spec, RightVictim, Right
=============================================================================
