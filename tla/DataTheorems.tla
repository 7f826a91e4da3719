---------------------------- MODULE DataTheorems ---------------------------
(***************************************************************************)
(* What the proofs need to know of data: induction on the natural numbers  *)
(* and on a finite set, for a property given as the set of what has it;    *)
(* that a recursion over 0 .. n has a solution, on which a recursive       *)
(* definition, which CHOOSEs one, depends; and the sum of a function over  *)
(* a finite set, MapThenSumSet.                                            *)
(*                                                                         *)
(* MapThenSumSet is a fold, whose definition picks its elements in an      *)
(* order of its own.  That the order makes no difference is shown through  *)
(* a function of all subsets that may take out any element first: one      *)
(* exists, it satisfies the fold's equation, and nothing else does.        *)
(***************************************************************************)
EXTENDS Lists, SequencesExt, FiniteSetsExt, FiniteSetTheorems, FunctionTheorems,
        SequenceTheorems, WellFoundedInduction, TLAPS

\* Every set of natural numbers that is not empty has a smallest one.
LEMMA Smallest ==
  ASSUME NEW T, T \subseteq Nat, T # {}
  PROVE  \E m \in T : \A n \in T : m <= n
<1> DEFINE R == OpToRel(<, Nat)
<1>1. IsWellFoundedOn(R, Nat)
  BY NatLessThanWellFounded
<1>2. \A m, n \in Nat : n < m => <<n, m>> \in R
  BY DEF OpToRel
<1> HIDE DEF R
<1>3. PICK m \in T : \A n \in T : <<n, m>> \notin R
  BY <1>1, WFMin
<1>4. ASSUME NEW n \in T PROVE m <= n
  <2>1. m \in Nat /\ n \in Nat
    OBVIOUS
  <2>2. ~(n < m)
    BY <1>2, <1>3, <2>1
  <2>. QED BY <2>1, <2>2
<1>. QED BY <1>4

\* A set of natural numbers with 0 and the successor of each has them all.
LEMMA EveryNatural ==
  ASSUME NEW T, T \subseteq Nat, 0 \in T, \A n \in T : n + 1 \in T
  PROVE  \A n \in Nat : n \in T
<1> SUFFICES ASSUME Nat \ T # {} PROVE FALSE
  OBVIOUS
<1>1. PICK m \in Nat \ T : \A n \in Nat \ T : m <= n
  BY Smallest
<1>2. m # 0 /\ m - 1 \in Nat /\ m - 1 \in T
  BY <1>1
<1>. QED BY <1>1, <1>2

\* A property of the empty set that an element more does not cost holds of every
\* finite set.
LEMMA EveryFinite ==
  ASSUME NEW S, IsFiniteSet(S), NEW P, {} \in P,
         \A s \in P \cap SUBSET S : \A x \in S \ s : s \cup {x} \in P
  PROVE  S \in P
<1> DEFINE T == {n \in Nat : \A s \in SUBSET S : Cardinality(s) = n => s \in P}
<1>1. \A s \in SUBSET S : IsFiniteSet(s) /\ Cardinality(s) \in Nat
  BY FS_Subset, FS_CardinalityType
<1>2. 0 \in T
  BY <1>1, FS_EmptySet
<1>3. ASSUME NEW n \in T PROVE n + 1 \in T
  <2>1. ASSUME NEW s \in SUBSET S, Cardinality(s) = n + 1 PROVE s \in P
    <3>1. PICK x \in s : TRUE
      BY <1>1, <2>1, FS_EmptySet
    <3>2. Cardinality(s \ {x}) = Cardinality(s) - 1 /\ s \ {x} \in SUBSET S
      BY <1>1, FS_RemoveElement
    <3>3. s \ {x} \in P /\ x \in S \ (s \ {x}) /\ s = (s \ {x}) \cup {x}
      BY <2>1, <3>2
    <3>. QED BY <3>2, <3>3
  <2>. QED BY <2>1
<1>4. \A n \in Nat : n \in T
  <2> HIDE DEF T
  <2>. QED BY <1>2, <1>3, EveryNatural DEF T
<1>. QED BY <1>1, <1>4

\* A function of 0 .. m given by its first value and, for each next one, a function of
\* the one before.
Recurs(f, m, V, b, G) ==
  /\ f \in [0 .. m -> V]
  /\ f[0] = b
  /\ \A i \in 1 .. m : f[i] = G[i][f[i - 1]]

LEMMA RecursionExists ==
  ASSUME NEW n \in Nat, NEW V, NEW b \in V, NEW G, \A m \in 1 .. n : G[m] \in [V -> V]
  PROVE  \E f : Recurs(f, n, V, b, G)
<1> DEFINE T == {m \in Nat : m <= n => \E f : Recurs(f, m, V, b, G)}
<1>1. 0 \in T
  <2>1. Recurs([i \in 0 .. 0 |-> b], 0, V, b, G)
    BY DEF Recurs
  <2>. QED BY <2>1
<1>2. ASSUME NEW m \in T PROVE m + 1 \in T
  <2>1. CASE m + 1 <= n
    <3>1. PICK f : Recurs(f, m, V, b, G)
      BY <2>1
    <3> DEFINE g == [i \in 0 .. m + 1 |-> IF i = m + 1 THEN G[m + 1][f[m]] ELSE f[i]]
    <3>2. f[m] \in V /\ G[m + 1] \in [V -> V]
      BY <2>1, <3>1 DEF Recurs
    <3>3. g \in [0 .. m + 1 -> V] /\ g[0] = b
      BY <3>1, <3>2 DEF Recurs
    <3>4. g[m + 1] = G[m + 1][f[m]] /\ \A i \in 0 .. m : g[i] = f[i]
      OBVIOUS
    <3> HIDE DEF g
    <3>5. ASSUME NEW i \in 1 .. m + 1 PROVE g[i] = G[i][g[i - 1]]
      <4>1. CASE i = m + 1
        BY <3>4, <4>1
      <4>2. CASE i # m + 1
        BY <3>1, <3>4, <4>2 DEF Recurs
      <4>. QED BY <4>1, <4>2
    <3>6. Recurs(g, m + 1, V, b, G)
      BY <3>3, <3>5 DEF Recurs
    <3>. QED BY <3>6
  <2>. QED BY <2>1
<1>3. \A m \in Nat : m \in T
  <2> HIDE DEF T
  <2>. QED BY <1>1, <1>2, EveryNatural DEF T
<1>. QED BY <1>3

-----------------------------------------------------------------------------
(* Sums.                                                                   *)

Total(f, S) == MapThenSumSet(LAMBDA x : f[x], S)

\* What any order of summation has in common.
Additive(h, f, S) ==
  /\ h \in [SUBSET S -> Int]
  /\ h[{}] = 0
  /\ \A s \in SUBSET S : \A x \in s : h[s] = f[x] + h[s \ {x}]

Picked(s) == CHOOSE x \in s : TRUE

\* The equation of the fold.
FoldEquation(g, f, S) ==
  g = [s \in SUBSET S |-> IF s = {} THEN 0 ELSE f[Picked(s)] + g[s \ {Picked(s)}]]

LEMMA TotalFold ==
  ASSUME NEW f, NEW S
  PROVE  Total(f, S) = (CHOOSE g : FoldEquation(g, f, S))[S]
BY DEF Total, MapThenSumSet, MapThenFoldSet, FoldEquation, Picked

LEMMA AdditiveExists ==
  ASSUME NEW S, IsFiniteSet(S), NEW f, \A x \in S : f[x] \in Int
  PROVE  \E h : Additive(h, f, S)
<1> DEFINE P == {s \in SUBSET S : \E h : Additive(h, f, s)}
<1>1. {} \in P
  <2>1. Additive([s \in SUBSET {} |-> 0], f, {})
    BY DEF Additive
  <2>. QED BY <2>1
<1>2. ASSUME NEW s \in P, NEW y \in S \ s PROVE s \cup {y} \in P
  <2>1. PICK h : Additive(h, f, s)
    OBVIOUS
  <2>0. \A u \in SUBSET s : \A x \in u : h[u] = f[x] + h[u \ {x}]
    BY <2>1 DEF Additive
  <2> DEFINE k == [u \in SUBSET (s \cup {y}) |-> IF y \in u THEN f[y] + h[u \ {y}] ELSE h[u]]
  <2>2. \A u \in SUBSET (s \cup {y}) : u \ {y} \in SUBSET s /\ h[u \ {y}] \in Int
    BY <2>1 DEF Additive
  <2>3. k \in [SUBSET (s \cup {y}) -> Int]
    <3>1. \A u \in SUBSET (s \cup {y}) : y \notin u => u = u \ {y}
      OBVIOUS
    <3>2. f[y] \in Int
      OBVIOUS
    <3>3. \A u \in SUBSET (s \cup {y}) : (IF y \in u THEN f[y] + h[u \ {y}] ELSE h[u]) \in Int
      BY <2>2, <3>1, <3>2
    <3>. QED BY <3>3
  <2>4. k[{}] = 0
    BY <2>1 DEF Additive
  <2>5. ASSUME NEW u \in SUBSET (s \cup {y}), NEW x \in u
        PROVE  k[u] = f[x] + k[u \ {x}]
    <3>1. u \ {x} \in SUBSET (s \cup {y})
      OBVIOUS
    <3>2. CASE x = y
      BY <3>1, <3>2
    <3>3. CASE x # y /\ y \notin u
      <4>1. u \in SUBSET s /\ y \notin u \ {x}
        BY <3>3
      <4>2. h[u] = f[x] + h[u \ {x}]
        BY <2>1, <4>1 DEF Additive
      <4>. QED BY <3>1, <3>3, <4>1, <4>2
    <3>4. CASE x # y /\ y \in u
      <4>1. u \ {y} \in SUBSET s /\ x \in u \ {y} /\ y \in u \ {x}
            /\ (u \ {y}) \ {x} = (u \ {x}) \ {y}
        BY <3>4
      <4>2. h[u \ {y}] = f[x] + h[(u \ {x}) \ {y}]
        BY <2>0, <4>1
      <4>3. h[(u \ {x}) \ {y}] \in Int /\ f[x] \in Int /\ f[y] \in Int
        BY <2>2, <3>1
      <4>4. k[u] = f[y] + h[u \ {y}] /\ k[u \ {x}] = f[y] + h[(u \ {x}) \ {y}]
        BY <3>1, <3>4, <4>1
      <4>. QED BY <4>2, <4>3, <4>4
    <3>. QED BY <3>2, <3>3, <3>4
  <2> HIDE DEF k
  <2>6. Additive(k, f, s \cup {y})
    BY <2>3, <2>4, <2>5 DEF Additive
  <2>. QED BY <2>6
<1>3. S \in P
  <2> HIDE DEF P
  <2>. QED BY <1>1, <1>2, EveryFinite
<1>. QED BY <1>3

\* It satisfies the equation of the fold, and whatever does agrees with it.
LEMMA AdditiveFolds ==
  ASSUME NEW S, NEW f, NEW h, Additive(h, f, S)
  PROVE  FoldEquation(h, f, S)
<1>1. \A s \in SUBSET S : s # {} => Picked(s) \in s
  BY DEF Picked
<1>2. \A s \in SUBSET S : h[s] = IF s = {} THEN 0 ELSE f[Picked(s)] + h[s \ {Picked(s)}]
  BY <1>1 DEF Additive
<1>3. h = [s \in SUBSET S |-> h[s]]
  BY DEF Additive
<1>. QED BY <1>2, <1>3 DEF FoldEquation

LEMMA FoldsUnique ==
  ASSUME NEW S, IsFiniteSet(S), NEW f, NEW h, Additive(h, f, S), NEW g, FoldEquation(g, f, S)
  PROVE  g[S] = h[S]
<1> DEFINE T == {n \in Nat : \A s \in SUBSET S : Cardinality(s) = n => g[s] = h[s]}
<1>1. \A s \in SUBSET S : IsFiniteSet(s) /\ Cardinality(s) \in Nat
  BY FS_Subset, FS_CardinalityType
<1>2. \A s \in SUBSET S :
        /\ g[s] = IF s = {} THEN 0 ELSE f[Picked(s)] + g[s \ {Picked(s)}]
        /\ h[s] = IF s = {} THEN 0 ELSE f[Picked(s)] + h[s \ {Picked(s)}]
  <2>1. \A k : FoldEquation(k, f, S) => \A s \in SUBSET S :
          k[s] = IF s = {} THEN 0 ELSE f[Picked(s)] + k[s \ {Picked(s)}]
    BY DEF FoldEquation
  <2>. QED BY <2>1, AdditiveFolds
<1>3. 0 \in T
  BY <1>1, <1>2, FS_EmptySet
<1>4. ASSUME NEW n \in T PROVE n + 1 \in T
  <2>1. ASSUME NEW s \in SUBSET S, Cardinality(s) = n + 1 PROVE g[s] = h[s]
    <3>1. s # {} /\ Picked(s) \in s
      BY <1>1, <2>1, FS_EmptySet DEF Picked
    <3>2. Cardinality(s \ {Picked(s)}) = Cardinality(s) - 1 /\ s \ {Picked(s)} \in SUBSET S
      BY <1>1, <3>1, FS_RemoveElement
    <3>3. g[s \ {Picked(s)}] = h[s \ {Picked(s)}]
      BY <2>1, <3>2
    <3>. QED BY <1>2, <3>1, <3>3
  <2>. QED BY <2>1
<1>5. \A n \in Nat : n \in T
  <2> HIDE DEF T
  <2>. QED BY <1>3, <1>4, EveryNatural DEF T
<1>. QED BY <1>1, <1>5

\* The sum over any subset is what an additive function says it is.
LEMMA TotalAdditive ==
  ASSUME NEW S, IsFiniteSet(S), NEW f, NEW h, Additive(h, f, S), NEW s \in SUBSET S
  PROVE  Total(f, s) = h[s]
<1> DEFINE k == [u \in SUBSET s |-> h[u]]
<1>1. IsFiniteSet(s)
  BY FS_Subset
<1>2. Additive(k, f, s)
  BY DEF Additive
<1>3. k[s] = h[s]
  OBVIOUS
<1> HIDE DEF k
<1>4. FoldEquation(k, f, s)
  BY <1>2, AdditiveFolds
<1>5. FoldEquation(CHOOSE g : FoldEquation(g, f, s), f, s)
  BY <1>4
<1>6. (CHOOSE g : FoldEquation(g, f, s))[s] = k[s]
  BY <1>1, <1>2, <1>5, FoldsUnique
<1>. QED BY <1>3, <1>6, TotalFold

LEMMA TotalEmpty ==
  ASSUME NEW f
  PROVE  Total(f, {}) = 0
<1> DEFINE h == [s \in SUBSET {} |-> 0]
<1>1. Additive(h, f, {}) /\ h[{}] = 0 /\ {} \in SUBSET {}
  BY DEF Additive
<1> HIDE DEF h
<1>. QED BY <1>1, FS_EmptySet, TotalAdditive

\* Zeros add up to nothing.
LEMMA TotalZero ==
  ASSUME NEW S, IsFiniteSet(S), NEW f, \A x \in S : f[x] = 0
  PROVE  Total(f, S) = 0
<1> DEFINE h == [s \in SUBSET S |-> 0]
<1>1. Additive(h, f, S) /\ h[S] = 0
  BY DEF Additive
<1> HIDE DEF h
<1>. QED BY <1>1, TotalAdditive

\* Any element may be added last.
LEMMA TotalRemove ==
  ASSUME NEW S, IsFiniteSet(S), NEW f, \A x \in S : f[x] \in Int
  PROVE  /\ Total(f, S) \in Int
         /\ \A x \in S : Total(f, S) = f[x] + Total(f, S \ {x})
<1>1. PICK h : Additive(h, f, S)
  BY AdditiveExists
<1>2. \A s \in SUBSET S : Total(f, s) = h[s]
  BY <1>1, TotalAdditive
<1>. QED BY <1>1, <1>2 DEF Additive

\* The sum depends on the values it adds only.
LEMMA TotalSame ==
  ASSUME NEW S, IsFiniteSet(S), NEW f, NEW g, \A x \in S : f[x] \in Int /\ f[x] = g[x]
  PROVE  Total(f, S) = Total(g, S)
<1>1. PICK h : Additive(h, f, S)
  BY AdditiveExists
<1>2. Additive(h, g, S)
  BY <1>1 DEF Additive
<1>. QED BY <1>1, <1>2, TotalAdditive

\* A value that is changed by d changes the sum by d.
LEMMA TotalExcept ==
  ASSUME NEW S, IsFiniteSet(S), NEW f, \A x \in S : f[x] \in Int, NEW y \in S,
         NEW g, NEW d \in Int, g[y] = f[y] + d, \A x \in S \ {y} : g[x] = f[x]
  PROVE  Total(g, S) = Total(f, S) + d
<1>1. \A x \in S : g[x] \in Int
  OBVIOUS
<1>2. /\ Total(f, S) = f[y] + Total(f, S \ {y})
      /\ Total(g, S) = g[y] + Total(g, S \ {y})
  BY <1>1, TotalRemove
<1>3. IsFiniteSet(S \ {y})
  BY FS_RemoveElement
<1>4. Total(f, S \ {y}) = Total(g, S \ {y}) /\ Total(f, S \ {y}) \in Int
  BY <1>3, TotalSame, TotalRemove
<1>. QED BY <1>2, <1>4

\* The sum of the first m values of a function of 0, 1, ...
Prefix(f, m) == Total(f, 0 .. m - 1)

LEMMA PrefixSum ==
  ASSUME NEW n \in Nat, NEW f, \A i \in 0 .. n - 1 : f[i] \in Nat
  PROVE  /\ Prefix(f, 0) = 0
         /\ \A m \in 0 .. n : Prefix(f, m) \in Nat
         /\ \A m \in 0 .. n - 1 : Prefix(f, m + 1) = Prefix(f, m) + f[m]
<1>1. Total(f, 0 .. 0 - 1) = 0
  BY TotalEmpty
<1>2. ASSUME NEW m \in 0 .. n - 1
      PROVE  /\ Total(f, 0 .. (m + 1) - 1) = Total(f, 0 .. m - 1) + f[m]
             /\ Total(f, 0 .. m - 1) \in Int
  <2>0. m \in Int /\ m - 1 \in Int
    OBVIOUS
  <2>1. /\ IsFiniteSet(0 .. m) /\ IsFiniteSet(0 .. m - 1)
        /\ m \in 0 .. m /\ (0 .. m) \ {m} = 0 .. m - 1 /\ (m + 1) - 1 = m
    <3>1. m \in 0 .. m /\ (0 .. m) \ {m} = 0 .. m - 1 /\ (m + 1) - 1 = m
      OBVIOUS
    <3>. QED BY <2>0, <3>1, FS_Interval
  <2>2. /\ \A i \in 0 .. m : f[i] \in Int
        /\ \A i \in 0 .. m - 1 : f[i] \in Int
    OBVIOUS
  <2>3. Total(f, 0 .. m) = f[m] + Total(f, 0 .. m - 1)
    BY <2>1, <2>2, TotalRemove
  <2>4. Total(f, 0 .. m - 1) \in Int
    BY <2>1, <2>2, TotalRemove
  <2>. QED BY <2>1, <2>2, <2>3, <2>4
<1>3. \A m \in 0 .. n : Total(f, 0 .. m - 1) \in Nat
  <2> DEFINE T == {m \in Nat : m <= n => Total(f, 0 .. m - 1) \in Nat}
  <2>1. 0 \in T
    BY <1>1
  <2>2. ASSUME NEW m \in T PROVE m + 1 \in T
    <3>1. CASE m + 1 <= n
      <4>1. m \in 0 .. n - 1 /\ f[m] \in Nat /\ Total(f, 0 .. m - 1) \in Nat
        BY <3>1
      <4>. QED BY <1>2, <4>1
    <3>. QED BY <3>1
  <2>3. \A m \in Nat : m \in T
    <3> HIDE DEF T
    <3>. QED BY <2>1, <2>2, EveryNatural DEF T
  <2>. QED BY <2>3
<1>. QED BY <1>1, <1>2, <1>3 DEF Prefix

\* Values that all move up by one, behind a zero, have the sum they had.
LEMMA PrefixShift ==
  ASSUME NEW n \in Nat, NEW f, \A i \in 0 .. n - 1 : f[i] \in Nat,
         NEW g, g = [i \in 0 .. n - 1 |-> IF i = 0 THEN 0 ELSE f[i - 1]]
  PROVE  \A m \in 1 .. n : Prefix(g, m) = Prefix(f, m - 1)
<1> DEFINE T == {m \in Nat : m < n => Total(g, 0 .. (m + 1) - 1) = Total(f, 0 .. m - 1)}
<1>1. \A i \in 0 .. n - 1 : g[i] \in Nat
  OBVIOUS
<1>2. 0 \in T
  <2>1. CASE 0 < n
    <3>1. 0 \in 0 .. n - 1 /\ 0 .. 0 - 1 = {} /\ g[0] = 0
      BY <2>1
    <3>2. Total(g, 0 .. (0 + 1) - 1) = Total(g, 0 .. 0 - 1) + g[0]
      BY ONLY n \in Nat, <1>1, <3>1, PrefixSum DEF Prefix
    <3>. QED BY <3>1, <3>2, TotalEmpty
  <2>. QED BY <2>1
<1>3. ASSUME NEW m \in T PROVE m + 1 \in T
  <2>1. CASE m + 1 < n
    <3>1. /\ m \in 0 .. n - 1 /\ m + 1 \in 0 .. n - 1
          /\ g[m + 1] = f[m] /\ (m + 1) - 1 = m /\ ((m + 1) + 1) - 1 = m + 1
      BY <2>1
    <3>2. Total(g, 0 .. ((m + 1) + 1) - 1) = Total(g, 0 .. (m + 1) - 1) + g[m + 1]
      BY <1>1, <3>1, PrefixSum DEF Prefix
    <3>3. Total(f, 0 .. (m + 1) - 1) = Total(f, 0 .. m - 1) + f[m]
      BY <3>1, PrefixSum DEF Prefix
    <3>4. Total(g, 0 .. (m + 1) - 1) = Total(f, 0 .. m - 1)
      BY <2>1
    <3>. QED BY <3>1, <3>2, <3>3, <3>4
  <2>. QED BY <2>1
<1>4. \A m \in Nat : m \in T
  <2> HIDE DEF T
  <2>. QED BY <1>2, <1>3, EveryNatural DEF T
<1>5. ASSUME NEW m \in 1 .. n PROVE Prefix(g, m) = Prefix(f, m - 1)
  <2>1. m - 1 \in T /\ m - 1 < n /\ (m - 1) + 1 = m
    BY <1>4
  <2>. QED BY <2>1 DEF Prefix
<1>. QED BY <1>5

-----------------------------------------------------------------------------
(* Sequences.                                                              *)

\* The recursion by which Without goes through s.
KeptBy(kept, s, k) ==
  kept = [n \in 0 .. Len(s) |->
            IF n = 0 THEN <<>>
            ELSE IF s[n] = k THEN kept[n - 1] ELSE Append(kept[n - 1], s[n])]

LEMMA WithoutKept ==
  ASSUME NEW s, NEW k
  PROVE  Without(s, k) = (CHOOSE kept : KeptBy(kept, s, k))[Len(s)]
BY DEF Without, KeptBy

LEMMA KeptExists ==
  ASSUME NEW S, NEW s \in Seq(S), NEW k
  PROVE  \E kept : KeptBy(kept, s, k)
<1> DEFINE G == [n \in 1 .. Len(s) |->
                   [r \in Seq(S) |-> IF s[n] = k THEN r ELSE Append(r, s[n])]]
<1>1. /\ Len(s) \in Nat /\ <<>> \in Seq(S)
      /\ \A n \in 1 .. Len(s) : G[n] \in [Seq(S) -> Seq(S)]
  OBVIOUS
<1>2. PICK f : Recurs(f, Len(s), Seq(S), <<>>, G)
  <2> HIDE DEF G
  <2>. QED BY <1>1, RecursionExists
<1>3. \A n \in 1 .. Len(s) : f[n] = IF s[n] = k THEN f[n - 1] ELSE Append(f[n - 1], s[n])
  <2> SUFFICES ASSUME NEW n \in 1 .. Len(s)
               PROVE  f[n] = IF s[n] = k THEN f[n - 1] ELSE Append(f[n - 1], s[n])
    OBVIOUS
  <2>1. f[n - 1] \in Seq(S)
    <3>1. f \in [0 .. Len(s) -> Seq(S)] /\ n - 1 \in 0 .. Len(s)
      BY <1>1, <1>2 DEF Recurs
    <3>. QED BY <3>1
  <2>2. f[n] = G[n][f[n - 1]]
    <3> HIDE DEF G
    <3>. QED BY <1>2 DEF Recurs
  <2>. QED BY <2>1, <2>2
<1>4. f = [n \in 0 .. Len(s) |->
             IF n = 0 THEN <<>> ELSE IF s[n] = k THEN f[n - 1] ELSE Append(f[n - 1], s[n])]
  <2>1. f = [n \in 0 .. Len(s) |-> f[n]] /\ f[0] = <<>>
    BY <1>2 DEF Recurs
  <2>2. \A n \in 0 .. Len(s) : f[n] = IF n = 0 THEN <<>>
                                   ELSE IF s[n] = k THEN f[n - 1] ELSE Append(f[n - 1], s[n])
    <3>1. \A n \in 0 .. Len(s) : n = 0 \/ n \in 1 .. Len(s)
      BY <1>1
    <3>2. \A n \in 1 .. Len(s) : n # 0
      OBVIOUS
    <3>. QED BY ONLY <1>3, <2>1, <3>1, <3>2, Zenon
  <2>. QED BY ONLY <2>1, <2>2, Zenon
<1>. QED BY <1>4 DEF KeptBy

\* The equation that the recursion satisfies.
LEMMA KeptEquation ==
  ASSUME NEW S, NEW s \in Seq(S), NEW k
  PROVE  \E kept : /\ Without(s, k) = kept[Len(s)]
                   /\ kept[0] = <<>>
                   /\ \A n \in 1 .. Len(s) :
                        kept[n] = IF s[n] = k THEN kept[n - 1] ELSE Append(kept[n - 1], s[n])
<1> DEFINE kept == CHOOSE kept : KeptBy(kept, s, k)
<1>1. KeptBy(kept, s, k)
  BY KeptExists
<1>2. Without(s, k) = kept[Len(s)]
  BY WithoutKept
<1> HIDE DEF kept
<1>3. Len(s) \in Nat
  OBVIOUS
<1>4. \A n \in 0 .. Len(s) : kept[n] = IF n = 0 THEN <<>>
                                    ELSE IF s[n] = k THEN kept[n - 1]
                                    ELSE Append(kept[n - 1], s[n])
  BY <1>1, Zenon DEF KeptBy
<1>5. 0 \in 0 .. Len(s) /\ \A n \in 1 .. Len(s) : n \in 0 .. Len(s) /\ n # 0
  BY <1>3
<1>6. /\ kept[0] = <<>>
      /\ \A n \in 1 .. Len(s) :
           kept[n] = IF s[n] = k THEN kept[n - 1] ELSE Append(kept[n - 1], s[n])
  BY ONLY <1>4, <1>5, Zenon
<1>. QED BY <1>2, <1>6

\* s without its p-th entry.
Cut(s, p) == [i \in 1 .. Len(s) - 1 |-> IF i < p THEN s[i] ELSE s[i + 1]]

LEMMA CutIs ==
  ASSUME NEW S, NEW s \in Seq(S), NEW p \in 1 .. Len(s)
  PROVE  /\ Cut(s, p) \in Seq(S) /\ Len(Cut(s, p)) = Len(s) - 1
         /\ \A i \in 1 .. Len(s) - 1 : Cut(s, p)[i] = IF i < p THEN s[i] ELSE s[i + 1]
<1>1. Len(s) - 1 \in Nat /\ \A i \in 1 .. Len(s) : s[i] \in S
  OBVIOUS
<1>2. \A i \in 1 .. Len(s) - 1 : (IF i < p THEN s[i] ELSE s[i + 1]) \in S
  BY <1>1
<1>. QED BY <1>1, <1>2, IsASeq DEF Cut

LEMMA IsCut ==
  ASSUME NEW S, NEW s \in Seq(S), NEW p \in 1 .. Len(s), NEW r \in Seq(S), Len(r) = Len(s) - 1,
         \A i \in 1 .. Len(s) - 1 : r[i] = IF i < p THEN s[i] ELSE s[i + 1]
  PROVE  r = Cut(s, p)
<1>1. /\ Cut(s, p) \in Seq(S) /\ Len(Cut(s, p)) = Len(s) - 1
      /\ \A i \in 1 .. Len(s) - 1 : Cut(s, p)[i] = IF i < p THEN s[i] ELSE s[i + 1]
  BY CutIs
<1>2. \A i \in 1 .. Len(r) : r[i] = Cut(s, p)[i]
  BY <1>1
<1>3. Len(r) = Len(Cut(s, p))
  BY <1>1
<1>. QED BY ONLY r \in Seq(S), <1>1, <1>2, <1>3, SeqEqual

\* Without takes out the only k, where there is one.
LEMMA WithoutOnce ==
  ASSUME NEW S, NEW s \in Seq(S), NEW k, NEW p \in 1 .. Len(s) + 1,
         \A i \in 1 .. Len(s) : s[i] = k <=> i = p
  PROVE  Without(s, k) = IF p = Len(s) + 1 THEN s ELSE Cut(s, p)
<1> DEFINE Size(n) == IF n < p THEN n ELSE n - 1
<1>1. PICK kept : /\ Without(s, k) = kept[Len(s)]
                  /\ kept[0] = <<>>
                  /\ \A n \in 1 .. Len(s) :
                       kept[n] = IF s[n] = k THEN kept[n - 1] ELSE Append(kept[n - 1], s[n])
  BY KeptEquation
<1>2. Len(s) \in Nat /\ p \in Nat
  OBVIOUS
<1> DEFINE Is(n) == /\ kept[n] \in Seq(S) /\ Len(kept[n]) = Size(n)
                    /\ \A i \in 1 .. Size(n) : kept[n][i] = IF i < p THEN s[i] ELSE s[i + 1]
           T == {n \in Nat : n <= Len(s) => Is(n)}
<1>3. 0 \in T
  <2>1. Size(0) = 0 /\ <<>> \in Seq(S) /\ Len(<<>>) = 0
    BY <1>2
  <2>2. Is(0)
    BY <1>1, <2>1
  <2>. QED BY <2>2
<1>4. ASSUME NEW n \in T PROVE n + 1 \in T
  <2>1. CASE n + 1 <= Len(s)
    <3>1. n \in Nat /\ Is(n) /\ n + 1 \in 1 .. Len(s) /\ (n + 1) - 1 = n /\ s[n + 1] \in S
      BY <1>2, <2>1
    <3>2. kept[n + 1] = IF n + 1 = p THEN kept[n] ELSE Append(kept[n], s[n + 1])
      <4>1. kept[n + 1] = IF s[n + 1] = k THEN kept[(n + 1) - 1] ELSE Append(kept[(n + 1) - 1], s[n + 1])
        BY <1>1, <3>1, Zenon
      <4>2. s[n + 1] = k <=> n + 1 = p
        BY <3>1
      <4>. QED BY <3>1, <4>1, <4>2
    <3>3. CASE n + 1 = p
      BY <3>1, <3>2, <3>3
    <3>4. CASE n + 1 # p
      <4>1. /\ kept[n + 1] \in Seq(S) /\ Len(kept[n + 1]) = Len(kept[n]) + 1
            /\ \A i \in 1 .. Len(kept[n]) : kept[n + 1][i] = kept[n][i]
            /\ kept[n + 1][Len(kept[n]) + 1] = s[n + 1]
        BY <3>1, <3>2, <3>4, AppendProperties
      <4>2. Size(n + 1) = Size(n) + 1 /\ Size(n) \in Nat
        BY <1>2, <3>1, <3>4
      <4>3. ASSUME NEW i \in 1 .. Size(n + 1)
            PROVE  kept[n + 1][i] = IF i < p THEN s[i] ELSE s[i + 1]
        <5>1. CASE i \in 1 .. Size(n)
          BY <3>1, <4>1, <5>1
        <5>2. CASE i = Size(n) + 1
          BY <1>2, <3>1, <3>4, <4>1, <5>2
        <5>. QED BY <4>2, <5>1, <5>2
      <4>. QED BY <3>1, <4>1, <4>2, <4>3
    <3>. QED BY <3>3, <3>4
  <2>. QED BY <2>1
<1>5. \A n \in Nat : n \in T
  <2> HIDE DEF T
  <2>. QED BY <1>3, <1>4, EveryNatural DEF T
<1>6. Is(Len(s))
  BY <1>2, <1>5
<1>7. CASE p = Len(s) + 1
  <2>1. Len(kept[Len(s)]) = Len(s) /\ \A i \in 1 .. Len(s) : kept[Len(s)][i] = s[i]
    BY <1>2, <1>6, <1>7
  <2>. QED BY <1>1, <1>6, <1>7, <2>1, SeqEqual
<1>8. CASE p # Len(s) + 1
  <2>1. p \in 1 .. Len(s)
    BY <1>2, <1>8
  <2>2. /\ Len(kept[Len(s)]) = Len(s) - 1
        /\ \A i \in 1 .. Len(s) - 1 : kept[Len(s)][i] = IF i < p THEN s[i] ELSE s[i + 1]
    BY <1>2, <1>6, <2>1
  <2>3. kept[Len(s)] = Cut(s, p)
    <3>1. kept[Len(s)] \in Seq(S)
      BY <1>6
    <3>. QED BY ONLY s \in Seq(S), <2>1, <2>2, <3>1, IsCut
  <2>. QED BY <1>1, <1>8, <2>3
<1>. QED BY <1>7, <1>8

\* RemoveFirst takes out the only k as well.
LEMMA RemoveFirstOnce ==
  ASSUME NEW S, NEW s \in Seq(S), NEW k, NEW p \in 1 .. Len(s) + 1,
         \A i \in 1 .. Len(s) : s[i] = k <=> i = p
  PROVE  RemoveFirst(s, k) = IF p = Len(s) + 1 THEN s ELSE Cut(s, p)
<1>1. Len(s) \in Nat /\ p \in Nat
  OBVIOUS
<1>2. CASE p = Len(s) + 1
  <2>1. ~ \E i \in 1 .. Len(s) : s[i] = k
    BY <1>1, <1>2
  <2>. QED BY <1>2, <2>1 DEF RemoveFirst
<1>3. CASE p # Len(s) + 1
  <2>1. p \in 1 .. Len(s) /\ s[p] = k
    BY <1>1, <1>3
  <2>2. {i \in 1 .. Len(s) : s[i] = k} = {p}
    BY <2>1
  <2>3. Min({p}) = p
    BY <1>1 DEF Min
  <2>4. RemoveFirst(s, k) = SubSeq(s, 1, p - 1) \o SubSeq(s, p + 1, Len(s))
    BY <2>1, <2>2, <2>3 DEF RemoveFirst, RemoveAt, SelectInSeq
  <2> DEFINE a == SubSeq(s, 1, p - 1)
             b == SubSeq(s, p + 1, Len(s))
  <2>5. /\ a \in Seq(S) /\ Len(a) = p - 1 /\ \A i \in 1 .. p - 1 : a[i] = s[i]
    <3>1. 1 \in Int /\ p - 1 \in Int /\ \A i \in 1 .. p - 1 : s[i] \in S
      BY <2>1
    <3>2. /\ a \in Seq(S) /\ Len(a) = IF 1 <= p - 1 THEN p - 1 - 1 + 1 ELSE 0
          /\ \A i \in 1 .. p - 1 - 1 + 1 : a[i] = s[1 + i - 1]
      BY <3>1, SubSeqProperties
    <3> HIDE DEF a
    <3>3. p - 1 - 1 + 1 = p - 1 /\ \A i \in 1 .. p - 1 : 1 + i - 1 = i
      BY <1>1
    <3>. QED BY <1>1, <3>2, <3>3
  <2>6. /\ b \in Seq(S) /\ Len(b) = Len(s) - p
        /\ \A i \in 1 .. Len(s) - p : b[i] = s[p + i]
    <3>1. p + 1 \in Int /\ Len(s) \in Int /\ \A i \in p + 1 .. Len(s) : s[i] \in S
      BY <1>1, <2>1
    <3>2. /\ b \in Seq(S) /\ Len(b) = IF p + 1 <= Len(s) THEN Len(s) - (p + 1) + 1 ELSE 0
          /\ \A i \in 1 .. Len(s) - (p + 1) + 1 : b[i] = s[(p + 1) + i - 1]
      BY <3>1, SubSeqProperties
    <3> HIDE DEF b
    <3>3. Len(s) - (p + 1) + 1 = Len(s) - p
          /\ \A i \in 1 .. Len(s) - p : (p + 1) + i - 1 = p + i
      BY <1>1
    <3>4. Len(b) = Len(s) - p
      BY <1>1, <2>1, <3>2
    <3>. QED BY <3>2, <3>3, <3>4
  <2> HIDE DEF a, b
  <2>7. /\ a \o b \in Seq(S) /\ Len(a \o b) = Len(s) - 1
        /\ \A i \in 1 .. Len(s) - 1 : (a \o b)[i] = IF i < p THEN s[i] ELSE s[i + 1]
    <3>1. /\ a \o b \in Seq(S) /\ Len(a \o b) = Len(a) + Len(b)
          /\ \A i \in 1 .. Len(a) + Len(b) :
               (a \o b)[i] = IF i <= Len(a) THEN a[i] ELSE b[i - Len(a)]
      BY <2>5, <2>6, ConcatProperties
    <3>2. Len(a) + Len(b) = Len(s) - 1
      BY <1>1, <2>1, <2>5, <2>6
    <3>3. ASSUME NEW i \in 1 .. Len(s) - 1
          PROVE  (a \o b)[i] = IF i < p THEN s[i] ELSE s[i + 1]
      <4>1. (a \o b)[i] = IF i <= p - 1 THEN a[i] ELSE b[i - (p - 1)]
        BY <2>5, <3>1, <3>2
      <4>2. CASE i < p
        <5>1. i <= p - 1 /\ i \in 1 .. p - 1
          BY <1>1, <4>2
        <5>. QED BY <2>5, <4>1, <4>2, <5>1
      <4>3. CASE ~(i < p)
        <5>1. ~(i <= p - 1) /\ i - (p - 1) \in 1 .. Len(s) - p /\ p + (i - (p - 1)) = i + 1
          BY <1>1, <4>3
        <5>2. b[i - (p - 1)] = s[i + 1]
          BY <2>6, <5>1
        <5>. QED BY <4>1, <4>3, <5>1, <5>2
      <4>. QED BY <4>2, <4>3
    <3>. QED BY <3>1, <3>2, <3>3
  <2>8. a \o b = Cut(s, p)
    BY ONLY s \in Seq(S), <2>1, <2>7, IsCut
  <2>. QED BY <1>3, <2>4, <2>8 DEF a, b
<1>. QED BY <1>2, <1>3

\* The elements of S, each once.
Enumerates(s, S) ==
  /\ s \in Seq(S)
  /\ \A x \in S : \E i \in 1 .. Len(s) : s[i] = x
  /\ \A i, j \in 1 .. Len(s) : s[i] = s[j] => i = j

LEMMA EnumeratesNone == Enumerates(<<>>, {})
BY DEF Enumerates

LEMMA EnumeratesCounts ==
  ASSUME NEW S, NEW s, Enumerates(s, S)
  PROVE  IsFiniteSet(S) /\ Cardinality(S) = Len(s) /\ ToSet(s) = S
<1>1. Len(s) \in Nat /\ s \in [1 .. Len(s) -> S] /\ DOMAIN s = 1 .. Len(s)
  BY DEF Enumerates
<1>2. s \in Bijection(1 .. Len(s), S)
  BY <1>1, Fun_IsBij DEF Enumerates
<1>3. ExistsBijection(1 .. Len(s), S)
  BY <1>2 DEF ExistsBijection
<1>4. IsFiniteSet(S)
  BY <1>1, <1>3, FS_NatBijection
<1>5. Cardinality(S) = Len(s)
  BY <1>1, <1>3, FS_CountingElements
<1>6. ToSet(s) = S
  BY <1>1 DEF Enumerates, ToSet
<1>. QED BY <1>4, <1>5, <1>6

LEMMA EnumeratesAppend ==
  ASSUME NEW S, NEW s, Enumerates(s, S), NEW x, x \notin S
  PROVE  Enumerates(Append(s, x), S \cup {x})
<1> DEFINE r == Append(s, x)
           U == S \cup {x}
           n == Len(s)
<1>1. n \in Nat /\ s \in Seq(U) /\ x \in U /\ \A i \in 1 .. n : s[i] \in S
  BY DEF Enumerates
<1>2. /\ r \in Seq(U) /\ Len(r) = n + 1 /\ r[n + 1] = x
      /\ \A i \in 1 .. n : r[i] = s[i]
  BY <1>1, AppendProperties
<1>3. ASSUME NEW y \in U PROVE \E i \in 1 .. n + 1 : r[i] = y
  <2>1. CASE y = x
    BY <1>1, <1>2, <2>1
  <2>2. CASE y \in S
    <3>1. PICK i \in 1 .. n : s[i] = y
      BY <2>2 DEF Enumerates
    <3>2. i \in 1 .. n + 1 /\ r[i] = y
      BY <1>1, <1>2, <3>1
    <3>. QED BY <3>2
  <2>. QED BY <2>1, <2>2
<1>4. \A i, j \in 1 .. n + 1 : r[i] = r[j] => i = j
  <2>1. \A i \in 1 .. n + 1 : i \in 1 .. n \/ i = n + 1
    BY <1>1
  <2>2. \A i \in 1 .. n : r[i] # r[n + 1]
    BY <1>1, <1>2
  <2>3. \A i, j \in 1 .. n : r[i] = r[j] => i = j
    BY <1>2 DEF Enumerates
  <2>. QED BY <2>1, <2>2, <2>3
<1> HIDE DEF r, U, n
<1>5. Enumerates(r, U)
  BY <1>2, <1>3, <1>4 DEF Enumerates
<1>. QED BY <1>5 DEF r, U

LEMMA EnumeratesCut ==
  ASSUME NEW S, NEW s, Enumerates(s, S), NEW p \in 1 .. Len(s)
  PROVE  Enumerates(Cut(s, p), S \ {s[p]})
<1> DEFINE r == Cut(s, p)
           n == Len(s)
<1>1. s \in Seq(S) /\ n \in Nat /\ p \in Nat
  BY DEF Enumerates
<1>2. /\ r \in Seq(S) /\ Len(r) = n - 1
      /\ \A i \in 1 .. n - 1 : r[i] = IF i < p THEN s[i] ELSE s[i + 1]
  BY <1>1, CutIs
<1>3. \A i, j \in 1 .. n : s[i] = s[j] => i = j
  BY DEF Enumerates
<1>4. \A y \in S : \E i \in 1 .. n : s[i] = y
  BY DEF Enumerates
<1> HIDE DEF r, n
<1>5. p \in 1 .. n
  BY DEF n
<1>6. \A i \in 1 .. n - 1 : r[i] \in S \ {s[p]}
  <2> SUFFICES ASSUME NEW i \in 1 .. n - 1 PROVE r[i] \in S \ {s[p]}
    OBVIOUS
  <2>1. r[i] \in S
    BY <1>1, <1>2
  <2>2. CASE i < p
    BY <1>1, <1>2, <1>3, <1>5, <2>1, <2>2
  <2>3. CASE ~(i < p)
    <3>1. i + 1 \in 1 .. n /\ i + 1 # p
      BY <1>1, <2>3
    <3>. QED BY <1>2, <1>3, <1>5, <2>1, <2>3, <3>1
  <2>. QED BY <2>2, <2>3
<1>7. r \in Seq(S \ {s[p]})
  BY <1>2, <1>6
<1>8. ASSUME NEW y \in S \ {s[p]} PROVE \E i \in 1 .. n - 1 : r[i] = y
  <2>1. PICK i \in 1 .. n : s[i] = y /\ i # p
    BY <1>4
  <2>2. CASE i < p
    <3>1. i \in 1 .. n - 1
      BY <1>1, <1>5, <2>2
    <3>. QED BY <1>2, <2>1, <2>2, <3>1
  <2>3. CASE i > p
    <3>1. i - 1 \in 1 .. n - 1 /\ ~(i - 1 < p) /\ (i - 1) + 1 = i
      BY <1>1, <2>3
    <3>. QED BY <1>2, <2>1, <3>1
  <2>. QED BY <1>1, <2>1, <2>2, <2>3
<1>9. ASSUME NEW i \in 1 .. n - 1, NEW j \in 1 .. n - 1, r[i] = r[j] PROVE i = j
  <2> DEFINE At(m) == IF m < p THEN m ELSE m + 1
  <2>1. At(i) \in 1 .. n /\ At(j) \in 1 .. n /\ r[i] = s[At(i)] /\ r[j] = s[At(j)]
    BY <1>1, <1>2
  <2>2. At(i) = At(j)
    <3> HIDE DEF At
    <3>. QED BY <1>3, <1>9, <2>1
  <2>. QED BY <1>1, <2>2
<1>10. Enumerates(r, S \ {s[p]})
  BY <1>2, <1>7, <1>8, <1>9 DEF Enumerates
<1>. QED BY <1>10 DEF r

LEMMA FrontIs ==
  ASSUME NEW S, NEW s \in Seq(S), s # <<>>
  PROVE  /\ Front(s) \in Seq(S) /\ Len(Front(s)) = Len(s) - 1
         /\ \A i \in 1 .. Len(s) - 1 : Front(s)[i] = s[i]
<1> DEFINE n == Len(s) - 1
<1>1. n \in Nat /\ 1 \in Int /\ n \in Int /\ \A i \in 1 .. n : s[i] \in S
  OBVIOUS
<1>2. /\ SubSeq(s, 1, n) \in Seq(S)
      /\ Len(SubSeq(s, 1, n)) = IF 1 <= n THEN n - 1 + 1 ELSE 0
      /\ \A i \in 1 .. n - 1 + 1 : SubSeq(s, 1, n)[i] = s[1 + i - 1]
  <2> HIDE DEF n
  <2>. QED BY <1>1, SubSeqProperties
<1>3. Front(s) = SubSeq(s, 1, n)
  BY DEF Front
<1> HIDE DEF n
<1>4. n - 1 + 1 = n /\ Len(Front(s)) = n /\ \A i \in 1 .. n : 1 + i - 1 = i
  BY <1>1, <1>2, <1>3
<1>. QED BY <1>2, <1>3, <1>4 DEF n

\* Whether x is there or not, what is left enumerates the others; RemoveFirst leaves the
\* same.
LEMMA EnumeratesWithout ==
  ASSUME NEW S, NEW s, Enumerates(s, S), NEW x
  PROVE  /\ Enumerates(Without(s, x), S \ {x})
         /\ RemoveFirst(s, x) = Without(s, x)
         /\ x \notin S => Without(s, x) = s
         /\ \A p \in 1 .. Len(s) : s[p] = x => Without(s, x) = Cut(s, p)
<1>1. s \in Seq(S) /\ Len(s) \in Nat
  BY DEF Enumerates
<1>2. CASE x \notin S
  <2>1. /\ Len(s) + 1 \in 1 .. Len(s) + 1
        /\ \A i \in 1 .. Len(s) : s[i] # x /\ i # Len(s) + 1
    BY <1>1, <1>2
  <2>2. Without(s, x) = s /\ RemoveFirst(s, x) = s
    BY <1>1, <2>1, WithoutOnce, RemoveFirstOnce
  <2>3. S \ {x} = S
    BY <1>2
  <2>. QED BY <2>1, <2>2, <2>3
<1>3. CASE x \in S
  <2>1. PICK p \in 1 .. Len(s) : s[p] = x
    BY <1>3 DEF Enumerates
  <2>2. \A i \in 1 .. Len(s) : s[i] = x <=> i = p
    BY <2>1 DEF Enumerates
  <2>3. p \in 1 .. Len(s) + 1 /\ p # Len(s) + 1
    BY <1>1
  <2>4. Without(s, x) = Cut(s, p) /\ RemoveFirst(s, x) = Cut(s, p)
    BY <1>1, <2>2, <2>3, WithoutOnce, RemoveFirstOnce
  <2>. QED BY <1>3, <2>1, <2>2, <2>4, EnumeratesCut
<1>. QED BY <1>2, <1>3

\* The first and the last of an enumeration.
LEMMA EnumeratesEnds ==
  ASSUME NEW S, NEW s, Enumerates(s, S), s # <<>>
  PROVE  /\ Head(s) \in S /\ Tail(s) = Without(s, Head(s))
         /\ Last(s) \in S /\ Front(s) = Without(s, Last(s))
<1>1. s \in Seq(S) /\ Len(s) \in Nat /\ Len(s) # 0
  BY DEF Enumerates
<1>2. 1 \in 1 .. Len(s) /\ Len(s) \in 1 .. Len(s) /\ Head(s) = s[1] /\ Last(s) = s[Len(s)]
  BY <1>1 DEF Last
<1>3. Head(s) \in S /\ Last(s) \in S
  BY <1>1, <1>2
<1>4. Tail(s) = Cut(s, 1)
  <2>1. /\ Tail(s) \in Seq(S) /\ Len(Tail(s)) = Len(s) - 1
        /\ \A i \in 1 .. Len(s) - 1 : Tail(s)[i] = s[i + 1]
    BY <1>1, HeadTailProperties
  <2>2. \A i \in 1 .. Len(s) - 1 : Tail(s)[i] = IF i < 1 THEN s[i] ELSE s[i + 1]
    BY <2>1
  <2>. QED BY ONLY <1>1, <1>2, <2>1, <2>2, IsCut
<1>5. Front(s) = Cut(s, Len(s))
  <2>1. /\ Front(s) \in Seq(S) /\ Len(Front(s)) = Len(s) - 1
        /\ \A i \in 1 .. Len(s) - 1 : Front(s)[i] = s[i]
    BY <1>1, FrontIs
  <2>2. \A i \in 1 .. Len(s) - 1 : Front(s)[i] = IF i < Len(s) THEN s[i] ELSE s[i + 1]
    BY <1>1, <2>1
  <2>. QED BY ONLY <1>1, <1>2, <2>1, <2>2, IsCut
<1>. QED BY <1>2, <1>3, <1>4, <1>5, EnumeratesWithout
=============================================================================
