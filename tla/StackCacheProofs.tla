-------------------------- MODULE StackCacheProofs --------------------------
(***************************************************************************)
(* What the stacks of the server's caches hold, for any number of callers  *)
(* and keys, any capacity and ttl.                                         *)
(*                                                                         *)
(* The bounds on the stack hold because of what the callers have yet to    *)
(* do: one that has seen room, or has made some, will push an entry, and   *)
(* one that has taken its key out will push it once.  DepthInv and         *)
(* CopiesInv count these callers in.                                       *)
(***************************************************************************)
EXTENDS StackCache, DataTheorems

\* The remaining life of every value.
DataType == data \in [Keys -> 0 .. TTL]

\* Only a put, a deletion, a wipe and the clock touch the values, and a put and the
\* clock keep them within the ttl.
LEMMA DataStep == DataType /\ [Next]_vars => DataType'
<1> SUFFICES ASSUME DataType, [Next]_vars PROVE DataType'
  OBVIOUS
<1> USE StackAssumption DEF DataType
<1>1. ASSUME NEW c \in Callers, SetStep(c) PROVE DataType'
  BY <1>1 DEF SetStep, Set, Starts, SetLen, SetPop, SetEvict, SetPush, SetPut, server
<1>2. ASSUME NEW c \in Callers, GetStep(c) PROVE DataType'
  BY <1>2 DEF GetStep, Get, GetTake, GetBack, server
<1>3. ASSUME NEW c \in Callers, DeleteStep(c) PROVE DataType'
  BY <1>3 DEF DeleteStep, Delete, DeleteUnstack
<1>4. ASSUME NEW c \in Callers, ClearStep(c) PROVE DataType'
  BY <1>4 DEF ClearStep, Clear, ClearWipe, ClearDrop, server
<1>5. ASSUME NEW c \in Callers, Resend(c) \/ Abort(c) PROVE DataType'
  BY <1>5 DEF Resend, Abort, server
<1>6. CASE Tick
  BY <1>6 DEF Tick
<1>7. CASE UNCHANGED vars
  BY <1>7 DEF vars, server
<1> QED
  BY <1>1, <1>2, <1>3, <1>4, <1>5, <1>6, <1>7 DEF Next

-----------------------------------------------------------------------------
(* What LREM leaves.                                                       *)

\* The places of q among the first n of s.
Places(s, n, q) == {i \in 1 .. n : s[i] = q}

LEMMA PlacesFinite ==
  ASSUME NEW n \in Nat, NEW s, NEW q
  PROVE  IsFiniteSet(Places(s, n, q)) /\ Cardinality(Places(s, n, q)) \in Nat
<1>1. IsFiniteSet(1 .. n)
  <2>1. 1 \in Int /\ n \in Int
    OBVIOUS
  <2>. QED BY <2>1, FS_Interval
<1>2. IsFiniteSet(Places(s, n, q))
  BY <1>1, FS_Subset DEF Places
<1>. QED BY <1>2, FS_CardinalityType

\* One entry more is one place more, or none.
LEMMA PlacesNext ==
  ASSUME NEW n \in Nat, NEW s, NEW q
  PROVE  Cardinality(Places(s, n + 1, q)) =
           Cardinality(Places(s, n, q)) + (IF s[n + 1] = q THEN 1 ELSE 0)
<1>1. CASE s[n + 1] = q
  <2>1. Places(s, n + 1, q) = Places(s, n, q) \cup {n + 1} /\ n + 1 \notin Places(s, n, q)
    BY <1>1 DEF Places
  <2>. QED BY <1>1, <2>1, PlacesFinite, FS_AddElement
<1>2. CASE s[n + 1] # q
  <2>1. Places(s, n + 1, q) = Places(s, n, q)
    BY <1>2 DEF Places
  <2>. QED BY <1>2, <2>1, PlacesFinite
<1>. QED BY <1>1, <1>2

Copies(s, q) == Cardinality({i \in DOMAIN s : s[i] = q})

LEMMA CopiesPlaces ==
  ASSUME NEW S, NEW s \in Seq(S), NEW q
  PROVE  Copies(s, q) = Cardinality(Places(s, Len(s), q)) /\ Copies(s, q) \in Nat
<1>1. DOMAIN s = 1 .. Len(s) /\ Len(s) \in Nat
  OBVIOUS
<1>2. {i \in DOMAIN s : s[i] = q} = Places(s, Len(s), q)
  BY <1>1 DEF Places
<1>. QED BY <1>1, <1>2, PlacesFinite DEF Copies

LEMMA CopiesEmpty ==
  ASSUME NEW q
  PROVE  Copies(<<>>, q) = 0
<1>1. {i \in DOMAIN <<>> : <<>>[i] = q} = {}
  OBVIOUS
<1>. QED BY <1>1, FS_EmptySet DEF Copies

\* RPUSH
LEMMA CopiesAppend ==
  ASSUME NEW S, NEW s \in Seq(S), NEW e \in S, NEW q
  PROVE  Copies(Append(s, e), q) = Copies(s, q) + (IF e = q THEN 1 ELSE 0)
<1> DEFINE r == Append(s, e)
           n == Len(s)
<1>1. /\ r \in Seq(S) /\ Len(r) = n + 1 /\ n \in Nat
      /\ r[n + 1] = e /\ \A i \in 1 .. n : r[i] = s[i]
  OBVIOUS
<1>2. Copies(s, q) = Cardinality(Places(s, n, q))
  BY CopiesPlaces
<1> HIDE DEF r, n
<1>3. Places(r, n, q) = Places(s, n, q)
  BY <1>1 DEF Places
<1>4. Cardinality(Places(r, n + 1, q)) =
        Cardinality(Places(r, n, q)) + (IF e = q THEN 1 ELSE 0)
  BY <1>1, PlacesNext
<1>5. Copies(r, q) = Cardinality(Places(r, n + 1, q))
  BY <1>1, CopiesPlaces
<1>. QED BY <1>2, <1>3, <1>4, <1>5 DEF r

\* RPOP
LEMMA FrontOf ==
  ASSUME NEW S, NEW s \in Seq(S), s # <<>>
  PROVE  /\ Front(s) \in Seq(S) /\ Len(Front(s)) = Len(s) - 1 /\ Last(s) \in S
         /\ \A q : Copies(Front(s), q) <= Copies(s, q)
<1>1. Len(s) \in Nat /\ Len(s) # 0 /\ Len(s) - 1 \in Nat
  OBVIOUS
<1>2. /\ Front(s) \in Seq(S) /\ Len(Front(s)) = Len(s) - 1
      /\ \A i \in 1 .. Len(s) - 1 : Front(s)[i] = s[i]
  BY FrontIs
<1>3. Last(s) \in S
  BY <1>1 DEF Last
<1>4. ASSUME NEW q PROVE Copies(Front(s), q) <= Copies(s, q)
  <2>1. Places(Front(s), Len(s) - 1, q) \subseteq Places(s, Len(s), q)
    BY <1>1, <1>2 DEF Places
  <2>2. IsFiniteSet(Places(s, Len(s), q))
    BY <1>1, PlacesFinite
  <2>3. Cardinality(Places(Front(s), Len(s) - 1, q)) <= Cardinality(Places(s, Len(s), q))
    BY <2>1, <2>2, FS_Subset
  <2>. QED BY <1>2, <2>3, CopiesPlaces
<1>. QED BY <1>2, <1>3, <1>4

\* LREM leaves a shorter stack, or the same, of entries that were in it, no copy of
\* the key, and no more copies of another.
LEMMA WithoutLeaves ==
  ASSUME NEW S, NEW s \in Seq(S), NEW k
  PROVE  /\ Without(s, k) \in Seq(S)
         /\ Len(Without(s, k)) <= Len(s)
         /\ Copies(Without(s, k), k) = 0
         /\ \A q : Copies(Without(s, k), q) <= Copies(s, q)
<1>1. PICK kept : /\ Without(s, k) = kept[Len(s)]
                  /\ kept[0] = <<>>
                  /\ \A n \in 1 .. Len(s) :
                       kept[n] = IF s[n] = k THEN kept[n - 1] ELSE Append(kept[n - 1], s[n])
  BY KeptEquation
<1>0. Len(s) \in Nat
  OBVIOUS
<1> DEFINE Leaves(n) == /\ kept[n] \in Seq(S)
                        /\ Len(kept[n]) <= n
                        /\ Copies(kept[n], k) = 0
                        /\ \A q : Copies(kept[n], q) <= Cardinality(Places(s, n, q))
           T == {n \in Nat : n <= Len(s) => Leaves(n)}
<1>2. 0 \in T
  <2>1. \A q : Cardinality(Places(s, 0, q)) = 0
    <3>1. \A q : Places(s, 0, q) = {}
      BY DEF Places
    <3>. QED BY <3>1, FS_EmptySet
  <2>2. kept[0] \in Seq(S) /\ Len(kept[0]) = 0 /\ \A q : Copies(kept[0], q) = 0
    BY <1>1, CopiesEmpty
  <2>. QED BY <2>1, <2>2
<1>3. ASSUME NEW n \in T PROVE n + 1 \in T
  <2>1. CASE n + 1 <= Len(s)
    <3>1. n \in Nat /\ Leaves(n) /\ n + 1 \in 1 .. Len(s) /\ (n + 1) - 1 = n
      BY <2>1
    <3>2. \A q : /\ Cardinality(Places(s, n, q)) \in Nat
                 /\ Cardinality(Places(s, n + 1, q)) =
                      Cardinality(Places(s, n, q)) + (IF s[n + 1] = q THEN 1 ELSE 0)
      BY <3>1, PlacesFinite, PlacesNext
    <3>3. \A q : Copies(kept[n], q) \in Nat
      BY <3>1, CopiesPlaces
    <3>4. CASE s[n + 1] = k
      <4>1. kept[n + 1] = kept[n] /\ Len(kept[n]) \in Nat
        BY <1>1, <3>1, <3>4
      <4>2. \A q : Cardinality(Places(s, n, q)) <= Cardinality(Places(s, n + 1, q))
        BY <3>2
      <4>3. \A q : Copies(kept[n], q) <= Cardinality(Places(s, n + 1, q))
        BY <3>1, <3>2, <3>3, <4>2
      <4>. QED BY <3>1, <4>1, <4>3
    <3>5. CASE s[n + 1] # k
      <4>1. kept[n + 1] = Append(kept[n], s[n + 1]) /\ s[n + 1] \in S
        <5>1. s[n + 1] \in S
          BY <1>0, <3>1
        <5>2. kept[n + 1] = Append(kept[(n + 1) - 1], s[n + 1])
          BY <1>1, <3>1, <3>5, Zenon
        <5>. QED BY <3>1, <5>1, <5>2
      <4>2. \A q : Copies(kept[n + 1], q) = Copies(kept[n], q) + (IF s[n + 1] = q THEN 1 ELSE 0)
        BY <3>1, <4>1, CopiesAppend
      <4>3. kept[n + 1] \in Seq(S) /\ Len(kept[n + 1]) <= n + 1
        BY <3>1, <4>1
      <4>4. \A q : Copies(kept[n + 1], q) <= Cardinality(Places(s, n + 1, q))
        BY <3>1, <3>2, <3>3, <4>2
      <4>5. Copies(kept[n + 1], k) = 0
        BY <3>1, <3>5, <4>2
      <4>. QED BY <4>3, <4>4, <4>5
    <3>. QED BY <3>4, <3>5
  <2>. QED BY <2>1
<1>4. \A n \in Nat : n \in T
  <2> HIDE DEF T
  <2>. QED BY <1>2, <1>3, EveryNatural DEF T
<1>5. Leaves(Len(s))
  <2>1. Len(s) \in T
    BY <1>0, <1>4
  <2>. QED BY <1>0, <2>1
<1>6. Without(s, k) = kept[Len(s)]
  BY <1>1
<1>7. \A q : Cardinality(Places(s, Len(s), q)) = Copies(s, q)
  BY CopiesPlaces
<1> HIDE DEF T
<1>. QED BY <1>5, <1>6, <1>7

-----------------------------------------------------------------------------
(* Types.                                                                  *)

\* The steps of an operation on a key.
Keyed == {"len", "pop", "evict", "push", "put", "take", "back", "unstack"}

StackTypes ==
  /\ TypeOK
  /\ stack \in Seq(Keys)
  /\ \A c \in Callers : pc[c] \in Keyed => arg[c] \in Keys

\* The callers other than c stand still.
Alone(c) == \A d \in Callers \ {c} : pc'[d] = pc[d] /\ arg'[d] = arg[d]

LEMMA GotoMoves ==
  ASSUME TypeOK, NEW c \in Callers, NEW step \in Steps, Goto(c, step)
  PROVE  /\ pc' \in [Callers -> Steps] /\ arg' \in [Callers -> Keys \cup {NoKey}]
         /\ pc'[c] = step /\ (step # "idle" => arg'[c] = arg[c])
         /\ (step = "idle" => arg'[c] = NoKey)
         /\ Alone(c)
<1>1. pc' \in [Callers -> Steps] /\ pc'[c] = step /\ \A d \in Callers \ {c} : pc'[d] = pc[d]
  BY DEF TypeOK, Goto
<1>2. CASE step = "idle"
  <2>1. arg' = [arg EXCEPT ![c] = NoKey]
    BY <1>2 DEF Goto
  <2>. QED BY <1>1, <1>2, <2>1 DEF TypeOK, Alone
<1>3. CASE step # "idle"
  <2>1. arg' = arg
    BY <1>3 DEF Goto
  <2>. QED BY <1>1, <1>3, <2>1 DEF TypeOK, Alone
<1>. QED BY <1>2, <1>3

LEMMA StartsMoves ==
  ASSUME TypeOK, NEW c \in Callers, NEW k \in Keys, NEW step \in Steps, Starts(c, k, step)
  PROVE  /\ pc' \in [Callers -> Steps] /\ arg' \in [Callers -> Keys \cup {NoKey}]
         /\ pc[c] = "idle" /\ pc'[c] = step /\ arg'[c] = k
         /\ UNCHANGED <<config, popped, seen, resent>>
         /\ Alone(c)
BY DEF TypeOK, Starts, Alone, Locals

\* What every move of one caller does to the callers' part of the state.
LEMMA CallerMoves ==
  ASSUME StackTypes, NEW c \in Callers,
         SetStep(c) \/ GetStep(c) \/ DeleteStep(c) \/ ClearStep(c) \/ Resend(c) \/ Abort(c)
  PROVE  /\ pc' \in [Callers -> Steps] /\ arg' \in [Callers -> Keys \cup {NoKey}]
         /\ pc'[c] \in Keyed => arg'[c] \in Keys
         /\ Alone(c)
<1> USE DEF StackTypes, Keyed
<1>0. TypeOK
  OBVIOUS
<1>1. ASSUME NEW step \in Steps, Goto(c, step), pc[c] \in Keyed \/ step \notin Keyed
      PROVE  /\ pc' \in [Callers -> Steps] /\ arg' \in [Callers -> Keys \cup {NoKey}]
             /\ pc'[c] \in Keyed => arg'[c] \in Keys
             /\ Alone(c)
  BY <1>0, <1>1, GotoMoves
<1>2. ASSUME NEW k \in Keys, NEW step \in Steps, Starts(c, k, step)
      PROVE  /\ pc' \in [Callers -> Steps] /\ arg' \in [Callers -> Keys \cup {NoKey}]
             /\ pc'[c] \in Keyed => arg'[c] \in Keys
             /\ Alone(c)
  BY <1>0, <1>2, StartsMoves
<1>3. CASE SetStep(c)
  <2>1. CASE \E k \in Keys : Set(c, k)
    BY <1>2, <2>1 DEF Set, Steps
  <2>2. CASE SetLen(c)
    BY <1>1, <2>2 DEF SetLen, Steps
  <2>3. CASE SetPop(c)
    BY <1>1, <2>3 DEF SetPop, AfterPop, Steps
  <2>4. CASE SetEvict(c) \/ SetPush(c) \/ SetPut(c)
    BY <1>1, <2>4 DEF SetEvict, SetPush, SetPut, Steps
  <2>. QED BY <1>3, <2>1, <2>2, <2>3, <2>4 DEF SetStep
<1>4. CASE GetStep(c)
  BY <1>1, <1>2, <1>4 DEF GetStep, Get, GetTake, GetBack, Steps
<1>5. CASE DeleteStep(c)
  BY <1>1, <1>2, <1>5 DEF DeleteStep, Delete, DeleteUnstack, Steps
<1>6. CASE ClearStep(c)
  BY <1>1, <1>6 DEF ClearStep, Clear, ClearWipe, ClearDrop, AfterWipe, Steps
<1>7. CASE Resend(c)
  <2>1. UNCHANGED <<pc, arg>>
    BY <1>7 DEF Resend
  <2>. QED BY <1>0, <2>1 DEF TypeOK, Alone
<1>8. CASE Abort(c)
  BY <1>1, <1>8 DEF Abort, Steps
<1>. QED BY <1>3, <1>4, <1>5, <1>6, <1>7, <1>8

\* What every step does to the stack.
Shrinks ==
  /\ stack' \in Seq(Keys)
  /\ Len(stack') <= Len(stack)
  /\ \A q : Copies(stack', q) <= Copies(stack, q)

LEMMA ShrinksKept ==
  ASSUME stack \in Seq(Keys), UNCHANGED stack
  PROVE  Shrinks
<1>1. \A q : Copies(stack, q) \in Nat
  BY CopiesPlaces
<1>. QED BY <1>1 DEF Shrinks

LEMMA ShrinksEmpty ==
  ASSUME stack \in Seq(Keys), stack' = <<>>
  PROVE  Shrinks
<1>1. \A q : Copies(stack, q) \in Nat /\ Copies(<<>>, q) = 0
  BY CopiesPlaces, CopiesEmpty
<1>. QED BY <1>1 DEF Shrinks

LEMMA ShrinksLRem ==
  ASSUME stack \in Seq(Keys), NEW k, LRem(k)
  PROVE  Shrinks /\ Copies(stack', k) = 0
BY WithoutLeaves DEF LRem, Shrinks

LEMMA ShrinksPop ==
  ASSUME stack \in Seq(Keys), stack # <<>>, stack' = Front(stack)
  PROVE  Shrinks /\ Len(stack') = Len(stack) - 1 /\ Last(stack) \in Keys
BY FrontOf DEF Shrinks

LEMMA StackGrows ==
  ASSUME stack \in Seq(Keys), NEW k \in Keys, stack' = Append(stack, k)
  PROVE  /\ stack' \in Seq(Keys) /\ Len(stack') = Len(stack) + 1
         /\ \A q : Copies(stack', q) = Copies(stack, q) + (IF k = q THEN 1 ELSE 0)
BY CopiesAppend

LEMMA StackStep ==
  ASSUME StackTypes, [Next]_vars
  PROVE  stack' \in Seq(Keys)
<1> USE DEF StackTypes, Keyed
<1>1. ASSUME NEW c \in Callers, SetStep(c) PROVE stack' \in Seq(Keys)
  <2>1. CASE \E k \in Keys : Set(c, k)
    BY <2>1, ShrinksLRem DEF Set, Shrinks, server
  <2>2. CASE SetPop(c)
    BY <2>2, ShrinksPop DEF SetPop, Shrinks
  <2>3. CASE SetPush(c)
    BY <2>3, StackGrows DEF SetPush
  <2>. QED BY <1>1, <2>1, <2>2, <2>3 DEF SetStep, SetLen, SetEvict, SetPut, server
<1>2. ASSUME NEW c \in Callers, GetStep(c) PROVE stack' \in Seq(Keys)
  <2>1. CASE GetTake(c)
    BY <2>1, ShrinksLRem DEF GetTake, Shrinks
  <2>2. CASE GetBack(c)
    BY <2>2, StackGrows DEF GetBack
  <2>. QED BY <1>2, <2>1, <2>2 DEF GetStep, Get, server
<1>3. ASSUME NEW c \in Callers, DeleteStep(c) PROVE stack' \in Seq(Keys)
  BY <1>3, ShrinksLRem DEF DeleteStep, Delete, DeleteUnstack, Shrinks
<1>4. ASSUME NEW c \in Callers, ClearStep(c) PROVE stack' \in Seq(Keys)
  <2>1. stack' = stack \/ stack' = <<>>
    BY <1>4 DEF ClearStep, Clear, ClearWipe, ClearDrop, server
  <2>. QED BY <2>1, ShrinksKept, ShrinksEmpty DEF Shrinks
<1>5. ASSUME NEW c \in Callers, Resend(c) PROVE stack' \in Seq(Keys)
  BY <1>5, StackGrows, ShrinksPop DEF Resend, Shrinks
<1>6. ASSUME NEW c \in Callers, Abort(c) PROVE stack' \in Seq(Keys)
  BY <1>6 DEF Abort, server
<1>7. CASE Tick \/ UNCHANGED vars
  BY <1>7 DEF Tick, vars, server
<1>. QED BY <1>1, <1>2, <1>3, <1>4, <1>5, <1>6, <1>7 DEF Next

\* The locals of an operation: what was popped, what was scanned, what was sent twice.
LEMMA LocalsStep ==
  ASSUME StackTypes, [Next]_vars, pc' \in [Callers -> Steps]
  PROVE  /\ popped' \in [Callers -> Keys \cup {NoKey}]
         /\ seen' \in [Callers -> SUBSET (Keys \cup {StackKey})]
         /\ resent' \in 0 .. MaxResent
         /\ UNCHANGED config
         /\ \A c \in Callers : pc'[c] = "evict" => popped'[c] \in Keys
<1> USE StackAssumption DEF StackTypes
<1>0. TypeOK
  OBVIOUS
<1>1. ASSUME NEW c \in Callers, NEW step \in Steps, Goto(c, step), step # "evict", Locals
      PROVE  \A d \in Callers : pc'[d] = "evict" => popped'[d] \in Keys
  BY <1>0, <1>1, GotoMoves DEF Alone, Locals, TypeOK
<1>2. ASSUME NEW c \in Callers, SetStep(c)
      PROVE  /\ popped' \in [Callers -> Keys \cup {NoKey}] /\ UNCHANGED <<config, seen, resent>>
             /\ \A d \in Callers : pc'[d] = "evict" => popped'[d] \in Keys
  <2>1. CASE \E k \in Keys : Set(c, k)
    <3>1. PICK k \in Keys, step \in {"len", "put"} : Starts(c, k, step)
      BY <2>1 DEF Set
    <3>. QED BY <1>0, <3>1, StartsMoves DEF Alone, TypeOK, Steps
  <2>2. CASE SetLen(c) \/ SetPush(c) \/ SetPut(c)
    BY <1>0, <1>1, <2>2 DEF SetLen, SetPush, SetPut, Locals, TypeOK, Steps
  <2>3. CASE SetEvict(c)
    BY <1>0, <2>3, GotoMoves DEF SetEvict, TypeOK, Alone, Steps
  <2>4. CASE SetPop(c)
    <3> DEFINE top == IF stack = <<>> THEN NoKey ELSE Last(stack)
    <3>1. top \in Keys \cup {NoKey} /\ (AfterPop(top) = "evict" => top \in Keys)
          /\ AfterPop(top) \in Steps
      BY FrontOf DEF AfterPop, Steps
    <3>2. Goto(c, AfterPop(top)) /\ popped' = [popped EXCEPT ![c] = top]
          /\ UNCHANGED <<config, seen, resent>>
      BY <2>4 DEF SetPop
    <3> HIDE DEF top
    <3>. QED BY <1>0, <3>1, <3>2, GotoMoves DEF TypeOK, Alone
  <2>. QED BY <1>2, <2>1, <2>2, <2>3, <2>4 DEF SetStep
<1>3. ASSUME NEW c \in Callers, GetStep(c) \/ DeleteStep(c)
      PROVE  /\ UNCHANGED <<config, popped, seen, resent>>
             /\ \A d \in Callers : pc'[d] = "evict" => popped'[d] \in Keys
  <2>1. \/ \E k \in Keys, step \in {"take", "unstack"} : Starts(c, k, step)
        \/ \E step \in {"back", "idle"} : Goto(c, step) /\ Locals /\ UNCHANGED config
    BY <1>3 DEF GetStep, Get, GetTake, GetBack, DeleteStep, Delete, DeleteUnstack
  <2>2. CASE \E k \in Keys, step \in {"take", "unstack"} : Starts(c, k, step)
    BY <1>0, <2>2, StartsMoves DEF Alone, TypeOK, Steps
  <2>3. CASE \E step \in {"back", "idle"} : Goto(c, step) /\ Locals /\ UNCHANGED config
    BY <1>0, <1>1, <2>3 DEF Locals, Steps
  <2>. QED BY <2>1, <2>2, <2>3
<1>4. ASSUME NEW c \in Callers, ClearStep(c) \/ Abort(c)
      PROVE  /\ popped' \in [Callers -> Keys \cup {NoKey}]
             /\ seen' \in [Callers -> SUBSET (Keys \cup {StackKey})]
             /\ UNCHANGED <<config, resent>>
             /\ \A d \in Callers : pc'[d] = "evict" => popped'[d] \in Keys
  <2>1. PICK step \in {"idle", "drop", "wipe"} : Goto(c, step)
    BY <1>4 DEF ClearStep, Clear, ClearWipe, ClearDrop, Abort, AfterWipe
  <2>2. \A d \in Callers : pc'[d] = "evict" => d # c /\ pc[d] = "evict"
    BY <1>0, <2>1, GotoMoves DEF Alone, Steps
  <2>3. /\ popped' = popped \/ popped' = [popped EXCEPT ![c] = NoKey]
        /\ UNCHANGED <<config, resent>>
    BY <1>4 DEF ClearStep, Clear, ClearWipe, ClearDrop, Abort, Locals
  <2>4. seen' \in [Callers -> SUBSET (Keys \cup {StackKey})]
    BY <1>0, <1>4 DEF ClearStep, Clear, ClearWipe, ClearDrop, Abort, Locals, Scanned, TypeOK
  <2>. QED BY <1>0, <2>2, <2>3, <2>4 DEF TypeOK
<1>5. ASSUME NEW c \in Callers, Resend(c)
      PROVE  UNCHANGED <<config, pc, popped, seen>> /\ resent' \in 0 .. MaxResent
  BY <1>0, <1>5 DEF Resend, TypeOK
<1>6. CASE Tick \/ UNCHANGED vars
  BY <1>0, <1>6 DEF Tick, vars, config, TypeOK
<1>. QED BY <1>0, <1>2, <1>3, <1>4, <1>5, <1>6 DEF Next, TypeOK

LEMMA TypesStep == StackTypes /\ [Next]_vars => StackTypes'
<1> SUFFICES ASSUME StackTypes, [Next]_vars PROVE StackTypes'
  OBVIOUS
<1>1. stack' \in Seq(Keys)
  BY StackStep
<1>2. data' \in [Keys -> 0 .. TTL]
  BY DataStep DEF DataType, StackTypes, TypeOK
<1>3. /\ pc' \in [Callers -> Steps] /\ arg' \in [Callers -> Keys \cup {NoKey}]
      /\ \A c \in Callers : pc'[c] \in Keyed => arg'[c] \in Keys
  <2>1. ASSUME NEW c \in Callers,
               SetStep(c) \/ GetStep(c) \/ DeleteStep(c) \/ ClearStep(c) \/ Resend(c) \/ Abort(c)
        PROVE  /\ pc' \in [Callers -> Steps] /\ arg' \in [Callers -> Keys \cup {NoKey}]
               /\ \A d \in Callers : pc'[d] \in Keyed => arg'[d] \in Keys
    <3>1. /\ pc' \in [Callers -> Steps] /\ arg' \in [Callers -> Keys \cup {NoKey}]
          /\ pc'[c] \in Keyed => arg'[c] \in Keys
          /\ Alone(c)
      BY <2>1, CallerMoves
    <3>. QED BY <3>1 DEF Alone, StackTypes
  <2>2. CASE Tick \/ UNCHANGED vars
    BY <2>2 DEF Tick, vars, StackTypes, TypeOK
  <2>. QED BY <2>1, <2>2 DEF Next
<1>4. /\ popped' \in [Callers -> Keys \cup {NoKey}]
      /\ seen' \in [Callers -> SUBSET (Keys \cup {StackKey})]
      /\ resent' \in 0 .. MaxResent
      /\ UNCHANGED config
      /\ \A c \in Callers : pc'[c] = "evict" => popped'[c] \in Keys
  BY <1>3, LocalsStep
<1>5. \A i \in DOMAIN stack' : stack'[i] \in Keys
  BY <1>1
<1>. QED BY <1>1, <1>2, <1>3, <1>4, <1>5 DEF StackTypes, TypeOK, config

LEMMA TypesInit == Init => StackTypes
<1> SUFFICES ASSUME Init PROVE StackTypes
  OBVIOUS
<1>1. stack \in Seq(Keys) /\ \A i \in DOMAIN stack : stack[i] \in Keys
  BY DEF Init
<1>2. 0 \in 0 .. MaxResent /\ data \in [Keys -> 0 .. TTL]
  BY StackAssumption DEF Init
<1>. QED BY <1>1, <1>2 DEF Init, StackTypes, TypeOK, Steps, Keyed

\* The stack holds keys only, whoever pushes, pops and wipes it, and a caller about to
\* evict has popped one.
THEOREM StackTyped == Spec => []TypeOK
<1>1. StackTypes => TypeOK
  BY DEF StackTypes
<1>. QED BY <1>1, TypesInit, TypesStep, PTL DEF Spec

-----------------------------------------------------------------------------
(* Bounds.                                                                 *)

\* The callers that have made room in the stack, or have seen some.
Pending == {c \in Callers : pc[c] \in {"evict", "push"}}

\* The callers that have taken k out of the stack and will push it.
Owing(k) ==
  {c \in Callers : arg[c] = k /\ pc[c] \in {"len", "pop", "evict", "push", "back"}}

DepthInv ==
  policy = "lifo" =>
    /\ Len(stack) + Cardinality(Pending) <= capacity + Cardinality(Callers) - 1 + resent
    /\ \A c \in Callers : pc[c] \notin {"take", "back"}

CopiesInv ==
  \A k \in Keys : Copies(stack, k) + Cardinality(Owing(k)) <= Cardinality(Callers) + resent

LEMMA SomeCallers ==
  ASSUME NEW X, X \subseteq Callers
  PROVE  /\ IsFiniteSet(X) /\ Cardinality(X) \in Nat
         /\ Cardinality(Callers) \in Nat /\ Cardinality(X) <= Cardinality(Callers)
BY StackAssumption, FS_Subset, FS_CardinalityType

LEMMA FewerCallers ==
  ASSUME NEW X, X \subseteq Callers, NEW Y, Y \subseteq X
  PROVE  /\ Cardinality(X) \in Nat /\ Cardinality(Y) \in Nat
         /\ Cardinality(Y) <= Cardinality(X)
<1>1. IsFiniteSet(X)
  BY SomeCallers
<1>. QED BY <1>1, FS_Subset, FS_CardinalityType

LEMMA OneCallerLess ==
  ASSUME NEW X, X \subseteq Callers, NEW c \in X, NEW Y, Y \subseteq X \ {c}
  PROVE  /\ Cardinality(X) \in Nat /\ Cardinality(Y) \in Nat
         /\ Cardinality(Y) <= Cardinality(X) - 1
<1>1. IsFiniteSet(X)
  BY SomeCallers
<1>2. IsFiniteSet(X \ {c}) /\ Cardinality(X \ {c}) = Cardinality(X) - 1
  BY <1>1, FS_RemoveElement
<1>. QED BY <1>1, <1>2, FS_Subset, FS_CardinalityType

LEMMA OneCallerMore ==
  ASSUME NEW X, X \subseteq Callers, NEW c \in Callers, NEW Y, Y \subseteq X \cup {c}
  PROVE  /\ Cardinality(X) \in Nat /\ Cardinality(Y) \in Nat
         /\ Cardinality(Y) <= Cardinality(X) + 1
<1>1. IsFiniteSet(X)
  BY SomeCallers
<1>2. IsFiniteSet(X \cup {c}) /\ Cardinality(X \cup {c}) <= Cardinality(X) + 1
  <2>1. Cardinality(X) \in Nat
    BY <1>1, FS_CardinalityType
  <2>2. /\ IsFiniteSet(X \cup {c})
        /\ Cardinality(X \cup {c}) = IF c \in X THEN Cardinality(X) ELSE Cardinality(X) + 1
    BY <1>1, FS_AddElement
  <2>. QED BY <2>1, <2>2
<1>. QED BY <1>1, <1>2, FS_Subset, FS_CardinalityType

\* A step that adds nothing to the stack and after which no caller owes more.
LEMMA CopiesFewer ==
  ASSUME StackTypes, CopiesInv, Shrinks, UNCHANGED resent,
         NEW k \in Keys, Owing(k)' \subseteq Owing(k)
  PROVE  (Copies(stack, k) + Cardinality(Owing(k)) <= Cardinality(Callers) + resent)'
<1>1. Owing(k) \subseteq Callers
  BY DEF Owing
<1>2. Cardinality(Owing(k)') <= Cardinality(Owing(k)) /\ Cardinality(Owing(k)) \in Nat
      /\ Cardinality(Owing(k)') \in Nat
  BY <1>1, FewerCallers
<1>3. Copies(stack', k) \in Nat /\ Copies(stack, k) \in Nat /\ Copies(stack', k) <= Copies(stack, k)
  BY CopiesPlaces DEF Shrinks, StackTypes
<1>4. Cardinality(Callers) \in Nat /\ resent \in Nat
  BY SomeCallers, StackAssumption DEF StackTypes, TypeOK
<1>. QED BY <1>2, <1>3, <1>4 DEF CopiesInv

\* A step that takes k out of the stack, whoever owes it.
LEMMA CopiesCleared ==
  ASSUME StackTypes, UNCHANGED resent, NEW k \in Keys, Copies(stack', k) = 0
  PROVE  (Copies(stack, k) + Cardinality(Owing(k)) <= Cardinality(Callers) + resent)'
<1>1. Owing(k)' \subseteq Callers
  BY DEF Owing
<1>2. Cardinality(Owing(k)') <= Cardinality(Callers) /\ Cardinality(Callers) \in Nat
      /\ Cardinality(Owing(k)') \in Nat
  BY <1>1, SomeCallers
<1>3. resent \in Nat
  BY StackAssumption DEF StackTypes, TypeOK
<1>. QED BY <1>2, <1>3

\* A caller pushes the key it owes.
LEMMA CopiesPushed ==
  ASSUME StackTypes, CopiesInv, UNCHANGED resent, NEW c \in Callers,
         pc[c] \in {"push", "back"}, pc'[c] \in {"put", "idle"}, Alone(c),
         stack' = Append(stack, arg[c])
  PROVE  CopiesInv'
<1> SUFFICES ASSUME NEW k \in Keys
             PROVE  (Copies(stack, k) + Cardinality(Owing(k)) <= Cardinality(Callers) + resent)'
  BY DEF CopiesInv
<1>1. arg[c] \in Keys
  BY DEF StackTypes, Keyed
<1>2. Owing(k) \subseteq Callers /\ Owing(k)' \subseteq Owing(k) \ {c}
      /\ (arg[c] = k => c \in Owing(k))
  BY DEF Owing, Alone
<1>3. /\ Copies(stack', k) = Copies(stack, k) + (IF arg[c] = k THEN 1 ELSE 0)
      /\ Copies(stack, k) \in Nat
  BY <1>1, StackGrows, CopiesPlaces DEF StackTypes
<1>4. Cardinality(Callers) \in Nat /\ resent \in Nat
  BY SomeCallers, StackAssumption DEF StackTypes, TypeOK
<1>5. CASE arg[c] = k
  <2>1. /\ Cardinality(Owing(k)) \in Nat /\ Cardinality(Owing(k)') \in Nat
        /\ Cardinality(Owing(k)') <= Cardinality(Owing(k)) - 1
    BY <1>2, <1>5, OneCallerLess
  <2>. QED BY <1>3, <1>4, <1>5, <2>1 DEF CopiesInv
<1>6. CASE arg[c] # k
  <2>1. /\ Cardinality(Owing(k)) \in Nat /\ Cardinality(Owing(k)') \in Nat
        /\ Cardinality(Owing(k)') <= Cardinality(Owing(k))
    BY <1>2, FewerCallers
  <2>. QED BY <1>3, <1>4, <1>6, <2>1 DEF CopiesInv
<1>. QED BY <1>5, <1>6

LEMMA CopiesStep == StackTypes /\ CopiesInv /\ [Next]_vars => CopiesInv'
<1> SUFFICES ASSUME StackTypes, CopiesInv, [Next]_vars PROVE CopiesInv'
  OBVIOUS
<1>0. TypeOK /\ stack \in Seq(Keys)
  BY DEF StackTypes
<1>1. ASSUME Shrinks, UNCHANGED resent, \A k \in Keys : Owing(k)' \subseteq Owing(k)
      PROVE  CopiesInv'
  BY <1>1, CopiesFewer DEF CopiesInv
<1>2. ASSUME NEW c \in Callers, NEW step \in Steps, Goto(c, step),
             \/ step \notin {"len", "pop", "evict", "push", "back"}
             \/ pc[c] \in {"len", "pop", "evict", "push", "back"}
      PROVE  \A k \in Keys : Owing(k)' \subseteq Owing(k)
  <2>1. /\ pc'[c] = step /\ (step # "idle" => arg'[c] = arg[c]) /\ Alone(c)
    BY <1>0, <1>2, GotoMoves
  <2>. QED BY <1>2, <2>1 DEF Owing, Alone
<1>3. ASSUME NEW c \in Callers, NEW k \in Keys, NEW step \in Steps, Starts(c, k, step)
      PROVE  /\ \A q \in Keys \ {k} : Owing(q)' \subseteq Owing(q)
             /\ step \notin {"len", "pop", "evict", "push", "back"} => Owing(k)' \subseteq Owing(k)
  <2>1. /\ pc'[c] = step /\ arg'[c] = k /\ Alone(c)
    BY <1>0, <1>3, StartsMoves
  <2>. QED BY <2>1 DEF Owing, Alone
<1>4. ASSUME NEW c \in Callers, SetStep(c) PROVE CopiesInv'
  <2>1. ASSUME NEW k \in Keys, Set(c, k) PROVE CopiesInv'
    <3>1. CASE Starts(c, k, "len") /\ LRem(k)
      <4>1. UNCHANGED resent /\ Shrinks /\ Copies(stack', k) = 0
        BY <1>0, <3>1, ShrinksLRem DEF Starts, Locals
      <4>2. \A q \in Keys \ {k} : Owing(q)' \subseteq Owing(q)
        BY <1>3, <3>1 DEF Steps
      <4>. QED BY <4>1, <4>2, CopiesFewer, CopiesCleared DEF CopiesInv
    <3>2. CASE Starts(c, k, "put") /\ UNCHANGED server
      <4>1. UNCHANGED resent /\ Shrinks
        BY <1>0, <3>2, ShrinksKept DEF Starts, Locals, server
      <4>2. \A q \in Keys : Owing(q)' \subseteq Owing(q)
        BY <1>3, <3>2 DEF Steps
      <4>. QED BY <1>1, <4>1, <4>2
    <3>. QED BY <2>1, <3>1, <3>2 DEF Set
  <2>2. CASE SetLen(c)
    <3>1. UNCHANGED resent /\ Shrinks
      BY <1>0, <2>2, ShrinksKept DEF SetLen, Locals, server
    <3>2. \A k \in Keys : Owing(k)' \subseteq Owing(k)
      BY <1>2, <2>2 DEF SetLen, Steps
    <3>. QED BY <1>1, <3>1, <3>2
  <2>3. CASE SetPop(c)
    <3>1. UNCHANGED resent /\ Shrinks
      BY <1>0, <2>3, ShrinksKept, ShrinksPop DEF SetPop
    <3>2. \A k \in Keys : Owing(k)' \subseteq Owing(k)
      BY <1>2, <2>3 DEF SetPop, AfterPop, Steps
    <3>. QED BY <1>1, <3>1, <3>2
  <2>4. CASE SetEvict(c)
    <3>1. UNCHANGED resent /\ Shrinks
      BY <1>0, <2>4, ShrinksKept DEF SetEvict
    <3>2. \A k \in Keys : Owing(k)' \subseteq Owing(k)
      BY <1>2, <2>4 DEF SetEvict, Steps
    <3>. QED BY <1>1, <3>1, <3>2
  <2>5. CASE SetPush(c)
    <3>1. UNCHANGED resent /\ stack' = Append(stack, arg[c]) /\ pc[c] = "push"
      BY <2>5 DEF SetPush, Locals
    <3>2. pc'[c] = "put" /\ Alone(c)
      BY <1>0, <2>5, GotoMoves DEF SetPush, Steps
    <3>. QED BY <3>1, <3>2, CopiesPushed
  <2>6. CASE SetPut(c)
    <3>1. UNCHANGED resent /\ Shrinks
      BY <1>0, <2>6, ShrinksKept DEF SetPut, Locals
    <3>2. \A k \in Keys : Owing(k)' \subseteq Owing(k)
      BY <1>2, <2>6 DEF SetPut, Steps
    <3>. QED BY <1>1, <3>1, <3>2
  <2>. QED BY <1>4, <2>1, <2>2, <2>3, <2>4, <2>5, <2>6 DEF SetStep
<1>5. ASSUME NEW c \in Callers, GetStep(c) PROVE CopiesInv'
  <2>1. CASE \E k \in Keys : Get(c, k)
    <3>1. UNCHANGED resent /\ Shrinks
      BY <1>0, <2>1, ShrinksKept DEF Get, Starts, Locals, server
    <3>2. \A q \in Keys : Owing(q)' \subseteq Owing(q)
      BY <1>3, <2>1 DEF Get, Steps
    <3>. QED BY <1>1, <3>1, <3>2
  <2>2. CASE GetTake(c)
    <3>1. /\ UNCHANGED resent /\ Shrinks /\ Copies(stack', arg[c]) = 0
          /\ arg[c] \in Keys
      BY <1>0, <2>2, ShrinksLRem DEF GetTake, Locals, StackTypes, Keyed
    <3>2. pc'[c] = "back" /\ arg'[c] = arg[c] /\ Alone(c)
      BY <1>0, <2>2, GotoMoves DEF GetTake, Steps
    <3>3. \A q \in Keys \ {arg[c]} : Owing(q)' \subseteq Owing(q)
      BY <3>2 DEF Owing, Alone
    <3>. QED BY <3>1, <3>3, CopiesFewer, CopiesCleared DEF CopiesInv
  <2>3. CASE GetBack(c)
    <3>1. UNCHANGED resent /\ stack' = Append(stack, arg[c]) /\ pc[c] = "back"
      BY <2>3 DEF GetBack, Locals
    <3>2. pc'[c] = "idle" /\ Alone(c)
      BY <1>0, <2>3, GotoMoves DEF GetBack, Steps
    <3>. QED BY <3>1, <3>2, CopiesPushed
  <2>. QED BY <1>5, <2>1, <2>2, <2>3 DEF GetStep
<1>6. ASSUME NEW c \in Callers, DeleteStep(c) PROVE CopiesInv'
  <2>1. UNCHANGED resent /\ Shrinks
    BY <1>0, <1>6, ShrinksKept, ShrinksLRem
       DEF DeleteStep, Delete, DeleteUnstack, Starts, Locals
  <2>2. CASE \E k \in Keys : Starts(c, k, "unstack")
    <3>1. \A q \in Keys : Owing(q)' \subseteq Owing(q)
      BY <1>3, <2>2 DEF Steps
    <3>. QED BY <1>1, <2>1, <3>1
  <2>3. CASE Goto(c, "idle")
    <3>1. \A q \in Keys : Owing(q)' \subseteq Owing(q)
      BY <1>2, <2>3 DEF Steps
    <3>. QED BY <1>1, <2>1, <3>1
  <2>. QED BY <1>6, <2>2, <2>3 DEF DeleteStep, Delete, DeleteUnstack
<1>7. ASSUME NEW c \in Callers, ClearStep(c) \/ Abort(c) PROVE CopiesInv'
  <2>1. UNCHANGED resent /\ (stack' = stack \/ stack' = <<>>)
    BY <1>7 DEF ClearStep, Clear, ClearWipe, ClearDrop, Abort, Locals, server
  <2>2. Shrinks
    BY <1>0, <2>1, ShrinksKept, ShrinksEmpty
  <2>3. \A q \in Keys : Owing(q)' \subseteq Owing(q)
    BY <1>2, <1>7 DEF ClearStep, Clear, ClearWipe, ClearDrop, Abort, AfterWipe, Steps
  <2>. QED BY <1>1, <2>1, <2>2, <2>3
<1>8. ASSUME NEW c \in Callers, Resend(c) PROVE CopiesInv'
  <2>1. UNCHANGED <<pc, arg>> /\ \A k \in Keys : Owing(k)' = Owing(k)
    BY <1>8 DEF Resend, Owing
  <2>2. CASE stack # <<>> /\ stack' = Front(stack) /\ UNCHANGED resent
    BY <1>0, <1>1, <2>1, <2>2, ShrinksPop
  <2>3. CASE pc[c] \in {"push", "back"} /\ stack' = Append(stack, arg[c]) /\ resent' = resent + 1
    <3>1. arg[c] \in Keys
      BY <2>3 DEF StackTypes, Keyed
    <3>2. \A k \in Keys : /\ Copies(stack', k) <= Copies(stack, k) + 1
                          /\ Copies(stack, k) \in Nat /\ Copies(stack', k) \in Nat
      BY <1>0, <2>3, <3>1, StackGrows, CopiesPlaces
    <3>3. \A k \in Keys : Cardinality(Owing(k)) \in Nat
      BY SomeCallers DEF Owing
    <3>4. Cardinality(Callers) \in Nat /\ resent \in Nat
      BY <1>0, SomeCallers, StackAssumption DEF TypeOK
    <3>. QED BY <2>1, <2>3, <3>2, <3>3, <3>4 DEF CopiesInv
  <2>. QED BY <1>8, <2>2, <2>3 DEF Resend
<1>9. CASE Tick \/ UNCHANGED vars
  BY <1>9 DEF Tick, vars, server, CopiesInv, Owing
<1>. QED BY <1>4, <1>5, <1>6, <1>7, <1>8, <1>9 DEF Next

LEMMA CopiesInit == Init => CopiesInv
<1> SUFFICES ASSUME Init, NEW k \in Keys
             PROVE  Copies(stack, k) + Cardinality(Owing(k)) <= Cardinality(Callers) + resent
  BY DEF CopiesInv
<1>1. Owing(k) = {} /\ stack = <<>> /\ resent = 0
  BY DEF Init, Owing
<1>2. Cardinality(Callers) \in Nat
  BY SomeCallers
<1>. QED BY <1>1, <1>2, CopiesEmpty, FS_EmptySet

\* However the LREMs and RPUSHes of two operations on a key interleave, fail and are sent
\* again, the stack holds the key at most once for each caller.
THEOREM CopiesBounded == Spec => []CopiesBound
<1>1. StackTypes /\ CopiesInv => CopiesBound
  <2> SUFFICES ASSUME StackTypes, CopiesInv, NEW k \in Keys
               PROVE  Copies(stack, k) <= Cardinality(Callers) + resent
    BY DEF CopiesBound, Copies
  <2>1. Cardinality(Owing(k)) \in Nat /\ Cardinality(Callers) \in Nat
    BY SomeCallers DEF Owing
  <2>2. Copies(stack, k) \in Nat /\ resent \in Nat
    BY CopiesPlaces, StackAssumption DEF StackTypes, TypeOK
  <2>. QED BY <2>1, <2>2 DEF CopiesInv
<1>. QED BY <1>1, TypesInit, TypesStep, CopiesInit, CopiesStep, PTL DEF Spec

-----------------------------------------------------------------------------
\* A step that adds nothing to the stack and after which no caller more is pending.
LEMMA DepthLess ==
  ASSUME StackTypes, DepthInv, policy = "lifo", Shrinks, UNCHANGED <<config, resent>>,
         Pending' \subseteq Pending
  PROVE  Len(stack') + Cardinality(Pending') <= capacity' + Cardinality(Callers) - 1 + resent'
<1>1. Pending \subseteq Callers
  BY DEF Pending
<1>2. /\ Cardinality(Pending') <= Cardinality(Pending)
      /\ Cardinality(Pending) \in Nat /\ Cardinality(Pending') \in Nat
  BY <1>1, FewerCallers
<1>3. Len(stack') \in Nat /\ Len(stack) \in Nat /\ Len(stack') <= Len(stack)
  BY DEF Shrinks, StackTypes
<1>4. Cardinality(Callers) \in Nat /\ resent \in Nat /\ capacity \in Nat
  BY SomeCallers, StackAssumption DEF StackTypes, TypeOK
<1>5. capacity' = capacity /\ resent' = resent
  BY DEF config
<1>. QED BY <1>2, <1>3, <1>4, <1>5 DEF DepthInv

\* A step after which the stack has room, however many are pending.
LEMMA DepthRoom ==
  ASSUME StackTypes, UNCHANGED <<config, resent>>,
         stack' \in Seq(Keys), Len(stack') < capacity
  PROVE  Len(stack') + Cardinality(Pending') <= capacity' + Cardinality(Callers) - 1 + resent'
<1>1. Pending' \subseteq Callers
  BY DEF Pending
<1>2. /\ Cardinality(Pending') <= Cardinality(Callers)
      /\ Cardinality(Callers) \in Nat /\ Cardinality(Pending') \in Nat
  BY <1>1, SomeCallers
<1>3. Len(stack') \in Nat /\ resent \in Nat /\ capacity \in Nat
  BY StackAssumption DEF StackTypes, TypeOK
<1>4. capacity' = capacity /\ resent' = resent
  BY DEF config
<1>. QED BY <1>2, <1>3, <1>4

LEMMA DepthStep == StackTypes /\ DepthInv /\ [Next]_vars => DepthInv'
<1> SUFFICES ASSUME StackTypes, DepthInv, [Next]_vars, policy' = "lifo"
             PROVE  /\ Len(stack') + Cardinality(Pending') <=
                         capacity' + Cardinality(Callers) - 1 + resent'
                    /\ \A c \in Callers : pc'[c] \notin {"take", "back"}
  BY DEF DepthInv
<1> DEFINE Bounded == Len(stack') + Cardinality(Pending') <=
                        capacity' + Cardinality(Callers) - 1 + resent'
           Straight(c) == pc'[c] \notin {"take", "back"}
<1>0. TypeOK /\ stack \in Seq(Keys) /\ stack' \in Seq(Keys) /\ StackTypes'
  BY TypesStep DEF StackTypes
<1>1. policy = "lifo" /\ UNCHANGED config
  <2>1. UNCHANGED config
    BY <1>0, LocalsStep DEF StackTypes, TypeOK
  <2>. QED BY <2>1 DEF config
<1>2. \A c \in Callers : pc[c] \notin {"take", "back"}
  BY <1>1 DEF DepthInv
<1>3. ASSUME Shrinks, UNCHANGED resent, Pending' \subseteq Pending PROVE Bounded
  BY <1>1, <1>3, DepthLess
<1>4. ASSUME NEW c \in Callers, NEW step \in Steps, Goto(c, step), step \notin {"take", "back"}
      PROVE  /\ Straight(c) /\ Alone(c)
             /\ step \notin {"evict", "push"} \/ pc[c] \in {"evict", "push"}
                  => Pending' \subseteq Pending
             /\ pc[c] \in {"evict", "push"} /\ step \notin {"evict", "push"}
                  => c \in Pending /\ Pending' \subseteq Pending \ {c}
             /\ Pending' \subseteq Pending \cup {c}
  <2>1. pc'[c] = step /\ Alone(c)
    BY <1>0, <1>4, GotoMoves
  <2>. QED BY <1>4, <2>1 DEF Pending, Alone
<1>5. ASSUME NEW c \in Callers, NEW k \in Keys, NEW step \in {"len", "put", "unstack"},
             Starts(c, k, step)
      PROVE  Straight(c) /\ Alone(c) /\ Pending' \subseteq Pending
  <2>1. pc'[c] = step /\ Alone(c)
    BY <1>0, <1>5, StartsMoves DEF Steps
  <2>. QED BY <1>5, <2>1 DEF Pending, Alone
<1>6. Len(stack) \in Nat /\ capacity \in Nat \ {0} /\ resent \in Nat /\ Cardinality(Callers) \in Nat
  BY <1>0, StackAssumption, SomeCallers DEF TypeOK
<1>7. capacity' = capacity
  BY <1>1 DEF config
<1>8. ASSUME NEW c \in Callers, SetStep(c) PROVE Bounded /\ Straight(c) /\ Alone(c)
  <2>1. ASSUME NEW k \in Keys, Set(c, k) PROVE Bounded /\ Straight(c) /\ Alone(c)
    <3>1. Starts(c, k, "len") /\ LRem(k)
      BY <1>1, <2>1 DEF Set
    <3>2. UNCHANGED resent /\ Shrinks
      BY <1>0, <3>1, ShrinksLRem DEF Starts, Locals
    <3>. QED BY <1>3, <1>5, <3>1, <3>2
  <2>2. CASE SetLen(c)
    <3>1. UNCHANGED <<config, resent, stack>>
      BY <2>2 DEF SetLen, Locals, server
    <3>2. CASE IsFull(Len(stack))
      <4>1. Goto(c, "pop")
        BY <2>2, <3>2 DEF SetLen
      <4>2. Shrinks
        BY <1>0, <3>1, ShrinksKept
      <4>. QED BY <1>3, <1>4, <3>1, <4>1, <4>2 DEF Steps
    <3>3. CASE ~IsFull(Len(stack))
      <4>1. Goto(c, "push")
        BY <2>2, <3>3 DEF SetLen
      <4>2. Len(stack) < capacity
        BY <1>6, <3>3 DEF IsFull
      <4>3. Bounded
        BY <1>0, <3>1, <4>2, DepthRoom
      <4>. QED BY <1>4, <4>1, <4>3 DEF Steps
    <3>. QED BY <3>2, <3>3
  <2>3. CASE SetPop(c)
    <3> DEFINE top == IF stack = <<>> THEN NoKey ELSE Last(stack)
    <3>1. /\ stack' = IF top = NoKey THEN stack ELSE Front(stack)
          /\ Goto(c, AfterPop(top)) /\ UNCHANGED <<config, resent>> /\ pc[c] = "pop"
      BY <2>3 DEF SetPop
    <3>2. AfterPop(top) \in Steps \ {"take", "back"}
      BY DEF AfterPop, Steps
    <3>3. Straight(c) /\ Alone(c) /\ Pending' \subseteq Pending \cup {c}
      <4> HIDE DEF top
      <4>. QED BY <1>4, <3>1, <3>2
    <3>4. CASE stack = <<>>
      <4>1. Len(stack') < capacity
        BY <1>6, <3>1, <3>4
      <4>2. Bounded
        BY <1>0, <3>1, <4>1, DepthRoom
      <4>. QED BY <3>3, <4>2
    <3>5. CASE stack # <<>>
      <4>1. Last(stack) \in Keys /\ top # NoKey
        BY <1>0, <3>5, FrontOf, StackAssumption
      <4>2. Len(stack') = Len(stack) - 1
        BY <1>0, <3>1, <3>5, <4>1, ShrinksPop
      <4>3. /\ Cardinality(Pending) \in Nat /\ Cardinality(Pending') \in Nat
            /\ Cardinality(Pending') <= Cardinality(Pending) + 1
        <5>1. Pending \subseteq Callers
          BY DEF Pending
        <5>. QED BY <3>3, <5>1, OneCallerMore
      <4>4. Bounded
        BY <1>1, <1>6, <1>7, <3>1, <4>2, <4>3 DEF DepthInv
      <4>. QED BY <3>3, <4>4
    <3>. QED BY <3>4, <3>5
  <2>4. CASE SetEvict(c)
    <3>1. UNCHANGED <<stack, resent>> /\ Goto(c, "push") /\ pc[c] = "evict"
      BY <2>4 DEF SetEvict
    <3>2. Shrinks
      BY <1>0, <3>1, ShrinksKept
    <3>. QED BY <1>3, <1>4, <3>1, <3>2 DEF Steps
  <2>5. CASE SetPush(c)
    <3>1. /\ UNCHANGED resent /\ Goto(c, "put") /\ pc[c] = "push"
          /\ stack' = Append(stack, arg[c])
      BY <2>5 DEF SetPush, Locals
    <3>2. Straight(c) /\ Alone(c) /\ c \in Pending /\ Pending' \subseteq Pending \ {c}
      BY <1>4, <3>1 DEF Steps
    <3>3. /\ Cardinality(Pending) \in Nat /\ Cardinality(Pending') \in Nat
          /\ Cardinality(Pending') <= Cardinality(Pending) - 1
      <4>1. Pending \subseteq Callers
        BY DEF Pending
      <4>. QED BY <3>2, <4>1, OneCallerLess
    <3>4. Len(stack') = Len(stack) + 1
      BY <1>0, <3>1
    <3>5. Bounded
      BY <1>1, <1>6, <1>7, <3>1, <3>3, <3>4 DEF DepthInv
    <3>. QED BY <3>2, <3>5
  <2>6. CASE SetPut(c)
    <3>1. UNCHANGED <<stack, resent>> /\ Goto(c, "idle")
      BY <2>6 DEF SetPut, Locals
    <3>2. Shrinks
      BY <1>0, <3>1, ShrinksKept
    <3>. QED BY <1>3, <1>4, <3>1, <3>2 DEF Steps
  <2>. QED BY <1>8, <2>1, <2>2, <2>3, <2>4, <2>5, <2>6 DEF SetStep
<1>9. ASSUME NEW c \in Callers, GetStep(c) PROVE FALSE
  BY <1>1, <1>2, <1>9 DEF GetStep, Get, GetTake, GetBack
<1>10. ASSUME NEW c \in Callers, DeleteStep(c) PROVE Bounded /\ Straight(c) /\ Alone(c)
  <2>1. UNCHANGED resent /\ Shrinks
    BY <1>0, <1>10, ShrinksKept, ShrinksLRem
       DEF DeleteStep, Delete, DeleteUnstack, Starts, Locals
  <2>2. CASE \E k \in Keys : Starts(c, k, "unstack")
    BY <1>3, <1>5, <2>1, <2>2
  <2>3. CASE Goto(c, "idle")
    BY <1>3, <1>4, <2>1, <2>3 DEF Steps
  <2>. QED BY <1>10, <2>2, <2>3 DEF DeleteStep, Delete, DeleteUnstack
<1>11. ASSUME NEW c \in Callers, ClearStep(c) \/ Abort(c) PROVE Bounded /\ Straight(c) /\ Alone(c)
  <2>1. UNCHANGED resent /\ (stack' = stack \/ stack' = <<>>)
    BY <1>11 DEF ClearStep, Clear, ClearWipe, ClearDrop, Abort, Locals, server
  <2>2. Shrinks
    BY <1>0, <2>1, ShrinksKept, ShrinksEmpty
  <2>3. PICK step \in {"idle", "drop", "wipe"} : Goto(c, step)
    BY <1>11 DEF ClearStep, Clear, ClearWipe, ClearDrop, Abort, AfterWipe
  <2>. QED BY <1>3, <1>4, <2>1, <2>2, <2>3 DEF Steps
<1>12. ASSUME NEW c \in Callers, Resend(c) PROVE Bounded /\ Straight(c) /\ Alone(c)
  <2>1. UNCHANGED <<pc, arg>> /\ Pending' = Pending
    BY <1>12 DEF Resend, Pending
  <2>2. Straight(c) /\ Alone(c)
    BY <1>2, <2>1 DEF Alone
  <2>3. CASE stack # <<>> /\ stack' = Front(stack) /\ UNCHANGED resent
    BY <1>0, <1>3, <2>1, <2>2, <2>3, ShrinksPop
  <2>4. CASE stack' = Append(stack, arg[c]) /\ resent' = resent + 1
    <3>1. Len(stack') = Len(stack) + 1
      BY <1>0, <2>4
    <3>2. Cardinality(Pending) \in Nat
      BY SomeCallers DEF Pending
    <3>3. Bounded
      BY <1>1, <1>6, <1>7, <2>1, <2>4, <3>1, <3>2 DEF DepthInv
    <3>. QED BY <2>2, <3>3
  <2>. QED BY <1>12, <2>3, <2>4 DEF Resend
<1>13. CASE Tick \/ UNCHANGED vars
  <2>1. UNCHANGED <<stack, pc, resent>> /\ Pending' = Pending
    BY <1>13 DEF Tick, vars, server, Pending
  <2>. QED BY <1>1, <1>2, <1>7, <2>1 DEF DepthInv
<1>14. ASSUME NEW c \in Callers, Bounded /\ Straight(c) /\ Alone(c)
       PROVE  Bounded /\ \A d \in Callers : Straight(d)
  BY <1>2, <1>14 DEF Alone
<1>. QED BY <1>8, <1>9, <1>10, <1>11, <1>12, <1>13, <1>14 DEF Next

LEMMA DepthInit == Init => DepthInv
<1> SUFFICES ASSUME Init PROVE DepthInv
  OBVIOUS
<1>1. Pending = {} /\ Len(stack) = 0 /\ resent = 0
  BY DEF Init, Pending
<1>2. Cardinality(Callers) \in Nat /\ capacity \in Nat \ {0}
  BY SomeCallers, StackAssumption DEF Init
<1>. QED BY <1>1, <1>2, FS_EmptySet DEF Init, DepthInv

\* Between LLEN and RPUSH every caller may see the same room: the stack of the LIFO cache
\* is over its capacity by at most one entry for each further caller, and one for each
\* push that was sent twice.
THEOREM StackBounded == Spec => []StackBound
<1>1. StackTypes /\ DepthInv => StackBound
  <2> SUFFICES ASSUME StackTypes, DepthInv, policy = "lifo"
               PROVE  Len(stack) + Cardinality(Pushing) <=
                        capacity + Cardinality(Callers) - 1 + resent
    BY DEF StackBound
  <2>1. Pending \subseteq Callers /\ Pushing \subseteq Pending
    BY DEF Pending, Pushing
  <2>2. /\ Cardinality(Pending) \in Nat /\ Cardinality(Pushing) \in Nat
        /\ Cardinality(Pushing) <= Cardinality(Pending)
    BY <2>1, FewerCallers
  <2>3. /\ Len(stack) \in Nat /\ capacity \in Nat /\ resent \in Nat
        /\ Cardinality(Callers) \in Nat
    BY StackAssumption, SomeCallers DEF StackTypes, TypeOK
  <2>. QED BY <2>2, <2>3 DEF DepthInv
<1>. QED BY <1>1, TypesInit, TypesStep, DepthInit, DepthStep, PTL DEF Spec
=============================================================================
