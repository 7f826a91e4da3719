-------------------------- MODULE LimitedCallProofs --------------------------
(***************************************************************************)
(* What the counter of the entry points is worth, for any number of        *)
(* callers, any limit and window, and under every fault.                   *)
(*                                                                         *)
(* That the counter holds only calls the check let pass is not inductive:  *)
(* a count that was read is written later, over a counter that may have    *)
(* expired or grown in between.  CountInv says of each count that was read *)
(* what CountsOnlyPassed says of the counter.                              *)
(*                                                                         *)
(* What the counter promises while calls follow each other and none fails  *)
(* is a matter of its expiry: the entries it does not cover any more are   *)
(* the young ones, and CoverInv allows for one of these, the entry of a    *)
(* call whose count is still to be read.                                   *)
(*                                                                         *)
(* When calls meet, counts are lost, but the expiry still covers what they *)
(* leave: RenewedInv allows for an entry of each call on its way.          *)
(***************************************************************************)
EXTENDS LimitedCall, DataTheorems

SeenBehind ==
  \A c \in Callers : pc[c] = "set" => seen[c] + Cardinality(Counting) <= passed

CountInv == TypeOK /\ CountsOnlyPassed /\ SeenBehind

LEMMA Numbers == Limit \in Nat \ {0} /\ Window \in Nat \ {0}
BY LimitedCallAssumption

-----------------------------------------------------------------------------
(* The calls on their way to the counter.                                  *)

LEMMA CountingFinite == IsFiniteSet(Counting) /\ Cardinality(Counting) \in Nat
<1>1. IsFiniteSet(Counting)
  BY LimitedCallAssumption, FS_Subset DEF Counting
<1>. QED BY <1>1, FS_CardinalityType

\* A caller that moves on without reaching or leaving the counter's awaits.
LEMMA CountingKept ==
  ASSUME \A c \in Callers : pc'[c] \in {"get", "set"} <=> pc[c] \in {"get", "set"}
  PROVE  Counting' = Counting
BY DEF Counting

\* A call that passes the check joins them.
LEMMA CountingJoined ==
  ASSUME TypeOK, NEW c \in Callers, pc[c] \notin {"get", "set"},
         pc' = [pc EXCEPT ![c] = "get"]
  PROVE  Cardinality(Counting') = Cardinality(Counting) + 1
<1>1. Counting' = Counting \cup {c} /\ c \notin Counting
  BY DEF Counting, TypeOK
<1>. QED BY <1>1, CountingFinite, FS_AddElement

\* A call that ends leaves them, if it was one.
LEMMA CountingLeft ==
  ASSUME TypeOK, NEW c \in Callers, pc' = [pc EXCEPT ![c] = "idle"]
  PROVE  /\ Cardinality(Counting') \in Nat
         /\ Cardinality(Counting') <= Cardinality(Counting)
         /\ c \in Counting => Cardinality(Counting') = Cardinality(Counting) - 1
<1>1. Counting' = Counting \ {c}
  BY DEF Counting, TypeOK
<1>2. IsFiniteSet(Counting \ {c})
  BY CountingFinite, FS_RemoveElement
<1>3. Cardinality(Counting \ {c}) \in Nat
  BY <1>2, FS_CardinalityType
<1>4. CASE c \in Counting
  BY <1>1, <1>3, <1>4, CountingFinite, FS_RemoveElement
<1>5. CASE c \notin Counting
  <2>1. Counting \ {c} = Counting
    BY <1>5
  <2>. QED BY <1>1, <1>5, <2>1, CountingFinite
<1>. QED BY <1>4, <1>5

-----------------------------------------------------------------------------
LEMMA TypeStep == TypeOK /\ [Next]_vars => TypeOK'
<1> SUFFICES ASSUME TypeOK, [Next]_vars PROVE TypeOK'
  OBVIOUS
<1> USE Numbers
<1>1. failed' \in BOOLEAN /\ met' \in BOOLEAN
  <2>1. ASSUME NEW c \in Callers, Begin(c) PROVE failed' \in BOOLEAN /\ met' \in BOOLEAN
    BY <2>1, Zenon DEF Begin, TypeOK
  <2>2. ASSUME NEW c \in Callers, Check(c) PROVE failed' \in BOOLEAN /\ met' \in BOOLEAN
    BY <2>2, Zenon DEF Check, Pass, Limited, TypeOK
  <2>3. ASSUME NEW c \in Callers, Track(c) \/ GetCount(c) \/ SetCount(c) \/ Cancel(c)
        PROVE  failed' \in BOOLEAN /\ met' \in BOOLEAN
    BY <2>3, Zenon DEF Track, GetCount, SetCount, Cancel, TypeOK
  <2>4. ASSUME Tick \/ UNCHANGED vars PROVE failed' \in BOOLEAN /\ met' \in BOOLEAN
    BY <2>4, Zenon DEF Tick, vars, TypeOK
  <2>. QED BY <2>1, <2>2, <2>3, <2>4, Zenon DEF Next, Call
<1>2. UNCHANGED entry
  BY DEF Next, Call, Begin, Track, Check, GetCount, SetCount, Cancel, Tick, vars
<1>3. /\ pc' \in [Callers -> {"idle", "meta", "check", "get", "set"}]
      /\ outcome' \in [Callers -> Outcomes]
  BY DEF Next, Call, Begin, Track, Check, Pass, Limited, TurnAway, GetCount, SetCount,
     Cancel, Tick, vars, Goto, Return, FailOpen, Outcomes, TypeOK
<1>4. passed' \in Nat
  BY DEF Next, Call, Begin, Track, Check, Pass, Limited, GetCount, SetCount, Cancel, Tick,
     vars, TypeOK
<1>5. counter' \in Nat /\ ttl' \in 0 .. Window /\ seen' \in [Callers -> Nat]
  BY DEF Next, Call, Begin, Track, Check, GetCount, SetCount, Counted, Cancel, Tick,
     vars, TypeOK
<1>6. log' \in [0 .. Window - 1 -> Nat]
  <2>1. ASSUME Tick PROVE log' \in [0 .. Window - 1 -> Nat]
    BY <2>1 DEF Tick, TypeOK
  <2>2. ASSUME NEW c \in Callers, Check(c) PROVE log' \in [0 .. Window - 1 -> Nat]
    BY <2>2 DEF Check, Pass, Limited, TypeOK
  <2>. QED BY <2>1, <2>2
       DEF Next, Call, Begin, Track, GetCount, SetCount, Cancel, vars, TypeOK
<1>. QED BY <1>1, <1>2, <1>3, <1>4, <1>5, <1>6 DEF TypeOK

LEMMA TypeInit == Init => TypeOK
<1> SUFFICES ASSUME Init PROVE TypeOK
  OBVIOUS
<1>1. failed \in BOOLEAN /\ met \in BOOLEAN
  BY Zenon DEF Init
<1>. QED BY <1>1, Numbers DEF Init, TypeOK, Outcomes

\* The counter's type, its clock and the counts that were read, of every behaviour.
THEOREM CallTypes == Spec => []TypeOK
<1>. QED BY TypeInit, TypeStep, PTL DEF Spec

-----------------------------------------------------------------------------
\* A call that ends without a write.
LEMMA EndStep ==
  ASSUME CountInv, NEW c \in Callers, NEW how, Return(c, how),
         UNCHANGED <<counter, seen, passed>>
  PROVE  CountsOnlyPassed' /\ SeenBehind'
<1>1. Cardinality(Counting') \in Nat /\ Cardinality(Counting') <= Cardinality(Counting)
  BY CountingLeft DEF CountInv, Return
<1>2. \A d \in Callers : pc'[d] = "set" => pc[d] = "set"
  BY DEF CountInv, TypeOK, Return
<1>. QED BY <1>1, <1>2, CountingFinite
     DEF CountInv, CountsOnlyPassed, SeenBehind, TypeOK

LEMMA CountStep == CountInv /\ [Next]_vars => CountInv'
<1> SUFFICES ASSUME CountInv, [Next]_vars PROVE CountsOnlyPassed' /\ SeenBehind'
  BY TypeStep DEF CountInv
<1> USE CountingFinite DEF CountInv, CountsOnlyPassed, SeenBehind
<1>1. ASSUME NEW c \in Callers, Begin(c) \/ Track(c)
      PROVE  CountsOnlyPassed' /\ SeenBehind'
  <2>1. \A d \in Callers : /\ pc'[d] \in {"get", "set"} <=> pc[d] \in {"get", "set"}
                           /\ pc'[d] = "set" => pc[d] = "set"
    BY <1>1 DEF Begin, Track, Goto, FailOpen, Return, TypeOK
  <2>2. UNCHANGED <<counter, seen, passed>>
    BY <1>1 DEF Begin, Track
  <2>. QED BY <2>1, <2>2, CountingKept
<1>2. ASSUME NEW c \in Callers, Check(c) PROVE CountsOnlyPassed' /\ SeenBehind'
  <2>1. CASE Pass(c)
    <3>1. Cardinality(Counting') = Cardinality(Counting) + 1
      BY <1>2, <2>1, CountingJoined DEF Check, Pass, Goto
    <3>2. \A d \in Callers : pc'[d] = "set" => pc[d] = "set"
      BY <2>1 DEF Pass, Goto, TypeOK
    <3>3. passed' = passed + 1 /\ UNCHANGED <<counter, seen>>
      BY <1>2, <2>1 DEF Check, Pass
    <3>. QED BY <3>1, <3>2, <3>3 DEF TypeOK
  <2>2. CASE Limited(c)
    BY <1>2, <2>2, EndStep DEF Check, Limited, TurnAway
  <2>. QED BY <1>2, <2>1, <2>2 DEF Check
<1>3. ASSUME NEW c \in Callers, GetCount(c) PROVE CountsOnlyPassed' /\ SeenBehind'
  <2>1. CASE Goto(c, "set") /\ seen' = [seen EXCEPT ![c] = counter]
    <3>1. \A d \in Callers : /\ pc'[d] \in {"get", "set"} <=> pc[d] \in {"get", "set"}
                             /\ d # c /\ pc'[d] = "set" => pc[d] = "set"
      BY <1>3, <2>1 DEF GetCount, Goto, TypeOK
    <3>2. seen'[c] = counter /\ \A d \in Callers : d # c => seen'[d] = seen[d]
      BY <2>1 DEF TypeOK
    <3>3. Counting' = Counting /\ UNCHANGED <<counter, passed>>
      BY <1>3, <3>1, CountingKept DEF GetCount
    <3>. QED BY <3>1, <3>2, <3>3
  <2>2. CASE FailOpen(c) /\ UNCHANGED seen
    BY <1>3, <2>2, EndStep DEF GetCount, FailOpen
  <2>. QED BY <1>3, <2>1, <2>2 DEF GetCount
<1>4. ASSUME NEW c \in Callers, SetCount(c) PROVE CountsOnlyPassed' /\ SeenBehind'
  <2>1. CASE Counted(c)
    <3>1. Cardinality(Counting') = Cardinality(Counting) - 1
      BY <1>4, CountingLeft DEF SetCount, FailOpen, Return, Counting
    <3>2. \A d \in Callers : pc'[d] = "set" => pc[d] = "set"
      BY <1>4 DEF SetCount, FailOpen, Return, TypeOK
    <3>3. /\ counter' = seen[c] + 1 /\ seen[c] + Cardinality(Counting) <= passed
          /\ UNCHANGED <<seen, passed>>
      BY <1>4, <2>1 DEF SetCount, Counted
    <3>. QED BY <3>1, <3>2, <3>3 DEF TypeOK
  <2>2. CASE UNCHANGED counter
    BY <1>4, <2>2, EndStep DEF SetCount, FailOpen
  <2>. QED BY <1>4, <2>1, <2>2 DEF SetCount
<1>5. ASSUME NEW c \in Callers, Cancel(c) PROVE CountsOnlyPassed' /\ SeenBehind'
  BY <1>5, EndStep DEF Cancel
<1>6. CASE Tick
  <2>1. Counting' = Counting /\ counter' <= counter /\ UNCHANGED <<pc, seen, passed>>
    BY <1>6 DEF Tick, Counting, TypeOK
  <2>. QED BY <1>6, <2>1 DEF Tick, TypeOK
<1>7. CASE UNCHANGED vars
  BY <1>7 DEF vars, Counting
<1>. QED BY <1>1, <1>2, <1>3, <1>4, <1>5, <1>6, <1>7 DEF Next, Call

\* No call the check limited is ever counted, and none twice: the counter and the calls
\* still on their way to it are together no more than the calls that passed.
THEOREM CountsPassed == Spec => []CountsOnlyPassed
<1>1. Init => CountInv
  <2> SUFFICES ASSUME Init PROVE CountInv
    OBVIOUS
  <2>1. Counting = {} /\ Cardinality({}) = 0
    BY FS_EmptySet DEF Init, Counting
  <2>. QED BY <2>1, TypeInit DEF Init, CountInv, CountsOnlyPassed, SeenBehind
<1>2. CountInv => CountsOnlyPassed
  BY DEF CountInv
<1>. QED BY <1>1, <1>2, CountStep, PTL DEF Spec
-----------------------------------------------------------------------------
(* What the counter promises.                                              *)

\* At most k entries are missing from the counter, now and when it expires.
Covered(k) == Prefix(log, Window) <= counter + k /\ Prefix(log, Window - ttl) <= k

Alone == \A c, d \in Callers : pc[c] # "idle" /\ pc[d] # "idle" => c = d

Settled == Counting = {} => Covered(0)

ToRead == \A c \in Callers : pc[c] = "get" => Covered(1)

ToWrite == \A c \in Callers : pc[c] = "set" => Prefix(log, Window) <= seen[c] + 1

CoverInv ==
  /\ TypeOK
  /\ Prefix(log, Window) <= Limit
  /\ ~Rough => Alone /\ Settled /\ ToRead /\ ToWrite

LEMMA InWindowPrefix == InWindow = Prefix(log, Window)
BY DEF InWindow, Prefix, Total

LEMMA PrefixNat ==
  ASSUME TypeOK
  PROVE  /\ \A m \in 0 .. Window : Prefix(log, m) \in Nat
         /\ \A m \in 0 .. Window - 1 : Prefix(log, m) <= Prefix(log, m + 1)
         /\ Prefix(log, 0) = 0
<1>1. Window \in Nat /\ \A i \in 0 .. Window - 1 : log[i] \in Nat
  BY Numbers DEF TypeOK
<1>. QED BY <1>1, PrefixSum

\* A tick moves every entry up by one age, and the oldest out.
LEMMA PrefixTick ==
  ASSUME TypeOK, Tick
  PROVE  \A m \in 1 .. Window : Prefix(log', m) = Prefix(log, m - 1)
<1>1. Window \in Nat /\ \A i \in 0 .. Window - 1 : log[i] \in Nat
  BY Numbers DEF TypeOK
<1>2. log' = [i \in 0 .. Window - 1 |-> IF i = 0 THEN 0 ELSE log[i - 1]]
  BY DEF Tick
<1>. QED BY <1>1, <1>2, PrefixShift

\* An entry of age 0 is one more in every prefix.
LEMMA PrefixPass ==
  ASSUME TypeOK, log' = [log EXCEPT ![0] = @ + 1]
  PROVE  \A m \in 1 .. Window : Prefix(log', m) = Prefix(log, m) + 1
<1> SUFFICES ASSUME NEW m \in 1 .. Window PROVE Prefix(log', m) = Prefix(log, m) + 1
  OBVIOUS
<1>1. /\ \A i \in 0 .. m - 1 : log[i] \in Int
      /\ log'[0] = log[0] + 1 /\ \A i \in (0 .. m - 1) \ {0} : log'[i] = log[i]
      /\ 0 \in 0 .. m - 1 /\ 1 \in Int
  BY Numbers DEF TypeOK
<1>2. IsFiniteSet(0 .. m - 1)
  <2>1. 0 \in Int /\ m - 1 \in Int
    BY Numbers
  <2>. QED BY <2>1, FS_Interval
<1>3. Total(log', 0 .. m - 1) = Total(log, 0 .. m - 1) + 1
  <2> DEFINE S == 0 .. m - 1
  <2>1. /\ 1 \in Int /\ IsFiniteSet(S) /\ 0 \in S /\ \A i \in S : log[i] \in Int
        /\ log'[0] = log[0] + 1 /\ \A i \in S \ {0} : log'[i] = log[i]
    BY <1>1, <1>2
  <2>2. Total(log', S) = Total(log, S) + 1
    <3> HIDE DEF S
    <3>. QED BY ONLY <2>1, TotalExcept
  <2>. QED BY <2>2 DEF S
<1>. QED BY <1>3 DEF Prefix

\* What covers the entries before a tick covers them after it.
LEMMA CoveredTick ==
  ASSUME TypeOK, Tick, NEW k \in Nat, Covered(k)
  PROVE  Prefix(log', Window) <= counter' + k /\ Prefix(log', Window - ttl') <= k
<1> USE Numbers
<1>1. Prefix(log', Window) = Prefix(log, Window - 1) /\ Prefix(log, Window - 1) <= Prefix(log, Window)
  <2>1. Window \in 1 .. Window /\ Window - 1 \in 0 .. Window - 1 /\ (Window - 1) + 1 = Window
    OBVIOUS
  <2>. QED BY <2>1, PrefixTick, PrefixNat
<1>2. Prefix(log, Window) \in Nat /\ Prefix(log, Window - 1) \in Nat
  BY PrefixNat
<1>3. CASE ttl = 0
  <2>1. ttl' = 0 /\ counter' = counter /\ Window - ttl' = Window /\ Window - ttl = Window
    BY <1>3 DEF Tick
  <2>. QED BY <1>1, <1>2, <2>1 DEF Covered, TypeOK
<1>4. CASE ttl # 0
  <2>1. /\ ttl' = ttl - 1 /\ Window - ttl' \in 1 .. Window
        /\ (Window - ttl') - 1 = Window - ttl
    BY <1>4 DEF Tick, TypeOK
  <2>2. Prefix(log', Window - ttl') <= k
    <3>1. Prefix(log', Window - ttl') = Prefix(log, Window - ttl)
      BY ONLY <2>1, PrefixTick, TypeOK, Tick
    <3>. QED BY <3>1 DEF Covered
  <2>3. CASE ttl = 1
    <3>1. counter' = 0 /\ Window - ttl = Window - 1
      BY <2>3 DEF Tick
    <3>. QED BY <1>1, <1>2, <2>2, <3>1 DEF Covered
  <2>4. CASE ttl # 1
    <3>1. counter' = counter
      BY <2>4 DEF Tick
    <3>. QED BY <1>1, <1>2, <2>2, <3>1 DEF Covered, TypeOK
  <2>. QED BY <2>3, <2>4
<1>. QED BY <1>3, <1>4

LEMMA CoverInit == Init => CoverInv
<1> SUFFICES ASSUME Init PROVE CoverInv
  OBVIOUS
<1>1. TypeOK
  BY TypeInit
<1>2. \A m \in 0 .. Window : Prefix(log, m) = 0
  <2> SUFFICES ASSUME NEW m \in 0 .. Window PROVE Prefix(log, m) = 0
    OBVIOUS
  <2>1. IsFiniteSet(0 .. m - 1)
    <3>1. 0 \in Int /\ m - 1 \in Int
      BY Numbers
    <3>. QED BY <3>1, FS_Interval
  <2>2. \A i \in 0 .. m - 1 : log[i] = 0
    BY Numbers DEF Init
  <2>. QED BY <2>1, <2>2, TotalZero DEF Prefix
<1>3. Prefix(log, Window) = 0 /\ Prefix(log, Window - ttl) = 0 /\ counter = 0
  BY <1>2, Numbers DEF Init
<1>4. \A c \in Callers : pc[c] = "idle"
  BY DEF Init
<1>. QED BY <1>1, <1>3, <1>4, Numbers DEF CoverInv, Alone, Settled, Covered, ToRead, ToWrite

\* A step that leaves the log and the counter alone and takes no call to or from the
\* counter's awaits.
LEMMA CoverAway ==
  ASSUME TypeOK, Settled, ToRead, ToWrite, UNCHANGED <<log, counter, ttl, seen>>,
         \A c \in Callers : /\ pc'[c] = "get" <=> pc[c] = "get"
                            /\ pc'[c] = "set" <=> pc[c] = "set"
  PROVE  Settled' /\ ToRead' /\ ToWrite'
<1>1. Counting' = Counting
  BY CountingKept
<1>2. Covered(0)' = Covered(0) /\ \A c \in Callers : pc'[c] = "get" => Covered(1)'
  BY DEF Covered, ToRead
<1>. QED BY <1>1, <1>2 DEF Settled, ToRead, ToWrite, Covered

LEMMA CoverStep == CoverInv /\ [Next]_vars => CoverInv'
<1> SUFFICES ASSUME CoverInv, [Next]_vars PROVE CoverInv'
  OBVIOUS
<1>0. TypeOK /\ TypeOK'
  BY TypeStep DEF CoverInv
<1> USE Numbers DEF Rough
<1>1. ASSUME NEW c \in Callers, Begin(c) \/ Track(c) PROVE CoverInv'
  <2>1. UNCHANGED <<log, counter, ttl, seen>>
    BY <1>1 DEF Begin, Track
  <2>2. \A d \in Callers : /\ pc'[d] = "get" <=> pc[d] = "get"
                           /\ pc'[d] = "set" <=> pc[d] = "set"
                           /\ d # c => pc'[d] = pc[d]
    BY <1>0, <1>1 DEF Begin, Track, Goto, FailOpen, Return, TypeOK
  <2>3. ASSUME ~Rough' PROVE ~Rough /\ Alone'
    <3>1. CASE Begin(c)
      <4>1. \A d \in Callers : pc[d] = "idle"
        BY <2>3, <3>1 DEF Begin
      <4>2. ~Rough
        BY <2>3, <3>1 DEF Begin
      <4>. QED BY <2>2, <4>1, <4>2 DEF Alone
    <3>2. CASE Track(c)
      <4>1. ~Rough
        BY <2>3, <3>2, Zenon DEF Track
      <4>2. pc[c] # "idle"
        BY <3>2 DEF Track
      <4>. QED BY <2>2, <4>1, <4>2 DEF Alone, CoverInv
    <3>. QED BY <1>1, <3>1, <3>2
  <2>4. ~Rough' => Settled' /\ ToRead' /\ ToWrite'
    BY <1>0, <2>1, <2>2, <2>3, CoverAway DEF CoverInv
  <2>5. Prefix(log, Window)' = Prefix(log, Window)
    BY <2>1
  <2>. QED BY <1>0, <2>3, <2>4, <2>5 DEF CoverInv
<1>2. ASSUME NEW c \in Callers, Check(c) PROVE CoverInv'
  <2>1. \A d \in Callers : d # c => pc'[d] = pc[d]
    BY <1>0, <1>2 DEF Check, Pass, Limited, TurnAway, Goto, Return, TypeOK
  <2>2. UNCHANGED <<counter, ttl, seen, met>> /\ pc[c] = "check"
    BY <1>2 DEF Check
  <2>3. CASE Pass(c) /\ log' = [log EXCEPT ![0] = @ + 1] /\ InWindow < Limit /\ UNCHANGED failed
    <3>1. \A m \in 1 .. Window : Prefix(log', m) = Prefix(log, m) + 1
      BY <1>0, <2>3, PrefixPass
    <3>2. Prefix(log', Window) = Prefix(log, Window) + 1 /\ Prefix(log, Window) \in Nat
      BY <1>0, <3>1, PrefixNat
    <3>3. Prefix(log', Window) <= Limit
      BY <2>3, <3>2, InWindowPrefix
    <3>4. pc'[c] = "get"
      BY <1>0, <2>3 DEF Pass, Goto, TypeOK
    <3>5. ASSUME ~Rough' PROVE Alone' /\ Settled' /\ ToRead' /\ ToWrite'
      <4>1. ~Rough /\ Alone /\ Settled
        BY <2>2, <2>3, <3>5 DEF CoverInv
      <4>2. \A d \in Callers : d # c => pc[d] = "idle"
        BY <2>2, <4>1 DEF Alone
      <4>3. Covered(0)
        BY <2>2, <4>1, <4>2 DEF Settled, Counting
      <4>4. Prefix(log', Window - ttl') <= 1
        <5>1. CASE ttl = Window
          <6>1. Window - ttl' = 0 /\ Prefix(log', 0) = 0
            BY <1>0, <2>2, <5>1, TotalEmpty DEF Prefix
          <6>. QED BY <6>1
        <5>2. CASE ttl # Window
          <6>1. Window - ttl \in 1 .. Window /\ Window - ttl' = Window - ttl
            BY <1>0, <2>2, <5>2 DEF TypeOK
          <6>2. Prefix(log, Window - ttl) \in Nat
            BY <1>0, <6>1, PrefixNat
          <6>. QED BY <3>1, <4>3, <6>1, <6>2 DEF Covered
        <5>. QED BY <5>1, <5>2
      <4>5. Covered(1)'
        BY <1>0, <2>2, <3>2, <4>3, <4>4 DEF Covered, TypeOK
      <4>6. c \in Counting' /\ \A d \in Callers : pc'[d] # "set" /\ (d # c => pc'[d] = "idle")
        BY <2>1, <3>4, <4>2 DEF Counting
      <4>. QED BY <4>5, <4>6 DEF Alone, Settled, ToRead, ToWrite
    <3>. QED BY <1>0, <3>3, <3>5 DEF CoverInv
  <2>4. CASE Pass(c) /\ UNCHANGED log /\ failed' = TRUE
    BY <1>0, <2>4 DEF CoverInv
  <2>5. CASE Limited(c)
    <3>1. UNCHANGED <<log, failed>> /\ pc'[c] = "idle"
      BY <1>0, <2>5 DEF Limited, TurnAway, Return, TypeOK
    <3>2. \A d \in Callers : /\ pc'[d] = "get" <=> pc[d] = "get"
                             /\ pc'[d] = "set" <=> pc[d] = "set"
      BY <2>1, <2>2, <3>1
    <3>3. ~Rough' => Settled' /\ ToRead' /\ ToWrite'
      BY <1>0, <2>2, <3>1, <3>2, CoverAway DEF CoverInv
    <3>4. ~Rough' => Alone'
      BY <2>1, <2>2, <3>1 DEF Alone, CoverInv
    <3>5. Prefix(log, Window)' = Prefix(log, Window)
      BY <3>1
    <3>. QED BY <1>0, <3>3, <3>4, <3>5 DEF CoverInv
  <2>6. Pass(c) => \/ InWindow < Limit /\ log' = [log EXCEPT ![0] = @ + 1] /\ UNCHANGED failed
                   \/ UNCHANGED log /\ failed' = TRUE
    BY Zenon DEF Pass
  <2>. QED BY <1>2, <2>3, <2>4, <2>5, <2>6 DEF Check
<1>3. ASSUME NEW c \in Callers, GetCount(c) PROVE CoverInv'
  <2>1. UNCHANGED <<log, counter, ttl>> /\ pc[c] = "get"
    BY <1>3 DEF GetCount
  <2>2. Prefix(log, Window)' = Prefix(log, Window)
    BY <2>1
  <2>3. CASE failed' = TRUE
    BY <1>0, <2>2, <2>3 DEF CoverInv
  <2>4. CASE seen' = [seen EXCEPT ![c] = counter] /\ Goto(c, "set") /\ UNCHANGED <<failed, met>>
    <3>1. seen'[c] = counter /\ pc'[c] = "set" /\ \A d \in Callers : d # c => pc'[d] = pc[d]
      BY <1>0, <2>4 DEF Goto, TypeOK
    <3>2. ASSUME ~Rough' PROVE Alone' /\ Settled' /\ ToRead' /\ ToWrite'
      <4>1. ~Rough /\ Alone /\ Covered(1)
        BY <2>1, <2>4, <3>2 DEF CoverInv, ToRead
      <4>2. \A d \in Callers : d # c => pc'[d] = "idle"
        BY <2>1, <3>1, <4>1 DEF Alone
      <4>3. c \in Counting'
        BY <3>1 DEF Counting
      <4>. QED BY <2>2, <3>1, <4>1, <4>2, <4>3 DEF Alone, Settled, ToRead, ToWrite, Covered
    <3>. QED BY <1>0, <2>2, <3>2 DEF CoverInv
  <2>5. \/ failed' = TRUE
        \/ seen' = [seen EXCEPT ![c] = counter] /\ Goto(c, "set") /\ UNCHANGED <<failed, met>>
    BY <1>3, Zenon DEF GetCount
  <2>. QED BY <2>3, <2>4, <2>5
<1>4. ASSUME NEW c \in Callers, SetCount(c) PROVE CoverInv'
  <2>1. UNCHANGED <<log, seen>> /\ pc[c] = "set"
    BY <1>4 DEF SetCount
  <2>2. Prefix(log, Window)' = Prefix(log, Window)
    BY <2>1
  <2>3. CASE failed' = TRUE
    BY <1>0, <2>2, <2>3 DEF CoverInv
  <2>4. CASE Counted(c) /\ UNCHANGED <<failed, met>>
    <3>1. pc'[c] = "idle" /\ \A d \in Callers : d # c => pc'[d] = pc[d]
      BY <1>0, <1>4 DEF SetCount, FailOpen, Return, TypeOK
    <3>2. ASSUME ~Rough' PROVE Alone' /\ Settled' /\ ToRead' /\ ToWrite'
      <4>1. ~Rough /\ Alone /\ Prefix(log, Window) <= seen[c] + 1
        BY <2>1, <2>4, <3>2 DEF CoverInv, ToWrite
      <4>2. \A d \in Callers : pc'[d] = "idle"
        BY <2>1, <3>1, <4>1 DEF Alone
      <4>3. counter' = seen[c] + 1 /\ Window - ttl' = 0
        BY <2>4 DEF Counted
      <4>4. Prefix(log', Window - ttl') = 0
        BY <1>0, <2>1, <4>3, PrefixNat
      <4>5. Covered(0)'
        BY <1>0, <2>2, <4>1, <4>3, <4>4 DEF Covered, TypeOK
      <4>. QED BY <4>2, <4>5 DEF Alone, Settled, ToRead, ToWrite
    <3>. QED BY <1>0, <2>2, <3>2 DEF CoverInv
  <2>5. failed' = TRUE \/ (Counted(c) /\ UNCHANGED <<failed, met>>)
    BY <1>4, Zenon DEF SetCount
  <2>. QED BY <2>3, <2>4, <2>5
<1>5. ASSUME NEW c \in Callers, Cancel(c) PROVE CoverInv'
  <2>1. failed' = TRUE /\ log' = log
    BY <1>5 DEF Cancel
  <2>. QED BY <1>0, <2>1 DEF CoverInv
<1>6. CASE Tick
  <2>1. UNCHANGED <<pc, seen, failed, met>> /\ Counting' = Counting
    BY <1>6 DEF Tick, Counting
  <2>2. /\ Prefix(log', Window) <= Prefix(log, Window)
        /\ Prefix(log', Window) \in Nat /\ Prefix(log, Window) \in Nat
    <3>1. /\ Window \in 1 .. Window /\ Window \in 0 .. Window
          /\ Window - 1 \in 0 .. Window - 1 /\ Window - 1 \in 0 .. Window
          /\ (Window - 1) + 1 = Window
      OBVIOUS
    <3>. QED BY <1>0, <1>6, <3>1, PrefixTick, PrefixNat
  <2>3. ASSUME ~Rough' PROVE Alone' /\ Settled' /\ ToRead' /\ ToWrite'
    <3>1. ~Rough /\ Alone /\ Settled /\ ToRead /\ ToWrite
      BY <2>1, <2>3 DEF CoverInv
    <3>2. Covered(0) => Covered(0)'
      BY <1>0, <1>6, CoveredTick DEF Covered
    <3>3. Covered(1) => Covered(1)'
      BY <1>0, <1>6, CoveredTick DEF Covered
    <3>4. ToWrite'
      BY <1>0, <2>1, <2>2, <3>1 DEF ToWrite, TypeOK
    <3>. QED BY <2>1, <3>1, <3>2, <3>3, <3>4 DEF Alone, Settled, ToRead
  <2>. QED BY <1>0, <2>2, <2>3 DEF CoverInv
<1>7. CASE UNCHANGED vars
  <2>1. UNCHANGED <<log, counter, ttl, seen, pc, failed, met>> /\ Counting' = Counting
    BY <1>7 DEF vars, Counting
  <2>. QED BY <1>0, <2>1 DEF CoverInv, Alone, Settled, ToRead, ToWrite, Covered
<1>. QED BY <1>1, <1>2, <1>3, <1>4, <1>5, <1>6, <1>7 DEF Next, Call

\* Between calls that have followed each other, none of which failed, the counter has
\* counted every entry of the log and lives as long as the youngest: nobody is promised
\* a place that the check will refuse.
THEOREM Promises == Spec => []NeverOverPromises
<1>1. CoverInv => NeverOverPromises
  <2> SUFFICES ASSUME CoverInv, AllIdle, ~Rough PROVE Remaining <= Limit - InWindow
    BY DEF NeverOverPromises
  <2>1. Covered(0)
    BY DEF CoverInv, Settled, Counting, AllIdle
  <2>2. Prefix(log, Window) \in Nat /\ Prefix(log, Window) <= Limit
    BY Numbers, PrefixNat DEF CoverInv
  <2>. QED BY <2>1, <2>2, Numbers, InWindowPrefix DEF Remaining, Covered, CoverInv, TypeOK
<1>. QED BY <1>1, CoverInit, CoverStep, PTL DEF Spec
-----------------------------------------------------------------------------
(* What is left of the counter when calls meet.                            *)

\* The entries that outlive the counter are of calls still on their way to it.
RenewedInv ==
  /\ TypeOK
  /\ ttl > 0 => counter >= 1
  /\ ~failed => Prefix(log, Window - ttl) <= Cardinality(Counting)

LEMMA RenewedStep == RenewedInv /\ [Next]_vars => RenewedInv'
<1> SUFFICES ASSUME RenewedInv, [Next]_vars PROVE RenewedInv'
  OBVIOUS
<1>0. TypeOK /\ TypeOK'
  BY TypeStep DEF RenewedInv
<1> USE Numbers, CountingFinite
<1>. DEFINE Away == /\ UNCHANGED <<log, counter, ttl>>
                    /\ ~failed' => ~failed /\ Counting' = Counting
<1>1. ASSUME Away PROVE RenewedInv'
  BY <1>0, <1>1 DEF RenewedInv
<1>2. ASSUME NEW c \in Callers, Begin(c) \/ Track(c) \/ GetCount(c) \/ Cancel(c) PROVE Away
  <2>1. UNCHANGED <<log, counter, ttl>>
    BY <1>2 DEF Begin, Track, GetCount, Cancel
  <2>2. ASSUME ~failed'
        PROVE  ~failed /\ \A d \in Callers : pc'[d] \in {"get", "set"} <=> pc[d] \in {"get", "set"}
    BY <1>0, <1>2, <2>2 DEF Begin, Track, GetCount, Cancel, Goto, Return, TypeOK
  <2>. QED BY <2>1, <2>2, CountingKept
<1>3. ASSUME NEW c \in Callers, Check(c) PROVE RenewedInv'
  <2>1. CASE Pass(c) /\ log' = [log EXCEPT ![0] = @ + 1] /\ UNCHANGED failed
    <3>1. Cardinality(Counting') = Cardinality(Counting) + 1
      BY <1>0, <1>3, <2>1, CountingJoined DEF Check, Pass, Goto
    <3>2. UNCHANGED <<counter, ttl>>
      BY <1>3 DEF Check
    <3>3. CASE ttl = Window
      <4>1. Window - ttl' = 0 /\ Prefix(log', 0) = 0
        BY <3>2, <3>3, TotalEmpty DEF Prefix
      <4>. QED BY <1>0, <3>1, <3>2, <4>1 DEF RenewedInv
    <3>4. CASE ttl # Window
      <4>1. Window - ttl \in 1 .. Window /\ Window - ttl' = Window - ttl
        BY <1>0, <3>2, <3>4 DEF TypeOK
      <4>2. Prefix(log', Window - ttl') = Prefix(log, Window - ttl) + 1
        BY <1>0, <2>1, <4>1, PrefixPass
      <4>3. Prefix(log, Window - ttl) \in Nat
        BY <1>0, <4>1, PrefixNat
      <4>. QED BY <1>0, <2>1, <3>1, <3>2, <4>2, <4>3 DEF RenewedInv
    <3>. QED BY <3>3, <3>4
  <2>2. CASE Pass(c) /\ UNCHANGED log /\ failed' = TRUE
    BY <1>0, <1>3, <2>2 DEF Check, RenewedInv
  <2>3. CASE Limited(c)
    <3>1. \A d \in Callers : pc'[d] \in {"get", "set"} <=> pc[d] \in {"get", "set"}
      BY <1>0, <1>3, <2>3 DEF Check, Limited, TurnAway, Return, TypeOK
    <3>2. UNCHANGED <<log, counter, ttl, failed>>
      BY <1>3, <2>3 DEF Check, Limited
    <3>. QED BY <1>1, <3>1, <3>2, CountingKept
  <2>4. Pass(c) => \/ log' = [log EXCEPT ![0] = @ + 1] /\ UNCHANGED failed
                   \/ UNCHANGED log /\ failed' = TRUE
    BY Zenon DEF Pass
  <2>. QED BY <1>3, <2>1, <2>2, <2>3, <2>4 DEF Check
<1>4. ASSUME NEW c \in Callers, SetCount(c) PROVE RenewedInv'
  <2>1. CASE Counted(c)
    <3>1. counter' >= 1 /\ Window - ttl' = 0
      BY <1>0, <2>1 DEF Counted, TypeOK
    <3>2. Prefix(log', Window - ttl') = 0
      BY <1>0, <3>1, TotalEmpty DEF Prefix
    <3>3. Cardinality(Counting') \in Nat
      BY <1>0, <1>4, CountingLeft DEF SetCount, FailOpen, Return
    <3>. QED BY <1>0, <3>1, <3>2, <3>3 DEF RenewedInv
  <2>2. CASE UNCHANGED <<counter, ttl>> /\ failed' = TRUE
    BY <1>0, <2>2 DEF RenewedInv
  <2>. QED BY <1>4, <2>1, <2>2 DEF SetCount
<1>5. CASE Tick
  <2>1. Counting' = Counting /\ UNCHANGED failed
    BY <1>5 DEF Tick, Counting
  <2>2. ttl' > 0 => counter' = counter /\ ttl > 0
    BY <1>0, <1>5 DEF Tick, TypeOK
  <2>3. ASSUME Prefix(log, Window - ttl) <= Cardinality(Counting)
        PROVE  Prefix(log', Window - ttl') <= Cardinality(Counting)
    <3>1. CASE ttl = 0
      <4>1. Window - ttl = Window /\ Window - ttl' = Window
        BY <1>5, <3>1 DEF Tick
      <4>2. Window \in 1 .. Window /\ Window - 1 \in 0 .. Window - 1 /\ (Window - 1) + 1 = Window
        OBVIOUS
      <4>3. Prefix(log', Window) = Prefix(log, Window - 1) /\ Prefix(log, Window - 1) <= Prefix(log, Window)
        BY <1>0, <1>5, <4>2, PrefixTick, PrefixNat
      <4>4. Prefix(log, Window) \in Nat /\ Prefix(log, Window - 1) \in Nat
        BY <1>0, PrefixNat
      <4>. QED BY <2>3, <4>1, <4>3, <4>4
    <3>2. CASE ttl # 0
      <4>1. Window - ttl' \in 1 .. Window /\ (Window - ttl') - 1 = Window - ttl
        BY <1>0, <1>5, <3>2 DEF Tick, TypeOK
      <4>2. Prefix(log', Window - ttl') = Prefix(log, Window - ttl)
        BY ONLY <1>0, <1>5, <4>1, PrefixTick
      <4>. QED BY <2>3, <4>2
    <3>. QED BY <3>1, <3>2
  <2>. QED BY <1>0, <2>1, <2>2, <2>3 DEF RenewedInv
<1>6. CASE UNCHANGED vars
  <2>1. Away
    BY <1>6 DEF vars, Counting
  <2>. QED BY <1>1, <2>1
<1>. QED BY <1>1, <1>2, <1>3, <1>4, <1>5, <1>6 DEF Next, Call

\* However calls meet, as long as none fails: while the log holds more entries than
\* calls are on their way to the counter, the counter exists and is at least 1.
THEOREM SomeCounted == Spec => []NeverAllFree
<1>1. Init => RenewedInv
  <2> SUFFICES ASSUME Init PROVE RenewedInv
    OBVIOUS
  <2>1. Counting = {} /\ Cardinality({}) = 0
    BY FS_EmptySet DEF Init, Counting
  <2>2. Covered(0)
    BY CoverInit DEF Init, CoverInv, Settled, Rough, Counting
  <2>. QED BY <2>1, <2>2, TypeInit DEF Init, RenewedInv, Covered
<1>2. RenewedInv => NeverAllFree
  <2> SUFFICES ASSUME RenewedInv, ~failed, InWindow > Cardinality(Counting) PROVE counter >= 1
    BY DEF NeverAllFree
  <2>1. CASE ttl = 0
    <3>1. Prefix(log, Window) \in Nat /\ Window - ttl = Window
      BY <2>1, Numbers, PrefixNat DEF RenewedInv
    <3>. QED BY <3>1, CountingFinite, InWindowPrefix DEF RenewedInv
  <2>2. CASE ttl # 0
    BY <2>2, Numbers DEF RenewedInv, TypeOK
  <2>. QED BY <2>1, <2>2
<1>. QED BY <1>1, <1>2, RenewedStep, PTL DEF Spec
=============================================================================
