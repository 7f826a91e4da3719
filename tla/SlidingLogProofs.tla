-------------------------- MODULE SlidingLogProofs --------------------------
(***************************************************************************)
(* For any number of callers, limit and window, and any set of faults:     *)
(*   - the type of the state is kept;                                      *)
(*   - the expiry of the key covers every entry that is not exposed;       *)
(*   - no step takes an unexposed entry out of the log within its window;  *)
(*   - a denied call has Limit calls behind it that found a place;         *)
(* and, when no command from the ZADD on fails and no call is cancelled:   *)
(*   - prompt calls overrun the limit by one call per other caller;        *)
(*   - any calls overrun it by three per caller, less one.                 *)
(* The first four rest on LogInv and GrantedInv.  The expiry covers an     *)
(* entry only because EXPIRE is counted from a clock at least the entry's  *)
(* score, so the invariant has to say that no score lies in the future.    *)
(***************************************************************************)
EXTENDS SlidingLog, FiniteSetTheorems, TLAPS

\* The entry of a call is an entry: its name and score have their types.
LEMMA RequestEntryType ==
  ASSUME TypeOK, NEW c \in Callers
  PROVE  /\ RequestEntry(c) \in Entries
         /\ RequestEntry(c).id \in CallIds
         /\ RequestEntry(c).score = stamp[c]
BY DEF TypeOK, RequestEntry, Entries, CallIds

\* What every return of check_rate_limit leaves of the types.
LEMMA ReturnType ==
  ASSUME TypeOK, NEW c \in Callers, NEW r \in Results, Return(c, r),
         RequestEntry(c) \in Entries
  PROVE  /\ pc' \in [Callers -> Steps]
         /\ result' \in [Callers -> Results]
         /\ granted' \in SUBSET Entries
BY DEF TypeOK, Return, Steps

LEMMA GotoType ==
  ASSUME TypeOK, NEW c \in Callers, NEW s \in Steps, Goto(c, s)
  PROVE  /\ pc' \in [Callers -> Steps]
         /\ result' \in [Callers -> Results]
         /\ granted' \in SUBSET Entries
BY DEF TypeOK, Goto

LEMMA AdmitType ==
  ASSUME TypeOK, NEW c \in Callers, Admit(c), RequestEntry(c) \in Entries
  PROVE  /\ pc' \in [Callers -> Steps]
         /\ result' \in [Callers -> Results]
         /\ granted' \in SUBSET Entries
BY DEF TypeOK, Admit, Steps

\* The types are kept by every step.
LEMMA TypeStep == TypeOK /\ [Next]_vars => TypeOK'
<1> SUFFICES ASSUME TypeOK, [Next]_vars PROVE TypeOK'
  OBVIOUS
<1> USE WindowAssumption
<1>1. ASSUME NEW c \in Callers, Begin(c) PROVE TypeOK'
  <2>1. RequestEntry(c) \in Entries
    BY RequestEntryType
  <2>2. /\ pc' \in [Callers -> Steps]
        /\ result' \in [Callers -> Results]
        /\ granted' \in SUBSET Entries
    BY <1>1, <2>1, GotoType, ReturnType DEF Begin, Steps, Results
  <2>3. stamp' \in [Callers -> Nat]
    BY <1>1 DEF TypeOK, Begin
  <2>4. calls' \in [Callers -> Nat]
    BY <1>1 DEF TypeOK, Begin
  <2>. QED BY <1>1, <2>2, <2>3, <2>4 DEF TypeOK, Begin
<1>2. ASSUME NEW c \in Callers, Cleanup(c) PROVE TypeOK'
  BY <1>2, GotoType DEF TypeOK, Cleanup, RemoveUpTo, Steps
<1>3. ASSUME NEW c \in Callers, GetEntries(c) PROVE TypeOK'
  <2>1. RequestEntry(c) \in Entries
    BY RequestEntryType
  <2>2. /\ pc' \in [Callers -> Steps]
        /\ result' \in [Callers -> Results]
        /\ granted' \in SUBSET Entries
    BY <1>3, <2>1, AdmitType, ReturnType DEF GetEntries, Results
  <2>. QED BY <1>3, <2>2 DEF TypeOK, GetEntries
<1>4. ASSUME NEW c \in Callers, Add(c) PROVE TypeOK'
  <2>1. RequestEntry(c) \in Entries /\ RequestEntry(c).id \in CallIds
    BY RequestEntryType
  <2>2. /\ pc' \in [Callers -> Steps]
        /\ result' \in [Callers -> Results]
        /\ granted' \in SUBSET Entries
    BY <1>4, <2>1, GotoType, ReturnType DEF Add, Steps, Results
  <2>. QED BY <1>4, <2>1, <2>2 DEF TypeOK, Add, AddEntry
<1>5. ASSUME NEW c \in Callers, Expire(c) PROVE TypeOK'
  <2>1. RequestEntry(c) \in Entries /\ RequestEntry(c).id \in CallIds
    BY RequestEntryType
  <2>2. /\ pc' \in [Callers -> Steps]
        /\ result' \in [Callers -> Results]
        /\ granted' \in SUBSET Entries
    BY <1>5, <2>1, ReturnType DEF Expire, Results
  <2>. QED BY <1>5, <2>1, <2>2 DEF TypeOK, Expire, SetExpiration
<1>6. ASSUME NEW c \in Callers, Cancel(c) PROVE TypeOK'
  <2>1. RequestEntry(c) \in Entries /\ RequestEntry(c).id \in CallIds
    BY RequestEntryType
  <2>2. /\ pc' \in [Callers -> Steps]
        /\ result' \in [Callers -> Results]
        /\ granted' \in SUBSET Entries
    BY <1>6, <2>1, ReturnType DEF Cancel, Results
  <2>. QED BY <1>6, <2>1, <2>2 DEF TypeOK, Cancel
<1>7. ASSUME Tick PROVE TypeOK'
  <2>1. {RequestEntry(c).id : c \in {d \in Callers : pc[d] = "expire"}} \subseteq CallIds
    BY RequestEntryType
  <2>. QED BY <1>7, <2>1 DEF TypeOK, Tick
<1>8. ASSUME UNCHANGED vars PROVE TypeOK'
  BY <1>8 DEF TypeOK, vars
<1>. QED
  BY <1>1, <1>2, <1>3, <1>4, <1>5, <1>6, <1>7, <1>8 DEF Next, Call, Terminated

LEMMA TypeInit == Init => TypeOK
<1> SUFFICES ASSUME Init PROVE TypeOK
  OBVIOUS
<1>1. /\ pc \in [Callers -> Steps]
      /\ stamp \in [Callers -> Nat]
      /\ calls \in [Callers -> Nat]
      /\ result \in [Callers -> Results]
  BY DEF Init, Steps, Results
<1>. QED BY <1>1 DEF Init, TypeOK

\* SlidingLog's type invariant holds of every behaviour, faults included.
THEOREM TypeCorrect == Spec => []TypeOK
<1>. QED BY TypeInit, TypeStep, PTL DEF Spec

-----------------------------------------------------------------------------
\* No step reads a clock from the future or files an entry under one.
LEMMA ClocksStep == TypeOK /\ ClocksBehind /\ [Next]_vars => ClocksBehind'
<1> SUFFICES ASSUME TypeOK, ClocksBehind, [Next]_vars PROVE ClocksBehind'
  OBVIOUS
<1>1. ASSUME NEW c \in Callers, Begin(c) PROVE ClocksBehind'
  BY <1>1 DEF TypeOK, ClocksBehind, Begin
<1>2. ASSUME NEW c \in Callers, Cleanup(c) PROVE ClocksBehind'
  BY <1>2 DEF ClocksBehind, Cleanup, RemoveUpTo
<1>3. ASSUME NEW c \in Callers, GetEntries(c) PROVE ClocksBehind'
  BY <1>3 DEF ClocksBehind, GetEntries
<1>4. ASSUME NEW c \in Callers, Add(c) PROVE ClocksBehind'
  BY <1>4, RequestEntryType DEF ClocksBehind, Add, AddEntry
<1>5. ASSUME NEW c \in Callers, Expire(c) PROVE ClocksBehind'
  BY <1>5 DEF ClocksBehind, Expire, SetExpiration
<1>6. ASSUME NEW c \in Callers, Cancel(c) PROVE ClocksBehind'
  BY <1>6 DEF ClocksBehind, Cancel
<1>7. ASSUME Tick PROVE ClocksBehind'
  <2>1. now <= now' /\ stamp' = stamp /\ log' \subseteq log
    BY <1>7 DEF Tick, TypeOK
  <2>2. \A c \in Callers : stamp[c] \in Nat
    BY DEF TypeOK
  <2>3. \A e \in log : e.score \in Nat
    BY DEF TypeOK, Entries
  <2>. QED BY <1>7, <2>1, <2>2, <2>3 DEF ClocksBehind, Tick, TypeOK
<1>8. ASSUME UNCHANGED vars PROVE ClocksBehind'
  BY <1>8 DEF ClocksBehind, vars
<1>. QED
  BY <1>1, <1>2, <1>3, <1>4, <1>5, <1>6, <1>7, <1>8 DEF Next, Call, Terminated

\* An entry stays covered when the key keeps its expiry, the entry was in the
\* log, and its caller, if it was on the way to the EXPIRE, still is.
LEMMA CoverKept ==
  ASSUME ExpiryCoversEntries, expiry' \in {expiry, NoExpiry}, exposed \subseteq exposed',
         NEW e \in log,
         \A c \in Callers : Pending(c) /\ e = RequestEntry(c) =>
                              \/ e.id \in exposed'
                              \/ Pending(c)' /\ RequestEntry(c)' = RequestEntry(c)
  PROVE  \/ expiry' = NoExpiry
         \/ e.score + Window <= expiry'
         \/ e.id \in exposed'
         \/ \E c \in Callers : Pending(c)' /\ e = RequestEntry(c)'
BY DEF ExpiryCoversEntries

\* A step of the caller c leaves the other callers' calls as they are.
LEMMA OthersKept ==
  ASSUME TypeOK, NEW c \in Callers, Call(c)
  PROVE  \A d \in Callers \ {c} : /\ pc'[d] = pc[d]
                                  /\ stamp'[d] = stamp[d]
                                  /\ calls'[d] = calls[d]
BY DEF TypeOK, Call, Begin, Cleanup, GetEntries, Add, Expire, Cancel,
       Goto, Return, Admit

\* The expiry covers the entries after every step.
LEMMA CoverStep == LogInv /\ [Next]_vars => ExpiryCoversEntries'
<1> SUFFICES ASSUME LogInv, [Next]_vars PROVE ExpiryCoversEntries'
  OBVIOUS
<1>0. TypeOK /\ ClocksBehind /\ ExpiryCoversEntries
  BY DEF LogInv
<1>1. ASSUME NEW c \in Callers, Call(c), ~Pending(c), log' \subseteq log,
             expiry' \in {expiry, NoExpiry}, exposed \subseteq exposed'
      PROVE  ExpiryCoversEntries'
  <2>1. \A d \in Callers : Pending(d) => Pending(d)' /\ RequestEntry(d)' = RequestEntry(d)
    BY <1>0, <1>1, OthersKept DEF Pending, RequestEntry
  <2>. QED BY <1>0, <1>1, <2>1, CoverKept DEF ExpiryCoversEntries
<1>2. ASSUME NEW c \in Callers, Begin(c) PROVE ExpiryCoversEntries'
  BY <1>1, <1>2 DEF Begin, Call, Pending
<1>3. ASSUME NEW c \in Callers, Cleanup(c) PROVE ExpiryCoversEntries'
  BY <1>1, <1>3 DEF Cleanup, RemoveUpTo, Call, Pending
<1>4. ASSUME NEW c \in Callers, GetEntries(c) PROVE ExpiryCoversEntries'
  BY <1>1, <1>4 DEF GetEntries, Call, Pending
<1>5. ASSUME NEW c \in Callers, Add(c) PROVE ExpiryCoversEntries'
  <2>1. \A d \in Callers : Pending(d) => Pending(d)' /\ RequestEntry(d)' = RequestEntry(d)
    BY <1>0, <1>5, OthersKept DEF Pending, RequestEntry, Call, Add
  <2>2. ASSUME NEW e \in log
        PROVE  \/ expiry' = NoExpiry
               \/ e.score + Window <= expiry'
               \/ e.id \in exposed'
               \/ \E d \in Callers : Pending(d)' /\ e = RequestEntry(d)'
    BY <1>0, <1>5, <2>1, CoverKept DEF Add, AddEntry
  <2>3. RequestEntry(c)' = RequestEntry(c)
    BY <1>5 DEF Add, RequestEntry
  <2>4. Pending(c)' \/ RequestEntry(c).id \in exposed'
    BY <1>0, <1>5 DEF Add, Pending, Goto, TypeOK
  <2>5. \A e \in log' : e \in log \/ e = RequestEntry(c)
    BY <1>5 DEF Add, AddEntry
  <2>. QED BY <2>2, <2>3, <2>4, <2>5 DEF ExpiryCoversEntries
<1>6. ASSUME NEW c \in Callers, Expire(c) PROVE ExpiryCoversEntries'
  <2>1. CASE SetExpiration
    <3>1. \A e \in log' : e.score + Window <= now + Window
      BY <1>0, <2>1, WindowAssumption DEF SetExpiration, ClocksBehind, TypeOK, Entries
    <3>. QED BY <2>1, <3>1 DEF SetExpiration, ExpiryCoversEntries
  <2>2. CASE /\ UNCHANGED <<log, expiry>>
             /\ exposed' = exposed \cup {RequestEntry(c).id}
    <3>1. \A d \in Callers \ {c} : Pending(d) => Pending(d)' /\ RequestEntry(d)' = RequestEntry(d)
      BY <1>0, <1>6, OthersKept DEF Pending, RequestEntry, Call
    <3>2. \A e \in log : e = RequestEntry(c) => e.id \in exposed'
      BY <2>2
    <3>3. ASSUME NEW e \in log
          PROVE  \/ expiry' = NoExpiry
                 \/ e.score + Window <= expiry'
                 \/ e.id \in exposed'
                 \/ \E d \in Callers : Pending(d)' /\ e = RequestEntry(d)'
      BY <1>0, <2>2, <3>1, <3>2, CoverKept
    <3>. QED BY <2>2, <3>3 DEF ExpiryCoversEntries
  <2>. QED BY <1>6, <2>1, <2>2 DEF Expire
<1>7. ASSUME NEW c \in Callers, Cancel(c) PROVE ExpiryCoversEntries'
  <2>1. \A d \in Callers \ {c} : Pending(d) => Pending(d)' /\ RequestEntry(d)' = RequestEntry(d)
    BY <1>0, <1>7, OthersKept DEF Pending, RequestEntry, Call
  <2>2. \A e \in log : Pending(c) /\ e = RequestEntry(c) => e.id \in exposed'
    BY <1>7 DEF Cancel, Pending
  <2>3. /\ log' = log /\ expiry' = expiry
        /\ exposed \subseteq exposed'
    BY <1>7 DEF Cancel
  <2>4. ASSUME NEW e \in log
        PROVE  \/ expiry' = NoExpiry
               \/ e.score + Window <= expiry'
               \/ e.id \in exposed'
               \/ \E d \in Callers : Pending(d)' /\ e = RequestEntry(d)'
    BY <1>0, <2>1, <2>2, <2>3, CoverKept
  <2>. QED BY <2>3, <2>4 DEF ExpiryCoversEntries
<1>8. ASSUME Tick PROVE ExpiryCoversEntries'
  <2>1. \A d \in Callers : (Pending(d)' <=> Pending(d)) /\ RequestEntry(d)' = RequestEntry(d)
    BY <1>8 DEF Tick, Pending, RequestEntry
  <2>2. log' = {} \/ (log' = log /\ expiry' = expiry /\ exposed' = exposed)
    BY <1>8 DEF Tick
  <2>. QED BY <1>0, <2>1, <2>2 DEF ExpiryCoversEntries
<1>9. ASSUME UNCHANGED vars PROVE ExpiryCoversEntries'
  BY <1>0, <1>9 DEF ExpiryCoversEntries, Pending, RequestEntry, vars
<1>. QED
  BY <1>2, <1>3, <1>4, <1>5, <1>6, <1>7, <1>8, <1>9 DEF Next, Call, Terminated

\* The expiry of the key covers every entry of the log, whatever the callers,
\* the faults and the order of their commands.
THEOREM ExpiryCovers == Spec => [](LogInv /\ ExpiryCoversEntries)
<1>1. Init => LogInv
  BY TypeInit DEF Init, LogInv, ClocksBehind, ExpiryCoversEntries
<1>2. LogInv /\ [Next]_vars => LogInv'
  BY TypeStep, ClocksStep, CoverStep DEF LogInv
<1>3. LogInv => ExpiryCoversEntries
  BY DEF LogInv
<1>. QED BY <1>1, <1>2, <1>3, PTL DEF Spec

-----------------------------------------------------------------------------
\* What one step takes out of the log was out of its window, or exposed.
LEMMA FreshStep ==
  ASSUME LogInv, [Next]_vars, NEW e \in log \ log'
  PROVE  e.score + Window <= now' \/ e.id \in exposed'
<1>0. TypeOK /\ ClocksBehind /\ ExpiryCoversEntries
  BY DEF LogInv
<1>1. ASSUME NEW c \in Callers, Cleanup(c) PROVE e.score + Window <= now'
  <2>1. e.score <= stamp[c] - Window
    BY <1>0, <1>1, WindowAssumption
    DEF Cleanup, RemoveUpTo, CutoffTime, TypeOK, Entries
  <2>. QED BY <1>0, <1>1, <2>1, WindowAssumption
           DEF Cleanup, ClocksBehind, TypeOK, Entries
<1>2. ASSUME Tick PROVE e.score + Window <= now' \/ e.id \in exposed'
  <2>1. Expiring
    BY <1>2 DEF Tick
  <2>2. expiry \in Nat /\ expiry <= now'
    BY <1>0, <1>2, <2>1 DEF Expiring, TypeOK, Tick
  <2>3. \A c \in Callers : Pending(c) => RequestEntry(c).id \in exposed'
    BY <1>2, <2>1 DEF Tick, Pending
  <2>4. CASE e.score + Window <= expiry
    BY <1>0, <1>2, <2>2, <2>4, WindowAssumption DEF TypeOK, Entries, Tick
  <2>. QED BY <1>0, <1>2, <2>1, <2>3, <2>4 DEF ExpiryCoversEntries, Expiring, Tick
<1>3. ASSUME NEW c \in Callers, Begin(c) \/ GetEntries(c) \/ Add(c) \/ Expire(c) \/ Cancel(c)
      PROVE  FALSE
  BY <1>3 DEF Begin, GetEntries, Add, AddEntry, Expire, SetExpiration, Cancel
<1>. QED BY <1>1, <1>2, <1>3 DEF Next, Call, Terminated, vars

\* No entry that is not exposed leaves the log while it is inside its window.
THEOREM FreshKept == Spec => FreshEntryKept
<1>1. LogInv /\ [Next]_vars =>
        [\A e \in log \ log' : e.score + Window <= now' \/ e.id \in exposed']_vars
  BY FreshStep
<1>. QED BY <1>1, ExpiryCovers, PTL DEF Spec, FreshEntryKept

-----------------------------------------------------------------------------
\* Whatever is in the log found a place, and so did whoever is about to add to it.
GrantedInv ==
  /\ TypeOK
  /\ IsFiniteSet(granted)
  /\ log \subseteq granted
  /\ \A c \in Callers : pc[c] = "add" => RequestEntry(c) \in granted

\* A call is granted its place before its ZADD, and no place is taken back.
LEMMA GrantedStep == GrantedInv /\ [Next]_vars => GrantedInv'
<1> SUFFICES ASSUME GrantedInv, [Next]_vars PROVE GrantedInv'
  OBVIOUS
<1>0. TypeOK'
  BY TypeStep DEF GrantedInv
<1>1. ASSUME NEW c \in Callers, Call(c), granted' = granted,
             log' \subseteq granted, pc'[c] # "add"
      PROVE  GrantedInv'
  BY <1>0, <1>1, OthersKept DEF GrantedInv, RequestEntry
<1>2. ASSUME NEW c \in Callers, Begin(c) PROVE GrantedInv'
  <2>1. pc'[c] # "add" /\ granted' = granted /\ log' = log
    BY <1>2 DEF Begin, Goto, Return, GrantedInv, TypeOK
  <2>. QED BY <1>1, <1>2, <2>1 DEF Call, GrantedInv
<1>3. ASSUME NEW c \in Callers, Cleanup(c) PROVE GrantedInv'
  <2>1. pc'[c] # "add" /\ granted' = granted /\ log' \subseteq log
    BY <1>3 DEF Cleanup, RemoveUpTo, Goto, GrantedInv, TypeOK
  <2>. QED BY <1>1, <1>3, <2>1 DEF Call, GrantedInv
<1>4. ASSUME NEW c \in Callers, GetEntries(c) PROVE GrantedInv'
  <2>1. log' = log /\ stamp' = stamp /\ calls' = calls
    BY <1>4 DEF GetEntries
  <2>2. CASE Admit(c)
    <3>1. granted' = granted \cup {RequestEntry(c)}
      BY <2>2 DEF Admit
    <3>2. IsFiniteSet(granted')
      BY <3>1, FS_AddElement DEF GrantedInv
    <3>3. \A d \in Callers \ {c} : pc'[d] = pc[d]
      BY <2>2 DEF Admit, GrantedInv, TypeOK
    <3>. QED BY <1>0, <2>1, <3>1, <3>2, <3>3 DEF GrantedInv, RequestEntry
  <2>3. CASE Return(c, "denied") \/ Return(c, "unchecked")
    <3>1. pc'[c] # "add" /\ granted' = granted
      BY <2>3 DEF Return, GrantedInv, TypeOK
    <3>. QED BY <1>1, <1>4, <2>1, <3>1 DEF Call, GrantedInv
  <2>. QED BY <1>4, <2>2, <2>3 DEF GetEntries
<1>5. ASSUME NEW c \in Callers, Add(c) PROVE GrantedInv'
  <2>1. log' \subseteq log \cup {RequestEntry(c)}
    BY <1>5 DEF Add, AddEntry
  <2>2. RequestEntry(c) \in granted
    BY <1>5 DEF Add, GrantedInv
  <2>3. pc'[c] # "add" /\ granted' = granted
    BY <1>5 DEF Add, Goto, Return, GrantedInv, TypeOK
  <2>. QED BY <1>1, <1>5, <2>1, <2>2, <2>3 DEF Call, GrantedInv
<1>6. ASSUME NEW c \in Callers, Expire(c) \/ Cancel(c) PROVE GrantedInv'
  <2>1. pc'[c] # "add" /\ granted' = granted /\ log' = log
    BY <1>6 DEF Expire, SetExpiration, Cancel, Return, GrantedInv, TypeOK
  <2>. QED BY <1>1, <1>6, <2>1 DEF Call, GrantedInv
<1>7. ASSUME Tick PROVE GrantedInv'
  <2>1. /\ log' \subseteq log
        /\ UNCHANGED <<granted, pc, stamp, calls>>
    BY <1>7 DEF Tick
  <2>. QED BY <1>0, <2>1 DEF GrantedInv, RequestEntry
<1>8. ASSUME UNCHANGED vars PROVE GrantedInv'
  BY <1>0, <1>8 DEF GrantedInv, RequestEntry, vars
<1>. QED
  BY <1>2, <1>3, <1>4, <1>5, <1>6, <1>7, <1>8 DEF Next, Call, Terminated

\* Only the count denies, and it counts entries that all found a place.
LEMMA DenialStep ==
  ASSUME GrantedInv, [Next]_vars, NEW c \in Callers,
         pc[c] = "entries", result'[c] = "denied", pc'[c] = "idle"
  PROVE  Limit <= Cardinality({e \in granted : e.score + Window >= stamp[c]})
<1> DEFINE Counted == {e \in log : e.score >= CutoffTime(c)}
           Justify == {e \in granted : e.score + Window >= stamp[c]}
<1>1. GetEntries(c)
  <2>1. ASSUME NEW d \in Callers \ {c}, Call(d) PROVE FALSE
    BY <2>1, OthersKept DEF GrantedInv
  <2>2. ~Begin(c) /\ ~Cleanup(c) /\ ~Add(c) /\ ~Expire(c)
    BY DEF Begin, Cleanup, Add, Expire
  <2>3. ~Cancel(c)
    BY DEF Cancel, Return, GrantedInv, TypeOK
  <2>4. ~Tick /\ ~Terminated /\ ~UNCHANGED vars
    BY DEF Tick, Terminated, vars
  <2>. QED BY <2>1, <2>2, <2>3, <2>4 DEF Next, Call
<1>2. CurrentCount(c) >= Limit
  BY <1>1 DEF GetEntries, Admit, Return, GrantedInv, TypeOK
<1>3. Counted \subseteq Justify
  BY WindowAssumption DEF CutoffTime, GrantedInv, TypeOK, Entries
<1>4. IsFiniteSet(Justify)
  BY FS_Subset DEF GrantedInv
<1>5. IsFiniteSet(Counted) /\ Cardinality(Counted) <= Cardinality(Justify)
  BY <1>3, <1>4, FS_Subset
<1>6. Cardinality(Counted) \in Nat /\ Cardinality(Justify) \in Nat
  BY <1>4, <1>5, FS_CardinalityType
<1>. QED BY <1>2, <1>5, <1>6, LimitAssumption DEF CurrentCount

\* Nobody is denied for denied or unchecked calls: a denial has Limit calls behind it
\* that found a place, whatever fails and however the calls interleave.
THEOREM DenialsJustified == Spec => DenialJustified
<1>1. Init => GrantedInv
  BY TypeInit, FS_EmptySet DEF Init, GrantedInv
<1>2. GrantedInv /\ [Next]_vars =>
        [\A c \in Callers :
           pc[c] = "entries" /\ result'[c] = "denied" /\ pc'[c] = "idle" =>
             Limit <= Cardinality({e \in granted : e.score + Window >= stamp[c]})]_vars
  BY DenialStep
<1>. QED BY <1>1, <1>2, GrantedStep, PTL DEF Spec, DenialJustified

-----------------------------------------------------------------------------
(* The overrun of prompt calls.  As long as the clock has never moved      *)
(* under a call, every call in progress has the present as its clock, so   *)
(* what found a place in the present window is in the log, or its caller   *)
(* is at the ZADD: the count misses at most one call per other caller.     *)

\* The failures that cost no entry: those of the commands before the ZADD.
EarlyFaults == {"conn", "cleanup", "entries"}

AtAdd(g) == \E c \in Callers : pc[c] = "add" /\ g = RequestEntry(c)

PromptInv ==
  /\ \A g \in granted : g.score <= now
  /\ ~overtaken =>
       /\ exposed = {}
       /\ \A c \in Callers : pc[c] # "idle" => stamp[c] = now
       /\ \A g \in granted : now - Window < g.score => g \in log \/ AtAdd(g)
       /\ AtMostPerWindow(Limit + Cardinality(Callers) - 1)

\* The entries of the callers other than c, one each.
LEMMA OtherEntries ==
  ASSUME NEW c \in Callers
  PROVE  LET others == {RequestEntry(d) : d \in Callers \ {c}}
         IN /\ IsFiniteSet(others)
            /\ Cardinality(others) <= Cardinality(Callers) - 1
            /\ Cardinality(others) \in Nat /\ Cardinality(Callers) \in Nat
<1> DEFINE others == {RequestEntry(d) : d \in Callers \ {c}}
           entry == [d \in Callers \ {c} |-> RequestEntry(d)]
<1>1. /\ IsFiniteSet(Callers \ {c}) /\ Cardinality(Callers) \in Nat
      /\ Cardinality(Callers \ {c}) = Cardinality(Callers) - 1
  BY CallersAssumption, FS_RemoveElement, FS_CardinalityType
<1>2. entry \in Surjection(Callers \ {c}, others)
  BY DEF Surjection
<1>3. IsFiniteSet(others) /\ Cardinality(others) <= Cardinality(Callers \ {c})
  BY <1>1, <1>2, FS_Surjection
<1>4. Cardinality(others) \in Nat
  BY <1>3, FS_CardinalityType
<1>. QED BY <1>1, <1>3, <1>4

\* A call that is admitted is within the bound: with fewer than Limit entries counted,
\* and one call at the ZADD for each of the others.
LEMMA AdmitBound ==
  ASSUME GrantedInv, PromptInv, ~overtaken, NEW c \in Callers,
         pc[c] = "entries", CurrentCount(c) < Limit, Admit(c), UNCHANGED <<now, stamp, calls>>
  PROVE  AtMostPerWindow(Limit + Cardinality(Callers) - 1)'
<1> USE DEF GrantedInv
<1> DEFINE counted == {e \in log : e.score >= CutoffTime(c)}
           others == {RequestEntry(d) : d \in Callers \ {c}}
           bound == Limit + Cardinality(Callers) - 1
<1>1. /\ granted' = granted \cup {RequestEntry(c)}
      /\ RequestEntry(c).score = now
      /\ now \in Nat /\ \A g \in granted : g.score \in Nat /\ g.score <= now
  BY RequestEntryType DEF Admit, PromptInv, TypeOK, Entries
<1>2. /\ IsFiniteSet(others) /\ Cardinality(others) <= Cardinality(Callers) - 1
      /\ Cardinality(others) \in Nat /\ Cardinality(Callers) \in Nat
  BY OtherEntries
<1>3. IsFiniteSet(counted) /\ Cardinality(counted) \in Nat /\ Cardinality(counted) < Limit
  <2>1. IsFiniteSet(counted)
    BY FS_Subset
  <2>. QED BY <2>1, FS_CardinalityType DEF CurrentCount
<1>4. GrantedUpTo(now) \subseteq counted \cup others
  <2>1. stamp[c] = now
    BY DEF PromptInv
  <2>2. \A g \in GrantedUpTo(now) : g \in log \/ AtAdd(g)
    BY DEF GrantedUpTo, PromptInv
  <2>3. \A g \in GrantedUpTo(now) : g \in log => g \in counted
    BY <1>1, <2>1, WindowAssumption DEF GrantedUpTo, CutoffTime
  <2>4. \A g \in GrantedUpTo(now) : AtAdd(g) => g \in others
    BY DEF AtAdd
  <2>. QED BY <2>2, <2>3, <2>4
<1>5. /\ IsFiniteSet(counted \cup others)
      /\ Cardinality(counted \cup others) <= Limit + Cardinality(Callers) - 2
      /\ Cardinality(counted \cup others) \in Nat
  <2> HIDE DEF counted, others
  <2>1. IsFiniteSet(counted \cup others) /\ IsFiniteSet(counted \cap others)
    BY <1>2, <1>3, FS_Union, FS_Subset
  <2>2. Cardinality(counted \cup others) \in Nat /\ Cardinality(counted \cap others) \in Nat
    BY <2>1, FS_CardinalityType
  <2>3. Cardinality(counted \cup others)
          = Cardinality(counted) + Cardinality(others) - Cardinality(counted \cap others)
    BY <1>2, <1>3, FS_Union
  <2>. QED BY <1>2, <1>3, <2>1, <2>2, <2>3, LimitAssumption
<1>6. /\ IsFiniteSet(GrantedUpTo(now)) /\ Cardinality(GrantedUpTo(now)) \in Nat
      /\ Cardinality(GrantedUpTo(now)) <= Limit + Cardinality(Callers) - 2
  <2> HIDE DEF counted, others
  <2>1. /\ IsFiniteSet(GrantedUpTo(now))
        /\ Cardinality(GrantedUpTo(now)) <= Cardinality(counted \cup others)
    BY <1>4, <1>5, FS_Subset
  <2>2. Cardinality(GrantedUpTo(now)) \in Nat
    BY <2>1, FS_CardinalityType
  <2>. QED BY <1>2, <1>5, <2>1, <2>2, LimitAssumption
<1>7. ASSUME NEW g \in granted' PROVE Cardinality(GrantedUpTo(g.score)') <= bound
  <2>1. CASE g.score = now
    <3>1. GrantedUpTo(now)' = GrantedUpTo(now) \cup {RequestEntry(c)}
      BY <1>1, WindowAssumption DEF GrantedUpTo
    <3>2. Cardinality(GrantedUpTo(now) \cup {RequestEntry(c)})
            \in {Cardinality(GrantedUpTo(now)), Cardinality(GrantedUpTo(now)) + 1}
      BY <1>6, FS_AddElement
    <3>3. GrantedUpTo(g.score)' = GrantedUpTo(now) \cup {RequestEntry(c)}
      BY <1>1, <2>1, WindowAssumption DEF GrantedUpTo
    <3>. QED BY <1>2, <1>6, <3>2, <3>3, LimitAssumption
  <2>2. CASE g.score # now
    <3>1. g \in granted /\ g.score < now
      BY <1>1, <2>2
    <3>2. GrantedUpTo(g.score)' = GrantedUpTo(g.score)
      BY <1>1, <3>1 DEF GrantedUpTo
    <3>. QED BY <3>1, <3>2 DEF PromptInv, AtMostPerWindow
  <2>. QED BY <2>1, <2>2
<1>. QED BY <1>7 DEF AtMostPerWindow, GrantedUpTo

LEMMA PromptStep ==
  ASSUME Faults \subseteq EarlyFaults, LogInv, GrantedInv, PromptInv, [Next]_vars
  PROVE  PromptInv'
<1>0. /\ TypeOK /\ ClocksBehind /\ ExpiryCoversEntries
      /\ now \in Nat /\ \A g \in granted : g.score \in Nat /\ g.score <= now
  BY DEF LogInv, PromptInv, TypeOK, Entries
<1> USE WindowAssumption DEF EarlyFaults
\* A step that grants nothing, and takes nothing out of the present window.
<1>1. ASSUME NEW c \in Callers, Call(c), now' = now, overtaken' = overtaken,
             exposed' = exposed, granted' = granted,
             pc'[c] # "idle" => stamp'[c] = now,
             ~overtaken =>
               \A g \in granted :
                 now - Window < g.score /\ (g \in log \/ (g = RequestEntry(c) /\ pc[c] = "add"))
                   => g \in log'
      PROVE  PromptInv'
  <2>1. \A d \in Callers \ {c} : /\ pc'[d] = pc[d] /\ stamp'[d] = stamp[d]
                                 /\ RequestEntry(d)' = RequestEntry(d)
    BY <1>0, <1>1, OthersKept DEF RequestEntry
  <2>2. \A g : AtAdd(g) => AtAdd(g)' \/ (g = RequestEntry(c) /\ pc[c] = "add")
    BY <2>1 DEF AtAdd
  <2>3. \A g \in granted' : g.score <= now'
    BY <1>0, <1>1
  <2>4. ASSUME ~overtaken' PROVE ~overtaken /\ exposed' = {}
    BY <1>1, <2>4 DEF PromptInv
  <2>5. ASSUME ~overtaken' PROVE \A d \in Callers : pc'[d] # "idle" => stamp'[d] = now'
    BY <1>1, <2>1, <2>5 DEF PromptInv
  <2>6. ASSUME ~overtaken', NEW g \in granted', now' - Window < g.score
        PROVE  g \in log' \/ AtAdd(g)'
    <3>1. g \in log \/ AtAdd(g)
      BY <1>1, <2>4, <2>6 DEF PromptInv
    <3>2. g \in log \/ (g = RequestEntry(c) /\ pc[c] = "add") => g \in log'
      BY <1>1, <2>4, <2>6
    <3>3. AtAdd(g) => AtAdd(g)' \/ (g = RequestEntry(c) /\ pc[c] = "add")
      BY <2>2
    <3>. QED BY <3>1, <3>2, <3>3
  <2>7. ASSUME ~overtaken' PROVE AtMostPerWindow(Limit + Cardinality(Callers) - 1)'
    BY <1>1, <2>4, <2>7 DEF PromptInv, AtMostPerWindow, GrantedUpTo
  <2>. QED BY <2>3, <2>4, <2>5, <2>6, <2>7 DEF PromptInv
<1>2. ASSUME NEW c \in Callers, Begin(c) PROVE PromptInv'
  BY <1>0, <1>1, <1>2 DEF Begin, Call, Goto, Return, TypeOK
<1>3. ASSUME NEW c \in Callers, Cleanup(c) PROVE PromptInv'
  <2>1. ~overtaken => stamp[c] = now
    BY <1>3 DEF Cleanup, PromptInv
  <2>2. pc'[c] # "idle" /\ granted' = granted /\ stamp' = stamp /\ pc[c] = "cleanup"
    BY <1>0, <1>3 DEF Cleanup, Goto, TypeOK
  <2>3. CASE overtaken
    BY <1>0, <1>3, <2>2, <2>3 DEF Cleanup, PromptInv
  <2>4. CASE ~overtaken
    <3>1. \A g \in granted : now - Window < g.score /\ g \in log => g \in log'
      BY <1>0, <1>3, <2>1, <2>4 DEF Cleanup, RemoveUpTo, CutoffTime
    <3>. QED BY <1>1, <1>3, <2>1, <2>2, <2>4, <3>1 DEF Cleanup, Call
  <2>. QED BY <2>3, <2>4
<1>4. ASSUME NEW c \in Callers, GetEntries(c) PROVE PromptInv'
  <2>1. /\ pc[c] = "entries"
        /\ UNCHANGED <<now, log, expiry, stamp, calls, exposed, overtaken>>
    BY <1>4 DEF GetEntries
  <2>2. CASE Return(c, "denied") \/ Return(c, "unchecked")
    <3>1. pc'[c] = "idle" /\ granted' = granted
      BY <1>0, <2>2 DEF Return, TypeOK
    <3>. QED BY <1>1, <1>4, <2>1, <3>1 DEF Call
  <2>3. CASE CurrentCount(c) < Limit /\ Admit(c)
    <3>1. /\ granted' = granted \cup {RequestEntry(c)}
          /\ pc'[c] = "add" /\ \A d \in Callers \ {c} : pc'[d] = pc[d]
      BY <1>0, <2>3 DEF Admit, TypeOK
    <3>2. \A d \in Callers : RequestEntry(d)' = RequestEntry(d)
      BY <2>1 DEF RequestEntry
    <3>3. RequestEntry(c).score <= now
      BY <1>0, RequestEntryType DEF ClocksBehind
    <3>4. \A g : (AtAdd(g) \/ g = RequestEntry(c)) => AtAdd(g)'
      BY <2>1, <3>1, <3>2 DEF AtAdd
    <3>5. ~overtaken => AtMostPerWindow(Limit + Cardinality(Callers) - 1)'
      BY <2>1, <2>3, AdmitBound
    <3>6. ~overtaken => \A d \in Callers : pc'[d] # "idle" => stamp'[d] = now
      BY <2>1, <3>1 DEF PromptInv
    <3>. QED BY <2>1, <3>1, <3>3, <3>4, <3>5, <3>6 DEF PromptInv
  <2>. QED BY <1>4, <2>2, <2>3 DEF GetEntries
<1>5. ASSUME NEW c \in Callers, Add(c) PROVE PromptInv'
  <2>1. /\ log' = log \cup {RequestEntry(c)} /\ pc[c] = "add" /\ granted' = granted
        /\ UNCHANGED <<now, stamp, calls, exposed, overtaken>>
    BY <1>5 DEF Add, AddEntry, Goto
  <2>2. ~overtaken => stamp[c] = now
    BY <2>1 DEF PromptInv
  <2>3. CASE overtaken
    BY <1>0, <2>1, <2>3 DEF PromptInv
  <2>4. CASE ~overtaken
    BY <1>1, <1>5, <2>1, <2>2, <2>4 DEF Call
  <2>. QED BY <2>3, <2>4
<1>6. ASSUME NEW c \in Callers, Expire(c) PROVE PromptInv'
  <2>1. /\ log' = log /\ pc[c] = "expire" /\ pc'[c] = "idle" /\ granted' = granted
        /\ UNCHANGED <<now, stamp, calls, exposed, overtaken>>
    BY <1>0, <1>6 DEF Expire, SetExpiration, Return, TypeOK
  <2>. QED BY <1>1, <1>6, <2>1 DEF Call
<1>7. ASSUME NEW c \in Callers, Cancel(c) PROVE FALSE
  BY <1>7 DEF Cancel
<1>8. ASSUME Tick PROVE PromptInv'
  <2>1. /\ now' = now + 1 /\ UNCHANGED <<pc, stamp, calls, granted>>
        /\ overtaken' = (overtaken \/ ~AllIdle)
    BY <1>8 DEF Tick
  <2>2. CASE overtaken'
    BY <1>0, <2>1, <2>2 DEF PromptInv
  <2>3. CASE ~overtaken'
    <3>1. ~overtaken /\ AllIdle
      BY <2>1, <2>3
    <3>2. exposed = {} /\ \A g \in granted : now - Window < g.score => g \in log
      BY <3>1 DEF PromptInv, AtAdd, AllIdle
    <3>3. \A d \in Callers : pc[d] # "expire"
      BY <3>1 DEF AllIdle
    <3>4. exposed' = {}
      BY <1>8, <3>2, <3>3 DEF Tick
    <3>5. Expiring => \A e \in log : e.score + Window <= now + 1
      BY <1>0, <3>2, <3>3 DEF Expiring, ExpiryCoversEntries, Pending, TypeOK, Entries
    <3>6. \A g \in granted : now' - Window < g.score => g \in log'
      BY <1>0, <1>8, <2>1, <3>2, <3>5 DEF Tick
    <3>7. AtMostPerWindow(Limit + Cardinality(Callers) - 1)'
      BY <2>1, <3>1 DEF PromptInv, AtMostPerWindow, GrantedUpTo
    <3>8. \A d \in Callers : pc'[d] = "idle"
      BY <2>1, <3>1 DEF AllIdle
    <3>. QED BY <1>0, <2>1, <3>4, <3>6, <3>7, <3>8 DEF PromptInv
  <2>. QED BY <2>2, <2>3
<1>9. ASSUME UNCHANGED vars PROVE PromptInv'
  BY <1>9 DEF PromptInv, AtAdd, RequestEntry, AtMostPerWindow, GrantedUpTo, vars
<1>. QED
  BY <1>2, <1>3, <1>4, <1>5, <1>6, <1>7, <1>8, <1>9 DEF Next, Call, Terminated

\* Prompt calls overrun the limit by one call per other caller and no more, for any
\* number of callers, limit and window, whichever commands before the ZADD fail: a
\* single caller that does not outlast a tick of its clock keeps to the limit.
THEOREM PromptLimit ==
  ASSUME Faults \subseteq EarlyFaults
  PROVE  Spec => []PromptBound
<1>1. Init => GrantedInv /\ PromptInv
  BY TypeInit, FS_EmptySet DEF Init, GrantedInv, PromptInv, AtMostPerWindow
<1>2. LogInv /\ GrantedInv /\ PromptInv /\ [Next]_vars => PromptInv'
  BY PromptStep
<1>3. PromptInv => PromptBound
  BY DEF PromptInv, PromptBound
<1>. QED BY <1>1, <1>2, <1>3, ExpiryCovers, GrantedStep, PTL DEF Spec

-----------------------------------------------------------------------------
(* The overrun of any calls, slow ones included.  What found a place in    *)
(* the present window is in the log, or at the ZADD, or lost with a key    *)
(* that a former call set to expire.  The three parts bound what a count   *)
(* may let in at the present; what it may still let in under an old clock  *)
(* is bounded by the calls that began then and have not counted yet.       *)

\* A name belongs to one call: a call not yet counted has no place, and one not
\* yet recorded has lost nothing.
NamesInv ==
  /\ \A g \in granted : g.id[2] <= calls[g.id[1]]
  /\ \A i \in exposed : i[2] <= calls[i[1]]
  /\ \A c \in Callers :
       /\ pc[c] \in {"cleanup", "entries"} => \A g \in granted : g.id # RequestEntry(c).id
       /\ pc[c] \in {"cleanup", "entries", "add"} => RequestEntry(c).id \notin exposed
       /\ \A g \in granted : g.id = RequestEntry(c).id => g = RequestEntry(c)

\* The entries lost with the key that are still in the present window.
Lost == {g \in granted : g.id \in exposed /\ now - Window < g.score}

\* One expiry of the key costs at most an entry of each caller, and by the time
\* of the next the window has left them behind.
LostInv ==
  /\ \A g \in granted : g.id \in exposed =>
       g.score < now /\ (expiry = NoExpiry \/ g.score + Window < expiry)
  /\ Cardinality(Lost) <= Cardinality(Callers)

KeptInv ==
  \A g \in granted : now - Window < g.score => g \in log \/ AtAdd(g) \/ g.id \in exposed

\* The calls of the window that ends at t and have yet to count.
Undecided(t) == {c \in Callers : /\ pc[c] \in {"cleanup", "entries"}
                                 /\ t - Window < stamp[c] /\ stamp[c] <= t}

Potential(t) == GrantedUpTo(t) \cup {RequestEntry(c) : c \in Undecided(t)}

CountInv ==
  /\ Cardinality(GrantedUpTo(now)) <= Limit + 2 * Cardinality(Callers) - 1
  /\ \A t \in Nat : t < now =>
       Cardinality(Potential(t)) <= Limit + 3 * Cardinality(Callers) - 1

LEMMA NamesStep ==
  ASSUME Faults \subseteq EarlyFaults, TypeOK, NamesInv, [Next]_vars
  PROVE  NamesInv'
<1>0. /\ \A c \in Callers : calls[c] \in Nat
      /\ \A g \in granted : g.id \in CallIds
      /\ \A i \in exposed : i \in CallIds
  BY DEF TypeOK, Entries
<1> USE DEF EarlyFaults
\* A step that begins no call and grants nothing.
<1>1. ASSUME NEW c \in Callers, Call(c), UNCHANGED <<stamp, calls, granted, exposed>>,
             pc'[c] \in {"cleanup", "entries"} => pc[c] \in {"cleanup", "entries"},
             pc'[c] # "add"
      PROVE  NamesInv'
  <2>1. \A d \in Callers : /\ RequestEntry(d)' = RequestEntry(d)
                           /\ d # c => pc'[d] = pc[d]
    BY <1>1, OthersKept DEF RequestEntry
  <2>. QED BY <1>1, <2>1 DEF NamesInv
<1>2. ASSUME NEW c \in Callers, Begin(c) PROVE NamesInv'
  <2>1. /\ UNCHANGED <<granted, exposed>> /\ stamp' \in [Callers -> Nat]
        /\ calls'[c] = calls[c] + 1 /\ calls[c] \in Nat
        /\ \A d \in Callers \ {c} : /\ pc'[d] = pc[d] /\ calls'[d] = calls[d]
                                    /\ RequestEntry(d)' = RequestEntry(d)
    BY <1>2, OthersKept DEF Begin, TypeOK, Call, Goto, Return, RequestEntry
  <2>2. RequestEntry(c)'.id = <<c, calls[c] + 1>>
    BY <2>1 DEF RequestEntry
  <2>3. \A i \in CallIds : i[2] <= calls[i[1]] => /\ i[2] <= calls'[i[1]]
                                                   /\ i # RequestEntry(c)'.id
    BY <1>0, <2>1, <2>2 DEF CallIds
  <2>4. \A g \in granted : g.id[2] <= calls'[g.id[1]] /\ g.id # RequestEntry(c)'.id
    BY <1>0, <2>3 DEF NamesInv
  <2>5. \A i \in exposed : i[2] <= calls'[i[1]] /\ i # RequestEntry(c)'.id
    BY <1>0, <2>3 DEF NamesInv
  <2>. QED BY <2>1, <2>4, <2>5 DEF NamesInv
<1>3. ASSUME NEW c \in Callers, Cleanup(c) PROVE NamesInv'
  BY <1>1, <1>3 DEF Cleanup, Goto, Call, TypeOK
<1>4. ASSUME NEW c \in Callers, GetEntries(c) PROVE NamesInv'
  <2>1. pc[c] = "entries" /\ UNCHANGED <<stamp, calls, exposed>>
    BY <1>4 DEF GetEntries
  <2>2. CASE Return(c, "denied") \/ Return(c, "unchecked")
    BY <1>1, <1>4, <2>1, <2>2 DEF Call, Return, TypeOK
  <2>3. CASE Admit(c)
    <3>1. /\ granted' = granted \cup {RequestEntry(c)}
          /\ pc'[c] = "add" /\ \A d \in Callers \ {c} : pc'[d] = pc[d]
      BY <2>3 DEF Admit, TypeOK
    <3>2. /\ \A d \in Callers : RequestEntry(d)' = RequestEntry(d)
          /\ \A d \in Callers \ {c} : RequestEntry(d).id # RequestEntry(c).id
          /\ RequestEntry(c).id[1] = c /\ RequestEntry(c).id[2] = calls[c]
      BY <2>1 DEF RequestEntry
    <3>3. \A g \in granted' : g.id[2] <= calls'[g.id[1]]
      BY <1>0, <2>1, <3>1, <3>2 DEF NamesInv
    <3>. QED BY <2>1, <3>1, <3>2, <3>3 DEF NamesInv
  <2>. QED BY <1>4, <2>2, <2>3 DEF GetEntries
<1>5. ASSUME NEW c \in Callers, Add(c) PROVE NamesInv'
  BY <1>1, <1>5 DEF Add, Goto, Call, TypeOK
<1>6. ASSUME NEW c \in Callers, Expire(c) PROVE NamesInv'
  BY <1>1, <1>6 DEF Expire, SetExpiration, Return, Call, TypeOK
<1>7. ASSUME NEW c \in Callers, Cancel(c) PROVE FALSE
  BY <1>7 DEF Cancel
<1>8. ASSUME Tick PROVE NamesInv'
  <2>1. /\ UNCHANGED <<pc, stamp, calls, granted>>
        /\ \A d \in Callers : RequestEntry(d)' = RequestEntry(d)
    BY <1>8 DEF Tick, RequestEntry
  <2>2. \A i \in exposed' :
          i \in exposed \/ \E d \in Callers : pc[d] = "expire" /\ i = RequestEntry(d).id
    BY <1>8 DEF Tick
  <2>3. \A d \in Callers : RequestEntry(d).id = <<d, calls[d]>>
    BY DEF RequestEntry
  <2>4. \A i \in exposed' : i[2] <= calls'[i[1]]
    BY <1>0, <2>1, <2>2, <2>3 DEF NamesInv
  <2>5. ASSUME NEW d \in Callers, pc[d] \in {"cleanup", "entries", "add"}
        PROVE  RequestEntry(d).id \notin exposed'
    BY <2>2, <2>3, <2>5 DEF NamesInv
  <2>. QED BY <2>1, <2>4, <2>5 DEF NamesInv
<1>9. ASSUME UNCHANGED vars PROVE NamesInv'
  BY <1>9 DEF NamesInv, RequestEntry, vars
<1>. QED
  BY <1>2, <1>3, <1>4, <1>5, <1>6, <1>7, <1>8, <1>9 DEF Next, Call, Terminated

\* The union of two finite sets is no larger than their bounds together.
LEMMA UnionBound ==
  ASSUME NEW A, NEW B, NEW a \in Int, NEW b \in Int,
         IsFiniteSet(A), IsFiniteSet(B), Cardinality(A) <= a, Cardinality(B) <= b
  PROVE  /\ IsFiniteSet(A \cup B)
         /\ Cardinality(A \cup B) \in Nat
         /\ Cardinality(A \cup B) <= a + b
<1>1. IsFiniteSet(A \cup B) /\ IsFiniteSet(A \cap B)
  BY FS_Union, FS_Subset
<1>2. /\ Cardinality(A \cup B) \in Nat /\ Cardinality(A \cap B) \in Nat
      /\ Cardinality(A) \in Nat /\ Cardinality(B) \in Nat
  BY <1>1, FS_CardinalityType
<1>3. Cardinality(A \cup B) = Cardinality(A) + Cardinality(B) - Cardinality(A \cap B)
  BY FS_Union
<1>. QED BY <1>1, <1>2, <1>3

\* The entries of any callers, one each.
LEMMA EntriesOf ==
  ASSUME NEW C \in SUBSET Callers
  PROVE  LET entries == {RequestEntry(c) : c \in C}
         IN /\ IsFiniteSet(entries)
            /\ Cardinality(entries) <= Cardinality(Callers)
            /\ Cardinality(Callers) \in Nat
<1> DEFINE entries == {RequestEntry(c) : c \in C}
           entry == [c \in C |-> RequestEntry(c)]
<1>1. /\ IsFiniteSet(C) /\ Cardinality(C) <= Cardinality(Callers)
      /\ Cardinality(Callers) \in Nat /\ Cardinality(C) \in Nat
  BY CallersAssumption, FS_Subset, FS_CardinalityType
<1>2. entry \in Surjection(C, entries)
  BY DEF Surjection
<1>3. IsFiniteSet(entries) /\ Cardinality(entries) <= Cardinality(C)
  BY <1>1, <1>2, FS_Surjection
<1>4. Cardinality(entries) \in Nat
  BY <1>3, FS_CardinalityType
<1>. QED BY <1>1, <1>3, <1>4

\* A smaller set has no more members.
LEMMA SubsetBound ==
  ASSUME NEW B, NEW A \in SUBSET B, IsFiniteSet(B), NEW b \in Int, Cardinality(B) <= b
  PROVE  IsFiniteSet(A) /\ Cardinality(A) \in Nat /\ Cardinality(A) <= b
<1>1. IsFiniteSet(A) /\ Cardinality(A) <= Cardinality(B)
  BY FS_Subset
<1>2. Cardinality(A) \in Nat /\ Cardinality(B) \in Nat
  BY <1>1, FS_CardinalityType
<1>. QED BY <1>1, <1>2

LEMMA LostStep ==
  ASSUME Faults \subseteq EarlyFaults, LogInv, GrantedInv, PromptInv, NamesInv, LostInv,
         [Next]_vars
  PROVE  LostInv'
<1>0. /\ TypeOK /\ now \in Nat /\ expiry \in Nat \cup {NoExpiry}
      /\ \A g \in granted : g.score \in Nat /\ g.score <= now
      /\ \A c \in Callers : stamp[c] \in Nat /\ stamp[c] <= now
  BY DEF LogInv, PromptInv, TypeOK, Entries, ClocksBehind
<1> USE WindowAssumption DEF EarlyFaults
\* A step that loses nothing and leaves the expiry, drops it or counts it from now.
<1>1. ASSUME UNCHANGED <<now, exposed>>, expiry' \in {expiry, NoExpiry, now + Window},
             \A g \in granted' \ granted : g.id \notin exposed,
             granted \subseteq granted'
      PROVE  LostInv'
  <2>1. Lost' = Lost
    BY <1>1 DEF Lost
  <2>2. ASSUME NEW g \in granted', g.id \in exposed'
        PROVE  g.score < now' /\ (expiry' = NoExpiry \/ g.score + Window < expiry')
    BY <1>0, <1>1, <2>2 DEF LostInv
  <2>. QED BY <2>1, <2>2 DEF LostInv
<1>2. ASSUME NEW c \in Callers, Begin(c) PROVE LostInv'
  BY <1>1, <1>2 DEF Begin, Goto, Return
<1>3. ASSUME NEW c \in Callers, Cleanup(c) PROVE LostInv'
  BY <1>1, <1>3 DEF Cleanup, RemoveUpTo, Goto
<1>4. ASSUME NEW c \in Callers, GetEntries(c) PROVE LostInv'
  <2>1. granted' \in {granted, granted \cup {RequestEntry(c)}} /\ pc[c] = "entries"
        /\ UNCHANGED <<now, exposed, expiry>>
    BY <1>4 DEF GetEntries, Return, Admit
  <2>2. RequestEntry(c).id \notin exposed
    BY <2>1 DEF NamesInv
  <2>. QED BY <1>1, <2>1, <2>2
<1>5. ASSUME NEW c \in Callers, Add(c) PROVE LostInv'
  BY <1>1, <1>5 DEF Add, AddEntry, Goto
<1>6. ASSUME NEW c \in Callers, Expire(c) PROVE LostInv'
  BY <1>1, <1>6 DEF Expire, SetExpiration, Return
<1>7. ASSUME NEW c \in Callers, Cancel(c) PROVE FALSE
  BY <1>7 DEF Cancel
<1>8. ASSUME Tick PROVE LostInv'
  <2> DEFINE pending == {d \in Callers : pc[d] = "expire"}
  <2>1. now' = now + 1 /\ granted' = granted
    BY <1>8 DEF Tick
  <2>2. CASE ~Expiring
    <3>1. exposed' = exposed /\ expiry' = expiry
      BY <1>8, <2>2 DEF Tick
    <3>2. Lost' \in SUBSET Lost
      BY <1>0, <2>1, <3>1 DEF Lost
    <3>3. IsFiniteSet(Lost) /\ Cardinality(Callers) \in Int
      BY CallersAssumption, FS_CardinalityType, FS_Subset DEF Lost, GrantedInv
    <3>4. Cardinality(Lost') <= Cardinality(Callers)
      BY <3>2, <3>3, SubsetBound DEF LostInv
    <3>5. ASSUME NEW g \in granted', g.id \in exposed'
          PROVE  g.score < now' /\ (expiry' = NoExpiry \/ g.score + Window < expiry')
      BY <1>0, <2>1, <3>1, <3>5 DEF LostInv
    <3>. QED BY <3>4, <3>5 DEF LostInv
  <2>3. CASE Expiring
    <3>1. /\ exposed' = exposed \cup {RequestEntry(d).id : d \in pending}
          /\ expiry' = NoExpiry
      BY <1>8, <2>3 DEF Tick
    <3>2. ASSUME NEW g \in granted', g.id \in exposed' PROVE g.score < now'
      BY <1>0, <2>1
    <3>3. Lost' \subseteq {RequestEntry(d) : d \in pending}
      <4>1. ASSUME NEW g \in granted, g.id \in exposed PROVE g.score <= now' - Window
        BY <1>0, <2>1, <2>3, <4>1 DEF LostInv, Expiring
      <4>2. ASSUME NEW g \in granted, NEW d \in pending, g.id = RequestEntry(d).id
            PROVE  g = RequestEntry(d)
        BY <4>2 DEF NamesInv
      <4>3. \A g \in Lost' : /\ g \in granted /\ now' - Window < g.score
                             /\ g.id \in exposed'
        BY <2>1 DEF Lost
      <4>4. now' \in Int /\ \A g \in granted : g.score \in Int
        BY <1>0, <2>1
      <4>. QED BY <3>1, <4>1, <4>2, <4>3, <4>4
    <3>4. Cardinality(Lost') <= Cardinality(Callers)
      <4>1. LET lost == {RequestEntry(d) : d \in pending}
            IN IsFiniteSet(lost) /\ Cardinality(lost) <= Cardinality(Callers)
               /\ Cardinality(Callers) \in Int
        <5>1. pending \in SUBSET Callers
          OBVIOUS
        <5>2. Cardinality(Callers) \in Nat => Cardinality(Callers) \in Int
          OBVIOUS
        <5> HIDE DEF pending
        <5>. QED BY <5>1, <5>2, EntriesOf
      <4>. QED BY <3>3, <4>1, SubsetBound
    <3>. QED BY <3>1, <3>2, <3>4 DEF LostInv
  <2>. QED BY <2>2, <2>3
<1>9. ASSUME UNCHANGED vars PROVE LostInv'
  BY <1>9 DEF LostInv, Lost, vars
<1>. QED
  BY <1>2, <1>3, <1>4, <1>5, <1>6, <1>7, <1>8, <1>9 DEF Next, Call, Terminated

LEMMA KeptStep ==
  ASSUME Faults \subseteq EarlyFaults, LogInv, GrantedInv, PromptInv, KeptInv, [Next]_vars
  PROVE  KeptInv'
<1>0. /\ TypeOK /\ ClocksBehind /\ ExpiryCoversEntries /\ now \in Nat
      /\ \A g \in granted : g.score \in Nat /\ g.score <= now
      /\ \A c \in Callers : stamp[c] \in Nat /\ stamp[c] <= now
  BY DEF LogInv, PromptInv, TypeOK, Entries, ClocksBehind
<1> USE WindowAssumption DEF EarlyFaults
\* A step that grants nothing, and takes nothing out of the present window.
<1>1. ASSUME NEW c \in Callers, Call(c), UNCHANGED <<now, exposed, granted>>,
             \A g \in granted :
               now - Window < g.score /\ (g \in log \/ (g = RequestEntry(c) /\ pc[c] = "add"))
                 => g \in log'
      PROVE  KeptInv'
  <2>1. \A d \in Callers \ {c} : pc'[d] = pc[d] /\ RequestEntry(d)' = RequestEntry(d)
    BY <1>0, <1>1, OthersKept DEF RequestEntry
  <2>2. \A g : AtAdd(g) => AtAdd(g)' \/ (g = RequestEntry(c) /\ pc[c] = "add")
    BY <2>1 DEF AtAdd
  <2>. QED BY <1>1, <2>2 DEF KeptInv
<1>2. ASSUME NEW c \in Callers, Begin(c) PROVE KeptInv'
  BY <1>0, <1>1, <1>2 DEF Begin, Call, Goto, Return
<1>3. ASSUME NEW c \in Callers, Cleanup(c) PROVE KeptInv'
  <2>1. /\ UNCHANGED <<now, exposed, granted>> /\ pc[c] = "cleanup"
    BY <1>3 DEF Cleanup, Goto
  <2>2. \A g \in granted : now - Window < g.score /\ g \in log => g \in log'
    BY <1>0, <1>3 DEF Cleanup, RemoveUpTo, CutoffTime
  <2>. QED BY <1>1, <1>3, <2>1, <2>2 DEF Call
<1>4. ASSUME NEW c \in Callers, GetEntries(c) PROVE KeptInv'
  <2>1. pc[c] = "entries" /\ UNCHANGED <<now, log, stamp, calls, exposed>>
    BY <1>4 DEF GetEntries
  <2>2. CASE Return(c, "denied") \/ Return(c, "unchecked")
    BY <1>1, <1>4, <2>1, <2>2 DEF Call, Return
  <2>3. CASE Admit(c)
    <3>1. /\ granted' = granted \cup {RequestEntry(c)}
          /\ pc'[c] = "add" /\ \A d \in Callers \ {c} : pc'[d] = pc[d]
      BY <1>0, <2>3 DEF Admit, TypeOK
    <3>2. \A d \in Callers : RequestEntry(d)' = RequestEntry(d)
      BY <2>1 DEF RequestEntry
    <3>3. \A g : (AtAdd(g) \/ g = RequestEntry(c)) => AtAdd(g)'
      BY <2>1, <3>1, <3>2 DEF AtAdd
    <3>. QED BY <2>1, <3>1, <3>3 DEF KeptInv
  <2>. QED BY <1>4, <2>2, <2>3 DEF GetEntries
<1>5. ASSUME NEW c \in Callers, Add(c) PROVE KeptInv'
  BY <1>1, <1>5 DEF Add, AddEntry, Goto, Call
<1>6. ASSUME NEW c \in Callers, Expire(c) PROVE KeptInv'
  BY <1>1, <1>6 DEF Expire, SetExpiration, Return, Call
<1>7. ASSUME NEW c \in Callers, Cancel(c) PROVE FALSE
  BY <1>7 DEF Cancel
<1>8. ASSUME Tick PROVE KeptInv'
  <2>1. /\ now' = now + 1 /\ UNCHANGED <<granted, pc, stamp, calls>>
    BY <1>8 DEF Tick
  <2>2. \A g : AtAdd(g) => AtAdd(g)'
    BY <2>1 DEF AtAdd, RequestEntry
  <2>3. \A g \in log : g \in log' \/ g.score + Window <= now' \/ g.id \in exposed'
    BY <1>8, FreshStep
  <2>4. exposed \subseteq exposed'
    BY <1>8 DEF Tick
  <2>5. ASSUME NEW g \in granted, now' - Window < g.score
        PROVE  g \in log \/ AtAdd(g) \/ g.id \in exposed
    BY <1>0, <2>1, <2>5 DEF KeptInv
  <2>. QED BY <1>0, <2>1, <2>2, <2>3, <2>4, <2>5 DEF KeptInv
<1>9. ASSUME UNCHANGED vars PROVE KeptInv'
  BY <1>9 DEF KeptInv, AtAdd, RequestEntry, vars
<1>. QED
  BY <1>2, <1>3, <1>4, <1>5, <1>6, <1>7, <1>8, <1>9 DEF Next, Call, Terminated

\* A count that finds a place sees all of the present window but the calls at the
\* ZADD, one of each other caller, and the entries lost with the key.
LEMMA PresentBound ==
  ASSUME LogInv, GrantedInv, PromptInv, LostInv, KeptInv, NEW c \in Callers,
         pc[c] = "entries", CurrentCount(c) < Limit, Admit(c), UNCHANGED <<now, stamp, calls>>
  PROVE  Cardinality(GrantedUpTo(now)') <= Limit + 2 * Cardinality(Callers) - 1
<1> USE DEF GrantedInv
<1> DEFINE counted == {e \in log : e.score >= CutoffTime(c)}
           others == {RequestEntry(d) : d \in Callers \ {c}}
<1>0. /\ now \in Nat /\ stamp[c] \in Nat /\ stamp[c] <= now
      /\ \A g \in granted : g.score \in Nat /\ g.score <= now
  BY DEF LogInv, ClocksBehind, PromptInv, TypeOK, Entries
<1>1. /\ IsFiniteSet(others) /\ Cardinality(others) <= Cardinality(Callers) - 1
      /\ Cardinality(Callers) \in Nat
  BY OtherEntries
<1>2. IsFiniteSet(counted) /\ Cardinality(counted) <= Limit - 1
  <2>1. IsFiniteSet(counted)
    BY FS_Subset
  <2>2. Cardinality(counted) \in Nat
    BY <2>1, FS_CardinalityType
  <2>3. Cardinality(counted) < Limit
    BY DEF CurrentCount
  <2> HIDE DEF counted
  <2>. QED BY <2>1, <2>2, <2>3, LimitAssumption
<1>3. IsFiniteSet(Lost) /\ Cardinality(Lost) <= Cardinality(Callers)
  BY FS_Subset DEF Lost, LostInv
<1>4. GrantedUpTo(now) \subseteq (counted \cup others) \cup Lost
  <2>1. \A g \in GrantedUpTo(now) : g \in granted /\ now - Window < g.score
    BY DEF GrantedUpTo
  <2>2. \A g \in GrantedUpTo(now) : g \in log \/ AtAdd(g) \/ g \in Lost
    BY <2>1 DEF KeptInv, Lost
  <2>3. \A g \in GrantedUpTo(now) : g \in log => g \in counted
    BY <1>0, <2>1, WindowAssumption DEF CutoffTime
  <2>4. \A g \in GrantedUpTo(now) : AtAdd(g) => g \in others
    BY DEF AtAdd
  <2>. QED BY <2>2, <2>3, <2>4
<1>5. /\ IsFiniteSet(GrantedUpTo(now)) /\ Cardinality(GrantedUpTo(now)) \in Nat
      /\ Cardinality(GrantedUpTo(now)) <= Limit + 2 * Cardinality(Callers) - 2
  <2> DEFINE a == Limit - 1
             b == Cardinality(Callers) - 1
             n == Cardinality(Callers)
  <2>1. a \in Int /\ b \in Int /\ n \in Int /\ a + b \in Int /\ (a + b) + n \in Int
    BY <1>1, LimitAssumption
  <2>2. (a + b) + n = Limit + 2 * Cardinality(Callers) - 2
    BY <1>1, LimitAssumption
  <2>3. /\ Cardinality(counted) <= a /\ Cardinality(others) <= b /\ Cardinality(Lost) <= n
        /\ IsFiniteSet(counted) /\ IsFiniteSet(others) /\ IsFiniteSet(Lost)
    BY <1>1, <1>2, <1>3
  <2> HIDE DEF counted, others, a, b, n
  <2>4. IsFiniteSet(counted \cup others) /\ Cardinality(counted \cup others) <= a + b
    BY <2>1, <2>3, UnionBound
  <2>5. /\ IsFiniteSet((counted \cup others) \cup Lost)
        /\ Cardinality((counted \cup others) \cup Lost) <= (a + b) + n
    BY <2>1, <2>3, <2>4, UnionBound
  <2>6. /\ IsFiniteSet(GrantedUpTo(now)) /\ Cardinality(GrantedUpTo(now)) \in Nat
        /\ Cardinality(GrantedUpTo(now)) <= (a + b) + n
    BY <1>4, <2>1, <2>5, SubsetBound
  <2>. QED BY <2>2, <2>6
<1>6. GrantedUpTo(now)' \in SUBSET (GrantedUpTo(now) \cup {RequestEntry(c)})
  BY DEF GrantedUpTo, Admit
<1>7. Cardinality(GrantedUpTo(now) \cup {RequestEntry(c)})
        \in {Cardinality(GrantedUpTo(now)), Cardinality(GrantedUpTo(now)) + 1}
  BY <1>5, FS_AddElement
<1>8. IsFiniteSet(GrantedUpTo(now) \cup {RequestEntry(c)})
  BY <1>5, FS_AddElement
<1>9. /\ Limit + 2 * Cardinality(Callers) - 1 \in Int
      /\ Cardinality(GrantedUpTo(now) \cup {RequestEntry(c)}) <= Limit + 2 * Cardinality(Callers) - 1
  BY <1>1, <1>5, <1>7, LimitAssumption
<1>. QED BY <1>6, <1>8, <1>9, SubsetBound

\* What the window that ends at t may still hold is not enlarged by a call.
LEMMA PotentialStep ==
  ASSUME LogInv, GrantedInv, NEW c \in Callers, Call(c), NEW t \in Nat, t < now
  PROVE  Potential(t)' \subseteq Potential(t)
<1>0. TypeOK /\ stamp[c] \in Nat /\ now \in Nat
  BY DEF LogInv, TypeOK
<1>1. \A d \in Callers \ {c} : /\ d \in Undecided(t)' <=> d \in Undecided(t)
                               /\ RequestEntry(d)' = RequestEntry(d)
  BY <1>0, OthersKept DEF Undecided, RequestEntry
<1>2. ASSUME granted' = granted,
             c \in Undecided(t)' => c \in Undecided(t) /\ RequestEntry(c)' = RequestEntry(c)
      PROVE  Potential(t)' \subseteq Potential(t)
  <2>1. GrantedUpTo(t)' = GrantedUpTo(t)
    BY <1>2 DEF GrantedUpTo
  <2>2. \A d \in Undecided(t)' : d \in Undecided(t) /\ RequestEntry(d)' = RequestEntry(d)
    BY <1>1, <1>2 DEF Undecided
  <2>. QED BY <2>1, <2>2 DEF Potential
<1>3. CASE Begin(c)
  <2>1. granted' = granted /\ stamp'[c] = now
    BY <1>0, <1>3 DEF Begin, Goto, Return, TypeOK
  <2>. QED BY <1>0, <1>2, <2>1 DEF Undecided
<1>4. CASE Cleanup(c)
  BY <1>2, <1>4 DEF Cleanup, Goto, Undecided, RequestEntry
<1>5. CASE GetEntries(c)
  <2>1. pc[c] = "entries" /\ UNCHANGED <<now, stamp, calls>>
    BY <1>5 DEF GetEntries
  <2>2. pc'[c] \in {"idle", "add"}
    BY <1>0, <1>5 DEF GetEntries, Return, Admit, TypeOK
  <2>3. c \notin Undecided(t)'
    BY <2>2 DEF Undecided
  <2>4. CASE granted' = granted
    BY <1>2, <2>3, <2>4
  <2>5. CASE granted' = granted \cup {RequestEntry(c)}
    <3>1. ASSUME NEW g \in GrantedUpTo(t)' PROVE g \in Potential(t)
      <4>1. g \in granted \cup {RequestEntry(c)} /\ t - Window < g.score /\ g.score <= t
        BY <2>5 DEF GrantedUpTo
      <4>2. CASE g \in granted
        BY <4>1, <4>2 DEF GrantedUpTo, Potential
      <4>3. CASE g = RequestEntry(c)
        BY <2>1, <4>1, <4>3 DEF RequestEntry, Undecided, Potential
      <4>. QED BY <4>1, <4>2, <4>3
    <3>2. \A d \in Undecided(t)' : d \in Undecided(t) /\ RequestEntry(d)' = RequestEntry(d)
      BY <1>1, <2>3 DEF Undecided
    <3>. QED BY <3>1, <3>2 DEF Potential
  <2>. QED BY <1>5, <2>4, <2>5 DEF GetEntries, Return, Admit
<1>6. CASE Add(c)
  BY <1>0, <1>2, <1>6 DEF Add, Goto, Return, Undecided, TypeOK
<1>7. CASE Expire(c) \/ Cancel(c)
  BY <1>0, <1>2, <1>7 DEF Expire, Cancel, Return, Undecided, TypeOK
<1>. QED BY <1>3, <1>4, <1>5, <1>6, <1>7 DEF Call

LEMMA CountStep ==
  ASSUME Faults \subseteq EarlyFaults, LogInv, GrantedInv, PromptInv, LostInv, KeptInv,
         CountInv, [Next]_vars
  PROVE  CountInv'
<1> DEFINE present == Limit + 2 * Cardinality(Callers) - 1
           bound == Limit + 3 * Cardinality(Callers) - 1
<1>0. /\ TypeOK /\ now \in Nat
      /\ \A g \in granted : g.score \in Nat /\ g.score <= now
      /\ \A t \in Nat : IsFiniteSet(Potential(t)) /\ IsFiniteSet(GrantedUpTo(t))
      /\ Cardinality(Callers) \in Nat /\ present \in Int /\ bound \in Int
      /\ present + Cardinality(Callers) = bound
  <2>1. Cardinality(Callers) \in Nat
    BY CallersAssumption, FS_CardinalityType
  <2>2. ASSUME NEW t \in Nat PROVE IsFiniteSet(Potential(t)) /\ IsFiniteSet(GrantedUpTo(t))
    <3>1. IsFiniteSet(GrantedUpTo(t))
      BY FS_Subset DEF GrantedUpTo, GrantedInv
    <3>2. Undecided(t) \in SUBSET Callers
      BY DEF Undecided
    <3>3. IsFiniteSet({RequestEntry(d) : d \in Undecided(t)})
      BY <3>2, EntriesOf
    <3>. QED BY <3>1, <3>3, FS_Union DEF Potential
  <2>. QED BY <2>1, <2>2, LimitAssumption DEF LogInv, PromptInv, TypeOK, Entries
<1>1. ASSUME NEW c \in Callers, Call(c), now' = now,
             Cardinality(GrantedUpTo(now)') <= present
      PROVE  CountInv'
  <2>1. ASSUME NEW t \in Nat, t < now' PROVE Cardinality(Potential(t)') <= bound
    <3>1. Potential(t)' \in SUBSET Potential(t)
      BY <1>1, <2>1, PotentialStep
    <3>2. Cardinality(Potential(t)) <= bound
      BY <1>1, <2>1 DEF CountInv
    <3> HIDE DEF bound
    <3>. QED BY <1>0, <3>1, <3>2, SubsetBound
  <2>. QED BY <1>1, <2>1 DEF CountInv
<1>2. ASSUME NEW c \in Callers, Call(c), UNCHANGED <<now, granted>> PROVE CountInv'
  BY <1>1, <1>2 DEF CountInv, GrantedUpTo
<1>3. ASSUME NEW c \in Callers, GetEntries(c) PROVE CountInv'
  <2>1. CASE CurrentCount(c) < Limit /\ Admit(c)
    BY <1>1, <1>3, <2>1, PresentBound DEF GetEntries, Call
  <2>2. CASE granted' = granted
    BY <1>2, <1>3, <2>2 DEF GetEntries, Call
  <2>. QED BY <1>3, <2>1, <2>2 DEF GetEntries, Return
<1>4. ASSUME NEW c \in Callers, Begin(c) \/ Cleanup(c) \/ Add(c) \/ Expire(c) \/ Cancel(c)
      PROVE  CountInv'
  BY <1>2, <1>4 DEF Begin, Cleanup, Add, Expire, Cancel, Goto, Return, Call
<1>5. ASSUME Tick PROVE CountInv'
  <2>1. now' = now + 1 /\ UNCHANGED <<granted, pc, stamp, calls>>
    BY <1>5 DEF Tick
  <2>2. GrantedUpTo(now)' \in SUBSET GrantedUpTo(now)
    BY <1>0, <2>1, WindowAssumption DEF GrantedUpTo
  <2>3. Cardinality(GrantedUpTo(now)') <= present
    <3>1. Cardinality(GrantedUpTo(now)) <= present
      BY DEF CountInv
    <3> HIDE DEF present
    <3>. QED BY <1>0, <2>2, <3>1, SubsetBound
  <2>4. ASSUME NEW t \in Nat, t < now' PROVE Cardinality(Potential(t)') <= bound
    <3>1. Potential(t)' = Potential(t)
      BY <2>1 DEF Potential, GrantedUpTo, Undecided, RequestEntry
    <3>2. CASE t < now
      BY <3>1, <3>2 DEF CountInv
    <3>3. CASE t = now
      <4> DEFINE undecided == {RequestEntry(d) : d \in Undecided(now)}
      <4>1. Undecided(now) \in SUBSET Callers
        BY DEF Undecided
      <4>2. IsFiniteSet(undecided) /\ Cardinality(undecided) <= Cardinality(Callers)
        BY <4>1, EntriesOf
      <4>3. Cardinality(GrantedUpTo(now)) <= present
        BY DEF CountInv
      <4>4. Potential(now) = GrantedUpTo(now) \cup undecided
        BY DEF Potential
      <4>5. Cardinality(Callers) \in Int
        BY <1>0
      <4> HIDE DEF undecided, present, bound
      <4>6. Cardinality(Potential(now)) <= present + Cardinality(Callers)
        BY <1>0, <4>2, <4>3, <4>4, <4>5, UnionBound
      <4>. QED BY <1>0, <3>1, <3>3, <4>6
    <3>. QED BY <1>0, <2>1, <2>4, <3>2, <3>3
  <2>. QED BY <2>3, <2>4 DEF CountInv
<1>6. ASSUME UNCHANGED vars PROVE CountInv'
  BY <1>6 DEF CountInv, Potential, GrantedUpTo, Undecided, RequestEntry, vars
<1>. QED
  BY <1>3, <1>4, <1>5, <1>6 DEF Next, Call, Terminated

\* However slow the calls and however they interleave, whichever commands before the
\* ZADD fail, of the calls that N callers of check_rate_limit begin within one window
\* at most Limit + 3N - 1 find a place in the count.
THEOREM OverrunLimit ==
  ASSUME Faults \subseteq EarlyFaults
  PROVE  Spec => []AdmissionBound
<1> DEFINE Inv == LogInv /\ GrantedInv /\ PromptInv /\ NamesInv /\ LostInv /\ KeptInv
<1>1. CASE Callers = {}
  <2>1. TypeOK => AdmissionBound
    BY <1>1 DEF TypeOK, Entries, CallIds, AdmissionBound, AtMostPerWindow
  <2>. QED BY <2>1, TypeCorrect, PTL
<1>2. CASE Callers # {}
  <2>0. Cardinality(Callers) \in Nat /\ Cardinality(Callers) >= 1
    BY <1>2, CallersAssumption, FS_CardinalityType, FS_EmptySet
  <2>1. Init => GrantedInv /\ PromptInv /\ NamesInv /\ LostInv /\ KeptInv /\ CountInv
    <3> SUFFICES ASSUME Init
                 PROVE  GrantedInv /\ PromptInv /\ NamesInv /\ LostInv /\ KeptInv /\ CountInv
      OBVIOUS
    <3>1. GrantedInv /\ PromptInv
      BY TypeInit, FS_EmptySet DEF Init, GrantedInv, PromptInv, AtMostPerWindow
    <3>2. NamesInv
      BY DEF Init, NamesInv
    <3>3. Lost = {} /\ GrantedUpTo(now) = {}
      BY DEF Init, Lost, GrantedUpTo
    <3>4. LostInv /\ KeptInv
      BY <2>0, <3>3, FS_EmptySet DEF Init, LostInv, KeptInv
    <3>5. \A t \in Nat : ~(t < now)
      BY DEF Init
    <3>6. CountInv
      BY <2>0, <3>3, <3>5, FS_EmptySet, LimitAssumption DEF CountInv
    <3>. QED BY <3>1, <3>2, <3>4, <3>6
  <2>2. Inv /\ CountInv /\ [Next]_vars
          => PromptInv' /\ NamesInv' /\ LostInv' /\ KeptInv' /\ CountInv'
    BY PromptStep, NamesStep, LostStep, KeptStep, CountStep DEF LogInv
  <2>3. Inv /\ CountInv => AdmissionBound
    <3> SUFFICES ASSUME Inv, CountInv, NEW g \in granted
                 PROVE  Cardinality(GrantedUpTo(g.score)) <= Limit + 3 * Cardinality(Callers) - 1
      BY DEF AdmissionBound, AtMostPerWindow
    <3>1. g.score \in Nat /\ g.score <= now /\ now \in Nat /\ IsFiniteSet(granted)
      BY DEF LogInv, GrantedInv, PromptInv, TypeOK, Entries
    <3>2. IsFiniteSet(GrantedUpTo(g.score)) /\ Cardinality(GrantedUpTo(g.score)) \in Nat
      BY <3>1, FS_Subset, FS_CardinalityType DEF GrantedUpTo
    <3>3. CASE g.score = now
      BY <2>0, <3>2, <3>3, LimitAssumption DEF CountInv
    <3>4. CASE g.score < now
      <4>1. Undecided(g.score) \in SUBSET Callers
        BY DEF Undecided
      <4>2. IsFiniteSet({RequestEntry(d) : d \in Undecided(g.score)})
        BY <4>1, EntriesOf
      <4>3. IsFiniteSet(Potential(g.score)) /\ GrantedUpTo(g.score) \in SUBSET Potential(g.score)
        BY <3>2, <4>2, FS_Union DEF Potential
      <4>4. Cardinality(Potential(g.score)) <= Limit + 3 * Cardinality(Callers) - 1
        BY <3>1, <3>4 DEF CountInv
      <4>5. Limit + 3 * Cardinality(Callers) - 1 \in Int
        BY <2>0, LimitAssumption
      <4>. QED BY <4>3, <4>4, <4>5, SubsetBound
    <3>. QED BY <3>1, <3>3, <3>4
  <2>. QED BY <2>1, <2>2, <2>3, ExpiryCovers, GrantedStep, PTL DEF Spec
<1>. QED BY <1>1, <1>2
=============================================================================
