-------------------------- MODULE ClientLifeProofs --------------------------
(***************************************************************************)
(* The client that tasks share, for any number of tasks, attempts, resends *)
(* and shutdowns, under every fault.  Types first; then ShareInv, what     *)
(* commands and shutdowns keep of the attribute and the connections; then  *)
(* CallInv, how often the write of a call has run by its present attempt.  *)
(***************************************************************************)
EXTENDS ClientLife, FiniteSetTheorems, TLAPS

\* A call sleeps only if it has an attempt left.
AttemptLeft == \A t \in Tasks : pc[t] = "sleep" => attempt[t] < Attempts

TypeInv == ClientTypeOK /\ AttemptLeft

\* A command, whether it runs or not, keeps the types of what it changes.
LEMMA RunsTypes ==
  ASSUME TypeInv, NEW t \in Tasks, pc[t] \in InFlight, Runs(t) \/ DoesNotRun(t)
  PROVE  open' \subseteq 1 .. made /\ raced' \in BOOLEAN /\ runs' \in [Tasks -> Nat]
<1>1. on[t] \in 1 .. made
  BY DEF TypeInv, ClientTypeOK, None
<1>2. Connected(t) \/ UNCHANGED <<open, raced>>
  BY DEF Runs, DoesNotRun
<1>3. raced' \in BOOLEAN
  <2>1. CASE Connected(t)
    BY <2>1, Zenon DEF Connected
  <2>2. CASE UNCHANGED <<open, raced>>
    BY <2>2 DEF TypeInv, ClientTypeOK
  <2>. QED BY <1>2, <2>1, <2>2
<1>4. open' \subseteq 1 .. made
  BY <1>1, <1>2 DEF Connected, TypeInv, ClientTypeOK
<1>5. runs' \in [Tasks -> Nat]
  BY DEF Runs, DoesNotRun, TypeInv, ClientTypeOK
<1>. QED BY <1>3, <1>4, <1>5

\* The steps of a call keep the types: get_client makes the next client or none.
LEMMA CallTypes ==
  ASSUME TypeInv, NEW t \in Tasks, Call(t)
  PROVE  TypeInv'
<1> USE ClientAssumption DEF TypeInv, ClientTypeOK, InFlight, None
<1>1. client' \in Nat /\ made' \in Nat /\ client' <= made' /\ made <= made'
  BY DEF Call, Begin, Follow, Return, Resend, Fail, Retry, Cancel, Connects, GetClient
<1>2. open' \subseteq 1 .. made' /\ raced' \in BOOLEAN /\ runs' \in [Tasks -> Nat]
  <2>1. \/ UNCHANGED <<open, raced>> /\ runs' \in {runs, [runs EXCEPT ![t] = 0]}
        \/ pc[t] \in InFlight /\ (Runs(t) \/ DoesNotRun(t))
    BY DEF Call, Begin, Follow, Return, Resend, Fail, Retry, Cancel
  <2>2. CASE pc[t] \in InFlight /\ (Runs(t) \/ DoesNotRun(t))
    <3>1. open' \subseteq 1 .. made /\ raced' \in BOOLEAN /\ runs' \in [Tasks -> Nat]
      BY <2>2, RunsTypes
    <3>. QED BY <1>1, <3>1
  <2>3. CASE UNCHANGED <<open, raced>> /\ runs' \in {runs, [runs EXCEPT ![t] = 0]}
    BY <1>1, <2>3
  <2>. QED BY <2>1, <2>2, <2>3
<1>3. \E step \in InFlight \cup {"idle", "sleep"}, c \in 0 .. made' :
        /\ pc' = [pc EXCEPT ![t] = step]
        /\ on' = [on EXCEPT ![t] = c]
        /\ step \in InFlight <=> c # None
        /\ step = "sleep" => attempt[t] < Attempts /\ attempt' = attempt
  <2>1. CASE \E step \in InFlight : Connects(t, step)
    <3>1. PICK step \in InFlight : Connects(t, step)
      BY <2>1
    <3>2. GetClient \in 0 .. made' /\ GetClient # None
      BY <1>1, <3>1 DEF Connects, GetClient
    <3>. QED BY <3>1, <3>2 DEF Connects
  <2>2. CASE Leaves(t, "idle") \/ Fail(t)
    BY <1>1, <2>2 DEF Fail, AfterFailure, Leaves
  <2>3. CASE UNCHANGED on /\ pc[t] \in InFlight /\ \E step \in InFlight : pc' = [pc EXCEPT ![t] = step]
    <3>1. on' = [on EXCEPT ![t] = on[t]] /\ on[t] # None /\ on[t] \in 0 .. made'
      BY <1>1, <2>3
    <3>. QED BY <2>3, <3>1
  <2>4. CASE Resend(t)
    <3>1. on' = [on EXCEPT ![t] = on[t]] /\ pc' = [pc EXCEPT ![t] = pc[t]]
      BY <2>4 DEF Resend
    <3>2. pc[t] \in InFlight /\ on[t] # None /\ on[t] \in 0 .. made'
      BY <1>1, <2>4 DEF Resend
    <3>. QED BY <3>1, <3>2
  <2>. QED BY <2>1, <2>2, <2>3, <2>4 DEF Call, Begin, Follow, Return, Retry, Cancel
<1>4. /\ attempt' \in [Tasks -> 0 .. Attempts]
      /\ sent' \in [Tasks -> 0 .. Resends]
      /\ done' \in Nat /\ overlapped' \in BOOLEAN
      /\ \A s \in Tasks \ {t} : attempt'[s] = attempt[s]
  <2>1. UNCHANGED <<done, overlapped>>
    BY DEF Call, Begin, Follow, Return, Resend, Fail, Retry, Cancel, Kept
  <2>2. attempt' \in {attempt, [attempt EXCEPT ![t] = 1]}
        \/ (attempt[t] < Attempts /\ attempt' = [attempt EXCEPT ![t] = @ + 1])
    BY DEF Call, Begin, Follow, Return, Resend, Fail, Retry, Cancel, AttemptLeft
  <2>3. sent' \in {sent, [sent EXCEPT ![t] = 0]}
        \/ (sent[t] < Resends /\ sent' = [sent EXCEPT ![t] = @ + 1])
    BY DEF Call, Begin, Follow, Return, Resend, Fail, Retry, Cancel, Connects, Leaves
  <2>. QED BY <2>1, <2>2, <2>3
<1>5. /\ pc' \in [Tasks -> InFlight \cup {"idle", "sleep", "closing"}]
      /\ on' \in [Tasks -> 0 .. made']
      /\ \A s \in Tasks : pc'[s] \in InFlight \cup {"closing"} <=> on'[s] # None
  BY <1>1, <1>3
<1>6. AttemptLeft'
  BY <1>3, <1>4 DEF AttemptLeft
<1>. QED BY <1>1, <1>2, <1>4, <1>5, <1>6

\* So do the steps of a shutdown.
LEMMA ClosesTypes ==
  ASSUME TypeInv, NEW t \in Tasks, Closes(t)
  PROVE  TypeInv'
<1> USE ClientAssumption DEF TypeInv, AttemptLeft, ClientTypeOK, InFlight, None
<1>1. CASE Shutdown(t)
  BY <1>1 DEF Shutdown, WhileClosing, Closed
<1>2. CASE Forget(t)
  BY <1>2 DEF Forget, Leaves
<1>3. CASE CloseFails(t)
  BY <1>3 DEF CloseFails, Leaves
<1>. QED BY <1>1, <1>2, <1>3 DEF Closes

LEMMA TypeStep == TypeInv /\ [Next]_vars => TypeInv'
<1>1. CASE UNCHANGED vars
  BY <1>1 DEF vars, lifeVars, callVars, TypeInv, AttemptLeft, ClientTypeOK
<1>. QED BY <1>1, CallTypes, ClosesTypes DEF Next

LEMMA TypeStart == Init => TypeInv
<1> SUFFICES ASSUME Init PROVE TypeInv
  OBVIOUS
<1>1. /\ pc \in [Tasks -> InFlight \cup {"idle", "sleep", "closing"}]
      /\ on \in [Tasks -> 0 .. made]
      /\ attempt \in [Tasks -> 0 .. Attempts]
      /\ sent \in [Tasks -> 0 .. Resends]
      /\ runs \in [Tasks -> Nat]
  BY ClientAssumption DEF Init, None
<1>2. \A t \in Tasks : pc[t] = "idle" /\ on[t] = None
  BY DEF Init
<1>3. client \in Nat /\ made \in Nat /\ client <= made /\ open \subseteq 1 .. made /\ done \in Nat
  BY DEF Init, None
<1>4. overlapped \in BOOLEAN /\ raced \in BOOLEAN
  BY Zenon DEF Init
<1>5. AttemptLeft
  BY <1>2 DEF AttemptLeft
<1>. QED BY <1>1, <1>2, <1>3, <1>4, <1>5 DEF TypeInv, ClientTypeOK, InFlight

\* The variables have their types, and no call comes to more attempts than it has.
THEOREM ClientTypes == Spec => []ClientTypeOK
<1>1. TypeInv => ClientTypeOK
  BY DEF TypeInv
<1>. QED BY <1>1, TypeStart, TypeStep, PTL DEF Spec

-----------------------------------------------------------------------------
\* What the tasks keep of the client they share.  There is one more made only after a
\* shutdown has forgotten one.  One shutdown at a time closes the
\* client of the attribute, which then stays until it is forgotten; as long as no
\* command runs on it, it has no connections.
SingleClient == made <= done + (IF client = None THEN 0 ELSE 1)

OneCloser ==
  ~overlapped => /\ \A t \in Tasks : pc[t] = "closing" => on[t] = client
                 /\ \A s, t \in Tasks : pc[s] = "closing" /\ pc[t] = "closing" => s = t

ClosingIsClosed ==
  ~raced /\ ~overlapped => \A t \in Tasks : pc[t] = "closing" => on[t] \notin open

ShareInv == SingleClient /\ CleanUnlessRaced /\ OneCloser /\ ClosingIsClosed

\* A command leaves the shutdowns alone and makes a client only where there is none.
LEMMA CallShares ==
  ASSUME TypeInv, ShareInv, NEW t \in Tasks, Call(t)
  PROVE  ShareInv'
<1> USE DEF TypeInv, ClientTypeOK, InFlight, None
<1>1. /\ UNCHANGED <<done, overlapped>>
      /\ \A s \in Tasks \ {t} : pc'[s] = pc[s] /\ on'[s] = on[s]
      /\ pc[t] # "closing" /\ pc'[t] # "closing"
  BY DEF Call, Begin, Follow, Return, Resend, Fail, AfterFailure, Retry, Cancel, Kept, Connects, Leaves
<1>2. \/ UNCHANGED <<client, made>>
      \/ client = None /\ made' = made + 1 /\ client' = made + 1
  BY DEF Call, Begin, Follow, Return, Resend, Fail, Retry, Cancel, Connects, GetClient
<1>3. \/ UNCHANGED <<open, raced>>
      \/ /\ open' = open \cup {on[t]} /\ on[t] # None
         /\ raced' = (raced \/ on[t] # client \/ Closing(on[t]))
  BY DEF Call, Begin, Follow, Return, Resend, Fail, Retry, Cancel, Runs, DoesNotRun, Connected
<1>4. SingleClient'
  BY <1>1, <1>2 DEF ShareInv, SingleClient
<1>5. OneCloser'
  <2>1. ~overlapped => \A s \in Tasks : pc[s] = "closing" => client # None
    BY DEF ShareInv, OneCloser
  <2>. QED BY <1>1, <1>2, <2>1 DEF ShareInv, OneCloser
<1>6. CleanUnlessRaced'
  <2>1. CASE UNCHANGED <<open, raced>>
    <3>1. ~raced /\ ~overlapped /\ client = None => open = {}
      BY DEF ShareInv, CleanUnlessRaced
    <3>. QED BY <1>1, <1>2, <2>1, <3>1 DEF ShareInv, CleanUnlessRaced
  <2>2. CASE ~UNCHANGED <<open, raced>>
    BY <1>1, <1>2, <1>3, <2>2 DEF ShareInv, CleanUnlessRaced
  <2>. QED BY <2>1, <2>2
<1>7. ClosingIsClosed'
  <2> SUFFICES ASSUME ~raced', ~overlapped', NEW s \in Tasks, pc'[s] = "closing"
               PROVE  on'[s] \notin open'
    BY DEF ClosingIsClosed
  <2>1. s # t /\ pc[s] = "closing" /\ on'[s] = on[s] /\ ~overlapped
    BY <1>1
  <2>2. ~raced
    BY <1>3
  <2>3. on[s] \notin open
    BY <2>1, <2>2 DEF ShareInv, ClosingIsClosed
  <2>4. open' = open \/ (open' = open \cup {on[t]} /\ ~Closing(on[t]))
    BY <1>3
  <2>. QED BY <2>1, <2>3, <2>4 DEF Closing
<1>. QED BY <1>4, <1>5, <1>6, <1>7 DEF ShareInv

\* A shutdown alone closes what the attribute names, and forgets that.
LEMMA ClosesShares ==
  ASSUME TypeInv, ShareInv, NEW t \in Tasks, Closes(t)
  PROVE  ShareInv'
<1> USE DEF TypeInv, ClientTypeOK, InFlight, None, ShareInv, SingleClient, CleanUnlessRaced, OneCloser, ClosingIsClosed
<1>1. CASE Shutdown(t)
  BY <1>1 DEF Shutdown, WhileClosing, Closed
<1>2. CASE Forget(t)
  BY <1>2 DEF Forget, Leaves
<1>3. CASE CloseFails(t)
  BY <1>3 DEF CloseFails, Leaves
<1>. QED BY <1>1, <1>2, <1>3 DEF Closes

LEMMA ShareStep == TypeInv /\ ShareInv /\ [Next]_vars => ShareInv'
<1>1. CASE UNCHANGED vars
  BY <1>1 DEF vars, lifeVars, callVars, ShareInv, SingleClient, CleanUnlessRaced, OneCloser, ClosingIsClosed
<1>. QED BY <1>1, CallShares, ClosesShares DEF Next

LEMMA ShareStart == Init => ShareInv
BY DEF Init, ShareInv, SingleClient, CleanUnlessRaced, OneCloser, ClosingIsClosed, None

\* For any number of tasks, attempts, resends and shutdowns and every set of faults: the
\* clients that have connections nobody will close, left behind by the reset of
\* client.py:193, are no more than the shutdowns, since no other than those was made.
THEOREM LeftBehind == Spec => []LeftBehindBound
<1>1. TypeInv /\ ShareInv => LeftBehindBound
  <2> SUFFICES ASSUME TypeInv, ShareInv PROVE Cardinality(open \ {client}) <= done
    BY DEF LeftBehindBound
  <2>1. /\ made \in Nat /\ client \in 0 .. made /\ done \in Nat /\ open \subseteq 1 .. made
        /\ made <= done + (IF client = 0 THEN 0 ELSE 1)
    BY DEF TypeInv, ClientTypeOK, ShareInv, SingleClient, None
  <2>2. IsFiniteSet(1 .. made) /\ Cardinality(1 .. made) = made
    BY <2>1, FS_Interval
  <2> DEFINE others == (1 .. made) \ {client}
  <2>3. IsFiniteSet(others) /\ Cardinality(others) <= done
    <3>1. IsFiniteSet(others)
          /\ Cardinality(others) = IF client \in 1 .. made THEN made - 1 ELSE made
      BY <2>2, FS_RemoveElement, Zenon
    <3>2. client \in 1 .. made <=> client # 0
      BY <2>1
    <3> HIDE DEF others
    <3>. QED BY <2>1, <3>1, <3>2
  <2>4. open \ {client} \subseteq others
    BY <2>1
  <2> HIDE DEF others
  <2>5. /\ Cardinality(open \ {client}) \in Nat /\ Cardinality(others) \in Nat
        /\ Cardinality(open \ {client}) <= Cardinality(others)
    BY <2>3, <2>4, FS_Subset, FS_CardinalityType
  <2>. QED BY <2>1, <2>3, <2>5
<1>. QED BY <1>1, TypeStart, TypeStep, ShareStart, ShareStep, PTL DEF Spec

\* Nothing stays open behind the attribute unless a command or a shutdown raced with a
\* shutdown.
THEOREM NothingLeftOpen == Spec => []CleanUnlessRaced
<1>1. ShareInv => CleanUnlessRaced
  BY DEF ShareInv
<1>. QED BY <1>1, TypeStart, TypeStep, ShareStart, ShareStep, PTL DEF Spec

\* A shutdown that no other overlaps forgets the client it has closed.
THEOREM OwnDropped == Spec => DropsOwn
<1>1. TypeInv /\ ShareInv /\ [Next]_vars
      => [client # None /\ client' = None /\ ~overlapped => Closing(client)]_vars
  <2> SUFFICES ASSUME TypeInv, ShareInv, NEW t \in Tasks, Call(t) \/ Closes(t),
                      client # None, client' = None, ~overlapped
               PROVE  Closing(client)
    BY DEF Next
  <2>1. ~Call(t)
    BY DEF Call, Begin, Follow, Return, Resend, Fail, Retry, Cancel, Connects, GetClient
  <2>2. Forget(t)
    BY <2>1 DEF Closes, Shutdown, CloseFails, WhileClosing
  <2>. QED BY <2>2 DEF Forget, ShareInv, OneCloser, Closing
<1>. QED BY <1>1, TypeStart, TypeStep, ShareStart, ShareStep, PTL DEF Spec, DropsOwn

-----------------------------------------------------------------------------
\* The most that a write can run in so many attempts.
Most(attempts) == attempts * (Resends + 1)

LEMMA MostGrows ==
  ASSUME NEW a \in Nat
  PROVE  /\ Most(a) \in Nat
         /\ Most(a + 1) = Most(a) + Resends + 1
         /\ \A b \in Nat : a <= b => Most(a) <= Most(b)
BY ClientAssumption DEF Most

\* How often the write of a call has run: at most the attempts before this one, and in
\* this one as often as the driver has sent it and then given up.
CallInv ==
  \A t \in Tasks :
    /\ pc[t] \in {"read", "write", "sleep"} => attempt[t] >= 1
    /\ pc[t] = "read"  => runs[t] <= Most(attempt[t] - 1)
    /\ pc[t] = "write" => runs[t] <= Most(attempt[t] - 1) + sent[t]
    /\ pc[t] \notin InFlight => runs[t] <= Most(attempt[t])

LEMMA CallStep == TypeInv /\ CallInv /\ [Next]_vars => CallInv'
<1> SUFFICES ASSUME TypeInv, CallInv, [Next]_vars PROVE CallInv'
  OBVIOUS
<1> USE ClientAssumption DEF TypeInv, ClientTypeOK, InFlight
<1>1. CASE UNCHANGED vars
  BY <1>1 DEF vars, callVars, CallInv
<1>2. ASSUME NEW t \in Tasks, Call(t) \/ Closes(t)
      PROVE  CallInv'
  <2>1. \A s \in Tasks \ {t} :
          pc'[s] = pc[s] /\ attempt'[s] = attempt[s] /\ sent'[s] = sent[s] /\ runs'[s] = runs[s]
    BY <1>2 DEF Call, Begin, Follow, Return, Resend, Fail, Retry, Cancel, Connects, Leaves,
                Runs, DoesNotRun, Closes, Shutdown, Forget, CloseFails
  <2>2. \A a \in Nat : a >= 1 => /\ Most(a - 1) \in Nat /\ Most(a) \in Nat
                                 /\ Most(a) = Most(a - 1) + Resends + 1
    <3> SUFFICES ASSUME NEW a \in Nat, a >= 1
                 PROVE  /\ Most(a - 1) \in Nat /\ Most(a) \in Nat
                        /\ Most(a) = Most(a - 1) + Resends + 1
      OBVIOUS
    <3>1. a - 1 \in Nat /\ (a - 1) + 1 = a
      OBVIOUS
    <3>2. Most((a - 1) + 1) = Most(a - 1) + Resends + 1
      BY <3>1, MostGrows
    <3>. QED BY <3>1, <3>2, MostGrows
  <2>3. Most(0) = 0
    BY DEF Most
  <2>4. attempt[t] \in Nat /\ sent[t] \in 0 .. Resends /\ runs[t] \in Nat
    OBVIOUS
  <2> DEFINE Inv1 ==
        /\ pc'[t] \in {"read", "write", "sleep"} => attempt'[t] >= 1
        /\ pc'[t] = "read"  => runs'[t] <= Most(attempt'[t] - 1)
        /\ pc'[t] = "write" => runs'[t] <= Most(attempt'[t] - 1) + sent'[t]
        /\ pc'[t] \notin InFlight => runs'[t] <= Most(attempt'[t])
  <2>5. Inv1
    <3>1. CASE Begin(t)
      BY <3>1, <2>2, <2>3, <2>4 DEF Begin, Connects, CallInv
    <3>2. CASE \E step \in InFlight : Follow(t, step)
      BY <3>2, <2>2, <2>4 DEF Follow, Connects, Runs, Connected, CallInv
    <3>3. CASE Return(t)
      BY <3>3, <2>2, <2>4 DEF Return, Leaves, Runs, Connected, CallInv
    <3>4. CASE Resend(t)
      BY <3>4, <2>2, <2>4 DEF Resend, Runs, DoesNotRun, Connected, CallInv
    <3>5. CASE Fail(t)
      BY <3>5, <2>2, <2>4 DEF Fail, AfterFailure, Leaves, Runs, DoesNotRun, Connected, CallInv
    <3>6. CASE Retry(t)
      BY <3>6, <2>2, <2>4 DEF Retry, Connects, CallInv
    <3>7. CASE Cancel(t)
      BY <3>7, <2>2, <2>4 DEF Cancel, Leaves, Runs, DoesNotRun, Connected, CallInv
    <3>8. CASE Closes(t)
      BY <3>8, <2>2, <2>4 DEF Closes, Shutdown, Forget, CloseFails, Leaves, CallInv
    <3>. QED BY <1>2, <3>1, <3>2, <3>3, <3>4, <3>5, <3>6, <3>7, <3>8 DEF Call
  <2>. QED BY <2>1, <2>5 DEF CallInv
<1>. QED BY <1>1, <1>2 DEF Next

\* The write of a call runs at most once per attempt and resend.
THEOREM Effects == Spec => []EffectsBound
<1>1. Init => CallInv
  <2> SUFFICES ASSUME Init, NEW t \in Tasks
               PROVE  pc[t] = "idle" /\ runs[t] = 0 /\ Most(attempt[t]) = 0
    BY DEF CallInv, InFlight
  <2>1. pc[t] = "idle" /\ runs[t] = 0 /\ attempt[t] = 0
    BY DEF Init
  <2>. QED BY <2>1, ClientAssumption DEF Most
<1>2. TypeInv /\ CallInv => EffectsBound
  <2> SUFFICES ASSUME TypeInv, CallInv, NEW t \in Tasks
               PROVE  runs[t] <= Most(Attempts)
    BY DEF EffectsBound, Most
  <2>1. attempt[t] \in Nat /\ attempt[t] <= Attempts /\ sent[t] \in 0 .. Resends /\ runs[t] \in Nat
    BY ClientAssumption DEF TypeInv, ClientTypeOK
  <2>2. Most(attempt[t]) <= Most(Attempts) /\ Most(attempt[t]) \in Nat /\ Most(Attempts) \in Nat
    BY <2>1, MostGrows, ClientAssumption
  <2>3. CASE pc[t] \notin InFlight
    BY <2>1, <2>2, <2>3 DEF CallInv
  <2>4. CASE pc[t] \in InFlight
    <3>1. attempt[t] - 1 \in Nat /\ (attempt[t] - 1) + 1 = attempt[t]
      BY <2>1, <2>4 DEF CallInv, InFlight
    <3>2. Most(attempt[t]) = Most(attempt[t] - 1) + Resends + 1 /\ Most(attempt[t] - 1) \in Nat
      BY <3>1, MostGrows
    <3>3. runs[t] <= Most(attempt[t] - 1) + Resends
      BY <2>1, <2>4, <3>2, ClientAssumption DEF CallInv, InFlight
    <3>. QED BY <2>1, <2>2, <3>2, <3>3, ClientAssumption
  <2>. QED BY <2>3, <2>4
<1>. QED BY <1>1, <1>2, TypeStart, TypeStep, CallStep, PTL DEF Spec
=============================================================================
