----------------------------- MODULE ClientLife -----------------------------
(***************************************************************************)
(* One ValkeyClient of client.py and the tasks that share it: get_client   *)
(* makes the driver's client when there is none, every command is sent to  *)
(* what get_client returns, and shutdown closes the client and forgets it, *)
(* with an await in between.  The calls of the tasks are functions under   *)
(* async_retry of limiting/retry.py; a bare call has one attempt.          *)
(***************************************************************************)
EXTENDS Integers, FiniteSets

CONSTANTS
  Tasks,
  Attempts,      \* the parameter attempts
  Resends,       \* how often the driver sends a command again, at most
  Faults,        \* a subset of FaultKinds
  MaxShutdowns   \* bound: shutdowns that close a client

\* "conn": a command does not run, and raises, connected by then or not; "reply": it runs, and its reply is
\* lost; "close": close() raises; "cancel": a task is cancelled.
FaultKinds == {"conn", "reply", "close", "cancel"}

ASSUME ClientAssumption ==
  /\ Attempts \in Nat \ {0}
  /\ Resends \in Nat
  /\ Faults \subseteq FaultKinds
  /\ MaxShutdowns \in Nat

None == 0

VARIABLES
  client,     \* _client: the driver's client, numbered in the order of their making
  made,       \* history: how many have been made
  open,       \* the clients that may have connections
  pc,         \* what each task awaits
  on,         \* the client that it does so on, or None
  attempt,    \* which attempt of its call this is; of the last call when idle
  sent,       \* how often the driver has sent its command again
  runs,       \* history: how often the write of its call has run
  done,       \* history: how many shutdowns have closed a client and forgotten one
  overlapped, \* history: whether two shutdowns were ever under way at once
  raced       \* history: whether a command ever connected a client forgotten or closing

lifeVars == <<client, made, open, raced, done, overlapped>>
callVars == <<pc, on, attempt, sent, runs>>
vars     == <<lifeVars, callVars>>

\* A call reads as often as it likes, and then returns or makes its one write: SCAN and
\* then DELETE, for one.
InFlight == {"read", "write"}

ClientTypeOK ==
  /\ client \in Nat /\ made \in Nat /\ client <= made
  /\ open \subseteq 1 .. made
  /\ pc \in [Tasks -> InFlight \cup {"idle", "sleep", "closing"}]
  /\ on \in [Tasks -> 0 .. made]
  /\ attempt \in [Tasks -> 0 .. Attempts]
  /\ sent \in [Tasks -> 0 .. Resends]
  /\ runs \in [Tasks -> Nat]
  /\ done \in Nat
  /\ overlapped \in BOOLEAN /\ raced \in BOOLEAN
  /\ \A t \in Tasks : pc[t] \in InFlight \cup {"closing"} <=> on[t] # None

Init ==
  /\ client = None
  /\ made = 0
  /\ open = {}
  /\ pc = [t \in Tasks |-> "idle"]
  /\ on = [t \in Tasks |-> None]
  /\ attempt = [t \in Tasks |-> 0]
  /\ sent = [t \in Tasks |-> 0]
  /\ runs = [t \in Tasks |-> 0]
  /\ done = 0
  /\ overlapped = FALSE
  /\ raced = FALSE

-----------------------------------------------------------------------------
(* Commands.                                                               *)

\* The mutant that makes a client for every command.
GetClientAnew == made + 1

\* What get_client returns: it looks and makes without an await.
GetClient == IF client = None THEN made + 1 ELSE client

\* A task awaits a command on what get_client returns.
Connects(t, step) ==
  /\ client' = GetClient
  /\ made' = IF GetClient > made THEN GetClient ELSE made
  /\ pc' = [pc EXCEPT ![t] = step]
  /\ on' = [on EXCEPT ![t] = GetClient]
  /\ sent' = [sent EXCEPT ![t] = 0]

Closing(c) == \E t \in Tasks : pc[t] = "closing" /\ on[t] = c

\* The command of t has a connection, that is there or is made for it; a closed client
\* connects again.
Connected(t) ==
  /\ open' = open \cup {on[t]}
  /\ raced' = (raced \/ on[t] # client \/ Closing(on[t]))

\* It gets through.
Runs(t) ==
  /\ Connected(t)
  /\ runs' = IF pc[t] = "write" THEN [runs EXCEPT ![t] = @ + 1] ELSE runs

\* It does not, with a connection or without.
DoesNotRun(t) ==
  /\ Connected(t) \/ UNCHANGED <<open, raced>>
  /\ UNCHANGED runs

\* What t awaits next, on no client.
Leaves(t, step) ==
  /\ pc' = [pc EXCEPT ![t] = step]
  /\ on' = [on EXCEPT ![t] = None]
  /\ sent' = [sent EXCEPT ![t] = 0]

Kept == UNCHANGED <<done, overlapped>>

-----------------------------------------------------------------------------
(* A call.                                                                 *)

Begin(t) ==
  /\ pc[t] = "idle"
  /\ \E step \in InFlight : Connects(t, step)
  /\ attempt' = [attempt EXCEPT ![t] = 1]
  /\ runs' = [runs EXCEPT ![t] = 0]
  /\ Kept /\ UNCHANGED <<open, raced>>

\* A read is answered and another command follows, on the client that get_client
\* returns by now (a wrapper, the next batch of scan), or on the one that aconn
\* returned before.
Follow(t, step) ==
  /\ pc[t] = "read"
  /\ Runs(t)
  /\ \/ Connects(t, step)
     \/ /\ pc' = [pc EXCEPT ![t] = step]
        /\ sent' = [sent EXCEPT ![t] = 0]
        /\ UNCHANGED <<client, made, on>>
  /\ Kept /\ UNCHANGED attempt

Return(t) ==
  /\ pc[t] \in InFlight
  /\ Runs(t)
  /\ Leaves(t, "idle")
  /\ Kept /\ UNCHANGED <<client, made, attempt>>

\* No answer: the driver sends the command again.
Resend(t) ==
  /\ pc[t] \in InFlight
  /\ sent[t] < Resends
  /\ sent' = [sent EXCEPT ![t] = @ + 1]
  /\ \/ "conn" \in Faults /\ DoesNotRun(t)
     \/ "reply" \in Faults /\ Runs(t)
  /\ Kept /\ UNCHANGED <<client, made, pc, on, attempt>>

\* The mutant that tries once more than it may.
AfterFailureLate(t) == IF attempt[t] <= Attempts THEN {"sleep", "idle"} ELSE {"idle"}

\* What async_retry does about an exception: it sleeps, if it lists the exception and
\* this was not the last attempt; else it raises.  The wrappers' exceptions are HTTP
\* errors; is_healthy returns FALSE instead.
AfterFailure(t) == IF attempt[t] < Attempts THEN {"sleep", "idle"} ELSE {"idle"}

Fail(t) ==
  /\ pc[t] \in InFlight
  /\ \E step \in AfterFailure(t) : Leaves(t, step)
  /\ \/ "conn" \in Faults /\ DoesNotRun(t)
     \/ "reply" \in Faults /\ Runs(t)
  /\ Kept /\ UNCHANGED <<client, made, attempt>>

\* The mutant that does not count its attempts.
RetryUncounted(t) ==
  /\ pc[t] = "sleep"
  /\ \E step \in InFlight : Connects(t, step)
  /\ Kept /\ UNCHANGED <<open, raced, runs, attempt>>

Retry(t) ==
  /\ pc[t] = "sleep"
  /\ \E step \in InFlight : Connects(t, step)
  /\ attempt' = [attempt EXCEPT ![t] = @ + 1]
  /\ Kept /\ UNCHANGED <<open, raced, runs>>

\* No except catches a cancellation, at a command or between two attempts.
Cancel(t) ==
  /\ "cancel" \in Faults
  /\ pc[t] \in InFlight \cup {"sleep"}
  /\ Leaves(t, "idle")
  /\ \/ pc[t] = "sleep" /\ UNCHANGED <<open, raced, runs>>
     \/ pc[t] \in InFlight /\ (DoesNotRun(t) \/ Runs(t))
  /\ Kept /\ UNCHANGED <<client, made, attempt>>

-----------------------------------------------------------------------------
(* shutdown                                                                *)

\* The mutant that forgets the client before it closes it as well as after.
ForgottenEarly == None

\* _client while it is being closed.
WhileClosing == client

\* The mutant that closes nothing.
ClosedNone == open

\* close() takes every connection of the client, in use or not.
Closed == open \ {client}

\* await self._client.close()
Shutdown(t) ==
  /\ pc[t] = "idle"
  /\ client # None
  /\ done + Cardinality({d \in Tasks : pc[d] = "closing"}) < MaxShutdowns
  /\ pc' = [pc EXCEPT ![t] = "closing"]
  /\ on' = [on EXCEPT ![t] = client]
  /\ client' = WhileClosing
  /\ open' = Closed
  /\ overlapped' = (overlapped \/ \E d \in Tasks : pc[d] = "closing")
  /\ UNCHANGED <<made, raced, done, attempt, sent, runs>>

\* self._client = None, whatever it is by now.
Forget(t) ==
  /\ pc[t] = "closing"
  /\ client' = None
  /\ done' = done + 1
  /\ Leaves(t, "idle")
  /\ UNCHANGED <<made, open, raced, overlapped, attempt, runs>>

\* close() raises, or is cancelled, before or after it took the connections: the
\* client stays.
CloseFails(t) ==
  /\ {"close", "cancel"} \cap Faults # {}
  /\ pc[t] = "closing"
  /\ Leaves(t, "idle")
  /\ open' \in {open, open \cup {on[t]}}
  /\ UNCHANGED <<client, made, raced, done, overlapped, attempt, runs>>

-----------------------------------------------------------------------------
Call(t) ==
  \/ Begin(t) \/ Return(t) \/ Resend(t) \/ Fail(t) \/ Retry(t) \/ Cancel(t)
  \/ \E step \in InFlight : Follow(t, step)

Closes(t) == Shutdown(t) \/ Forget(t) \/ CloseFails(t)

Next == \E t \in Tasks : Call(t) \/ Closes(t)

Spec == Init /\ [][Next]_vars

\* A command answers or times out and the sleep of a retry ends; a scan comes to its
\* end; a close comes to its own.
FairSpec ==
  /\ Spec
  /\ \A t \in Tasks :
       /\ WF_vars(Return(t) \/ Fail(t) \/ Follow(t, "write"))
       /\ WF_vars(Retry(t))
       /\ WF_vars(Forget(t) \/ CloseFails(t))

-----------------------------------------------------------------------------
\* Tasks that come to get_client at once share a client, and a shutdown drops one: so
\* however commands and other shutdowns race it, every shutdown leaves the connections
\* of at most one client behind that nothing will close.
LeftBehindBound == Cardinality(open \ {client}) <= done

\* It leaves some only where a command connected a client forgotten or closing, or two
\* shutdowns were under way at once: whatever fails, is cancelled or begins between the
\* close and the reset, the one attribute names all there is.
CleanUnlessRaced == ~raced /\ ~overlapped => open \subseteq {client}

\* One shutdown at a time forgets the client it has closed, never one made meanwhile.
DropsOwn ==
  [][client # None /\ client' = None /\ ~overlapped => Closing(client)]_vars

\* test_retry.py:82, "retry does not duplicate side effects on each attempt": it does,
\* where a write ran and its reply was lost; this often, with the driver's own retries.
EffectsBound == \A t \in Tasks : runs[t] <= Attempts * (Resends + 1)

\* Every call ends, with a result or the exception of its last attempt, and so does
\* every shutdown; no shutdown of another task makes a call wait.
CallEnds == \A t \in Tasks : [](pc[t] # "idle" => <>(pc[t] = "idle"))
=============================================================================
