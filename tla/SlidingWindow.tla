---------------------------- MODULE SlidingWindow ----------------------------
(***************************************************************************)
(* is_allowed_sliding_window of                                            *)
(* src/algorithims/rate_limit/sliding_window.py.  The handler calls        *)
(* valkey_client.pipeline(), which is a coroutine function, without        *)
(* awaiting it: its first use raises AttributeError, the handler's except  *)
(* lets the call through, and no command ever reaches the server.          *)
(***************************************************************************)
EXTENDS LimiterKey

\* One call: it is let through, and nothing of it reaches the key.
PipelineCall ==
  /\ recent[0] < MaxCount
  /\ Allow
  /\ UNCHANGED <<value, ttl, pc, age, since, lost>>

PipelineNext == KeyTick \/ PipelineCall
=============================================================================
