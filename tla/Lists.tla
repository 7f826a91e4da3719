------------------------------- MODULE Lists -------------------------------
(***************************************************************************)
(* What SequencesExt offers as Remove, defined by a recursive function     *)
(* where SelectSeq has a recursive operator.                               *)
(***************************************************************************)
EXTENDS Integers, Sequences

\* s without its entries k, a prefix of s at a time
Without(s, k) ==
  LET kept[n \in 0 .. Len(s)] ==
        IF n = 0 THEN <<>>
        ELSE IF s[n] = k THEN kept[n - 1] ELSE Append(kept[n - 1], s[n])
  IN kept[Len(s)]
=============================================================================
