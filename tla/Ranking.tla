------------------------------- MODULE Ranking -------------------------------
(***************************************************************************)
(* Ranks for arguments that something comes to an end: tuples of naturals, *)
(* compared at the first place where they differ.  That no rank gets lower *)
(* for ever is RanksWellFounded of PipelineEngineProofs.                   *)
(***************************************************************************)
EXTENDS Integers

Ranks(n) == [1..n -> Nat]

Lower(v, w) ==
  \E j \in DOMAIN w : v[j] < w[j] /\ \A i \in DOMAIN w : i < j => v[i] = w[i]

\* How much is left from a on to b.
Left(a, b) == IF a <= b THEN b + 1 - a ELSE 0
=============================================================================
