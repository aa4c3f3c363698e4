---------------------------- MODULE MCWorkflowRuns ----------------------------
(***************************************************************************)
(* Instance of WorkflowRuns: two nodes, one after the other.               *)
(***************************************************************************)
EXTENDS WorkflowRuns, TLC

CONSTANTS r1, r2, q1, q2, a, b

TwoRuns == {r1, r2}
TwoRetries == {q1, q2}
TwoSteps == {a, b}
Swaps == Permutations(TwoRuns) \cup Permutations(TwoRetries)
Chain == <<<<a, b>>>>
=============================================================================
