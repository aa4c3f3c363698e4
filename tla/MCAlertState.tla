---------------------------- MODULE MCAlertState ----------------------------
(***************************************************************************)
(* One module that can fail for two reasons.                               *)
(***************************************************************************)
EXTENDS AlertState

CONSTANTS m1, a1, a2

AlertModules == [a \in {a1, a2} |-> m1]

=============================================================================
