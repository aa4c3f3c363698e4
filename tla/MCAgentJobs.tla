----------------------------- MODULE MCAgentJobs -----------------------------
(* Small instances of AgentJobs.                                           *)
EXTENDS AgentJobs, TLC

CONSTANTS j1, c1, c2

OneJob == {j1}
OneCanceller == {c1}
TwoCancellers == {c1, c2}

=============================================================================
