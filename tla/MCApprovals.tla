---------------------------- MODULE MCApprovals ----------------------------
EXTENDS Approvals

CONSTANTS s1, r1, r2, q1, q2

MCSessionOf == [w \in {r1, r2, q1, q2} |-> s1]
MCMaxBatches == [r \in {r1, r2} |-> IF r = r1 THEN 2 ELSE 1]
=============================================================================
