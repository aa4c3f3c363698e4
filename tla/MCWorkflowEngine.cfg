CONSTANTS
  n1 = n1
  n2 = n2
  n3 = n3
  n4 = n4
  n5 = n5
  yes = yes
  no = no
  none = none
  Node <- MCNode
  Label <- MCLabel
  NoLabel = none
  Workflows <- AllGraphs
  Retries <- GraphRetries
  MaxFaults <- GraphFaults
SPECIFICATION FairSpec
INVARIANT PredecessorsSettled
INVARIANT NodeRunsOnce
INVARIANT OnTakenPath
INVARIANT NoLostJoin
INVARIANT FinalRecordTruthful
PROPERTY VerdictStable
PROPERTY RunEnds
\* A run ends.
CHECK_DEADLOCK FALSE
