CONSTANTS
  r1 = r1
  r2 = r2
  q1 = q1
  q2 = q2
  a = a
  b = b
  Run <- TwoRuns
  Retrier <- TwoRetries
  Neighbour = {n1}
  Step <- TwoSteps
  Edge <- Chain
  MaxRuns = 2
  MaxEvents = 2
SYMMETRY Swaps
SPECIFICATION Spec
INVARIANT ShowsOwnUpdates
INVARIANT OneRetryPerStep
INVARIANT Findable
\* The runs end and the bounds stop new requests.
CHECK_DEADLOCK FALSE
