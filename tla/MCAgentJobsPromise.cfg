CONSTANTS
  j1 = j1
  c1 = c1
  c2 = c2
  Job <- OneJob
  Canceller <- OneCanceller
  IndexSize = 1
  MaxCancels = 1
  MaxFaults = 0
SPECIFICATION Spec
INVARIANT CancelPromiseKept

\* All jobs end and the bounds stop new requests.
CHECK_DEADLOCK FALSE
