CONSTANTS
  j1 = j1
  c1 = c1
  c2 = c2
  Job <- OneJob
  Canceller <- TwoCancellers
  IndexSize = 1
  MaxCancels = 3
  MaxFaults = 2
SPECIFICATION FairSpec
INVARIANT OrphanExplained
INVARIANT CaughtCancelRecorded
INVARIANT VerdictAnnounced
INVARIANT RunningHasTask
PROPERTY ImplementsRecord
PROPERTY JobEnds

\* All jobs end and the bounds stop new requests.
CHECK_DEADLOCK FALSE
