CONSTANT Stopper = {s1, s2, s3}
CONSTANT MaxStops = 4
CONSTANT MaxFaults = 2
SPECIFICATION FairSpec
INVARIANT ProcessWatched
INVARIANT OpenExplained
PROPERTY Settles
\* The task ends and the bounds stop new requests.
CHECK_DEADLOCK FALSE
