CONSTANT Pipelines <- AllPipelines
CONSTANT Requests = {r1}
CONSTANT MaxConfirms = 6
CONSTANT MaxFaults = 2
SPECIFICATION Spec
INVARIANT AwaitingIsConfirmable
INVARIANT NothingRepeated
INVARIANT ArmedMeansApproved
PROPERTY RequestsEnd
\* The user need not confirm again.
CHECK_DEADLOCK FALSE
