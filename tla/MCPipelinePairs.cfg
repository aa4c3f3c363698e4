CONSTANT Pipelines <- Pairs
CONSTANT Requests = {r1, r2}
CONSTANT MaxConfirms = 3
CONSTANT MaxFaults = 1
SYMMETRY Swap
SPECIFICATION Spec
INVARIANT DependenciesFirst
INVARIANT AsksInOrder
INVARIANT CompletedMeansAll
\* The user need not confirm again.
CHECK_DEADLOCK FALSE
