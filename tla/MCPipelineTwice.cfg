CONSTANT Pipelines <- TwoSteps
CONSTANT Requests = {r1, r2}
CONSTANT MaxConfirms = 2
CONSTANT MaxFaults = 0
SPECIFICATION Spec
INVARIANT OneConfirmationOneStep
\* The user need not confirm again.
CHECK_DEADLOCK FALSE
