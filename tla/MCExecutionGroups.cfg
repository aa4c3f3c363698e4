CONSTANT Pipelines <- Pipelines3
SPECIFICATION BuildSpec
INVARIANT ComputesGroups
PROPERTY Returns
\* The function returns.
CHECK_DEADLOCK FALSE
