SPECIFICATION FairSpec
CONSTANTS
    s1 = s1
    r1 = r1
    r2 = r2
    q1 = q1
    q2 = q2
    None = None
    Sessions = {s1}
    Runs = {r1, r2}
    Requests = {q1, q2}
    SessionOf <- MCSessionOf
    MaxBatches <- MCMaxBatches
    MaxFaults = 1
INVARIANT Servable
PROPERTIES ConfirmedStep Replaced SessionFrees
CHECK_DEADLOCK FALSE
