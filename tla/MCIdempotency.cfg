SPECIFICATION Spec
CONSTANTS
    q1 = q1
    q2 = q2
    q3 = q3
    Requests = {q1, q2, q3}
    TTL = 1
    Deletes = TRUE
    MaxTime = 3
SYMMETRY Interchangeable
INVARIANTS TypeOK ExecutedOncePerTTL SuccessWasExecuted
CHECK_DEADLOCK FALSE
