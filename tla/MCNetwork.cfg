SPECIFICATION FairSpec
CONSTANTS
    c1 = c1
    c2 = c2
    Callers = {c1, c2}
    FailureThreshold = 2
    SuccessThreshold = 2
    Timeout = 2
INVARIANTS TypeOK EveryoneSharesTheClient MonitorMissingForAReason
PROPERTIES OpensAndClosesOnStreaks AdmitsAgain CallsReturn
