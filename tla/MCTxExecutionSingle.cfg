SPECIFICATION FairSpec
CONSTANTS
    p1 = p1
    Procs = {p1}
    SyncModes = {TRUE, FALSE}
    Resumable = {p1}
    UseTxStore = FALSE
    MaxAttempts = 2
    MaxPrice = 2
    MaxNonce = 4
    Faults = {"estimate", "read", "fee", "simulation", "revert", "sign", "broadcast", "afterHook", "nonceStatus", "execution", "cancel", "lag", "foreign"}
    MaxFaults = 3
INVARIANTS TypeOK OneNonceAlive SignedTracked
PROPERTIES Termination
