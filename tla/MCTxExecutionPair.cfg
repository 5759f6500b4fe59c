SPECIFICATION Spec
CONSTANTS
    p1 = p1
    p2 = p2
    Procs = {p1, p2}
    SyncModes = {FALSE}
    Resumable = {p1, p2}
    UseTxStore = TRUE
    MaxAttempts = 1
    MaxPrice = 2
    MaxNonce = 3
    Faults = {"revert", "simulation", "broadcast", "evict"}
    MaxFaults = 2
SYMMETRY Calls
INVARIANTS OneNonceAlive NoOrphanClaim
