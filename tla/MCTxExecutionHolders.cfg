SPECIFICATION Spec
CONSTANTS
    p1 = p1
    p2 = p2
    Procs = {p1, p2}
    SyncModes = {FALSE}
    Resumable = {}
    UseTxStore = FALSE
    MaxAttempts = 1
    MaxPrice = 2
    MaxNonce = 3
    Faults = {}
    MaxFaults = 0
INVARIANT DistinctHolders
SYMMETRY Calls
