SPECIFICATION Spec
CONSTANTS
    p1 = p1
    Procs = {p1}
    SyncModes = {FALSE}
    Resumable = {}
    UseTxStore = FALSE
    MaxAttempts = 1
    MaxPrice = 2
    MaxNonce = 3
    Faults = {"sign"}
    MaxFaults = 1
PROPERTY ReleasesOnlyUnsigned
