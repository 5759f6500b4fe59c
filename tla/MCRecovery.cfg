SPECIFICATION FairSpec
CONSTANTS
    MaxPayments = 3
    MaxSenders = 1
    UseTxStore = TRUE
    MaxMonitors = 2
    MaxBump = 1
    MaxNonce = 2
    MaxCrashes = 1
    Faults = {"lag", "evict", "execution", "chain", "reader", "lookup", "giveUp"}
    MaxFaults = 1
INVARIANTS TypeOK FinalStatusTruthful NothingLeftBehind
PROPERTIES FloorHolds RecoverReturns
CHECK_DEADLOCK FALSE
