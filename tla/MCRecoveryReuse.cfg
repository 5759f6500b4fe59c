SPECIFICATION Spec
CONSTANTS
    MaxPayments = 3
    MaxSenders = 3
    UseTxStore = FALSE
    MaxMonitors = 1
    MaxBump = 0
    MaxNonce = 2
    MaxCrashes = 1
    Faults = {"lag"}
    MaxFaults = 3
INVARIANTS OnePaymentPerNonce
CHECK_DEADLOCK FALSE
