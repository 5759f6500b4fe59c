SPECIFICATION Spec
CONSTANTS
    p1 = p1
    p2 = p2
    p3 = p3
    Procs = {p1, p2, p3}
    MaxNonce = 3
    InitialMined = 1
    UseTxStore = FALSE
    LossyBroadcast = FALSE
SYMMETRY Goroutines
INVARIANTS UniqueHolder
PROPERTIES ImplementsAllocator
CHECK_DEADLOCK FALSE
