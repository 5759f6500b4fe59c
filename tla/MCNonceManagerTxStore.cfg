\* Two goroutines, a TxStore (gap filling), lost replies, two nonces.
SPECIFICATION Spec
CONSTANTS
    p1 = p1
    p2 = p2
    Procs = {p1, p2}
    MaxNonce = 2
    InitialMined = 0
    UseTxStore = TRUE
    LossyBroadcast = TRUE
SYMMETRY Goroutines
INVARIANTS TypeOK UniqueFreeHolder NoLeakedClaim
CHECK_DEADLOCK FALSE
