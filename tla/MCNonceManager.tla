--------------------------- MODULE MCNonceManager ---------------------------
EXTENDS NonceManager, TLC

\* Goroutines are interchangeable.
Goroutines == Permutations(Procs)
=============================================================================
