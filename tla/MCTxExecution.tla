--------------------------- MODULE MCTxExecution ---------------------------
EXTENDS TxExecution, TLC

\* Calls are interchangeable.
Calls == Permutations(Procs)
=============================================================================
