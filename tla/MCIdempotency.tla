--------------------------- MODULE MCIdempotency ----------------------------
EXTENDS Idempotency, TLC

\* The requests differ only in what happens to them.
Interchangeable == Permutations(Requests)
=============================================================================
