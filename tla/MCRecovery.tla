----------------------------- MODULE MCRecovery -----------------------------
EXTENDS Recovery, TLC
=============================================================================
