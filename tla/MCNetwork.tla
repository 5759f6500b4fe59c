----------------------------- MODULE MCNetwork ------------------------------
EXTENDS Network, TLC
=============================================================================
