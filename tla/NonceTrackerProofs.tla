------------------------- MODULE NonceTrackerProofs -------------------------
(***************************************************************************)
(* What each operation of the nonce tracker guarantees whoever takes it,   *)
(* for every reply of the nodes: the lemmas that the proofs about the      *)
(* modules built on the tracker share.                                     *)
(***************************************************************************)
EXTENDS NonceTracker, TLAPS

(***************************************************************************)
(* tracker.go:168-298.  The nonce AcquireNonce returns is above the tip or *)
(* is a gap: not claimed and not known to the TxStore.  It is claimed      *)
(* afterwards, the tip never moves back and only claims below the remote   *)
(* pending nonce are forgotten.                                            *)
(***************************************************************************)
LEMMA AcquiredNonce ==
    ASSUME stored \in Nat \union {None}, claimed \subseteq Nat,
           NEW m \in Nat, NEW r \in Nat, NEW known, NEW n \in Nat,
           AcquireNonce(m, r, known, n)
    PROVE  /\ n \in claimed' /\ n <= stored'
           /\ stored' = stored \/ stored' = n
           /\ stored <= stored'
           /\ claimed' \subseteq claimed \union {n}
           /\ \A k \in claimed : k \in claimed' \/ k < r
           /\ n > stored \/ (UseTxStore /\ n \notin claimed)
           /\ n > stored \/ n \notin known
  <1>1. /\ Cleaned(r) \subseteq claimed
        /\ \A k \in claimed : k \in Cleaned(r) \/ k < r
    BY DEF Cleaned
  <1>2. CASE FillGap(r, known, n)
    <2>1. /\ n \in r .. stored /\ n \notin claimed /\ n \notin known /\ UseTxStore
          /\ claimed' = Cleaned(r) \union {n} /\ stored' = stored
      BY <1>2 DEF FillGap, Gaps, GapSearch
    <2> QED BY <1>1, <2>1 DEF None
  <1>3. CASE Advance(m, r, known, n)
    <2>1. n = NextNonce(m, r) /\ n > stored
      BY <1>3 DEF Advance, NextNonce, Larger, LocalPending, None
    <2>2. stored' = n /\ claimed' = Cleaned(r) \union {n}
      BY <1>3, <2>1 DEF Advance, RaisedTo, Larger, None
    <2> QED BY <1>1, <2>1, <2>2 DEF None
  <1> QED BY <1>2, <1>3 DEF AcquireNonce

\* tracker.go:74-103, a broadcast nonce never moves the tip back.
LEMMA RegisteredNonce ==
    ASSUME stored \in Int, NEW n \in Nat, SetPendingNonce(n)
    PROVE  /\ stored' = stored \/ stored' = n
           /\ stored' >= stored /\ stored' >= n
           /\ claimed' = claimed
  BY DEF SetPendingNonce, RaisedTo, Larger

\* tracker.go:341-395, a release forgets one claim and moves the tip back by at
\* most one nonce, the one released.
LEMMA ReleasedNonce ==
    ASSUME stored \in Int, NEW n \in Nat, ReleaseNonce(n)
    PROVE  /\ claimed' = claimed \ {n}
           /\ stored' = stored \/ (stored = n /\ stored' = n - 1)
  BY DEF ReleaseNonce
=============================================================================
