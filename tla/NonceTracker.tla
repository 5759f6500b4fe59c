---------------------------- MODULE NonceTracker ----------------------------
(***************************************************************************)
(* internal/nonce/tracker.go for ONE wallet on ONE chain.  The tracker     *)
(* keys everything by (wallet, chainID) and no operation touches two keys, *)
(* so one key is the whole of its behaviour.  Every operation runs under   *)
(* the wallet's write lock, hence is one atomic step: the operators below  *)
(* are the steps, and the modules that EXTEND this one say who takes them. *)
(***************************************************************************)
EXTENDS Integers

CONSTANT UseTxStore   \* a TxStore is configured, so AcquireNonce gets a GapFinder

ASSUME UseTxStoreAssumption == UseTxStore \in BOOLEAN

VARIABLES
    stored,   \* pendingNonces: the LAST nonce used, None when untracked
    claimed   \* claimedGaps: nonces handed out that the gap finder must skip

trackerVars == <<stored, claimed>>

None == -1    \* an absent map entry, or a nil *big.Int

Larger(a, b) == IF a > b THEN a ELSE b

TrackerInit == stored = None /\ claimed = {}

\* GetPendingNonceUnlocked: the next nonce to use, meaningful when tracked.
LocalPending == stored + 1

\* Mutants: the tip as the next nonce instead of the last used one, and a
\* late registration that moves the tip back.
RaisedToNext(n) == Larger(stored, n + 1)
RaisedUnconditionally(n) == n

\* SetPendingNonceUnlocked only ever raises the stored nonce.
RaisedTo(n) == Larger(stored, n)

-----------------------------------------------------------------------------
(* Acquiring.  mined and pending are the replies of the network, read      *)
(* before the lock; known is the set of nonces GetByNonce returns a        *)
(* transaction, or an error, for.                                          *)

GapSearch(pending) ==
    /\ UseTxStore
    /\ stored # None
    /\ LocalPending > pending

\* Claims below the remote pending nonce are dropped, but only by a gap search.
Cleaned(pending) ==
    IF GapSearch(pending) THEN {n \in claimed : n >= pending} ELSE claimed

Gaps(pending, known) ==
    IF GapSearch(pending)
    THEN {n \in pending .. stored : n \notin claimed /\ n \notin known}
    ELSE {}

NextNonce(mined, pending) ==
    IF stored = None THEN Larger(pending, mined)
                     ELSE Larger(LocalPending, pending)

\* Mutant: the gap is handed out without claiming it.
FillGapUnclaimed(pending, known, n) ==
    /\ n \in Gaps(pending, known)
    /\ \A g \in Gaps(pending, known) : n <= g
    /\ claimed' = Cleaned(pending)
    /\ UNCHANGED stored

\* The first gap is handed out again; the stored nonce does not move.
FillGap(pending, known, n) ==
    /\ n \in Gaps(pending, known)
    /\ \A g \in Gaps(pending, known) : n <= g
    /\ claimed' = Cleaned(pending) \union {n}
    /\ UNCHANGED stored

\* No gap: the tip moves to the next nonce, which is claimed as well.
Advance(mined, pending, known, n) ==
    /\ Gaps(pending, known) = {}
    /\ stored = None \/ mined <= pending
    /\ n = NextNonce(mined, pending)
    /\ stored' = RaisedTo(n)
    /\ claimed' = Cleaned(pending) \union {n}

AcquireNonce(mined, pending, known, n) ==
    \/ FillGap(pending, known, n)
    \/ Advance(mined, pending, known, n)

\* ErrAbnormalNonceState: the nodes contradict each other.
AbnormalNonceState(mined, pending, known) ==
    /\ Gaps(pending, known) = {}
    /\ stored # None
    /\ mined > pending
    /\ claimed' = Cleaned(pending)
    /\ UNCHANGED stored

-----------------------------------------------------------------------------
SetPendingNonce(n) ==
    /\ stored' = RaisedTo(n)
    /\ UNCHANGED claimed

\* Mutants: unclaims the tip only; moves the tip back for any nonce.
ReleaseUnclaimsTipOnly(n) ==
    /\ claimed' = IF stored = n THEN claimed \ {n} ELSE claimed
    /\ stored' = IF stored = n THEN n - 1 ELSE stored

ReleaseAnyNonce(n) ==
    /\ claimed' = claimed \ {n}
    /\ stored' = n - 1

\* Always unclaims; moves the stored nonce back only when n is the tip.  The
\* tip 0 deletes the map entry, which is None.
ReleaseNonce(n) ==
    /\ claimed' = claimed \ {n}
    /\ stored' = IF stored = n THEN n - 1 ELSE stored

\* Local tracking is replaced by the chain's view; it may move backward.
ResyncFromRemote(mined, pending) ==
    LET next == Larger(mined, pending)
    IN  /\ claimed' = {n \in claimed : n < next}
        /\ stored' = next - 1
=============================================================================
