---------------------------- MODULE NonceManager ----------------------------
(***************************************************************************)
(* manager_nonce.go and the low-level client API of manager_tx.go: several *)
(* goroutines build transactions of one wallet (BuildTx, which acquires a  *)
(* nonce), then broadcast them (BroadcastTx, which registers them) or give *)
(* them up (ReleaseNonce).  The network reads of acquireNonce happen       *)
(* before the tracker's lock, so their replies may be stale when used, and *)
(* the nodes behind the Reader may lag each other.  nonceStore is nil      *)
(* here: nothing reads it back while the process lives.                    *)
(***************************************************************************)
EXTENDS NonceTracker

CONSTANTS
    Procs,           \* goroutines that send transactions of the wallet
    MaxNonce,        \* bound: the highest nonce handed out
    InitialMined,    \* the account's nonce when the manager is created
    LossyBroadcast   \* a node may accept a transaction and the reply be lost

ASSUME BoundsAssumption ==
    /\ MaxNonce \in Nat
    /\ InitialMined \in 0 .. MaxNonce
    /\ LossyBroadcast \in BOOLEAN

Nonces == 0 .. MaxNonce
Replies == 0 .. (MaxNonce + 1)    \* values of eth_getTransactionCount

VARIABLES
    mined,      \* the chain: the nonce the next mined transaction must have
    pool,       \* nonces with a transaction in the mempool
    accepted,   \* history: nonces some node accepted a transaction for
    recorded,   \* nonces the TxStore returns a transaction for
    phase,      \* where each goroutine is between two shared steps
    remote,     \* the replies a goroutine has read and not yet used
    held,       \* the nonce of the transaction a goroutine has built
    abandoned   \* history: nonces of built transactions nobody kept

chainVars == <<mined, pool, accepted>>
clientVars == <<phase, remote, held, abandoned>>
vars == <<stored, claimed, mined, pool, accepted, recorded,
          phase, remote, held, abandoned>>

Phases == {"idle", "ready", "built", "sent", "registered"}

NoReplies == [mined |-> 0, pending |-> 0]

Init ==
    /\ TrackerInit
    /\ mined = InitialMined
    /\ pool = {}
    /\ accepted = 0 .. (InitialMined - 1)
    /\ recorded = {}
    /\ phase = [p \in Procs |-> "idle"]
    /\ remote = [p \in Procs |-> NoReplies]
    /\ held = [p \in Procs |-> None]
    /\ abandoned = {}

-----------------------------------------------------------------------------
(* The network.  A node that lags reports any earlier count; none reports  *)
(* a transaction it has not seen.                                          *)

MinedReplies == 0 .. mined

PendingReplies == {n \in Replies : \A k \in mined .. (n - 1) : k \in pool}

Mine ==
    /\ mined \in pool
    /\ mined' = mined + 1
    /\ pool' = pool \ {mined}
    /\ UNCHANGED <<trackerVars, accepted, recorded, clientVars>>

\* A mempool evicts a transaction (its monitor will call it "lost").
Evict(n) ==
    /\ n \in pool
    /\ pool' = pool \ {n}
    /\ UNCHANGED <<trackerVars, mined, accepted, recorded, clientVars>>

\* A node takes a new transaction, or a replacement of one it has.
NodeAccepts(n) ==
    /\ n >= mined
    /\ pool' = pool \union {n}
    /\ accepted' = accepted \union {n}
    /\ UNCHANGED mined

-----------------------------------------------------------------------------
(* acquireNonce, called by BuildTx when it is given no nonce. *)

\* Both reads, before the lock.  The count of mined transactions only grows,
\* so an earlier reply to the first read is a lagging reply at the second.
ReadRemote(p) ==
    /\ phase[p] = "idle"
    /\ \E m \in MinedReplies, n \in PendingReplies :
           remote' = [remote EXCEPT ![p] = [mined |-> m, pending |-> n]]
    /\ phase' = [phase EXCEPT ![p] = "ready"]
    /\ UNCHANGED <<trackerVars, chainVars, recorded, held, abandoned>>

\* findNonceGap runs inside the tracker's lock; a nonce whose lookup fails is
\* skipped like one that has a transaction.
Unreadable == IF UseTxStore THEN SUBSET Nonces ELSE {{}}

\* The bound: no nonce above MaxNonce is handed out.
Acquire(p) ==
    /\ phase[p] = "ready"
    /\ \E n \in Nonces, unreadable \in Unreadable :
           /\ AcquireNonce(remote[p].mined, remote[p].pending,
                           recorded \union unreadable, n)
           /\ held' = [held EXCEPT ![p] = n]
    /\ phase' = [phase EXCEPT ![p] = "built"]
    /\ remote' = [remote EXCEPT ![p] = NoReplies]
    /\ UNCHANGED <<chainVars, recorded, abandoned>>

AcquireFails(p) ==
    /\ phase[p] = "ready"
    /\ \E unreadable \in Unreadable :
           AbnormalNonceState(remote[p].mined, remote[p].pending,
                              recorded \union unreadable)
    /\ phase' = [phase EXCEPT ![p] = "idle"]
    /\ remote' = [remote EXCEPT ![p] = NoReplies]
    /\ UNCHANGED <<chainVars, recorded, held, abandoned>>

-----------------------------------------------------------------------------
(* BroadcastTx.  registerBroadcastedTx runs after the node's reply and is  *)
(* not atomic: the tracker is updated first, the TxStore last.             *)

BroadcastAccepted(p) ==
    /\ phase[p] = "built"
    /\ NodeAccepts(held[p])
    /\ phase' = [phase EXCEPT ![p] = "sent"]
    /\ UNCHANGED <<trackerVars, recorded, remote, held, abandoned>>

\* broadcasted = false although a node kept the transaction.
BroadcastReplyLost(p) ==
    /\ LossyBroadcast
    /\ phase[p] = "built"
    /\ NodeAccepts(held[p])
    /\ UNCHANGED <<trackerVars, recorded, clientVars>>

RegisterNonce(p) ==
    /\ phase[p] = "sent"
    /\ SetPendingNonce(held[p])
    /\ phase' = [phase EXCEPT ![p] = "registered"]
    /\ UNCHANGED <<chainVars, recorded, remote, held, abandoned>>

\* persistTxBroadcast ignores a failing Save.
PersistTx(p) ==
    /\ phase[p] = "registered"
    /\ recorded' \in IF UseTxStore THEN {recorded, recorded \union {held[p]}}
                                   ELSE {recorded}
    /\ phase' = [phase EXCEPT ![p] = "idle"]
    /\ held' = [held EXCEPT ![p] = None]
    /\ UNCHANGED <<trackerVars, chainVars, remote, abandoned>>

-----------------------------------------------------------------------------
\* The caller's ReleaseNonce, and BuildTx's own when GasSetting fails after
\* the nonce was acquired.
Release(p) ==
    /\ phase[p] = "built"
    /\ ReleaseNonce(held[p])
    /\ phase' = [phase EXCEPT ![p] = "idle"]
    /\ held' = [held EXCEPT ![p] = None]
    /\ UNCHANGED <<chainVars, recorded, remote, abandoned>>

\* The caller drops the transaction and never calls ReleaseNonce.
Abandon(p) ==
    /\ phase[p] = "built"
    /\ abandoned' = abandoned \union {held[p]}
    /\ phase' = [phase EXCEPT ![p] = "idle"]
    /\ held' = [held EXCEPT ![p] = None]
    /\ UNCHANGED <<trackerVars, chainVars, recorded, remote>>

Client(p) ==
    \/ ReadRemote(p)
    \/ Acquire(p)
    \/ AcquireFails(p)
    \/ BroadcastAccepted(p)
    \/ BroadcastReplyLost(p)
    \/ RegisterNonce(p)
    \/ PersistTx(p)
    \/ Release(p)
    \/ Abandon(p)

Next ==
    \/ Mine
    \/ \E n \in Nonces : Evict(n)
    \/ \E p \in Procs : Client(p)

Spec == Init /\ [][Next]_vars

-----------------------------------------------------------------------------
\* What the tracker (tracker.go:12-30) and its callers keep: nonces of the
\* wallet only, and a goroutine holds one exactly between BuildTx and the end.
TypeOK ==
    /\ stored \in {None} \union Nonces
    /\ claimed \subseteq Nonces
    /\ mined \in Replies
    /\ pool \subseteq Nonces
    /\ accepted \subseteq Nonces
    /\ recorded \subseteq Nonces
    /\ phase \in [Procs -> Phases]
    /\ remote \in [Procs -> [mined : Replies, pending : Replies]]
    /\ held \in [Procs -> {None} \union Nonces]
    /\ abandoned \subseteq Nonces
    /\ \A p \in Procs : (held[p] = None) <=> (phase[p] \in {"idle", "ready"})

\* manager_nonce.go:23-26, README "Nonces are reserved atomically to prevent
\* races": whatever the nodes reply and however the goroutines interleave, a
\* nonce no node has accepted a transaction for is held by one of them only.
UniqueFreeHolder ==
    \A p, q \in Procs :
        (p # q /\ held[p] = held[q] /\ held[p] # None) => held[p] \in accepted

\* tracker.go:23-29: a nonce is hidden from the gap finder only while somebody
\* works on it, after it was broadcast, or because a caller abandoned it; a
\* released nonce never stays hidden, which would leave a hole in the sequence.
NoLeakedClaim ==
    \A n \in claimed :
        n \in accepted \/ n \in abandoned \/ \E p \in Procs : held[p] = n

\* Without a TxStore there is no gap search and the stored nonce only follows
\* the nonces in use: then a nonce is held once, accepted or not.
UniqueHolder ==
    \A p, q \in Procs : (p # q /\ held[p] = held[q]) => held[p] = None

\* The abstract allocator that acquireNonce implements.
Allocator == INSTANCE NonceAllocator WITH
    Before <- 0 .. (InitialMined - 1),
    Reissues <- UseTxStore \/ LossyBroadcast,
    owner <- [p \in Procs |-> IF phase[p] = "built" THEN held[p] ELSE None],
    published <- accepted

\* Every step of the tracker under its callers is a step of the allocator:
\* exclusive reservation, and without a TxStore no nonce is ever issued again
\* after a transaction with it was accepted.
ImplementsAllocator == Allocator!AllocatorSpec
=============================================================================
