---------------------------- MODULE TxExecution ----------------------------
(***************************************************************************)
(* EnsureTxWithHooksContext (manager_tx.go): each call builds, simulates,  *)
(* signs, broadcasts and monitors a transaction, retrying, bumping its gas *)
(* or moving to another nonce, until the transaction is mined or the call  *)
(* gives up.  Several calls of one wallet run concurrently on the tracker  *)
(* of NonceTracker; the network answers a broadcast at once, or, when it   *)
(* supports synchronous transactions, with the receipt once it is mined.   *)
(* A call may be one ResumePendingTransaction starts after a restart.      *)
(*                                                                         *)
(* A step ends where another goroutine or the network can act: at a lock   *)
(* of the tracker, an RPC, or the wait for the monitor.  What a handler    *)
(* does between two of those is one action with the RPC before it.         *)
(***************************************************************************)
EXTENDS NonceTracker, Sequences, FiniteSets

CONSTANTS
    Procs,         \* the calls
    SyncModes,     \* what IsSyncTxSupported may say of the network
    Resumable,     \* the calls that may continue a transaction found pending
    MaxAttempts,   \* RetryConfig.MaxAttempts
    MaxPrice,      \* GasBounds: the highest price a bump may reach
    MaxNonce,      \* bound: the highest nonce of the wallet
    Faults,        \* the kinds of failure that may happen
    MaxFaults      \* bound: how many of them happen

FaultKinds == {"estimate", "read", "fee", "simulation", "revert", "sign", "broadcast",
               "afterHook", "txStatus", "nonceStatus", "execution", "cancel", "lag", "foreign", "evict"}

ASSUME ExecutionAssumption ==
    /\ SyncModes \subseteq BOOLEAN
    /\ Resumable \subseteq Procs
    /\ MaxAttempts \in Nat
    /\ MaxPrice \in Nat \ {0}
    /\ MaxNonce \in Nat
    /\ Faults \subseteq FaultKinds
    /\ MaxFaults \in Nat

VARIABLES
    chain,      \* the wallet's mined transactions, in nonce order
    pool,       \* the mempool: at most one transaction of a nonce
    sync,       \* IsSyncTxSupported
    inflight,   \* synchronous submissions no node has taken or refused yet
    recorded,   \* nonces the TxStore has a transaction for
    call,       \* each call's TxExecutionContext.State and place in the code
    faults      \* how many failures have happened

netVars == <<chain, pool, sync, inflight>>
vars == <<trackerVars, netVars, recorded, call, faults>>

Foreign == "foreign"   \* another program that uses the same wallet

ASSUME ForeignAssumption == Foreign \notin Procs

Nonces == 0 .. MaxNonce
Prices == 1 .. MaxPrice
Txs == [by : Procs \union {Foreign}, nonce : Nonces, price : Prices]
NoTx == [by |-> "nobody", nonce |-> None, price |-> 0]
Replies == [mined : 0 .. (MaxNonce + 1), pending : 0 .. (MaxNonce + 1)]
NoReplies == [mined |-> 0, pending |-> 0]

Places == {"loop", "estimateFailed", "acquire", "built", "sync", "register", "persist", "monitor", "waiting",
           "low", "resync", "apply", "exit", "done"}

Outcomes == {"running", "mined", "reverted", "hook", "acquire", "fee", "simulation",
             "estimate", "sign", "cancelled", "retries", "price", "consumed"}

\* NewTxExecutionContext.  price 0 leaves the price to GasSetting, whose
\* suggestion is price 1.
NewCall == [at |-> "loop", attempts |-> 0, nonce |-> None, price |-> 0,
            limit |-> FALSE, resume |-> NoTx, old |-> {}, tx |-> NoTx,
            remote |-> NoReplies, then |-> "loop", outcome |-> "running"]

\* ResumePendingTransaction: the loop's state around a transaction broadcast
\* before the restart; its gas limit and price are kept.
PendingTx(p) == [by |-> p, nonce |-> 0, price |-> 1]
ResumedCall(t) == [NewCall EXCEPT !.nonce = t.nonce, !.price = t.price, !.limit = TRUE,
                                  !.resume = t, !.old = {t}]

FreshStart ==
    /\ TrackerInit
    /\ pool = {}
    /\ recorded = {}
    /\ call = [p \in Procs |-> NewCall]

\* After Recover: the tip is restored only when a NonceStore is configured.
RecoveredStart(p) ==
    /\ stored \in {None, 0} /\ claimed = {}
    /\ pool = {PendingTx(p)}
    /\ recorded = IF UseTxStore THEN {0} ELSE {}
    /\ call = [q \in Procs |-> IF q = p THEN ResumedCall(PendingTx(p)) ELSE NewCall]

Init ==
    /\ FreshStart \/ \E p \in Resumable : RecoveredStart(p)
    /\ chain = <<>>
    /\ sync \in SyncModes
    /\ inflight = {}
    /\ faults = 0

-----------------------------------------------------------------------------
(* The network. *)

Mined == Len(chain)
Landed == {chain[i] : i \in DOMAIN chain}
PoolAt(n) == {t \in pool : t.nonce = n}

\* eth_getTransactionCount "pending": the first nonce without a transaction.
Pending == CHOOSE n \in Mined .. (MaxNonce + 1) :
               /\ PoolAt(n) = {}
               /\ \A k \in Mined .. (n - 1) : PoolAt(k) # {}

Counts == [mined |-> Mined, pending |-> Pending]

Fault(kind) ==
    /\ kind \in Faults
    /\ faults < MaxFaults
    /\ faults' = faults + 1

NoFault == UNCHANGED faults

\* The pending count may come from a node that lags the one asked before.
ReadCounts(counts) ==
    \/ NoFault /\ counts = Counts
    \/ /\ Fault("lag")
       /\ counts \in [mined : {Mined}, pending : 0 .. (Pending - 1)]

\* What a truthful node says of a transaction.  The smallest bump is enough
\* for some nodes to replace a transaction, and too little for others.
IsLow(t) == t.nonce < Mined
IsKnown(t) == t \in pool
IsAcceptable(t) ==
    /\ ~IsLow(t) /\ ~IsKnown(t)
    /\ \A other \in PoolAt(t.nonce) : other.price < t.price
IsUnderpriced(t) ==
    /\ ~IsLow(t) /\ ~IsKnown(t)
    /\ \E other \in PoolAt(t.nonce) : other.price >= t.price - 1
\* A nonce above the pending one is queued by some nodes, refused by others.
IsGap(t) == IsAcceptable(t) /\ t.nonce > Pending

WithTx(t) == (pool \ PoolAt(t.nonce)) \union {t}

Mine ==
    /\ \E t \in PoolAt(Mined) :
           /\ chain' = Append(chain, t)
           /\ pool' = pool \ {t}
    /\ UNCHANGED <<trackerVars, sync, inflight, recorded, call, faults>>

Evict ==
    /\ Fault("evict")
    /\ \E t \in pool : pool' = pool \ {t}
    /\ UNCHANGED <<trackerVars, chain, sync, inflight, recorded, call>>

ForeignTx ==
    /\ Fault("foreign")
    /\ Pending <= MaxNonce
    /\ pool' = WithTx([by |-> Foreign, nonce |-> Pending, price |-> 1])
    /\ UNCHANGED <<trackerVars, chain, sync, inflight, recorded, call>>

\* A synchronous submission reaches a node, perhaps after the caller gave up
\* waiting for it.
Arrive ==
    /\ \E s \in inflight :
           /\ IsAcceptable(s.tx)
           /\ pool' = WithTx(s.tx)
           /\ inflight' = inflight \ {s}
    /\ UNCHANGED <<trackerVars, chain, sync, recorded, call, faults>>

-----------------------------------------------------------------------------
(* Where a handler leaves the call. *)

Go(p, c) == call' = [call EXCEPT ![p] = c]

Retry(c) == [c EXCEPT !.at = "loop", !.tx = NoTx]
Return(c, outcome) == [c EXCEPT !.at = "exit", !.tx = NoTx, !.outcome = outcome]
Monitor(c, t) == [c EXCEPT !.at = "monitor", !.tx = t]
Report(c, t) == [c EXCEPT !.at = "done", !.tx = t, !.outcome = "mined"]

\* resyncNonceFromChain, then whatever the handler does next.
Resync(c, next) == [c EXCEPT !.at = "resync", !.tx = NoTx, !.then = next]

Signed(c) == [c EXCEPT !.old = @ \union {c.tx}]

\* IncrementRetryAndCheck
Exhausted(c) == c.attempts + 1 > MaxAttempts
CountRetry(c) == [c EXCEPT !.attempts = @ + 1]

\* BumpGasForSlowTx(t): refused, leaving the state alone, at the price limit.
CanBumpPastLimit(t) == t.price <= MaxPrice   \* mutant: checks the old price
CanBump(t) == t.price + 1 <= MaxPrice
Bump(c, t) == [c EXCEPT !.price = t.price + 1, !.nonce = t.nonce]
BumpOrStop(c, t) == IF CanBump(t) THEN Retry(Bump(c, t)) ELSE Return(c, "price")

\* handleMinedTx: success, unless execution reverted or the hook refuses.
HandleMined(p, c, t) ==
    \/ NoFault /\ Go(p, Report(c, t))
    \/ Fault("execution") /\ \E e \in {"reverted", "hook"} : Go(p, Return(c, e))

Price(c) == IF c.price = 0 THEN 1 ELSE c.price

-----------------------------------------------------------------------------
(* executeTransactionLoop, top of the loop, and BuildTx. *)

Cancelled(p) ==
    /\ call[p].at \in {"loop", "monitor", "waiting"}
    /\ Fault("cancel")
    /\ Go(p, Return(call[p], "cancelled"))
    /\ UNCHANGED <<trackerVars, netVars, recorded>>

ResumeMonitoring(p) ==
    LET c == call[p] IN
    /\ c.at = "loop"
    /\ c.resume # NoTx
    /\ Go(p, Monitor([c EXCEPT !.resume = NoTx], c.resume))
    /\ UNCHANGED <<trackerVars, netVars, recorded, faults>>

\* Gas is estimated; then the nonce of an earlier attempt is kept, or the
\* network is asked for a new one.
BeginBuild(p) ==
    LET c == call[p] IN
    /\ c.at = "loop"
    /\ c.resume = NoTx
    /\ IF c.nonce # None
       THEN /\ NoFault
            /\ Go(p, [c EXCEPT !.at = "built",
                          !.tx = [by |-> p, nonce |-> c.nonce, price |-> Price(c)]])
       ELSE \E counts \in Replies :
                /\ ReadCounts(counts)
                /\ Go(p, [c EXCEPT !.at = "acquire", !.remote = counts])
    /\ UNCHANGED <<trackerVars, netVars, recorded>>

EstimateFails(p) ==
    /\ call[p].at = "loop"
    /\ call[p].resume = NoTx
    /\ ~call[p].limit
    /\ Fault("estimate")
    /\ Go(p, [call[p] EXCEPT !.at = "estimateFailed"])
    /\ UNCHANGED <<trackerVars, netVars, recorded>>

ReadFails(p) ==
    /\ call[p].at = "loop"
    /\ call[p].resume = NoTx
    /\ call[p].nonce = None
    /\ Fault("read")
    /\ Go(p, Return(call[p], "acquire"))
    /\ UNCHANGED <<trackerVars, netVars, recorded>>

\* State.Nonce stays nil until a handler keeps the nonce for a retry.
Acquire(p) ==
    LET c == call[p] IN
    /\ c.at = "acquire"
    /\ \E n \in Nonces :
           /\ AcquireNonce(c.remote.mined, c.remote.pending, recorded, n)
           /\ Go(p, [c EXCEPT !.at = "built", !.remote = NoReplies,
                              !.tx = [by |-> p, nonce |-> n, price |-> Price(c)]])
    /\ UNCHANGED <<netVars, recorded, faults>>

AcquireFails(p) ==
    LET c == call[p] IN
    /\ c.at = "acquire"
    /\ AbnormalNonceState(c.remote.mined, c.remote.pending, recorded)
    /\ Go(p, Return([c EXCEPT !.remote = NoReplies], "acquire"))
    /\ UNCHANGED <<netVars, recorded, faults>>

\* GasSetting fails; BuildTx gives back a nonce it acquired itself.
FeeFails(p) ==
    LET c == call[p] IN
    /\ c.at = "built"
    /\ c.price = 0
    /\ Fault("fee")
    /\ IF c.nonce = None THEN ReleaseNonce(c.tx.nonce) ELSE UNCHANGED trackerVars
    /\ Go(p, Return(c, "fee"))
    /\ UNCHANGED <<netVars, recorded>>

-----------------------------------------------------------------------------
(* handleGasEstimationFailure. *)

EstimateFindsMined(p) ==
    LET c == call[p] IN
    /\ c.at = "estimateFailed"
    /\ \E t \in c.old \intersect Landed : HandleMined(p, c, t)
    /\ UNCHANGED <<trackerVars, netVars, recorded>>

\* The best paid of the call's pending transactions is monitored.
EstimateFindsPending(p) ==
    LET c == call[p]
        waiting == c.old \intersect pool
    IN  /\ c.at = "estimateFailed"
        /\ c.old \intersect Landed = {}
        /\ \E t \in waiting :
               /\ \A o \in waiting : o.price <= t.price
               /\ Go(p, Monitor(c, t))
        /\ UNCHANGED <<trackerVars, netVars, recorded, faults>>

\* Nothing found, or getTxStatuses could not tell (no reader, or lookups that
\* failed): the hook, which may refuse or set the gas limit, then the count.
EstimateGivesNothing(p) ==
    LET c == call[p] IN
    /\ c.at = "estimateFailed"
    /\ \/ c.old \intersect (Landed \union pool) = {} /\ NoFault
       \/ c.old # {} /\ (Fault("txStatus") \/ Fault("read"))
    /\ \/ Go(p, Return(c, "estimate"))
       \/ /\ ~Exhausted(c)
          /\ \E set \in BOOLEAN : Go(p, Retry([CountRetry(c) EXCEPT !.limit = set]))
    /\ UNCHANGED <<trackerVars, netVars, recorded>>

-----------------------------------------------------------------------------
(* Simulation, hooks and signing. *)

\* Mutant: gives up without giving the nonce back.
SimulationFailsSilently(p) ==
    /\ call[p].at = "built"
    /\ Fault("simulation")
    /\ Go(p, Return(call[p], "simulation"))
    /\ UNCHANGED <<trackerVars, netVars, recorded>>

SimulationFails(p) ==
    LET c == call[p] IN
    /\ c.at = "built"
    /\ Fault("simulation")
    /\ ReleaseNonce(c.tx.nonce)
    /\ Go(p, Return(c, "simulation"))
    /\ UNCHANGED <<netVars, recorded>>

\* handleEthCallRevertFailure: the hook stops, or the retries are used up; or
\* the nonce and the gas limit move to State for the next attempt.
SimulationReverts(p) ==
    LET c == call[p] IN
    /\ c.at = "built"
    /\ Fault("revert")
    /\ \/ ReleaseNonce(c.tx.nonce) /\ Go(p, Return(c, "simulation"))
       \/ /\ ~Exhausted(c)
          /\ Go(p, Retry([CountRetry(c) EXCEPT !.nonce = c.tx.nonce, !.limit = TRUE]))
          /\ UNCHANGED trackerVars
    /\ UNCHANGED <<netVars, recorded>>

\* A hook's error, a signing error, a wrong signer, or no broadcaster for a
\* synchronous broadcast.  releaseNonce looks the
\* UNSIGNED hash up in OldTxs, whose keys are hashes of signed transactions:
\* its guard never holds and the nonce is always released.
SignFails(p) ==
    LET c == call[p] IN
    /\ c.at = "built"
    /\ Fault("sign")
    /\ ReleaseNonce(c.tx.nonce)
    /\ Go(p, Return(c, "sign"))
    /\ UNCHANGED <<netVars, recorded>>

-----------------------------------------------------------------------------
(* BroadcastTx and handleBroadcastError.  Every signed transaction joins   *)
(* OldTxs, whatever the reply.                                             *)

BroadcastAccepted(p) ==
    LET c == call[p] IN
    /\ c.at = "built"
    /\ ~sync
    /\ IsAcceptable(c.tx)
    /\ pool' = WithTx(c.tx)
    /\ Go(p, [c EXCEPT !.at = "register"])
    /\ UNCHANGED <<trackerVars, chain, sync, inflight, recorded, faults>>

\* The goroutine that calls the broadcaster's BroadcastTxSync.
Submission(c) == [tx |-> c.tx, attempt |-> c.attempts]

SyncSubmit(p) ==
    LET c == call[p] IN
    /\ c.at = "built"
    /\ sync
    /\ inflight' = inflight \union {Submission(c)}
    /\ Go(p, [c EXCEPT !.at = "sync"])
    /\ UNCHANGED <<trackerVars, chain, pool, sync, recorded, faults>>

\* The node answers with the receipt of the mined transaction.
SyncReceipt(p) ==
    LET c == call[p] IN
    /\ c.at = "sync"
    /\ Submission(c) \notin inflight
    /\ c.tx \in Landed
    /\ Go(p, [c EXCEPT !.at = "register", !.then = "receipt"])
    /\ UNCHANGED <<trackerVars, netVars, recorded, faults>>

\* SyncBroadcastTimeout passes, and the node knows the transaction.
SyncTimeoutAccepted(p) ==
    LET c == call[p] IN
    /\ c.at = "sync"
    /\ c.tx \in pool \union Landed
    /\ Go(p, [c EXCEPT !.at = "register"])
    /\ UNCHANGED <<trackerVars, netVars, recorded, faults>>

\* An attempt that failed is made again with its nonce, unless it was the last.
RetrySameNonce(c) ==
    IF Exhausted(c) THEN Resync(Return(c, "retries"), "exit")
                    ELSE Retry([CountRetry(c) EXCEPT !.nonce = c.tx.nonce])

\* Mutant: the transaction that timed out does not join OldTxs.
SyncTimeoutUntracked(p) ==
    /\ call[p].at = "sync"
    /\ call[p].tx \notin pool \union Landed
    /\ NoFault
    /\ Go(p, RetrySameNonce(call[p]))
    /\ UNCHANGED <<trackerVars, netVars, recorded>>

\* Not yet, or the lookup fails; the submission may still reach a node.
SyncTimeoutUnknown(p) ==
    LET c == call[p] IN
    /\ c.at = "sync"
    /\ \/ c.tx \notin pool \union Landed /\ NoFault
       \/ Fault("txStatus") \/ Fault("read")
    /\ Go(p, RetrySameNonce(Signed(c)))
    /\ UNCHANGED <<trackerVars, netVars, recorded>>

\* ctx.Done() while waiting: the transaction does not join OldTxs.
SyncCancelled(p) ==
    /\ call[p].at = "sync"
    /\ Fault("cancel")
    /\ Go(p, Return(call[p], "cancelled"))
    /\ UNCHANGED <<trackerVars, netVars, recorded>>

\* registerBroadcastedTx: the tracker first, the TxStore after.
Register(p) ==
    /\ call[p].at = "register"
    /\ SetPendingNonce(call[p].tx.nonce)
    /\ Go(p, [call[p] EXCEPT !.at = "persist"])
    /\ UNCHANGED <<netVars, recorded, faults>>

Persist(p) ==
    LET c == [Signed(call[p]) EXCEPT !.then = "loop"] IN
    /\ call[p].at = "persist"
    /\ recorded' = IF UseTxStore THEN recorded \union {c.tx.nonce} ELSE recorded
    /\ \/ call[p].then = "loop" /\ NoFault /\ Go(p, Monitor(c, c.tx))
       \/ call[p].then = "receipt" /\ HandleMined(p, c, c.tx)
       \/ Fault("afterHook") /\ Go(p, Return(c, "hook"))
    /\ UNCHANGED <<trackerVars, netVars>>

\* A node refuses the transaction, at once or through the synchronous call.
AwaitsAnswer(c) ==
    \/ c.at = "built" /\ ~sync
    \/ c.at = "sync" /\ Submission(c) \in inflight

Refused(c) ==
    /\ AwaitsAnswer(c)
    /\ inflight' = inflight \ {Submission(c)}
    /\ UNCHANGED <<trackerVars, chain, sync, recorded>>

BroadcastKnown(p) ==
    LET c == Signed(call[p]) IN
    /\ Refused(call[p])
    /\ IsKnown(c.tx)
    /\ Go(p, Retry([c EXCEPT !.nonce = c.tx.nonce]))
    /\ UNCHANGED <<pool, faults>>

\* handleReplacementUnderpricedError takes the pending transaction for its own
\* when it signed another one with this nonce.
\* Mutant: does not count the transaction just rejected.
OwnTxMiscounted(c) == Cardinality({t \in c.old : t.nonce = c.tx.nonce}) > 2
OwnTxPending(c) == Cardinality({t \in c.old : t.nonce = c.tx.nonce}) > 1

BroadcastUnderpriced(p) ==
    LET c == Signed(call[p]) IN
    /\ Refused(call[p])
    /\ IsUnderpriced(c.tx)
    /\ Go(p, IF OwnTxPending(c)
             THEN BumpOrStop([c EXCEPT !.nonce = c.tx.nonce], c.tx)
             ELSE Retry([c EXCEPT !.nonce = None]))
    /\ UNCHANGED <<pool, faults>>

\* handleNonceGapError
BroadcastGap(p) ==
    LET c == Signed(call[p]) IN
    /\ Refused(call[p])
    /\ IsGap(c.tx)
    /\ Go(p, Resync([c EXCEPT !.nonce = None], "loop"))
    /\ UNCHANGED <<pool, faults>>

\* The nonce was used by somebody else: start over with the chain's.
\* (Mutant: neither counts the attempt nor drops the nonce.)
LowRetrySameNonce(c) == Resync(c, "loop")
LowRetry(c) == Resync([CountRetry(c) EXCEPT !.nonce = None], "loop")

\* Mutant: does not ask whether one of its own transactions used the nonce.
BroadcastLowUnchecked(p) ==
    /\ Refused(call[p])
    /\ IsLow(call[p].tx)
    /\ Go(p, LowRetry(Signed(call[p])))
    /\ UNCHANGED <<pool, faults>>

BroadcastLow(p) ==
    LET c == Signed(call[p]) IN
    /\ Refused(call[p])
    /\ IsLow(c.tx)
    /\ Go(p, [c EXCEPT !.at = "low"])
    /\ UNCHANGED <<pool, faults>>

\* Any other error; a node may have kept the transaction all the same.
BroadcastFails(p) ==
    LET c == Signed(call[p]) IN
    /\ Refused(call[p])
    /\ Fault("broadcast")
    /\ \/ UNCHANGED pool
       \/ IsAcceptable(c.tx) /\ pool' = WithTx(c.tx)
    /\ Go(p, RetrySameNonce(c))

-----------------------------------------------------------------------------
(* handleNonceIsLowError. *)

LowFindsMined(p) ==
    LET c == call[p] IN
    /\ c.at = "low"
    /\ \E t \in c.old \intersect Landed : HandleMined(p, c, t)
    /\ UNCHANGED <<trackerVars, netVars, recorded>>

\* None is mined; or TxInfoFromHash failed, which getTxStatuses swallows.
LowFindsNone(p) ==
    LET c == call[p] IN
    /\ c.at = "low"
    /\ \/ c.old \intersect Landed = {} /\ NoFault
       \/ Fault("txStatus")
    /\ Go(p, IF Exhausted(c) THEN Resync(Return(c, "retries"), "exit")
                             ELSE LowRetry(c))
    /\ UNCHANGED <<trackerVars, netVars, recorded>>

\* No reader at all: the attempt counts, the nonce stays as it was.
LowUnreadable(p) ==
    LET c == call[p] IN
    /\ c.at = "low"
    /\ Fault("read")
    /\ Go(p, IF Exhausted(c) THEN Return(c, "retries") ELSE Retry(CountRetry(c)))
    /\ UNCHANGED <<trackerVars, netVars, recorded>>

-----------------------------------------------------------------------------
(* MonitorTxContext and handleTransactionStatus.  The monitor's first      *)
(* event that is not final arms the slow timer and is the last one heard.  *)

MonitorMined(p) ==
    LET c == call[p] IN
    /\ c.at = "monitor"
    /\ c.tx \in Landed
    /\ HandleMined(p, c, c.tx)
    /\ UNCHANGED <<trackerVars, netVars, recorded>>

MonitorPending(p) ==
    LET c == call[p] IN
    /\ c.at = "monitor"
    /\ c.tx \in pool
    /\ Go(p, [c EXCEPT !.at = "waiting"])
    /\ UNCHANGED <<trackerVars, netVars, recorded, faults>>

MonitorLost(p) ==
    LET c == call[p] IN
    /\ c.at = "monitor"
    /\ c.tx \notin pool \union Landed
    /\ \/ NoFault /\ Go(p, IF IsLow(c.tx) THEN Return(c, "consumed")
                                          ELSE BumpOrStop(c, c.tx))
       \/ Fault("nonceStatus") /\ Go(p, BumpOrStop(c, c.tx))
    /\ UNCHANGED <<trackerVars, netVars, recorded>>

\* The slow timer fires and the mined nonce is read: consumed, blocking, or
\* waiting behind other nonces (or unknown), which keeps the transaction.
SlowConsumed(p) ==
    LET c == call[p] IN
    /\ c.at = "waiting"
    /\ IsLow(c.tx)
    /\ Go(p, Return(c, "consumed"))
    /\ UNCHANGED <<trackerVars, netVars, recorded, faults>>

SlowBlocking(p) ==
    LET c == call[p] IN
    /\ c.at = "waiting"
    /\ c.tx.nonce = Mined
    /\ Go(p, BumpOrStop(c, c.tx))
    /\ UNCHANGED <<trackerVars, netVars, recorded, faults>>

SlowNotBlocking(p) ==
    LET c == call[p] IN
    /\ c.at = "waiting"
    /\ \/ c.tx.nonce > Mined /\ NoFault
       \/ Fault("nonceStatus")
    /\ Go(p, Retry([c EXCEPT !.resume = c.tx]))
    /\ UNCHANGED <<trackerVars, netVars, recorded>>

-----------------------------------------------------------------------------
(* resyncNonceFromChain, and executeTransactionLoop's deferred clean-up.   *)

ResyncRead(p) ==
    LET c == call[p] IN
    /\ c.at = "resync"
    /\ \/ \E counts \in Replies :
              /\ ReadCounts(counts)
              /\ Go(p, [c EXCEPT !.at = "apply", !.remote = counts])
       \/ Fault("read") /\ Go(p, [c EXCEPT !.at = c.then, !.then = "loop"])
    /\ UNCHANGED <<trackerVars, netVars, recorded>>

ResyncApply(p) ==
    LET c == call[p] IN
    /\ c.at = "apply"
    /\ ResyncFromRemote(c.remote.mined, c.remote.pending)
    /\ Go(p, [c EXCEPT !.at = c.then, !.then = "loop", !.remote = NoReplies])
    /\ UNCHANGED <<netVars, recorded, faults>>

Exit(p) ==
    LET c == call[p] IN
    /\ c.at = "exit"
    /\ IF c.old = {}
       THEN /\ Go(p, [c EXCEPT !.at = "done"])
            /\ IF c.nonce # None THEN ReleaseNonce(c.nonce) ELSE UNCHANGED trackerVars
       ELSE /\ Go(p, Resync(c, "done"))
            /\ UNCHANGED trackerVars
    /\ UNCHANGED <<netVars, recorded, faults>>

Finished ==
    /\ \A p \in Procs : call[p].at = "done"
    /\ UNCHANGED vars

-----------------------------------------------------------------------------
CallStep(p) ==
    \/ Cancelled(p)
    \/ ResumeMonitoring(p)
    \/ BeginBuild(p)
    \/ EstimateFails(p)
    \/ ReadFails(p)
    \/ Acquire(p)
    \/ AcquireFails(p)
    \/ FeeFails(p)
    \/ EstimateFindsMined(p)
    \/ EstimateFindsPending(p)
    \/ EstimateGivesNothing(p)
    \/ SimulationFails(p)
    \/ SimulationReverts(p)
    \/ SignFails(p)
    \/ BroadcastAccepted(p)
    \/ SyncSubmit(p)
    \/ SyncReceipt(p)
    \/ SyncTimeoutAccepted(p)
    \/ SyncTimeoutUnknown(p)
    \/ SyncCancelled(p)
    \/ Register(p)
    \/ Persist(p)
    \/ BroadcastKnown(p)
    \/ BroadcastUnderpriced(p)
    \/ BroadcastGap(p)
    \/ BroadcastLow(p)
    \/ BroadcastFails(p)
    \/ LowFindsMined(p)
    \/ LowFindsNone(p)
    \/ LowUnreadable(p)
    \/ MonitorMined(p)
    \/ MonitorPending(p)
    \/ MonitorLost(p)
    \/ SlowConsumed(p)
    \/ SlowBlocking(p)
    \/ SlowNotBlocking(p)
    \/ ResyncRead(p)
    \/ ResyncApply(p)
    \/ Exit(p)

Next ==
    \/ \E p \in Procs : CallStep(p)
    \/ Mine
    \/ Arrive
    \/ ForeignTx
    \/ Evict
    \/ Finished

\* Goroutines run and RPCs return; a transaction at the wallet's next nonce is
\* mined in the end.  No failure is ever forced.
Fairness ==
    /\ \A p \in Procs : WF_vars(CallStep(p))
    /\ WF_vars(Mine)

Spec == Init /\ [][Next]_vars

FairSpec == Spec /\ Fairness

-----------------------------------------------------------------------------
\* The state every handler of the loop leaves: TxRetryState within the retry
\* count and the gas bounds, the tracker and the chain within the wallet's nonces.
TypeOK ==
    /\ stored \in {None} \union Nonces
    /\ claimed \subseteq Nonces
    /\ chain \in Seq(Txs) /\ Len(chain) <= MaxNonce + 1
    /\ pool \subseteq Txs
    /\ sync \in SyncModes
    /\ inflight \subseteq [tx : Txs, attempt : 0 .. MaxAttempts]
    /\ recorded \subseteq Nonces
    /\ \A p \in Procs :
           /\ call[p].at \in Places
           /\ call[p].attempts \in 0 .. (MaxAttempts + 1)
           /\ call[p].nonce \in {None} \union Nonces
           /\ call[p].price \in {0} \union Prices
           /\ call[p].limit \in BOOLEAN
           /\ call[p].resume \in {NoTx} \union Txs
           /\ call[p].tx \in {NoTx} \union Txs
           /\ call[p].old \subseteq Txs
           /\ call[p].remote \in Replies
           /\ call[p].then \in {"loop", "receipt", "exit", "done"}
           /\ call[p].outcome \in Outcomes
    /\ faults \in 0 .. MaxFaults

\* The transactions of a call that are mined or may still be.
Alive(p) == {t \in pool \union Landed : t.by = p}

\* signAndBroadcastTransaction:969-973, every signed transaction is tracked "to
\* detect if it gets mined later" and not orphaned: a call that moves to another
\* nonce has left nothing alive at the old one, whatever the nodes refused, lost
\* or kept, so its payment is made at most once.
OneNonceAlive ==
    \A p \in Procs : \A t, u \in Alive(p) : t.nonce = u.nonce

\* signAndBroadcastTransaction:969-973, "we must track every signed tx to detect
\* if it gets mined later": whatever a node did with a transaction of the call,
\* or may do with one whose synchronous broadcast timed out, the call knows it,
\* unless its context was cancelled while it waited.
SignedTracked ==
    \A p \in Procs : call[p].outcome # "cancelled" =>
        \A t \in pool \union Landed \union {s.tx : s \in inflight} :
            t.by = p => t \in call[p].old \union {call[p].tx}

\* A nonce the call has on hand for the transaction it is building.
OnHand(p) ==
    IF call[p].at = "done" THEN {}
    ELSE {call[p].nonce, call[p].tx.nonce} \ {None}

\* executeTransactionLoop:502-511, a nonce without a broadcast transaction "is
\* still reserved and must be released": every claim of the
\* tracker belongs to a call that still works on the nonce or has signed a
\* transaction with it.
NoOrphanClaim ==
    \A n \in claimed :
        \E p \in Procs : n \in OnHand(p) \/ \E t \in call[p].old : t.nonce = n

\* signAndBroadcastTransaction:844-848, the guard "ensures we never release a
\* nonce for a tx that was already tracked": a call gives back no nonce it has
\* signed a transaction for.
ReleasesOnlyUnsigned ==
    [][\A p \in Procs : \A n \in claimed \ claimed' :
           call[p].at \in {"built", "exit"} /\ call'[p] # call[p]
               => \A t \in call[p].old : t.nonce # n]_vars

\* manager_nonce.go:23-26, "subsequent calls will get a different nonce": two
\* calls never build with the same nonce while no node knows a transaction of it.
DistinctHolders ==
    \A p, q \in Procs :
        /\ p # q
        /\ call[p].at = "built" /\ call[q].at = "built"
        /\ call[p].tx.nonce = call[q].tx.nonce
        => \E t \in pool \union Landed : t.nonce = call[p].tx.nonce

\* handleTransactionStatus:1364-1376, "Another transaction with this nonce has
\* already been mined": a call that gives up for that reason has not been mined.
ConsumedByAnother ==
    \A p \in Procs : call[p].outcome = "consumed" =>
        \A t \in Landed : t.by # p

\* executeTransactionLoop:528-599 returns: the retries, the gas limit and the
\* nodes' answers bound every way round the loop once failures stop.
Termination == \A p \in Procs : <>(call[p].at = "done")
=============================================================================
