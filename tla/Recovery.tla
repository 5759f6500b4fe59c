------------------------------ MODULE Recovery ------------------------------
(***************************************************************************)
(* recovery.go with the stores of persistence.go: the process sends        *)
(* payments of one wallet on one chain, may crash between any two steps,   *)
(* and after the restart Recover reconciles the nonce tracker and resumes  *)
(* what was pending.  The tracker and the executions are lost in a crash;  *)
(* the NonceStore, the TxStore and the network are not.  The NonceStore is *)
(* configured; the TxStore is if UseTxStore.                               *)
(*                                                                         *)
(* An execution is executeTransactionLoop, of a new payment or of one that *)
(* Recover found pending.  TxExecution models every step of it on its own; *)
(* here are those that move the tracker, the stores or the network, with   *)
(* the RPC before them: every way to change nonces, to bump and to fail.   *)
(* Synchronous networks, hooks, gas estimates and broadcasts that fail but *)
(* are kept are TxExecution's, races for the tracker's lock NonceManager's.*)
(***************************************************************************)
EXTENDS NonceTracker, Sequences, FiniteSets

CONSTANTS
    MaxPayments,   \* bound: how many payments the application asks for
    MaxSenders,    \* bound: how many of them it sends at a time
    MaxMonitors,   \* RecoveryOptions.MaxConcurrentMonitors
    MaxBump,       \* the gas limit, in bumps
    MaxNonce,      \* bound: the highest nonce
    MaxCrashes,    \* bound: how often the process dies
    Faults,        \* the kinds of failure that may happen
    MaxFaults      \* bound: how many of them happen

\* With no slot at all the first recovered transaction blocks Recover for ever:
\* a zero MaxConcurrentMonitors is not replaced by a default.
ASSUME RecoveryAssumption ==
    /\ MaxPayments \in Nat /\ MaxSenders \in Nat /\ MaxMonitors \in Nat \ {0}
    /\ MaxBump \in Nat /\ MaxNonce \in Nat
    /\ MaxCrashes \in Nat /\ MaxFaults \in Nat
    /\ Faults \subseteq {"lag", "evict", "execution", "chain", "reader", "lookup", "giveUp"}

VARIABLES
    chain,      \* the mined transactions and whether each executed, in nonce order
    pool,       \* the transactions some node holds
    saved,      \* NonceState.LocalPendingNonce, None when nil
    reserved,   \* NonceState.ReservedNonces
    status,     \* the TxStore: the status of each recorded transaction
    asked,      \* which payments the application asked for, and if a crash followed
    execs,      \* the goroutines that run executeTransactionLoop
    rec,        \* where Recover is
    taken,      \* history: nonces the reconciled tip must keep from being given again
    crashes, faults

netVars == <<chain, pool>>
storeVars == <<saved, reserved, status>>
boundVars == <<crashes, faults>>
vars == <<trackerVars, netVars, storeVars, asked, execs, rec, taken, boundVars>>

\* Numbered in the order in which they begin.
Payments == 1 .. MaxPayments

Nonces == 0 .. MaxNonce
Replies == [mined : 0 .. (MaxNonce + 1), pending : 0 .. (MaxNonce + 1)]
NoReplies == [mined |-> 0, pending |-> 0]
Txs == [nonce : Nonces, pay : Payments, bump : 0 .. MaxBump]
Statuses == {"none", "broadcasted", "mined", "reverted", "dropped", "replaced"}

\* The execution of orig, a transaction found pending, or Unsent(p): its State.Nonce
\* and price are those of cur, its OldTxs are old.
Unsent(p) == [nonce |-> None, pay |-> p, bump |-> 0]
Origs == Txs \union {Unsent(p) : p \in Payments}
Places == {"build", "acquired", "built", "sent", "watch", "gap", "erred", "failed", "mined"}

Recovered == [at |-> "done", remote |-> NoReplies, todo |-> {}, next |-> {},
              errors |-> {}, slots |-> 0]

Init ==
    /\ TrackerInit
    /\ chain = <<>>
    /\ pool = {}
    /\ saved = None
    /\ reserved = {}
    /\ status = [t \in Txs |-> "none"]
    /\ asked = [p \in Payments |-> "not yet"]
    /\ execs = {}
    /\ rec = Recovered
    /\ taken = {}
    /\ crashes = 0
    /\ faults = 0

Fault(kind) ==
    /\ kind \in Faults
    /\ faults < MaxFaults
    /\ faults' = faults + 1

NoFault == UNCHANGED faults

-----------------------------------------------------------------------------
(* The network.  A node that lags may lack the transaction another holds   *)
(* with the same nonce, and report earlier counts.                         *)

Mined == Len(chain)
Landed == {chain[i].tx : i \in DOMAIN chain}
Succeeded(t) == \E i \in DOMAIN chain : chain[i] = [tx |-> t, ok |-> TRUE]
PoolAt(n) == {t \in pool : t.nonce = n}

Pending == CHOOSE n \in Mined .. (MaxNonce + 1) :
               /\ PoolAt(n) = {}
               /\ \A k \in Mined .. (n - 1) : PoolAt(k) # {}

Counts == {c \in Replies : c.mined = Mined /\ c.pending <= Pending}
ReadCounts(counts) == IF counts.pending = Pending THEN NoFault ELSE Fault("lag")

IsReplacement(t) == \A other \in PoolAt(t.nonce) : other.bump < t.bump

NodeAccepts(t) ==
    /\ t.nonce >= Mined
    /\ \/ NoFault /\ IsReplacement(t) /\ pool' = (pool \ PoolAt(t.nonce)) \union {t}
       \/ Fault("lag") /\ pool' = pool \union {t}
    /\ UNCHANGED chain

Mine ==
    /\ \E t \in PoolAt(Mined), ok \in BOOLEAN :
           /\ IF ok THEN NoFault ELSE Fault("execution")
           /\ chain' = Append(chain, [tx |-> t, ok |-> ok])
    /\ pool' = pool \ PoolAt(Mined)
    /\ UNCHANGED <<trackerVars, storeVars, asked, execs, rec, taken, crashes>>

Evict ==
    /\ Fault("evict")
    /\ \E t \in pool : pool' = pool \ {t}
    /\ UNCHANGED <<trackerVars, chain, storeVars, asked, execs, rec, taken, crashes>>

-----------------------------------------------------------------------------
(* An execution: a nonce is acquired when State.Nonce is nil.              *)

Known == {t.nonce : t \in {u \in Txs : status[u] # "none"}}
Store(t, s) == IF UseTxStore THEN [status EXCEPT ![t] = s] ELSE status

Update(e, new) == execs' = (execs \ {e}) \union {new}
GoTo(e, place) == Update(e, [e EXCEPT !.at = place])

\* signAndBroadcastTransaction tracks what it signed, whatever the node replies.
Signed(e) == [e EXCEPT !.old = @ \union {e.cur}]
Renounced(e) == [e EXCEPT !.cur.nonce = None]

\* handleMinedTx persists the outcome.
Outcome(t) == IF Succeeded(t) THEN "mined" ELSE "reverted"

IsResumed(e) == e.orig.nonce # None
Monitors == {e \in execs : IsResumed(e)}

\* The execution ends and its state is gone.  What is made of the result is
\* resumeTransaction's; a new payment's goes to the application.
Over(e, place) == [e EXCEPT !.cur = e.orig, !.old = {}, !.at = place]
Returns(e, result) ==
    execs' = (execs \ {e}) \union (IF IsResumed(e) THEN {result} ELSE {})

\* executeTransactionLoop's deferred clean-up: a resync if anything was signed.
ReturnsError(e) == IF e.old = {} THEN execs' = execs \ {e} ELSE Update(e, Over(e, "erred"))

\* The application sends when Recover has returned.
Begin(p) ==
    /\ rec.at = "done"
    /\ asked[p] = "not yet"
    /\ Cardinality(execs \ Monitors) < MaxSenders
    /\ \A q \in 1 .. (p - 1) : asked[q] # "not yet"
    /\ asked' = [asked EXCEPT ![p] = "begun"]
    /\ execs' = execs \union {[orig |-> Unsent(p), cur |-> Unsent(p), old |-> {}, at |-> "build"]}
    /\ UNCHANGED <<trackerVars, netVars, storeVars, rec, taken, boundVars>>

\* acquireNonce, and the first half of persistNonceAcquisition.
Acquire(e) ==
    /\ e.at = "build"
    /\ \E counts \in Counts, n \in Nonces :
           /\ ReadCounts(counts)
           /\ AcquireNonce(counts.mined, counts.pending, Known, n)
           /\ reserved' = reserved \union {n}
           /\ Update(e, [e EXCEPT !.cur.nonce = n, !.at = "acquired"])
    /\ UNCHANGED <<netVars, saved, status, asked, rec, taken, crashes>>

\* The bound on the nonces ends an execution as a failing read does.
OutOfNonces ==
    /\ Gaps(Pending, Known) = {}
    /\ NextNonce(Mined, Pending) > MaxNonce

AcquireFails(e) ==
    /\ e.at = "build"
    /\ \/ \E counts \in Counts :
              /\ ReadCounts(counts)
              /\ AbnormalNonceState(counts.mined, counts.pending, Known)
       \/ Fault("reader") /\ UNCHANGED trackerVars
       \/ OutOfNonces /\ NoFault /\ UNCHANGED trackerVars
    /\ ReturnsError(e)
    /\ UNCHANGED <<netVars, storeVars, asked, rec, taken, crashes>>

\* SavePendingNonce stores the nonce just USED, in the order the goroutines get
\* to it.
SaveNonce(e) ==
    /\ e.at = "acquired"
    /\ saved' = e.cur.nonce
    /\ GoTo(e, "built")
    /\ UNCHANGED <<trackerVars, netVars, reserved, status, asked, rec, taken, boundVars>>

\* The simulation or the signing fails and the nonce is given back, even one that
\* an earlier transaction of this execution is pending with.
GiveUp(e) ==
    /\ e.at = "built"
    /\ Fault("giveUp")
    /\ ReleaseNonce(e.cur.nonce)
    /\ reserved' = reserved \ {e.cur.nonce}
    /\ taken' = IF \E t \in e.old : t.nonce = e.cur.nonce THEN {} ELSE taken
    /\ ReturnsError(e)
    /\ UNCHANGED <<netVars, saved, status, asked, rec, crashes>>

Broadcast(e) ==
    /\ e.at = "built"
    /\ NodeAccepts(e.cur)
    /\ Update(e, [Signed(e) EXCEPT !.at = "sent"])
    /\ UNCHANGED <<trackerVars, storeVars, asked, rec, taken, crashes>>

\* registerBroadcastedTx and persistTxBroadcast.
Register(e) ==
    /\ e.at = "sent"
    /\ SetPendingNonce(e.cur.nonce)
    /\ status' = Store(e.cur, "broadcasted")
    /\ GoTo(e, "watch")
    /\ UNCHANGED <<netVars, saved, reserved, asked, rec, taken, boundVars>>

-----------------------------------------------------------------------------
(* handleBroadcastError.  A transaction a node knows already is submitted  *)
(* again until it is mined, which changes nothing here.                    *)

\* handleMinedTx; a transaction that reverted is returned with an error.
SeenMined(e, t) ==
    /\ status' = Store(t, Outcome(t))
    /\ IF Succeeded(t) THEN Returns(e, [Over(e, "mined") EXCEPT !.cur = t])
                       ELSE Update(e, Over(e, "erred"))

\* handleNonceIsLowError looks up what was signed.  When it finds nothing mined,
\* or cannot tell, the payment is made at another nonce, unless the retries end.
RefusedLow(e) ==
    LET s == Signed(e) IN
    /\ e.at = "built"
    /\ e.cur.nonce < Mined
    /\ \/ NoFault /\ \E t \in s.old \intersect Landed : SeenMined(e, t)
       \/ /\ \/ s.old \intersect Landed = {} /\ NoFault
             \/ Fault("lookup")
          /\ Update(e, [Renounced(s) EXCEPT !.at = "gap"])
          /\ UNCHANGED status
       \/ /\ Fault("giveUp")
          /\ Update(e, Over(e, "erred"))
          /\ UNCHANGED status
    /\ UNCHANGED <<trackerVars, netVars, saved, reserved, asked, rec, taken, crashes>>

Bumped(e) ==
    IF e.cur.bump < MaxBump THEN [e EXCEPT !.cur.bump = @ + 1, !.at = "built"]
                            ELSE Over(e, "erred")

\* handleReplacementUnderpricedError: a transaction of its own is replaced, and
\* another's leaves it to pay at another nonce.
RefusedUnderpriced(e) ==
    LET s == Signed(e) IN
    /\ e.at = "built"
    /\ e.cur.nonce >= Mined /\ e.cur \notin pool
    /\ \E other \in PoolAt(e.cur.nonce) : other.bump >= e.cur.bump - 1
    /\ Update(e, IF \E t \in e.old \ {e.cur} : t.nonce = e.cur.nonce
                 THEN Bumped(s)
                 ELSE [Renounced(s) EXCEPT !.at = "build"])
    /\ UNCHANGED <<trackerVars, netVars, storeVars, asked, rec, taken, boundVars>>

\* handleNonceGapError: some nodes queue the transaction, others refuse it.
RefusedGap(e) ==
    /\ e.at = "built"
    /\ e.cur.nonce > Pending
    /\ Update(e, [Renounced(Signed(e)) EXCEPT !.at = "gap"])
    /\ UNCHANGED <<trackerVars, netVars, storeVars, asked, rec, taken, boundVars>>

-----------------------------------------------------------------------------
(* handleTransactionStatus, and how an execution ends.                     *)

\* Lost, or slow and the next to be mined.
NeedsBump(e) ==
    /\ e.at = "watch"
    /\ e.cur.nonce >= Mined
    /\ e.cur \notin pool \/ e.cur.nonce = Mined

Bump(e) ==
    /\ NeedsBump(e)
    /\ Update(e, Bumped(e))
    /\ UNCHANGED <<trackerVars, netVars, storeVars, asked, rec, taken, boundVars>>

SeesMined(e) ==
    /\ e.at = "watch"
    /\ e.cur \in Landed
    /\ SeenMined(e, e.cur)
    /\ UNCHANGED <<trackerVars, netVars, saved, reserved, asked, rec, taken, boundVars>>

\* The nonce was consumed, perhaps by this very transaction; or the context ends.
Fails(e) ==
    /\ \/ e.at = "watch" /\ e.cur.nonce < Mined /\ NoFault
       \/ e.at \in {"watch", "build"} /\ Fault("giveUp")
    /\ ReturnsError(e)
    /\ UNCHANGED <<trackerVars, netVars, storeVars, asked, rec, taken, crashes>>

\* resyncNonceFromChain, before a retry or in the deferred clean-up.
Resync(e) ==
    /\ e.at \in {"gap", "erred"}
    /\ \/ \E counts \in Counts :
              /\ ReadCounts(counts)
              /\ ResyncFromRemote(counts.mined, counts.pending)
              /\ taken' = {}
       \/ Fault("reader") /\ UNCHANGED <<trackerVars, taken>>
    /\ IF e.at = "gap" THEN GoTo(e, "build") ELSE Returns(e, Over(e, "failed"))
    /\ UNCHANGED <<netVars, storeVars, asked, rec, crashes>>

-----------------------------------------------------------------------------
\* The process dies and starts again: what it had begun is lost, what it had not
\* it still may.
Crash ==
    /\ crashes < MaxCrashes
    /\ crashes' = crashes + 1
    /\ stored' = None /\ claimed' = {}
    /\ asked' = [p \in Payments |-> IF asked[p] = "begun" THEN "lost" ELSE asked[p]]
    /\ execs' = {}
    /\ rec' = [Recovered EXCEPT !.at = "reconcile"]
    /\ taken' = {}
    /\ UNCHANGED <<netVars, storeVars, faults>>

-----------------------------------------------------------------------------
(* reconcileNonceState: the one NonceState the store lists, if it has any. *)

ReconcileNothing ==
    /\ rec.at = "reconcile"
    /\ \/ saved = None /\ reserved = {} /\ NoFault
       \/ Fault("chain")
    /\ rec' = [rec EXCEPT !.at = "list"]
    /\ UNCHANGED <<trackerVars, netVars, storeVars, asked, execs, taken, crashes>>

ReadChain ==
    /\ rec.at = "reconcile"
    /\ saved # None \/ reserved # {}
    /\ \E counts \in Counts :
           /\ ReadCounts(counts)
           /\ rec' = [rec EXCEPT !.at = "apply", !.remote = counts]
    /\ UNCHANGED <<trackerVars, netVars, storeVars, asked, execs, taken, crashes>>

\* Mutant: the chain's counts alone.
ReconciledWithoutLocal(counts) == Larger(counts.mined, counts.pending)

Reconciled(counts) == Larger(Larger(saved, 0), Larger(counts.mined, counts.pending))

Reconcile ==
    LET next == Reconciled(rec.remote) IN
    /\ rec.at = "apply"
    /\ IF next > 0 THEN SetPendingNonce(next - 1) ELSE UNCHANGED trackerVars
    /\ reserved' = {n \in reserved : n >= rec.remote.mined}
    /\ rec' = [rec EXCEPT !.at = "list", !.remote = NoReplies]
    /\ taken' = {n \in 0 .. (saved - 1) : UseTxStore => n \in Known}
    /\ UNCHANGED <<netVars, saved, status, asked, execs, boundVars>>

-----------------------------------------------------------------------------
(* processPendingTransactions. *)

ListAllPending ==
    /\ rec.at = "list"
    /\ rec' = [rec EXCEPT !.at = "process", !.todo = {t \in Txs : status[t] = "broadcasted"}]
    /\ UNCHANGED <<trackerVars, netVars, storeVars, asked, execs, taken, boundVars>>

Processed(t) == [rec EXCEPT !.todo = @ \ {t}]

\* No reader: the transaction keeps its status and is not monitored, and the
\* result says so.
ProcessUnread(t) ==
    /\ rec.at = "process"
    /\ Fault("reader")
    /\ rec' = [Processed(t) EXCEPT !.errors = @ \union {t}]
    /\ UNCHANGED <<trackerVars, netVars, storeVars, asked, execs, taken, crashes>>

ProcessFinal(t) ==
    /\ rec.at = "process"
    /\ t \in Landed
    /\ status' = Store(t, Outcome(t))
    /\ rec' = Processed(t)
    /\ UNCHANGED <<trackerVars, netVars, saved, reserved, asked, execs, taken, boundVars>>

\* Not found; a lookup that fails counts as not found.
ProcessDropped(t) ==
    /\ rec.at = "process"
    /\ \/ t \notin pool \union Landed /\ NoFault
       \/ Fault("lookup")
    /\ status' = Store(t, "dropped")
    /\ rec' = Processed(t)
    /\ UNCHANGED <<trackerVars, netVars, saved, reserved, asked, execs, taken, crashes>>

\* Mutant: counted as recovered, and not resumed.
ProcessPendingUnwatched(t) ==
    /\ rec.at = "process"
    /\ t \in pool
    /\ rec' = Processed(t)
    /\ UNCHANGED <<trackerVars, netVars, storeVars, asked, execs, taken, boundVars>>

ProcessPending(t) ==
    /\ rec.at = "process"
    /\ t \in pool
    /\ rec' = [Processed(t) EXCEPT !.at = "spawn", !.next = {t}]
    /\ UNCHANGED <<trackerVars, netVars, storeVars, asked, execs, taken, boundVars>>

\* ResumePendingTransaction goes straight to monitoring t, which is in OldTxs.
Watch(t) == [orig |-> t, cur |-> t, old |-> {t}, at |-> "watch"]

\* The semaphore, then the goroutine.
Spawn ==
    /\ rec.at = "spawn"
    /\ rec.slots < MaxMonitors
    /\ execs' = execs \union {Watch(t) : t \in rec.next}
    /\ rec' = [rec EXCEPT !.at = "process", !.next = {}, !.slots = @ + 1]
    /\ UNCHANGED <<trackerVars, netVars, storeVars, asked, taken, boundVars>>

\* Mutant: it waits for the transactions it resumed.
RecoverReturnsWhenMonitored ==
    /\ rec.at = "process"
    /\ rec.todo = {}
    /\ rec.slots = 0
    /\ rec' = [rec EXCEPT !.at = "done"]
    /\ UNCHANGED <<trackerVars, netVars, storeVars, asked, execs, taken, boundVars>>

RecoverReturn ==
    /\ rec.at = "process"
    /\ rec.todo = {}
    /\ rec' = [rec EXCEPT !.at = "done"]
    /\ UNCHANGED <<trackerVars, netVars, storeVars, asked, execs, taken, boundVars>>

-----------------------------------------------------------------------------
(* resumeTransaction: what is made of the result.                          *)

Release(m) ==
    /\ execs' = execs \ {m}
    /\ rec' = [rec EXCEPT !.slots = @ - 1]
    /\ UNCHANGED <<trackerVars, netVars, saved, reserved, asked, taken, boundVars>>

\* Mutant: the slot is given back only when the transaction succeeded.
MonitorReturnsErrorHoldingSlot(m) ==
    /\ m.at = "failed"
    /\ status' = Store(m.orig, "dropped")
    /\ execs' = execs \ {m}
    /\ UNCHANGED <<trackerVars, netVars, saved, reserved, asked, rec, taken, boundVars>>

\* Any error, ErrTxReverted among them, marks the original dropped.
MonitorReturnsError(m) ==
    /\ m.at = "failed"
    /\ status' = Store(m.orig, "dropped")
    /\ Release(m)

\* Mutant: the replacement is not told from the original.
MonitorReturnsSwapped(m) ==
    /\ m.at = "mined"
    /\ status' = IF m.cur = m.orig THEN status
                 ELSE [Store(m.orig, "mined") EXCEPT ![m.cur] = "replaced"]
    /\ Release(m)

\* A mined transaction that is not the original replaced it, whichever its nonce.
MonitorReturns(m) ==
    /\ m.at = "mined"
    /\ status' = IF m.cur = m.orig THEN status
                 ELSE [Store(m.orig, "replaced") EXCEPT ![m.cur] = "mined"]
    /\ Release(m)

-----------------------------------------------------------------------------
RecoverStep ==
    \/ ReconcileNothing
    \/ ReadChain
    \/ Reconcile
    \/ ListAllPending
    \/ \E t \in rec.todo : \/ ProcessUnread(t)
                           \/ ProcessFinal(t)
                           \/ ProcessDropped(t)
                           \/ ProcessPending(t)
    \/ Spawn
    \/ RecoverReturn

ExecStep(e) ==
    \/ Acquire(e)
    \/ AcquireFails(e)
    \/ SaveNonce(e)
    \/ GiveUp(e)
    \/ Broadcast(e)
    \/ Register(e)
    \/ RefusedLow(e)
    \/ RefusedUnderpriced(e)
    \/ RefusedGap(e)
    \/ Bump(e)
    \/ SeesMined(e)
    \/ Fails(e)
    \/ Resync(e)
    \/ MonitorReturnsError(e)
    \/ MonitorReturns(e)

Next ==
    \/ \E p \in Payments : Begin(p)
    \/ \E e \in execs : ExecStep(e)
    \/ RecoverStep
    \/ Crash
    \/ Mine
    \/ Evict

Spec == Init /\ [][Next]_vars

\* The process and the network do not stop while Recover or a goroutine can run,
\* or the next transaction be mined.
Fairness == WF_vars(RecoverStep \/ (\E e \in execs : ExecStep(e)) \/ Mine)

FairSpec == Spec /\ Fairness

-----------------------------------------------------------------------------
\* What recovery.go:26-258 and the executions read and write, and the semaphore
\* that counts the resumed ones still running.
TypeOK ==
    /\ stored \in {None} \union Nonces
    /\ claimed \subseteq Nonces
    /\ chain \in Seq([tx : Txs, ok : BOOLEAN]) /\ Len(chain) <= MaxNonce + 1
    /\ pool \subseteq Txs
    /\ saved \in {None} \union Nonces
    /\ reserved \subseteq Nonces
    /\ status \in [Txs -> Statuses]
    /\ asked \in [Payments -> {"not yet", "begun", "lost"}]
    /\ rec.at \in {"reconcile", "apply", "list", "process", "spawn", "done"}
    /\ rec.remote \in Replies
    /\ rec.todo \subseteq Txs
    /\ rec.next \subseteq Txs
    /\ rec.errors \subseteq Txs
    /\ rec.slots = Cardinality(Monitors) /\ rec.slots <= MaxMonitors
    /\ \A e \in execs :
           /\ e.orig \in Origs
           /\ e.cur \in [nonce : {None} \union Nonces, pay : {e.orig.pay}, bump : 0 .. MaxBump]
           /\ e.old \subseteq {t \in Txs : t.pay = e.orig.pay}
           /\ e.at \in Places
    /\ taken \subseteq Nonces
    /\ crashes \in 0 .. MaxCrashes
    /\ faults \in 0 .. MaxFaults

\* persistence.go:16-29, a status is what happened to the transaction, across
\* crashes, replacements, moves to another nonce and two executions of the same
\* payment: a "mined" one executed, a "reverted" one was mined and did not, and
\* one "replaced" left its payment to another transaction, which executed.
FinalStatusTruthful ==
    \A t \in Txs :
        /\ status[t] = "mined" => Succeeded(t)
        /\ status[t] = "reverted" => t \in Landed /\ ~Succeeded(t)
        /\ status[t] = "replaced" => \E u \in Txs \ {t} : u.pay = t.pay /\ Succeeded(u)

\* recovery.go:26-29, "resumes monitoring pending transactions": when Recover has
\* returned, a transaction recorded as pending that a node holds is that of a
\* running execution, or is one the result reports an error for, or belongs to a
\* payment the process began since, or was told the end of: one of its
\* transactions is stored as given up, or as mined.
EndStored(p) == \E t \in Txs : t.pay = p /\ status[t] \in {"dropped", "mined"}

NothingLeftBehind ==
    (rec.at = "done" /\ crashes > 0) =>
        \A t \in pool : status[t] = "broadcasted" =>
            \/ \E e \in execs : e.orig.pay = t.pay
            \/ t \in rec.errors
            \/ asked[t.pay] = "begun"
            \/ EndStored(t.pay)

\* recovery.go:90-100, the reconciled tip is at least the persisted one: after a
\* restart no execution is given the nonce of a transaction the store knew before
\* it, below LocalPendingNonce, whatever the nodes answered to Recover and whoever
\* gives its nonce back.  This ends with a resync, which trusts the nodes alone,
\* and with an execution that gives back a nonce it has a transaction for.
FloorHolds ==
    [][\A e \in execs : e.at = "build" =>
           \A f \in execs' : f.orig = e.orig /\ f.at = "acquired" => f.cur.nonce \notin taken]_vars

\* A transaction waits for a nonce no node has a transaction for.
BehindHole(e) ==
    /\ e.at = "watch" \/ (e.at = "built" /\ e.cur \in pool)
    /\ e.cur.nonce > Mined
    /\ PoolAt(Mined) = {}

\* recovery.go:184, the semaphore: Recover returns although it may monitor fewer
\* transactions at a time than it found, except when every slot is held by one
\* that waits for a nonce nobody sends, because sending waits for Recover.
RecoverReturns ==
    []<>(\/ rec.at = "done"
         \/ /\ rec.at = "spawn"
            /\ Cardinality(execs) = MaxMonitors
            /\ \A e \in execs : BehindHole(e))

\* README.md:752, what persistence is for, "If the RPC's pending state lags, you
\* might reuse a nonce that was already broadcast": no two payments are ever in
\* the mempools with one nonce.
OnePaymentPerNonce ==
    \A t, u \in pool : t.nonce = u.nonce => t.pay = u.pay
=============================================================================
