# Formal verification of walletarmy

walletarmy is a Go library that sends Ethereum transactions for many wallets:
it assigns nonces to concurrent callers, builds, simulates, signs and
broadcasts, then monitors each transaction, replaces it when it is slow and
recovers after a crash. This directory holds TLA+ models of it, the TLC runs
that check them and TLAPS proofs about them. Source lines are cited as
`file:line` of the repository.

## The system

| Part | State | Operations | Hard about it |
|---|---|---|---|
| Nonce tracker (`internal/nonce/tracker.go`) | per (wallet, chain): last used nonce, claimed nonces | `AcquireNonce`, `SetPendingNonce`, `ReleaseNonce`, `ResyncFromRemote`, under one lock per wallet | network counts are read before the lock; gap search; releases below the tip; resync moves the tip back |
| Low-level API (`manager_nonce.go`, `manager_tx.go`: `BuildTx`, `BroadcastTx`, `ReleaseNonce`) | none of its own | acquire, register, persist | registration is not atomic with the node's acceptance; replies are lost; callers abandon transactions |
| Execution loop (`manager_tx.go`: `executeTransactionLoop` and its handlers, `execution_context.go`) | `TxRetryState`: attempts, gas, nonce, signed transactions, the one to resume | build, simulate, sign, broadcast (asynchronous, or synchronous with a timeout), nine error handlers, monitor, bump, exit | several calls share one tracker; every failure path has to account for the nonce; uncounted retries; an answer that comes after its timeout |
| Monitor adapter (`MonitorTxContext`) | a goroutine, a timer, two channels | events to statuses | stops listening after the first non-final event |
| Recovery (`recovery.go`, `persistence.go`) | NonceStore, TxStore, a semaphore | reconcile, process pending, resume | crash between steps, stored nonce one short, RPC errors taken for dropped, several writers of one status |
| Idempotency (`idempotency/idempotency.go`, `request.go:264-318`) | records with a time to live | get, create, update, clean-up | expiry during execution, get/create race |
| Circuit breaker (`internal/circuitbreaker`) | state, two counters, last failure time | allow, record success or failure, reset | answers that arrive in another state than they were asked in |
| Network access (`manager_network.go`) | lazily created clients behind the breaker, gas cache | `Reader`, `Analyzer`, `Broadcaster`, `GasSetting` | double-checked initialisation that may fail half-way, stale gas |
| Everything else (`options.go`, `hook.go`, `adapters.go`, `error_decoder.go`, `types.go`, `manager.go`, `testutil`, `examples`) | configuration | setters, conversions | not stateful logic |

`EnsureTx` calls `BuildTx` (which acquires a nonce from the tracker), then the
signer, then the broadcaster; a success is registered in the tracker and the
TxStore; the monitor reports back to the loop; errors come back through
`handleBroadcastError`, some of which resync the tracker all calls share.
The tracker is the meeting point of all concurrency in the library, and the
loop is where nearly all of its decisions are: they are modelled first.

What must be true of each part:

* tracker and API: a nonce is reserved for one caller at a time; nothing that
  was given back stays hidden; a used nonce is not issued again without need;
* loop: a call pays at most once, accounts for every nonce it takes, reports
  truthfully how it ended, and ends;
* recovery: no live transaction is dropped, no nonce reused after a restart;
* idempotency: at most one execution of a key, whose result is kept;
* breaker: opens and closes only on unbroken streaks, and always admits
  requests again;
* network: everyone uses the same clients, and no failing factory blocks others.

## Modules

| Module | Models | Role |
|---|---|---|
| `NonceTracker` | `internal/nonce/tracker.go`, one (wallet, chain) key | the tracker's operations as action operators; extended by the two below |
| `NonceAllocator` | the promise of `acquireNonce` (`manager_nonce.go:23-26`) | abstract specification |
| `NonceManager` | `manager_nonce.go`, `BuildTx`, `BroadcastTx`, `ReleaseNonce` used by concurrent goroutines | composition of the tracker, its callers and the network; implements `NonceAllocator` |
| `NonceTrackerProofs` | | lemmas about the tracker's operations, used by the proofs about its users |
| `NonceManagerProofs` | | theorems about `NonceManager` |
| `TxExecution` | the execution loop, its handlers, the monitor and `ResumePendingTransaction`, several calls on one tracker | composition of the tracker, the calls and the network |
| `TxExecutionProofs` | | theorems about `TxExecution`; what its handlers make of a call |
| `OneNonceProofs`, `ClaimProofs` | | the two further theorems about `TxExecution`, on `TxExecutionProofs` |
| `Recovery` | `recovery.go` and the persistence calls, with crashes | composition of the tracker, the stores, the network, `Recover`, and the executions of new and of resumed payments |
| `RecoveryProofs` | | theorems about `Recovery` |
| `CircuitBreaker` | `internal/circuitbreaker/circuitbreaker.go`, one network | the breaker's operations as action operators; extended by `Network` |
| `Network` | `manager_network.go` (without the gas cache) used by concurrent goroutines | composition of the breaker, the initialisation and its callers |
| `NetworkProofs` | | theorems about `Network` |
| `Idempotency` | `idempotency/idempotency.go`, `request.go:264-318`, one key | concurrent requests on the store |
| `IdempotencyProofs` | | theorems about `Idempotency` |
| `MCNonceManager`, `MCTxExecution`, `MCRecovery`, `MCNetwork`, `MCIdempotency` | | what TLC instantiates; symmetry sets |

### How the state corresponds to the code

`NonceTracker`: `stored` is `pendingNonces[wallet][chainID]` (the LAST used
nonce; `None` is an absent entry), `claimed` is `claimedGaps`. No operation
touches two keys, so one key is the whole behaviour. `Gaps` is the gap finder
(`findNonceGap`), which runs under the same lock. A definition above another
whose comment says "mutant" is not part of the model: it is the bug the
property below has to notice.

`NonceManager`: a goroutine is `idle`, has read both counts (`ready`, replies
in `remote`), holds a built transaction (`built`, nonce in `held`), has it
accepted by a node (`sent`), has registered it (`registered`). Steps are cut
where another goroutine or the network can act: the RPC reads, the tracker's
lock, the broadcast, the two halves of `registerBroadcastedTx`. The nodes
behind the Reader may lag, each read by its own amount: the mined count may be
any earlier one, the pending count any prefix of the mempool. TxStore lookups
and saves may fail. `accepted` and `abandoned` are history variables.

`TxExecution`: `call[p]` holds `TxRetryState` (`attempts`, `nonce`, `price`,
`resume`, `old` for OldTxs) and where the code is (`at`, `tx`, `remote`,
`then`). One action per handler outcome; what a handler does between two
shared steps is in the action of the RPC before it. The chain and the mempool
hold transactions, not just nonces, so that a node can reject: too low, known,
underpriced, a nonce gap (some nodes queue it instead), or any other error
after which it may or may not have kept the transaction. Gas is one price on
an integer scale; a bump adds one; `MaxPrice` is the cap of `GasBounds`. A
transaction is identified by caller, nonce and price, which is what its hash
depends on here.

On a network with synchronous transactions (`sync`) a submission is put in
`inflight` and the call waits: for the receipt, for a refusal, for the timeout
(the node knows the transaction, or not), or for its context. A submission that
timed out may still reach a node. A call may start as the one
`ResumePendingTransaction` builds around a transaction found pending; then the
tip is restored or not, because the NonceStore is optional.

Every failure is an action that consumes one of `MaxFaults` and belongs to a
kind in `Faults`: `estimate`, `read`, `fee`, `simulation` (an error, or no
reader), `revert`, `sign` (hook, signer or address), `broadcast`, `afterHook`,
`txStatus` (`TxInfoFromHash`), `nonceStatus`, `execution` (reverted on chain,
or the mined hook refuses), `cancel` (context), `lag` (a pending count behind
the mined one), `foreign` (another program with the same key), `evict`.

`Recovery`: `saved` and `reserved` are the persisted `NonceState`, `status` the
TxStore; they and the network survive `Crash`, the tracker and the executions
(`execs`) do not. `rec` is where `Recover` is: reconciling, listing, processing
one transaction after another, waiting for the semaphore, done. An execution is
one goroutine in `executeTransactionLoop`, of a new payment or of the transaction
`orig` that `Recover` resumed; both run the same code and here the same actions.
`cur` is the transaction it is at (its nonce is `State.Nonce`), `old` its OldTxs,
`at` its place. It is cut where a crash or another goroutine can fall between two
effects: acquisition, the save of the nonce, the broadcast, the registration, each
refusal of a node (which may drop the nonce and lead to another, with a resync of
the shared tracker), the bump, the error, the resync of the deferred clean-up, and
what `resumeTransaction` makes of the result. A handler's resync that comes before
the retry or the return is the `Resync` step that follows it. `asked[p]` says
whether the application asked for a payment and whether a crash cost it the
answer: `Crash` makes every one that was begun `lost` and leaves the others to
begin after it. Fault kinds: `lag`, `evict`, `execution` (reverted), `chain` (a
read in the reconciliation fails), `reader` (no reader, or a count that cannot be
read), `lookup` (`TxInfoFromHash` fails), `giveUp` (a simulation, hook or signer
refuses, the context ends, or the retries are used up). `taken` is a history
variable: the nonces the tip `Recover` reconciled is there to protect.

`CircuitBreaker` and `Network`: the breaker's four fields, with the counters cut
at their thresholds and the time since the last failure at `Timeout`; half-open
is computed, as in the code. `created[k]` counts how many clients of a kind were
stored, so that replacing one is visible. A call is cut at the breaker, at the
unlocked load, at the lock, and around every factory; `Reader`, `Analyzer` and
`Broadcaster` are the same code for three kinds. The monitor's factory may give
none (the default one does for a reader of the application's own), and then none is
stored. `Report` is `RecordNetworkSuccess` and `RecordNetworkFailure`: anyone may
call them, admitted or not, any number of times. `reports`, `initFailed` and
`noMonitor` are history variables.

`Idempotency`: `stored` is the record in the map, named by the request that
created it; `record` holds the fields. A request that was handed a record whose
request has not yet called `Update` reads it without the lock (`raced`), each
field before or after the write. Time is discrete and a record expires when it
is older than `TTL`.

## Runs

| Run | Question | Instance | Result |
|---|---|---|---|
| `nonce_txstore` | Do gap filling, lag, lost replies and failing stores break exclusive reservation or hide what was given back? | 2 goroutines, nonces 0-2, TxStore, lost replies | holds |
| `nonce_plain` | Without a TxStore, is every nonce held once and never reissued? | 3 goroutines, nonces 0-3, first nonce already mined | holds |
| `txexec_single` | Does one call always end, know what it signed, and never pay at two nonces, whatever fails? | 1 call, fresh or resumed, with and without synchronous broadcast, 2 attempts, prices 1-2, nonces 0-4, 3 faults of 13 kinds | holds |
| `txexec_pair` | Do two calls on one tracker stay correct under out-of-order broadcast, resync and eviction? | 2 calls, fresh or one resumed, TxStore, 1 attempt, prices 1-2, nonces 0-3, 2 faults of 4 kinds | holds |
| `recovery` | Does a crash anywhere lose a transaction, reuse a nonce, falsify a status or block recovery? | 3 payments, sent one at a time, 1 crash, nonces 0-2, 2 monitors, 1 bump, 1 fault of 7 kinds | holds |
| `network` | Do concurrent callers of a failing network share clients, a truthful breaker, and return? | 2 goroutines, thresholds 2 and 2, timeout 2 | holds |
| `idempotency` | Is a key executed once per TTL, and is an answered success true? | 3 requests, TTL 1, clock 0-3 | holds |
| `txexec_double_payment` | "track every signed tx ... to avoid orphaning txs" (`manager_tx.go:969-973`) | 1 call, faults `broadcast`, `txStatus` | violated |
| `txexec_release` | "never release a nonce for a tx that was already tracked" (`manager_tx.go:844-848`) | 1 call, fault `sign` | violated |
| `txexec_consumed` | "Another transaction with this nonce has already been mined" (`manager_tx.go:1365`) | 1 call, no fault | violated |
| `txexec_holders` | "subsequent calls will get a different nonce" (`manager_nonce.go:23-26`) | 2 calls, no fault | violated |
| `recovery_reuse` | "used to prevent reuse after crash" (`persistence.go:64-65`), "you might reuse a nonce that was already broadcast" (`README.md:752`, of running without stores) | 3 payments, 1 crash, lagging nodes | violated |

Properties:

* `UniqueFreeHolder`, `UniqueHolder`: no two goroutines hold the same nonce
  (that no node has accepted a transaction for; at all, without gap search).
  A gap search may hand out an accepted nonce, because acceptance and the
  TxStore record are separate steps; the node then rejects or replaces.
* `NoLeakedClaim`: a nonce hidden from the gap finder is in use, was broadcast,
  or was abandoned. The last disjunct is what the code does, and is a hazard:
  the documentation of `acquireNonce` says such nonces are filled.
* `ImplementsAllocator`: every step is a step or a stutter of `NonceAllocator`,
  which without a TxStore also never issues an accepted nonce again.
* `OneNonceAlive`: the transactions of one call that are mined or in a mempool
  all have one nonce, so at most one of them can ever be mined. (Not on every
  network: see "What is not claimed".)
* `NoOrphanClaim`: each claim belongs to a call still working on the nonce, or
  that signed a transaction with it, unless a context was cancelled or a fee
  lookup failed.
* `SignedTracked`: whatever a node has, or may still receive, of a call is among
  the transactions the call tracks, except after its context was cancelled.
* `Termination`: every call returns.
* `FinalStatusTruthful`: a transaction stored as "mined" executed, one stored as
  "reverted" was mined and did not, and one stored as "replaced" left its payment
  to another transaction, which executed.
* `NothingLeftBehind`: after `Recover`, a transaction recorded as pending that a
  node holds is that of a running execution, or reported, or of a payment begun
  since, or of one a transaction of which is stored as given up or as mined.
* `FloorHolds`: the tip `Recover` reconciled keeps the nonces below the persisted
  one that recorded transactions have: no execution, new or resumed, is given one
  of them, although gaps are filled, executions move between nonces and nonces are
  given back below the tip. It ends with a resync and with a nonce given back that
  is signed for (see "What is not claimed").
* `RecoverReturns`: the semaphore does not block `Recover`, except while every
  slot is held by a transaction that waits for a nonce nobody sends.
* `EveryoneSharesTheClient`: a client that was handed out is the only one of its
  kind ever created.
* `MonitorMissingForAReason`: a goroutine with a client misses the monitor only
  when the monitor's factory gave none, during an initialisation, or after one was
  cut short. The code calls the monitor without looking (`manager_tx.go:228-230`),
  so in those three cases such a goroutine panics.
* `OpensAndClosesOnStreaks`, `AdmitsAgain`, `CallsReturn`: the breaker changes
  state only on unbroken streaks, never refuses for ever unless the application
  reports failures for ever, and every call returns.
* `ExecutedOncePerTTL`, `SuccessWasExecuted`: two executions of a key start more
  than a TTL apart (or after `Delete`, or after an execution outlived its record,
  whose late `Update` may replace a younger one); a success answered from a record
  is the whole result of an execution that succeeded, unless it was read while
  being written.

### Bounds, and why they are enough

Two goroutines and three nonces give the gap search a hole, a claim below it
and a tip above it; three goroutines give an out-of-order registration between
two others. `MaxNonce` cuts a behaviour off where the next acquisition would
pass it. In `TxExecution`, two attempts reach the retry count and one retry
before it; two prices allow one bump and the refusal of the second; three
faults reach every handler from every other. `Foreign` is the name of a caller
that is none of `Procs` (`ForeignAssumption`).
The pair run has two calls because every rule between calls is between two; it
broadcasts asynchronously (see "What is not claimed").

`recovery`: three payments give two transactions pending at the crash, one below
the other, and a sender after it that runs beside both resumed executions on one
tracker; two slots of the semaphore for up to three pending transactions make
`Recover` wait; one bump gives a replacement; one failure of any kind gives each
of the ways to fail, to move to another nonce or to resync on a lagging count.
Payments are sent one at a time there; several senders with three nonces are in
`recovery_reuse`, and the four safety properties are proved for every number of
senders, monitors, bumps and failures. `network`: two goroutines are what the race
for the initialisation takes; thresholds above 1 let a streak be broken in its
middle, and the proofs cover every pair of them. `idempotency`: three requests are
an outlived execution, the one that took its place, and a third that meets the
result; the clock passes the TTL three times.

`CHECK_DEADLOCK FALSE` appears where the library is passive: in `NonceManager`
once `MaxNonce` is used up, in `Recovery` when all payments have ended, in
`Idempotency` when the clock has stopped, nobody has to do anything. `TxExecution` checks for deadlock; its `Finished` step stands for
all calls having returned.

### Fairness

`FairSpec` assumes weak fairness of each call's steps (a goroutine that can
run does, and an RPC returns: the Go scheduler and the clients' timeouts) and
of `Mine` (a transaction at the wallet's next nonce is mined in the end, which
the code relies on when it waits for a slow transaction). No failure is ever
forced by fairness, and failures are finite in number; without that bound the
uncounted retries (known transaction, nonce gap, foreign pending transaction)
could go on for ever, which is why they are listed as hazards.
`Recovery` assumes that something of `Recover`, the executions and `Mine` goes on
as long as anything of them can (weak fairness of their disjunction, the least
`RecoverReturns` needs); crashes and failures are bounded, and none is forced. `Network` assumes
weak fairness of every step of a call that has begun, of time, and strong
fairness of taking the lock (Go's mutex hands itself to a waiter after a
millisecond); a caller is never forced to ask, use, report or
reset, and never kept from reporting.

### What is not claimed

`Termination` is claimed for one call. With several calls and no TxStore a
release below the tip leaves a hole nobody fills, and the calls above it are
monitored for ever ("Non-blocking slow txs just keep waiting",
`manager_tx.go:1380`); the model shows this and the property is not claimed.
`OneNonceAlive` is not claimed for two calls on a synchronous network: a
submission that timed out is retried, the retry is refused for a nonce gap, the
handler drops the nonce (`manager_tx.go:1192-1212`) and signs at another one,
and then the first submission arrives. Nor is it claimed for one call there when
a foreign transaction takes the call's nonce and is evicted later: the call,
underpriced, moves to the next nonce, and the first submission arrives after the
eviction. `txexec_single`, which has synchronous networks, therefore evicts
nothing; `PaysOnce` is about networks that answer at once and allows evictions.
`NoOrphanClaim` is not claimed when a context is cancelled or a fee lookup fails:
a call that has signed at one nonce and keeps another for its next attempt then
leaves without releasing it (`manager_tx.go:511-525` resyncs instead), and the
claim stays when the chain cannot be read or has moved past it.
`FinalStatusTruthful` says nothing of "dropped", which any error of a resumed
execution writes, also over "reverted" (`recovery.go:224-226`); and a "replaced"
original may have been mined as well: after a failing lookup
(`manager_tx.go:323`) its execution pays again at another nonce, and
`recovery.go:234` takes the second payment for a replacement, although
`persistence.go:28` speaks of the same nonce.
`NothingLeftBehind` excepts payments a resumed execution or a failed lookup marked
dropped: the code does that for any error, also for a transaction still pending.
`FloorHolds` stops at the first resync: an execution that ends in an error after
signing sets the shared tracker to what the nodes say (`manager_tx.go:511-525`),
and when their pending count lags, the tip falls below the persisted one and the
next payment gets a recorded nonce. It stops as well when an execution whose
replacement cannot be signed gives back the nonce of its pending transaction,
which is what `txexec_release` shows. Broadcasts that a node reports as failed and
keeps, synchronous networks and hooks that refuse are in `TxExecution`, not in
`Recovery`. The second release of one nonce, by a handler and then by the deferred
clean-up, is not looked for between other calls' acquisitions by any passing run.
`AdmitsAgain` excepts an application that calls `RecordNetworkFailure` for ever:
each call restarts the open time, so that half-open may never come.
Half-open admits every request (`circuitbreaker.go:120-122` says one), and its
failure case (`:162-164`) is never taken, because the time is set before the
state is computed: a failure keeps the stored open state and restarts its time.
Since to have a client counts as a success (`manager_network.go:41`), a
goroutine that asks for the reader before every failing RPC it reports never
opens the breaker by itself.

## What the violated runs show

1. `txexec_double_payment`: a broadcast reported as failed was kept by a node
   and mined. The retry with the same nonce is refused as too low;
   `getTxStatuses` swallows a failing lookup (`manager_tx.go:323`), so the
   mined transaction goes unnoticed, the nonce is cleared, and the same payment
   is signed at another nonce.
2. `txexec_release`: `releaseNonce` compares the hash of the unsigned
   transaction with the hashes of signed ones (`manager_tx.go:850`, `:975`). When a
   replacement cannot be signed, the nonce of the pending original is released.
3. `txexec_consumed`: after "pending" the adapter stops listening
   (`manager_tx.go:298`). If the transaction is mined before the slow timer
   fires, the nonce check finds the nonce consumed (by this very transaction)
   and the caller is told that another transaction consumed it.
4. `txexec_holders`: a call rejected for a nonce gap resyncs the tracker to the
   chain, dropping the reservation of the call that holds the missing nonce, and
   then builds with that nonce itself.
5. `recovery_reuse`: nonce 0 is acquired and saved as 0, although the stored
   value is documented as the next one to use (`persistence.go:61`) and recovery
   subtracts one (`recovery.go:105`). After the crash the pending count lags,
   the maximum of the three is 0, the tracker is left empty, the reserved nonces
   are not consulted, and the next payment is sent at nonce 0 as well.

`OneNonceAlive` is violated in the first and holds in `txexec_single`: there
every other kind of failure may happen, three times, but the lookup of a
transaction's status is truthful.

## Proofs

`NonceManagerProofs` proves, for every set of goroutines and every value of the
constants that satisfies `UseTxStoreAssumption` and `BoundsAssumption`:

| Theorem | Property | Inductive invariant |
|---|---|---|
| `TypeCorrect` | `TypeOK` | itself |
| `ExclusiveReservation` | `UniqueFreeHolder` | `ReservationInv` |
| `ClaimsAreAccountedFor` | `NoLeakedClaim` | `ClaimInv` |
| `ExclusiveHolder` (no TxStore) | `UniqueHolder` | `HolderInv` |
| `AllocatorImplemented` | `ImplementsAllocator` | the above with `FreshInv` |

`UniqueFreeHolder` is not inductive: a new acquisition could coincide with a
held nonce. `ReservationInv` adds that a held nonce no node has accepted is
claimed and lies at or below the tip (`FreeHeldIsReserved`), so that neither
the gap search (which skips claims) nor the next nonce (which is above the tip)
returns it, and that every count a goroutine has read covers accepted nonces
only (`CountsAreOfAccepted`), so that the clean-up of claims below the remote
pending nonce, which uses a stale reply, removes no claim of a free nonce.
`AcquiredNonce` states once what `AcquireNonce` may return; every invariant
cites it. `ClaimInv` adds that what was sent was accepted. `HolderInv`
(`HeldBelowTip`) and `FreshInv` (accepted nonces below the tip, a built nonce
not yet accepted) hold only without a gap search and without lost replies,
which is how the theorems are stated. `AllocatorImplemented` shows that Init
implies the abstract Init and each action an abstract step or a stutter: an
acquisition is `Allocate`, an accepted broadcast `Publish`, a release or an
abandonment `GiveUp`, everything else a stutter.

`IdempotencyProofs`, for every set of requests, every TTL and clock:

| Theorem | Property | Inductive invariant |
|---|---|---|
| `TypeCorrect` | `TypeOK` | itself |
| `OneExecutionPerTTL` | `ExecutedOncePerTTL` | `Once` |
| `SuccessIsGenuine` | `SuccessWasExecuted` | `Honest` |

`ExecutedOncePerTTL` is not inductive: a new record could meet an older, live
one that is no longer in the map. `Once` adds that, while nobody deleted or
outlived, a record that still lives is the stored one (`LiveIsStored`): clean-up
and `Create` only replace expired ones, and an `Update` in time replaces its own.
`Honest` adds that a request that does not race found a finished record, that a
finished request has executed, and that its record holds its result with the
status `StatusOf` gives it.

`NetworkProofs`, for every set of goroutines, both thresholds and every timeout:

| Theorem | Property | Inductive invariant |
|---|---|---|
| `TypeCorrect` | `TypeOK` | `BreakerOK`, `CallsOK` |
| `ClientIsShared` | `EveryoneSharesTheClient` | `Shared` |
| `MonitorMissesForAReason` | `MonitorMissingForAReason` | `Shared` |
| `BreakerFollowsStreaks` | `OpensAndClosesOnStreaks` | `Streaks` |

`Shared` says that no client is created twice because the goroutine about to
create one holds the lock and has found it missing since (`CallOK`), that while
initialising it has all the earlier kinds behind it, and that a network with
some but not all clients is being initialised, failed to be, or was given no
monitor (`PartlyInitialised`). `CallMoves` states once what a step of one goroutine that
creates nothing preserves. `Streaks` ties the breaker's counters to the history:
a counter of k means that the last k reports are alike, so a step that takes a
counter to its threshold has the streak behind it (`StreakGrows`).

`TxExecutionProofs`, `OneNonceProofs` and `ClaimProofs`, for every set of calls,
every `MaxAttempts`, `MaxPrice`, `MaxNonce` and number of failures, fresh or
recovered, under `ExecutionAssumption` and `ForeignAssumption`:

| Theorem | Property | Hypotheses | Inductive invariant |
|---|---|---|---|
| `TypeCorrect` | `TypeOK` | none | `Typed` with `Tracked` |
| `EverySignedIsTracked` | `SignedTracked` | none | `Typed` with `Tracked` |
| `PaysOnce` | `OneNonceAlive` | no synchronous broadcast, no `txStatus` failure | `OneByOne` |
| `ClaimsHaveOwners` | `NoOrphanClaim` | no `cancel`, no `fee` failure | `Gripped` |

`Typed` strengthens `TypeOK` by what a place in the code implies (`CallOK`): a
watched transaction and one to be resumed are in OldTxs, a transaction being sent
is the call's own, a cancelled call only leaves, and only a resync that was told
where to go on goes on. `Tracked` says that whatever of a call is out (mined, in
the mempool, or in a synchronous submission) is in OldTxs or is the transaction of
a broadcast in progress. Every handler is put in one form: `Moves`, by what it
makes of the call and of what is out, with one lemma for each way a handler ends
(`Ends`: retry, return, bump, resync).

`OneByOne` adds what makes a second nonce safe (`Fits`): a call that watches a
transaction has no other in the mempool, and everything of it alive has that
nonce; a call that is about to build again has `State.Nonce` equal to the nonce of
everything alive, so that dropping the nonce is possible only when nothing is; and
it has outbid an own pending transaction only at the wallet's next nonce, where no
node sees a gap. `handleReplacementUnderpricedError` keeps the nonce exactly when
it signed two transactions with it, which is a statement on cardinality. The
chain's i-th transaction has nonce i-1 and the mempool one transaction of each
nonce (`ChainOrdered`, `PoolOrdered`). Both hypotheses are needed: without them
`txexec_double_payment` and the behaviours of "What is not claimed" are
counterexamples.

`Gripped` says of each claim that a call grips it: it has signed with it, or,
until it returns having signed something, builds with it or keeps it in
`State.Nonce`. A handler drops a nonce it grips only when it is signed for or
released (`Settles`), which rests on what a place implies (`Secure`): a built
transaction uses the kept nonce if there is one, a gas estimation happens only
with a nonce that is signed for or none (a retry that keeps an unsigned nonce
keeps its gas limit), and a resync that does not lead back to the loop has
signed. With `cancel` or `fee` the first fails to be enough, and TLC finds the
property violated by either, together with a foreign transaction, a reverted
simulation and a read that fails; with every other kind of failure it holds, reads
that fail included.

`RecoveryProofs`, for every number of payments, senders, crashes, slots, bumps and
failures, under `RecoveryAssumption`: one invariant, `Inv`, of five parts.

| Theorem | Property | Part of `Inv` it needs most |
|---|---|---|
| `TypeCorrect` | `TypeOK` | `Typed`, `Slots` |
| `StatusIsTruthful` | `FinalStatusTruthful` | `Truthful` |
| `NothingIsLeftBehind` | `NothingLeftBehind` | `NothingMissed` |
| `TipStaysAboveFloor` | `FloorHolds` | `FloorOK` |

`Typed` strengthens `TypeOK` by what a place implies (`Shape`): an execution works
for one payment all its life and watches only what it tracks. `Slots`: each
execution resumes a transaction of its own, and the slots taken count the resumed
ones. `Truthful`: besides the statuses, an execution that returns a transaction
returns one that executed. `NothingMissed`: from the moment the pending
transactions are listed, each is still to be processed, an error, or tended to:
its payment has a resumed execution that has not succeeded, was begun since, or
has its end stored. `FloorOK`: the taken nonces are at or below the tip and known
to the TxStore, so that neither the tip nor a gap yields one, and an execution
that builds with one has signed for it, so that it never gives one back below the
tip unseen. `Moves` states once what a step makes of its execution, and `Marks`
the only five ways in which a status changes.

Only model-checked: `Termination`, `RecoverReturns`, `AdmitsAgain` and
`CallsReturn`, since liveness under fairness is outside the proof system; and
`OneNonceAlive` for one call on a synchronous network without evictions, which
`PaysOnce` does not cover.

## Not modelled yet, and the plan

1. Proofs: `OneNonceAlive` on a synchronous network for calls that run alone and
   see no eviction; the type invariants and `SignedTracked` of what is added below.
2. The goroutine of `MonitorTxContext` with its channels, timer and context as
   separate steps, refining the `Monitor*` and `Slow*` actions.
3. The gas cache of `GasSetting`: checked and read again without a lock.

Not planned: the amounts of gas (`ExtraGasPrice`, `ExtraGasLimit`, the default
caps and bump factors), which are floating-point arithmetic on an unbounded
scale; the substring tests of `NewBroadcastError`, whose outcome is what the
`Broadcast*` actions enumerate; `setTx`, an index nothing reads; error
decoding, option setters, adapters and account unlocking (conversions and
configuration without state that can go wrong over time); the test utilities
and the examples.
