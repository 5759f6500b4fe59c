--------------------------- MODULE OneNonceProofs ---------------------------
(***************************************************************************)
(* A call pays once.  On a network that answers broadcasts at once, and    *)
(* when the lookups of getTxStatuses do not fail, the transactions of a    *)
(* call that are mined or pending all carry one nonce, for every number of *)
(* calls, retries and other failures: estimations, signatures, broadcasts  *)
(* whose transaction a node kept, evictions, lagging nodes and another     *)
(* program of the same wallet included.                                    *)
(***************************************************************************)
EXTENDS TxExecutionProofs, FiniteSetTheorems

(***************************************************************************)
(* The inductive invariant, on top of Typed and Tracked.  A call either    *)
(* watches one transaction, its only one in the mempool, or is about to    *)
(* build the next one: then State.Nonce is the nonce of everything of the  *)
(* call that is alive, and it has outbid a transaction of its own only at  *)
(* the wallet's next nonce, where no node sees a gap.                      *)
(***************************************************************************)
ChainOrdered == \A i \in DOMAIN chain : chain[i].nonce = i - 1

PoolOrdered ==
    /\ \A t \in pool : t.nonce >= Mined
    /\ \A t, u \in pool : t.nonce = u.nonce => t = u

Queue(p) == {t \in pool : t.by = p}

\* The transaction a call watches, or goes on to watch.
Focus(c) == IF c.at = "loop" THEN c.resume ELSE c.tx

Watches(c) ==
    \/ c.at \in {"register", "persist", "monitor", "waiting"}
    \/ c.at = "loop" /\ c.resume # NoTx

Rebuilds(c) ==
    \/ c.at \in {"estimateFailed", "acquire", "built", "low"}
    \/ c.at = "loop" /\ c.resume = NoTx
    \/ c.at \in {"resync", "apply"} /\ c.then = "loop"

\* Of a call with the transactions alive, those of them in queue, when mined
\* nonces are used.
Keeps(c, alive, queue, mined) ==
    \A t \in alive : /\ t.nonce = c.nonce
                     /\ t \in queue /\ t.price < Price(c) => t.nonce <= mined

Fits(p, c, alive, queue, mined) ==
    /\ c \in CallStates
    /\ c.at # "sync" /\ c.then # "receipt"
    /\ c.resume # NoTx => \/ c.at \in {"loop", "exit", "done"}
                          \/ c.at \in {"resync", "apply"} /\ c.then # "loop"
    /\ \A t \in c.old : t.by = p
    /\ c.at = "acquire" => c.nonce = None
    /\ c.at = "built" => c.tx.price = Price(c)
    /\ c.at \in {"built", "low"} => c.nonce \in {None, c.tx.nonce}
    /\ c.at = "low" => c.tx.nonce < mined
    /\ Watches(c) => \A t \in alive : /\ t.nonce = Focus(c).nonce
                                      /\ t \in queue => t = Focus(c)
    /\ Rebuilds(c) => Keeps(c, alive, queue, mined)

OneByOne ==
    /\ Typed /\ Tracked
    /\ sync = FALSE /\ inflight = {}
    /\ ChainOrdered /\ PoolOrdered
    /\ OneNonceAlive
    /\ \A p \in Procs : Fits(p, call[p], Alive(p), Queue(p), Mined)

-----------------------------------------------------------------------------
(***************************************************************************)
(* What the network holds of one call.                                     *)
(***************************************************************************)
World(p, alive, queue, mined) ==
    /\ alive \subseteq Txs /\ queue \subseteq alive /\ mined \in Nat
    /\ \A t \in alive : t.by = p /\ (t \in queue \/ t.nonce < mined)
    /\ \A t \in queue : t.nonce >= mined
    /\ \A t, u \in queue : t.nonce = u.nonce => t = u

LEMMA LandedBelow ==
    ASSUME Typed, ChainOrdered
    PROVE  Mined \in Nat /\ Landed \subseteq Txs /\ \A t \in Landed : t.nonce < Mined
  <1>1. chain \in Seq(Txs) /\ Len(chain) \in Nat /\ DOMAIN chain = 1 .. Len(chain)
    BY LenProperties DEF Typed
  <1>2. ASSUME NEW t \in Landed PROVE t \in Txs /\ t.nonce < Mined
    <2>1. PICK i \in 1 .. Len(chain) : t = chain[i]
      BY <1>1, <1>2 DEF Landed
    <2>2. t \in Txs
      BY <1>1, <2>1, ElementOfSeq
    <2>3. t.nonce = i - 1
      BY <1>1, <2>1 DEF ChainOrdered
    <2> QED BY <1>1, <2>1, <2>2, <2>3 DEF Mined
  <1> QED BY <1>1, <1>2 DEF Mined

LEMMA Worldly ==
    ASSUME OneByOne, NEW p \in Procs
    PROVE  /\ World(p, Alive(p), Queue(p), Mined)
           /\ call[p].outcome # "cancelled" => Alive(p) \subseteq Knows(call[p])
  <1>1. Typed /\ ChainOrdered /\ PoolOrdered /\ pool \subseteq Txs
    BY DEF OneByOne, Typed
  <1>2. Mined \in Nat /\ Landed \subseteq Txs /\ \A t \in Landed : t.nonce < Mined
    BY <1>1, LandedBelow
  <1>3. World(p, Alive(p), Queue(p), Mined)
    BY <1>1, <1>2 DEF World, Alive, Queue, PoolOrdered
  <1>4. call[p].outcome # "cancelled" => Alive(p) \subseteq Knows(call[p])
    BY DEF OneByOne, Tracked, Out, Alive
  <1> QED BY <1>3, <1>4

\* A call stays fit while its transactions are mined or evicted.
LEMMA FitsLess ==
    ASSUME NEW p, NEW c, NEW alive, NEW queue, NEW mined \in Nat, CallOK(p, c), alive \subseteq Txs,
           Fits(p, c, alive, queue, mined),
           NEW alive2 \in SUBSET alive, NEW queue2 \in SUBSET queue, NEW mined2 \in Nat,
           mined <= mined2
    PROVE  Fits(p, c, alive2, queue2, mined2)
  <1>1. c.at = "low" => c.tx.nonce \in Nat
    BY Numbers DEF CallOK
  <1>2. c.at = "low" => c.tx.nonce < mined2
    BY <1>1 DEF Fits
  <1>3. \A t \in alive : t.nonce \in Nat
    BY Numbers
  <1>4. Keeps(c, alive, queue, mined) => Keeps(c, alive2, queue2, mined2)
    BY <1>3 DEF Keeps
  <1> QED BY <1>2, <1>4 DEF Fits

-----------------------------------------------------------------------------
(***************************************************************************)
(* The ways a handler leaves a call, whatever is alive.                    *)
(***************************************************************************)
Own(p, c) == c \in CallStates /\ c.then # "receipt" /\ \A t \in c.old : t.by = p

LEMMA StoppedFits ==
    ASSUME NEW p, NEW d, NEW alive, NEW queue, NEW mined, Own(p, d),
           d.at \in {"exit", "done"} \/ (d.at \in {"resync", "apply"} /\ d.then # "loop")
    PROVE  Fits(p, d, alive, queue, mined)
  BY DEF Own, Fits, Watches, Rebuilds

LEMMA ReturnFits ==
    ASSUME NEW p, NEW c, Own(p, c), NEW o \in Outcomes, NEW alive, NEW queue, NEW mined
    PROVE  Own(p, Return(c, o)) /\ Fits(p, Return(c, o), alive, queue, mined)
  <1> DEFINE d == Return(c, o)
  <1>1. d \in CallStates /\ d.at = "exit" /\ d.then = c.then /\ d.old = c.old
    BY DEF Own, CallStates, Return, Places
  <1> HIDE DEF d
  <1>2. Own(p, d)
    BY <1>1 DEF Own
  <1>3. Fits(p, d, alive, queue, mined)
    BY <1>1, <1>2, StoppedFits
  <1> QED BY <1>2, <1>3 DEF d

LEMMA ReportFits ==
    ASSUME NEW p, NEW c, Own(p, c), NEW t \in Txs, NEW alive, NEW queue, NEW mined
    PROVE  Fits(p, Report(c, t), alive, queue, mined)
  <1> DEFINE d == Report(c, t)
  <1>1. d \in CallStates /\ d.at = "done" /\ d.then = c.then /\ d.old = c.old
    BY DEF Own, CallStates, Report, Places, Outcomes
  <1> HIDE DEF d
  <1>2. Own(p, d)
    BY <1>1 DEF Own
  <1>3. Fits(p, d, alive, queue, mined)
    BY <1>1, <1>2, StoppedFits
  <1> QED BY <1>3 DEF d

LEMMA MinedFits ==
    ASSUME NEW p, NEW c, Own(p, c), NEW t \in Txs, HandleMined(p, c, t),
           NEW alive, NEW queue, NEW mined
    PROVE  \E d : Go(p, d) /\ Fits(p, d, alive, queue, mined)
  <1>1. Fits(p, Report(c, t), alive, queue, mined)
    BY ReportFits
  <1>2. \A e \in {"reverted", "hook"} : Fits(p, Return(c, e), alive, queue, mined)
    BY ReturnFits DEF Outcomes
  <1> QED BY <1>1, <1>2 DEF HandleMined

LEMMA LastResyncFits ==
    ASSUME NEW p, NEW c, Own(p, c), NEW next \in {"exit", "done"}, NEW alive, NEW queue, NEW mined
    PROVE  Fits(p, Resync(c, next), alive, queue, mined)
  <1> DEFINE d == Resync(c, next)
  <1>1. d \in CallStates /\ d.at = "resync" /\ d.then = next /\ d.old = c.old
    BY DEF Own, CallStates, Resync, Places, Thens
  <1> HIDE DEF d
  <1>2. Own(p, d)
    BY <1>1 DEF Own
  <1>3. Fits(p, d, alive, queue, mined)
    BY <1>1, <1>2, StoppedFits
  <1> QED BY <1>3 DEF d

LEMMA RetryFits ==
    ASSUME NEW p, NEW e, Own(p, e), e.resume = NoTx, NEW alive, NEW queue, NEW mined,
           Keeps(e, alive, queue, mined)
    PROVE  /\ Fits(p, Retry(e), alive, queue, mined)
           /\ Fits(p, Resync(e, "loop"), alive, queue, mined)
  <1>1. ASSUME NEW d \in CallStates, d.old = e.old, d.resume = NoTx, d.nonce = e.nonce,
               d.price = e.price, d.then # "receipt",
               d.at = "loop" \/ (d.at = "resync" /\ d.then = "loop")
        PROVE  Fits(p, d, alive, queue, mined)
    <2>1. Keeps(d, alive, queue, mined)
      BY <1>1 DEF Keeps, Price
    <2> QED BY <1>1, <2>1 DEF Own, Fits, Watches, Rebuilds
  <1> DEFINE f == Retry(e)
             g == Resync(e, "loop")
  <1>2. /\ f \in CallStates /\ f.old = e.old /\ f.resume = NoTx /\ f.nonce = e.nonce
        /\ f.price = e.price /\ f.then # "receipt" /\ f.at = "loop"
    BY DEF Own, CallStates, Retry, Places
  <1>3. /\ g \in CallStates /\ g.old = e.old /\ g.resume = NoTx /\ g.nonce = e.nonce
        /\ g.price = e.price /\ g.then = "loop" /\ g.at = "resync"
    BY DEF Own, CallStates, Resync, Places, Thens
  <1> HIDE DEF f, g
  <1>4. Fits(p, f, alive, queue, mined) /\ Fits(p, g, alive, queue, mined)
    BY <1>1, <1>2, <1>3
  <1> QED BY <1>4 DEF f, g

LEMMA BumpFits ==
    ASSUME NEW p, NEW c, Own(p, c), c.resume = NoTx, NEW t \in Txs,
           NEW alive \in SUBSET Txs, NEW queue, NEW mined,
           \A u \in alive : /\ u.nonce = t.nonce
                            /\ u \in queue /\ u.price <= t.price => u.nonce <= mined
    PROVE  Fits(p, BumpOrStop(c, t), alive, queue, mined)
  <1>1. CASE CanBump(t)
    <2> DEFINE e == Bump(c, t)
    <2>1. t.price + 1 \in Prices /\ t.nonce \in Nonces /\ t.price \in Nat
      BY <1>1, ExecutionAssumption, Numbers DEF CanBump, Prices
    <2>2. /\ e \in CallStates /\ e.old = c.old /\ e.resume = NoTx /\ e.nonce = t.nonce
          /\ e.price = t.price + 1 /\ e.then = c.then
      BY <2>1 DEF Own, CallStates, Bump
    <2>3. BumpOrStop(c, t) = Retry(e)
      BY <1>1 DEF BumpOrStop
    <2> HIDE DEF e
    <2>4. Own(p, e) /\ Price(e) = t.price + 1
      BY <2>1, <2>2 DEF Own, Price
    <2>5. \A u \in alive : u.price \in Nat
      BY Numbers DEF Prices
    <2>6. Keeps(e, alive, queue, mined)
      BY <2>1, <2>2, <2>4, <2>5 DEF Keeps
    <2> QED BY <2>2, <2>3, <2>4, <2>6, RetryFits
  <1>2. CASE ~CanBump(t)
    BY <1>2, ReturnFits DEF BumpOrStop, Outcomes
  <1> QED BY <1>1, <1>2

LEMMA SameNonceFits ==
    ASSUME NEW p, NEW c, Own(p, c), c.resume = NoTx, c.tx \in Txs,
           NEW alive, NEW queue, NEW mined,
           \A u \in alive : /\ u.nonce = c.tx.nonce
                            /\ u \in queue /\ u.price < Price(c) => u.nonce <= mined
    PROVE  Fits(p, RetrySameNonce(c), alive, queue, mined)
  <1>1. CASE Exhausted(c)
    <2>1. Own(p, Return(c, "retries"))
      BY ReturnFits DEF Outcomes
    <2>2. Fits(p, Resync(Return(c, "retries"), "exit"), alive, queue, mined)
      BY <2>1, LastResyncFits
    <2> QED BY <1>1, <2>2 DEF RetrySameNonce
  <1>2. CASE ~Exhausted(c)
    <2> DEFINE e == [CountRetry(c) EXCEPT !.nonce = c.tx.nonce]
    <2>1. c.attempts + 1 \in 0 .. MaxAttempts /\ c.tx.nonce \in Nonces
      BY <1>2, ExecutionAssumption, Numbers DEF Own, CallStates, Exhausted
    <2>2. /\ e \in CallStates /\ e.old = c.old /\ e.resume = NoTx /\ e.nonce = c.tx.nonce
          /\ e.price = c.price /\ e.then = c.then
      BY <2>1 DEF Own, CallStates, CountRetry
    <2>3. RetrySameNonce(c) = Retry(e)
      BY <1>2 DEF RetrySameNonce
    <2> HIDE DEF e
    <2>4. Own(p, e) /\ Keeps(e, alive, queue, mined)
      BY <2>2 DEF Own, Keeps, Price
    <2> QED BY <2>2, <2>3, <2>4, RetryFits
  <1> QED BY <1>1, <1>2

-----------------------------------------------------------------------------
(***************************************************************************)
(* The steps of a call that leave the network alone.                       *)
(***************************************************************************)
Context(p, alive, queue, mined) ==
    /\ alive = Alive(p) /\ queue = Queue(p) /\ mined = Mined
    /\ World(p, alive, queue, mined)
    /\ CallOK(p, call[p])
    /\ Fits(p, call[p], alive, queue, mined)
    /\ call[p].outcome # "cancelled" => alive \subseteq Knows(call[p])

Lands(p, alive, queue, mined) == \E d : Go(p, d) /\ Fits(p, d, alive, queue, mined)

LEMMA TopFits ==
    ASSUME NEW p \in Procs, NEW alive, NEW queue, NEW mined, Context(p, alive, queue, mined),
           \/ Cancelled(p) \/ ResumeMonitoring(p) \/ BeginBuild(p) \/ EstimateFails(p)
           \/ ReadFails(p) \/ Acquire(p) \/ AcquireFails(p) \/ FeeFails(p)
    PROVE  Lands(p, alive, queue, mined)
  <1> DEFINE c == call[p]
  <1>0. CallOK(p, c) /\ Fits(p, c, alive, queue, mined) /\ alive \subseteq Txs
    BY DEF Context, World
  <1>1. c \in CallStates /\ Own(p, c)
    BY <1>0 DEF Fits, Own
  <1> HIDE DEF c
  <1>2. CASE Cancelled(p) \/ ReadFails(p) \/ FeeFails(p)
    <2>1. PICK o \in {"cancelled", "acquire", "fee"} : Go(p, Return(c, o))
      BY <1>2 DEF Cancelled, ReadFails, FeeFails, c
    <2> QED BY <1>1, <2>1, ReturnFits DEF Lands, Outcomes
  <1>3. CASE ResumeMonitoring(p)
    <2> DEFINE d == Monitor([c EXCEPT !.resume = NoTx], c.resume)
    <2>1. c.at = "loop" /\ c.resume # NoTx /\ Go(p, d)
      BY <1>3 DEF ResumeMonitoring, c
    <2>2. c.resume \in Txs
      BY <1>1, <2>1, CallFields
    <2>3. /\ d \in CallStates /\ d.at = "monitor" /\ d.tx = c.resume /\ d.old = c.old
          /\ d.resume = NoTx /\ d.then = c.then
      BY <1>1, <2>2 DEF CallStates, Monitor, Places
    <2> HIDE DEF d
    <2>4. Fits(p, d, alive, queue, mined)
      BY <1>0, <2>1, <2>3 DEF Fits, Watches, Rebuilds, Focus
    <2> QED BY <2>1, <2>4 DEF Lands
  <1>4. CASE BeginBuild(p)
    <2>0. c.at = "loop" /\ c.resume = NoTx /\ Keeps(c, alive, queue, mined)
      BY <1>0, <1>4 DEF BeginBuild, c, Fits, Rebuilds
    <2>1. ASSUME NEW d \in CallStates, d.at \in {"acquire", "built"}, d.nonce = c.nonce, d.price = c.price,
                 d.old = c.old, d.resume = NoTx, d.then = c.then,
                 d.at = "acquire" => c.nonce = None,
                 d.at = "built" => d.tx.nonce = c.nonce /\ d.tx.price = Price(c)
          PROVE  Fits(p, d, alive, queue, mined)
      BY <1>0, <2>0, <2>1 DEF Fits, Watches, Rebuilds, Keeps, Price
    <2>2. CASE c.nonce # None
      <3> DEFINE t == [by |-> p, nonce |-> c.nonce, price |-> Price(c)]
                 d == [c EXCEPT !.at = "built", !.tx = t]
      <3>1. Go(p, d)
        BY <1>4, <2>2 DEF BeginBuild, c
      <3>2. t \in Txs /\ t.nonce = c.nonce /\ t.price = Price(c)
        BY <1>1, <2>2, Numbers, CallFields DEF Price, Txs
      <3> HIDE DEF t
      <3>3. /\ d \in CallStates /\ d.at = "built" /\ d.tx = t /\ d.nonce = c.nonce /\ d.price = c.price
            /\ d.old = c.old /\ d.resume = c.resume /\ d.then = c.then
        BY <1>1, <3>2 DEF CallStates, Places
      <3> HIDE DEF d
      <3>4. Fits(p, d, alive, queue, mined)
        BY <2>0, <2>1, <3>2, <3>3
      <3> QED BY <3>1, <3>4 DEF Lands
    <2>3. CASE c.nonce = None
      <3>1. PICK counts \in Replies : Go(p, [c EXCEPT !.at = "acquire", !.remote = counts])
        BY <1>4, <2>3 DEF BeginBuild, c
      <3> DEFINE d == [c EXCEPT !.at = "acquire", !.remote = counts]
      <3>2. /\ d \in CallStates /\ d.at = "acquire" /\ d.nonce = c.nonce /\ d.price = c.price
            /\ d.old = c.old /\ d.resume = c.resume /\ d.then = c.then
        BY <1>1 DEF CallStates, Places
      <3>3. Go(p, d)
        BY <3>1
      <3> HIDE DEF d
      <3>4. Fits(p, d, alive, queue, mined)
        BY <2>0, <2>1, <2>3, <3>2
      <3> QED BY <3>3, <3>4 DEF Lands
    <2> QED BY <2>2, <2>3
  <1>5. CASE EstimateFails(p)
    <2> DEFINE d == [c EXCEPT !.at = "estimateFailed"]
    <2>1. c.at = "loop" /\ c.resume = NoTx /\ Go(p, d)
      BY <1>5 DEF EstimateFails, c
    <2>2. /\ d \in CallStates /\ d.at = "estimateFailed" /\ d.nonce = c.nonce /\ d.price = c.price
          /\ d.old = c.old /\ d.resume = c.resume /\ d.then = c.then
      BY <1>1 DEF CallStates, Places
    <2> HIDE DEF d
    <2>3. Fits(p, d, alive, queue, mined)
      BY <1>0, <2>1, <2>2 DEF Fits, Watches, Rebuilds, Keeps, Price
    <2> QED BY <2>1, <2>3 DEF Lands
  <1>6. CASE Acquire(p)
    <2>1. PICK n \in Nonces :
              Go(p, [c EXCEPT !.at = "built", !.remote = NoReplies,
                              !.tx = [by |-> p, nonce |-> n, price |-> Price(c)]])
      BY <1>6 DEF Acquire, c
    <2> DEFINE t == [by |-> p, nonce |-> n, price |-> Price(c)]
               d == [c EXCEPT !.at = "built", !.remote = NoReplies, !.tx = t]
    <2>2. c.at = "acquire" /\ c.nonce = None /\ c.resume = NoTx /\ Keeps(c, alive, queue, mined)
      BY <1>0, <1>6 DEF Acquire, c, Fits, Rebuilds
    <2>3. alive = {}
      BY <1>0, <2>2, Numbers DEF Keeps
    <2>4. t \in Txs /\ t.price = Price(c)
      BY <1>1, Numbers, CallFields DEF Price, Txs
    <2>5. Go(p, d)
      BY <2>1
    <2> HIDE DEF t
    <2>6. /\ d \in CallStates /\ d.at = "built" /\ d.tx = t /\ d.nonce = c.nonce /\ d.price = c.price
          /\ d.old = c.old /\ d.resume = c.resume /\ d.then = c.then
      BY <1>1, <2>4, Numbers DEF CallStates, Places
    <2> HIDE DEF d
    <2>7. Fits(p, d, alive, queue, mined)
      BY <1>0, <2>2, <2>3, <2>4, <2>6 DEF Fits, Watches, Rebuilds, Keeps, Price
    <2> QED BY <2>5, <2>7 DEF Lands
  <1>7. CASE AcquireFails(p)
    <2> DEFINE e == [c EXCEPT !.remote = NoReplies]
    <2>1. Go(p, Return(e, "acquire"))
      BY <1>7 DEF AcquireFails, c
    <2>2. e \in CallStates /\ e.old = c.old /\ e.then = c.then
      BY <1>1, Numbers DEF CallStates
    <2> HIDE DEF e
    <2>3. Own(p, e)
      BY <1>1, <2>2 DEF Own
    <2> QED BY <2>1, <2>3, ReturnFits DEF Lands, Outcomes
  <1> QED BY <1>2, <1>3, <1>4, <1>5, <1>6, <1>7

LEMMA EstimateFits ==
    ASSUME NEW p \in Procs, NEW alive, NEW queue, NEW mined, Context(p, alive, queue, mined),
           \/ EstimateFindsMined(p) \/ EstimateFindsPending(p) \/ EstimateGivesNothing(p)
           \/ SimulationFails(p) \/ SimulationReverts(p) \/ SignFails(p)
    PROVE  Lands(p, alive, queue, mined)
  <1> DEFINE c == call[p]
  <1>0. CallOK(p, c) /\ Fits(p, c, alive, queue, mined) /\ World(p, alive, queue, mined)
    BY DEF Context
  <1>1. c \in CallStates /\ Own(p, c) /\ c.old \subseteq Txs /\ alive \subseteq Txs
    BY <1>0, CallFields DEF Fits, Own, World
  <1>2. c.at \in {"estimateFailed", "built"}
    BY DEF EstimateFindsMined, EstimateFindsPending, EstimateGivesNothing, SimulationFails,
           SimulationReverts, SignFails
  <1>3. c.resume = NoTx /\ Keeps(c, alive, queue, mined) /\ c.outcome # "cancelled"
    BY <1>0, <1>2 DEF Fits, Rebuilds, CallOK, Stopped
  <1> HIDE DEF c
  <1>4. CASE EstimateFindsMined(p)
    <2>1. PICK t \in c.old : HandleMined(p, c, t)
      BY <1>4 DEF EstimateFindsMined, c
    <2> QED BY <1>1, <2>1, MinedFits DEF Lands
  <1>5. CASE EstimateFindsPending(p)
    <2>1. PICK t \in c.old \intersect pool : Go(p, Monitor(c, t))
      BY <1>5 DEF EstimateFindsPending, c
    <2>2. t \in Txs /\ t.by = p /\ t \in queue /\ t \in alive
      BY <1>0, <1>1, <2>1 DEF Own, Context, Queue, World
    <2>3. \A u \in alive : u.nonce = t.nonce /\ (u \in queue => u = t)
      BY <1>0, <1>3, <2>2 DEF Keeps, World
    <2> DEFINE d == Monitor(c, t)
    <2>4. /\ d \in CallStates /\ d.at = "monitor" /\ d.tx = t /\ d.old = c.old
          /\ d.resume = c.resume /\ d.then = c.then
      BY <1>1, <2>2 DEF CallStates, Monitor, Places
    <2> HIDE DEF d
    <2>5. Fits(p, d, alive, queue, mined)
      BY <1>1, <1>3, <2>3, <2>4 DEF Fits, Own, Watches, Rebuilds, Focus
    <2> QED BY <2>1, <2>5 DEF Lands, d
  <1>6. ASSUME ~Exhausted(c), NEW e, Go(p, Retry(e)), e \in CallStates, e.old = c.old,
               e.resume = c.resume, e.then = c.then, e.price = c.price,
               e.nonce = c.nonce \/ (c.at = "built" /\ e.nonce = c.tx.nonce)
        PROVE  Lands(p, alive, queue, mined)
    <2>1. Own(p, e)
      BY <1>1, <1>6 DEF Own
    <2>2. \A t \in alive : t.nonce # None
      BY <1>1, Numbers
    <2>3. Keeps(e, alive, queue, mined)
      BY <1>0, <1>3, <1>6, <2>2 DEF Keeps, Price, Fits
    <2> QED BY <1>3, <1>6, <2>1, <2>3, RetryFits DEF Lands
  <1>7. ASSUME ~Exhausted(c) PROVE c.attempts + 1 \in 0 .. MaxAttempts
    BY <1>1, <1>7, ExecutionAssumption DEF CallStates, Exhausted
  <1>8. CASE EstimateGivesNothing(p)
    <2>1. CASE Go(p, Return(c, "estimate"))
      BY <1>1, <2>1, ReturnFits DEF Lands, Outcomes
    <2>2. ASSUME ~Exhausted(c), NEW set \in BOOLEAN,
                 Go(p, Retry([CountRetry(c) EXCEPT !.limit = set]))
          PROVE  Lands(p, alive, queue, mined)
      <3> DEFINE e == [CountRetry(c) EXCEPT !.limit = set]
      <3>1. /\ e \in CallStates /\ e.old = c.old /\ e.resume = c.resume /\ e.then = c.then
            /\ e.price = c.price /\ e.nonce = c.nonce
        BY <1>1, <1>7, <2>2 DEF CallStates, CountRetry
      <3>2. Go(p, Retry(e))
        BY <2>2
      <3> HIDE DEF e
      <3> QED BY <1>6, <2>2, <3>1, <3>2
    <2> QED BY <1>8, <2>1, <2>2 DEF EstimateGivesNothing, c
  <1>9. CASE SimulationFails(p) \/ SignFails(p)
    <2>1. PICK o \in {"simulation", "sign"} : Go(p, Return(c, o))
      BY <1>9 DEF SimulationFails, SignFails, c
    <2> QED BY <1>1, <2>1, ReturnFits DEF Lands, Outcomes
  <1>10. CASE SimulationReverts(p)
    <2>1. CASE Go(p, Return(c, "simulation"))
      BY <1>1, <2>1, ReturnFits DEF Lands, Outcomes
    <2>2. CASE /\ ~Exhausted(c)
               /\ Go(p, Retry([CountRetry(c) EXCEPT !.nonce = c.tx.nonce, !.limit = TRUE]))
      <3> DEFINE e == [CountRetry(c) EXCEPT !.nonce = c.tx.nonce, !.limit = TRUE]
      <3>1. c.at = "built" /\ c.tx.nonce \in Nonces
        BY <1>0, <1>10, Numbers DEF SimulationReverts, c, CallOK
      <3>2. /\ e \in CallStates /\ e.old = c.old /\ e.resume = c.resume /\ e.then = c.then
            /\ e.price = c.price /\ e.nonce = c.tx.nonce
        BY <1>1, <1>7, <2>2, <3>1 DEF CallStates, CountRetry
      <3>3. Go(p, Retry(e))
        BY <2>2
      <3> HIDE DEF e
      <3> QED BY <1>6, <2>2, <3>1, <3>2, <3>3
    <2> QED BY <1>10, <2>1, <2>2 DEF SimulationReverts, c
  <1> QED BY <1>4, <1>5, <1>8, <1>9, <1>10

LEMMA WatchFits ==
    ASSUME NEW p \in Procs, NEW alive, NEW queue, NEW mined, Context(p, alive, queue, mined),
           \/ Register(p) \/ Persist(p) \/ MonitorMined(p) \/ MonitorPending(p) \/ MonitorLost(p)
           \/ SlowConsumed(p) \/ SlowBlocking(p) \/ SlowNotBlocking(p)
    PROVE  Lands(p, alive, queue, mined)
  <1> DEFINE c == call[p]
  <1>0. CallOK(p, c) /\ Fits(p, c, alive, queue, mined) /\ World(p, alive, queue, mined)
    BY DEF Context
  <1>1. c \in CallStates /\ Own(p, c) /\ c.old \subseteq Txs /\ alive \in SUBSET Txs
    BY <1>0, CallFields DEF Fits, Own, World
  <1>2. c.at \in {"register", "persist", "monitor", "waiting"}
    BY DEF Register, Persist, MonitorMined, MonitorPending, MonitorLost, SlowConsumed, SlowBlocking,
           SlowNotBlocking
  <1>3. /\ c.tx \in Txs /\ c.resume = NoTx
        /\ \A t \in alive : t.nonce = c.tx.nonce /\ (t \in queue => t = c.tx)
    BY <1>0, <1>1, <1>2 DEF Fits, Watches, Focus, CallOK, Sent
  <1>a. c.at \in {"register", "persist"} => c.tx.by = p
    BY <1>0 DEF CallOK, Sent
  <1> HIDE DEF c
  <1>4. ASSUME NEW d \in CallStates, d.at \in {"persist", "monitor", "waiting"}, d.tx = c.tx,
               \A t \in d.old : t.by = p, d.resume = NoTx, d.then # "receipt"
        PROVE  Fits(p, d, alive, queue, mined)
    BY <1>3, <1>4 DEF Fits, Watches, Rebuilds, Focus
  <1>5. CASE Register(p) \/ MonitorPending(p)
    <2>1. PICK place \in {"persist", "waiting"} : Go(p, [c EXCEPT !.at = place])
      BY <1>5 DEF Register, MonitorPending, c
    <2> DEFINE d == [c EXCEPT !.at = place]
    <2>2. /\ d \in CallStates /\ d.at = place /\ d.tx = c.tx /\ d.old = c.old
          /\ d.resume = c.resume /\ d.then = c.then
      BY <1>1 DEF CallStates, Places
    <2>3. Go(p, d)
      BY <2>1
    <2> HIDE DEF d
    <2>4. Fits(p, d, alive, queue, mined)
      BY <1>1, <1>3, <1>4, <2>2 DEF Own
    <2> QED BY <2>3, <2>4 DEF Lands
  <1>6. CASE Persist(p)
    <2> DEFINE e == [Signed(c) EXCEPT !.then = "loop"]
    <2>1. c.at = "persist" /\ c.then # "receipt"
          /\ (Go(p, Monitor(e, e.tx)) \/ Go(p, Return(e, "hook")))
      BY <1>1, <1>6 DEF Persist, c, Own
    <2>2. c.old \union {c.tx} \in SUBSET Txs
      BY <1>1, <1>3
    <2>3. /\ e \in CallStates /\ e.tx = c.tx /\ e.old = c.old \union {c.tx} /\ e.resume = c.resume
          /\ e.then = "loop"
      BY <1>1, <2>2 DEF CallStates, Signed, Thens
    <2> HIDE DEF e
    <2>4. Own(p, e)
      BY <1>1, <1>a, <2>1, <2>3 DEF Own
    <2>5. CASE Go(p, Return(e, "hook"))
      BY <2>4, <2>5, ReturnFits DEF Lands, Outcomes
    <2>6. CASE Go(p, Monitor(e, e.tx))
      <3> DEFINE d == Monitor(e, e.tx)
      <3>1. /\ d \in CallStates /\ d.at = "monitor" /\ d.tx = e.tx /\ d.old = e.old
            /\ d.resume = e.resume /\ d.then = e.then
        BY <1>3, <2>3 DEF CallStates, Monitor, Places
      <3> HIDE DEF d
      <3>2. Fits(p, d, alive, queue, mined)
        BY <1>3, <1>4, <2>3, <2>4, <3>1 DEF Own
      <3> QED BY <2>6, <3>2 DEF Lands, d
    <2> QED BY <2>1, <2>5, <2>6
  <1>7. CASE MonitorMined(p)
    <2>1. HandleMined(p, c, c.tx)
      BY <1>7 DEF MonitorMined, c
    <2> QED BY <1>1, <1>3, <2>1, MinedFits DEF Lands
  <1>8. ASSUME Go(p, Return(c, "consumed")) PROVE Lands(p, alive, queue, mined)
    BY <1>1, <1>8, ReturnFits DEF Lands, Outcomes
  <1>9. ASSUME Go(p, BumpOrStop(c, c.tx)), c.tx \notin queue \/ c.tx.nonce = mined
        PROVE  Lands(p, alive, queue, mined)
    <2>1. mined \in Nat
      BY <1>0 DEF World
    <2>2. \A u \in alive : /\ u.nonce = c.tx.nonce
                           /\ u \in queue /\ u.price <= c.tx.price => u.nonce <= mined
      BY <1>3, <1>9, <2>1
    <2>3. Fits(p, BumpOrStop(c, c.tx), alive, queue, mined)
      BY <1>1, <1>3, <2>2, BumpFits
    <2> QED BY <1>9, <2>3 DEF Lands
  <1>10. CASE MonitorLost(p)
    <2>1. /\ c.tx \notin pool
          /\ Go(p, Return(c, "consumed")) \/ Go(p, BumpOrStop(c, c.tx))
      BY <1>10 DEF MonitorLost, c
    <2>2. c.tx \notin queue
      BY <2>1 DEF Context, Queue
    <2> QED BY <1>8, <1>9, <2>1, <2>2
  <1>11. CASE SlowConsumed(p)
    BY <1>8, <1>11 DEF SlowConsumed, c
  <1>12. CASE SlowBlocking(p)
    <2>1. c.tx.nonce = mined /\ Go(p, BumpOrStop(c, c.tx))
      BY <1>12 DEF SlowBlocking, c, Context
    <2> QED BY <1>9, <2>1
  <1>13. CASE SlowNotBlocking(p)
    <2> DEFINE d == Retry([c EXCEPT !.resume = c.tx])
    <2>1. Go(p, d)
      BY <1>13 DEF SlowNotBlocking, c
    <2>2. /\ d \in CallStates /\ d.at = "loop" /\ d.resume = c.tx /\ d.old = c.old
          /\ d.then = c.then
      BY <1>1, <1>3 DEF CallStates, Retry, Places
    <2> HIDE DEF d
    <2>3. c.tx # NoTx
      BY <1>3, Numbers
    <2>4. Fits(p, d, alive, queue, mined)
      BY <1>1, <1>3, <2>2, <2>3 DEF Fits, Own, Watches, Rebuilds, Focus
    <2> QED BY <2>1, <2>4 DEF Lands
  <1> QED BY <1>5, <1>6, <1>7, <1>10, <1>11, <1>12, <1>13

\* The only step that asks getTxStatuses which of its transactions is mined before
\* it moves to another nonce: with an answer, nothing of the call is alive.
LEMMA LowFits ==
    ASSUME "txStatus" \notin Faults,
           NEW p \in Procs, NEW alive, NEW queue, NEW mined, Context(p, alive, queue, mined),
           LowFindsMined(p) \/ LowFindsNone(p) \/ LowUnreadable(p)
    PROVE  Lands(p, alive, queue, mined)
  <1> DEFINE c == call[p]
  <1>0. CallOK(p, c) /\ Fits(p, c, alive, queue, mined) /\ World(p, alive, queue, mined)
    BY DEF Context
  <1>1. c \in CallStates /\ Own(p, c) /\ c.old \subseteq Txs /\ alive \subseteq Txs
    BY <1>0, CallFields DEF Fits, Own, World
  <1>2. c.at = "low"
    BY DEF LowFindsMined, LowFindsNone, LowUnreadable
  <1>3. /\ c.resume = NoTx /\ Keeps(c, alive, queue, mined) /\ c.outcome # "cancelled"
        /\ c.tx.nonce < mined /\ c.nonce \in {None, c.tx.nonce} /\ c.tx \in Txs
    BY <1>0, <1>2 DEF Fits, Rebuilds, CallOK, Stopped
  <1>4. ~Exhausted(c) => c.attempts + 1 \in 0 .. MaxAttempts
    BY <1>1, ExecutionAssumption DEF CallStates, Exhausted
  <1> HIDE DEF c
  <1>5. CASE LowFindsMined(p)
    <2>1. PICK t \in c.old : HandleMined(p, c, t)
      BY <1>5 DEF LowFindsMined, c
    <2> QED BY <1>1, <2>1, MinedFits DEF Lands
  <1>6. CASE LowFindsNone(p)
    <2>1. c.old \intersect Landed = {}
      BY <1>6 DEF LowFindsNone, c, Fault
    <2>2. alive \subseteq c.old
      BY <1>2, <1>3 DEF Context, Knows, Sent, c
    <2>3. ASSUME NEW t \in alive PROVE FALSE
      <3>1. t \in queue
        BY <2>1, <2>2, <2>3 DEF Context, Alive, Queue
      <3>2. t.nonce >= mined /\ t.nonce = c.nonce /\ t.nonce \in Nonces
        BY <1>0, <1>1, <1>3, <2>3, <3>1, Numbers DEF World, Keeps
      <3>3. t.nonce = c.tx.nonce /\ mined \in Nat /\ t.nonce \in Nat
        BY <1>0, <1>3, <3>2, Numbers DEF World
      <3> QED BY <1>3, <3>2, <3>3
    <2>4. CASE Exhausted(c)
      <3>1. Go(p, Resync(Return(c, "retries"), "exit"))
        BY <1>6, <2>4 DEF LowFindsNone, c
      <3>2. Own(p, Return(c, "retries"))
        BY <1>1, ReturnFits DEF Outcomes
      <3>3. Fits(p, Resync(Return(c, "retries"), "exit"), alive, queue, mined)
        BY <3>2, LastResyncFits
      <3> QED BY <3>1, <3>3 DEF Lands
    <2>5. CASE ~Exhausted(c)
      <3> DEFINE e == [CountRetry(c) EXCEPT !.nonce = None]
      <3>1. /\ e \in CallStates /\ e.old = c.old /\ e.resume = c.resume /\ e.then = c.then
        BY <1>1, <1>4, <2>5 DEF CallStates, CountRetry
      <3>2. Go(p, Resync(e, "loop"))
        BY <1>6, <2>5 DEF LowFindsNone, LowRetry, c
      <3> HIDE DEF e
      <3>3. Own(p, e) /\ Keeps(e, alive, queue, mined)
        BY <1>1, <2>3, <3>1 DEF Own, Keeps
      <3>4. Fits(p, Resync(e, "loop"), alive, queue, mined)
        BY <1>3, <3>1, <3>3, RetryFits
      <3> QED BY <3>2, <3>4 DEF Lands
    <2> QED BY <2>4, <2>5
  <1>7. CASE LowUnreadable(p)
    <2>1. CASE Exhausted(c)
      <3>1. Go(p, Return(c, "retries"))
        BY <1>7, <2>1 DEF LowUnreadable, c
      <3> QED BY <1>1, <3>1, ReturnFits DEF Lands, Outcomes
    <2>2. CASE ~Exhausted(c)
      <3> DEFINE e == CountRetry(c)
      <3>1. /\ e \in CallStates /\ e.old = c.old /\ e.resume = c.resume /\ e.then = c.then
            /\ e.nonce = c.nonce /\ e.price = c.price
        BY <1>1, <1>4, <2>2 DEF CallStates, CountRetry
      <3>2. Go(p, Retry(e))
        BY <1>7, <2>2 DEF LowUnreadable, c
      <3> HIDE DEF e
      <3>3. Own(p, e) /\ Keeps(e, alive, queue, mined)
        BY <1>1, <1>3, <3>1 DEF Own, Keeps, Price
      <3>4. Fits(p, Retry(e), alive, queue, mined)
        BY <1>3, <3>1, <3>3, RetryFits
      <3> QED BY <3>2, <3>4 DEF Lands
    <2> QED BY <2>1, <2>2
  <1> QED BY <1>5, <1>6, <1>7

LEMMA ExitFits ==
    ASSUME NEW p \in Procs, NEW alive, NEW queue, NEW mined, Context(p, alive, queue, mined),
           ResyncRead(p) \/ ResyncApply(p) \/ Exit(p)
    PROVE  Lands(p, alive, queue, mined)
  <1> DEFINE c == call[p]
  <1>0. CallOK(p, c) /\ Fits(p, c, alive, queue, mined)
    BY DEF Context
  <1>1. c \in CallStates /\ Own(p, c)
    BY <1>0 DEF Fits, Own
  <1> HIDE DEF c
  <1>2. ASSUME c.at \in {"resync", "apply"}, NEW d \in CallStates, Go(p, d), d.old = c.old,
               d.nonce = c.nonce, d.price = c.price, d.resume = c.resume,
               \/ d.at = "apply" /\ d.then = c.then
               \/ d.at = c.then /\ d.then = "loop"
        PROVE  Lands(p, alive, queue, mined)
    <2>1. c.then \in {"loop", "exit", "done"}
      BY <1>0, <1>2 DEF CallOK
    <2>2. Fits(p, d, alive, queue, mined)
      BY <1>0, <1>2, <2>1 DEF Fits, Watches, Rebuilds, Keeps, Price
    <2> QED BY <1>2, <2>2 DEF Lands
  <1>3. c.at \in {"resync", "apply"} => c.then \in Places
    BY <1>0 DEF CallOK, Places
  <1>4. CASE ResyncRead(p)
    <2>0. c.at = "resync"
      BY <1>4 DEF ResyncRead, c
    <2>1. ASSUME NEW counts \in Replies, Go(p, [c EXCEPT !.at = "apply", !.remote = counts])
          PROVE  Lands(p, alive, queue, mined)
      <3> DEFINE d == [c EXCEPT !.at = "apply", !.remote = counts]
      <3>1. /\ d \in CallStates /\ d.old = c.old /\ d.nonce = c.nonce /\ d.price = c.price
            /\ d.resume = c.resume /\ d.at = "apply" /\ d.then = c.then
        BY <1>1 DEF CallStates, Places
      <3>2. Go(p, d)
        BY <2>1
      <3> HIDE DEF d
      <3> QED BY <1>2, <2>0, <3>1, <3>2
    <2>2. ASSUME Go(p, [c EXCEPT !.at = c.then, !.then = "loop"])
          PROVE  Lands(p, alive, queue, mined)
      <3> DEFINE d == [c EXCEPT !.at = c.then, !.then = "loop"]
      <3>1. /\ d \in CallStates /\ d.old = c.old /\ d.nonce = c.nonce /\ d.price = c.price
            /\ d.resume = c.resume /\ d.at = c.then /\ d.then = "loop"
        BY <1>1, <1>3, <2>0 DEF CallStates, Thens
      <3>2. Go(p, d)
        BY <2>2
      <3> HIDE DEF d
      <3> QED BY <1>2, <2>0, <3>1, <3>2
    <2> QED BY <1>4, <2>1, <2>2 DEF ResyncRead, c
  <1>5. CASE ResyncApply(p)
    <2> DEFINE d == [c EXCEPT !.at = c.then, !.then = "loop", !.remote = NoReplies]
    <2>1. c.at = "apply" /\ Go(p, d)
      BY <1>5 DEF ResyncApply, c
    <2>2. /\ d \in CallStates /\ d.old = c.old /\ d.nonce = c.nonce /\ d.price = c.price
          /\ d.resume = c.resume /\ d.at = c.then /\ d.then = "loop"
      BY <1>1, <1>3, <2>1, Numbers DEF CallStates, Thens
    <2> HIDE DEF d
    <2> QED BY <1>2, <2>1, <2>2
  <1>6. CASE Exit(p)
    <2>1. Go(p, [c EXCEPT !.at = "done"]) \/ Go(p, Resync(c, "done"))
      BY <1>6 DEF Exit, c
    <2>2. CASE Go(p, Resync(c, "done"))
      BY <1>1, <2>2, LastResyncFits DEF Lands
    <2>3. CASE Go(p, [c EXCEPT !.at = "done"])
      <3> DEFINE d == [c EXCEPT !.at = "done"]
      <3>1. d \in CallStates /\ d.at = "done" /\ d.then = c.then /\ d.old = c.old
        BY <1>1 DEF CallStates, Places
      <3>2. Go(p, d)
        BY <2>3
      <3> HIDE DEF d
      <3>3. Own(p, d)
        BY <1>1, <3>1 DEF Own
      <3>4. Fits(p, d, alive, queue, mined)
        BY <3>1, <3>3, StoppedFits
      <3> QED BY <3>2, <3>4 DEF Lands
    <2> QED BY <2>1, <2>2, <2>3
  <1> QED BY <1>4, <1>5, <1>6

-----------------------------------------------------------------------------
(***************************************************************************)
(* The answers to a broadcast.                                             *)
(***************************************************************************)

\* handleReplacementUnderpricedError's count: without another transaction of the
\* call at this nonce, the one just rejected is the only one.
LEMMA OnlyOne ==
    ASSUME NEW p, NEW c \in CallStates, \A t \in c.old : t.by = p, c.tx \in c.old, ~OwnTxPending(c)
    PROVE  \A t \in c.old : t.nonce = c.tx.nonce => t = c.tx
  <1> DEFINE S == {t \in c.old : t.nonce = c.tx.nonce}
             f == [t \in S |-> t.price]
  <1>1. c.old \subseteq Txs
    BY CallFields
  <1>2. IsFiniteSet(S)
    <2>1. IsFiniteSet(Prices)
      BY ExecutionAssumption, FS_Interval DEF Prices
    <2>2. f \in [S -> Prices]
      BY <1>1, Numbers
    <2>3. \A t, u \in Txs : t.by = u.by /\ t.nonce = u.nonce /\ t.price = u.price => t = u
      BY DEF Txs
    <2>4. \A t, u \in S : f[t] = f[u] => t = u
      BY <1>1, <2>3
    <2>5. f \in Injection(S, Prices)
      BY <2>2, <2>4 DEF Injection, IsInjective
    <2> HIDE DEF S, f
    <2> QED BY <2>1, <2>5, FS_Injection
  <1>3. ~(Cardinality(S) > 1)
    BY DEF OwnTxPending
  <1>4. ASSUME NEW u \in S, u # c.tx PROVE FALSE
    <2>1. PICK x \in S : x = c.tx
      OBVIOUS
    <2> HIDE DEF S
    <2>2. IsFiniteSet({x}) /\ Cardinality({x}) = 1 /\ u \notin {x}
      BY <1>4, <2>1, FS_Singleton
    <2>3. Cardinality({x} \union {u}) = 2
      <3>1. Cardinality({x} \union {u}) = IF u \in {x} THEN Cardinality({x}) ELSE Cardinality({x}) + 1
        BY <2>2, FS_AddElement
      <3> QED BY <2>2, <3>1
    <2>4. {x} \union {u} \in SUBSET S
      BY <1>4
    <2>5. Cardinality({x} \union {u}) <= Cardinality(S) /\ Cardinality(S) \in Nat
      BY <1>2, <2>4, FS_Subset, FS_CardinalityType
    <2> QED BY <1>3, <2>3, <2>5
  <1> QED BY <1>4

LEMMA BuiltCall ==
    ASSUME NEW p \in Procs, NEW alive, NEW queue, NEW mined, Context(p, alive, queue, mined),
           call[p].at = "built"
    PROVE  /\ call[p] \in CallStates /\ Own(p, call[p]) /\ call[p].resume = NoTx
           /\ call[p].tx \in Txs /\ call[p].tx.by = p /\ call[p].tx.price = Price(call[p])
           /\ \A t \in alive : /\ t.nonce = call[p].tx.nonce
                               /\ t \in queue /\ t.price < Price(call[p]) => t.nonce <= mined
           /\ alive \subseteq call[p].old
  <1> DEFINE c == call[p]
  <1>1. CallOK(p, c) /\ Fits(p, c, alive, queue, mined) /\ World(p, alive, queue, mined)
    BY DEF Context
  <1>2. c.outcome # "cancelled"
    BY <1>1 DEF CallOK, Stopped
  <1>3. alive \subseteq c.old
    BY <1>2 DEF Context, Knows, Sent
  <1>4. c.tx \in Txs /\ c.tx.by = p /\ Keeps(c, alive, queue, mined) /\ c.nonce \in {None, c.tx.nonce}
    BY <1>1 DEF Fits, CallOK, Rebuilds
  <1>5. \A t \in alive : t.nonce # None
    BY <1>1, Numbers DEF World
  <1>6. c \in CallStates /\ Own(p, c) /\ c.resume = NoTx /\ c.tx.price = Price(c)
    BY <1>1 DEF Fits, Own
  <1> HIDE DEF c
  <1>7. \A t \in alive : /\ t.nonce = c.tx.nonce
                         /\ t \in queue /\ t.price < Price(c) => t.nonce <= mined
    BY <1>4, <1>5 DEF Keeps
  <1> QED BY <1>3, <1>4, <1>6, <1>7 DEF c

LEMMA SignedOwn ==
    ASSUME NEW p, NEW c, Own(p, c), c.tx \in Txs, c.tx.by = p
    PROVE  /\ Own(p, Signed(c)) /\ Signed(c) \in CallStates
           /\ Signed(c).old = c.old \union {c.tx} /\ Signed(c).tx = c.tx
           /\ Signed(c).nonce = c.nonce /\ Signed(c).price = c.price
           /\ Signed(c).resume = c.resume /\ Signed(c).then = c.then
  <1>1. c.old \union {c.tx} \in SUBSET Txs
    BY CallFields DEF Own
  <1> DEFINE e == Signed(c)
  <1>2. /\ e \in CallStates /\ e.old = c.old \union {c.tx} /\ e.tx = c.tx
        /\ e.nonce = c.nonce /\ e.price = c.price /\ e.resume = c.resume /\ e.then = c.then
    BY <1>1 DEF Own, CallStates, Signed
  <1> HIDE DEF e
  <1>3. Own(p, e)
    BY <1>2 DEF Own
  <1> QED BY <1>2, <1>3 DEF e

LEMMA RefusedFits ==
    ASSUME Typed, ChainOrdered,
           NEW p \in Procs, NEW alive, NEW queue, NEW mined, Context(p, alive, queue, mined),
           BroadcastKnown(p) \/ BroadcastUnderpriced(p) \/ BroadcastGap(p) \/ BroadcastLow(p)
    PROVE  Lands(p, alive, queue, mined)
  <1> DEFINE c == call[p]
             e == Signed(c)
  <1>0. Fits(p, c, alive, queue, mined) /\ World(p, alive, queue, mined)
    BY DEF Context
  <1>1. c.at = "built"
    BY <1>0 DEF Fits, BroadcastKnown, BroadcastUnderpriced, BroadcastGap, BroadcastLow, Refused,
                AwaitsAnswer
  <1>2. /\ c \in CallStates /\ Own(p, c) /\ c.resume = NoTx
        /\ c.tx \in Txs /\ c.tx.by = p /\ c.tx.price = Price(c)
        /\ \A t \in alive : /\ t.nonce = c.tx.nonce
                            /\ t \in queue /\ t.price < Price(c) => t.nonce <= mined
        /\ alive \subseteq c.old
    BY <1>1, BuiltCall
  <1>3. /\ Own(p, e) /\ e \in CallStates /\ e.old = c.old \union {c.tx} /\ e.tx = c.tx
        /\ e.nonce = c.nonce /\ e.price = c.price /\ e.resume = c.resume /\ e.then = c.then
    BY <1>2, SignedOwn
  <1>4. mined \in Nat /\ c.tx.nonce \in Nat /\ mined = Mined /\ alive \subseteq Txs
    BY <1>0, <1>2, Numbers DEF World, Context
  <1>5. \A t \in alive : t \in queue => t \in pool
    BY DEF Context, Queue
  <1>6. \A t \in alive : t \notin queue => t.nonce < mined
    BY <1>0 DEF World
  <1> HIDE DEF c, e
  <1>7. ASSUME NEW n \in {None} \union Nonces
        PROVE  /\ [e EXCEPT !.nonce = n] \in CallStates /\ Own(p, [e EXCEPT !.nonce = n])
               /\ [e EXCEPT !.nonce = n].resume = NoTx /\ [e EXCEPT !.nonce = n].nonce = n
               /\ [e EXCEPT !.nonce = n].price = c.price
    <2> DEFINE f == [e EXCEPT !.nonce = n]
    <2>1. /\ f \in CallStates /\ f.old = e.old /\ f.then = e.then /\ f.resume = NoTx /\ f.nonce = n
          /\ f.price = c.price
      BY <1>2, <1>3, <1>7 DEF CallStates
    <2> HIDE DEF f
    <2>2. Own(p, f)
      BY <1>3, <2>1 DEF Own
    <2> QED BY <2>1, <2>2 DEF f
  <1>8. c.tx.nonce \in {None} \union Nonces /\ None \in {None} \union Nonces
    BY <1>2, Numbers
  <1>9. ASSUME NEW f, Own(p, f), f.resume = NoTx, f.price = c.price, f.nonce = c.tx.nonce \/ alive = {}
        PROVE  Fits(p, Retry(f), alive, queue, mined) /\ Fits(p, Resync(f, "loop"), alive, queue, mined)
    <2>1. Keeps(f, alive, queue, mined)
      BY <1>2, <1>9 DEF Keeps, Price
    <2> QED BY <1>9, <2>1, RetryFits
  <1>10. CASE BroadcastKnown(p)
    <2> DEFINE f == [e EXCEPT !.nonce = c.tx.nonce]
    <2>1. Go(p, Retry(f))
      BY <1>3, <1>10 DEF BroadcastKnown, c, e
    <2>2. Own(p, f) /\ f.resume = NoTx /\ f.price = c.price /\ f.nonce = c.tx.nonce
      BY <1>7, <1>8
    <2> HIDE DEF f
    <2>3. Fits(p, Retry(f), alive, queue, mined)
      BY <1>9, <2>2
    <2> QED BY <2>1, <2>3 DEF Lands
  <1>11. CASE BroadcastUnderpriced(p)
    <2>1. /\ IsUnderpriced(c.tx)
          /\ Go(p, IF OwnTxPending(e) THEN BumpOrStop([e EXCEPT !.nonce = e.tx.nonce], e.tx)
                                      ELSE Retry([e EXCEPT !.nonce = None]))
      BY <1>3, <1>11 DEF BroadcastUnderpriced, c, e
    <2>2. c.tx \notin pool /\ ~(c.tx.nonce < mined)
      BY <1>4, <2>1 DEF IsUnderpriced, IsKnown, IsLow
    <2>3. CASE OwnTxPending(e)
      <3> DEFINE f == [e EXCEPT !.nonce = c.tx.nonce]
      <3>1. Go(p, BumpOrStop(f, c.tx))
        BY <1>3, <2>1, <2>3
      <3>2. Own(p, f) /\ f.resume = NoTx
        BY <1>7, <1>8
      <3> HIDE DEF f
      <3>3. ASSUME NEW u \in alive, u \in queue, u.price <= c.tx.price PROVE u.nonce <= mined
        <4>1. u \in pool /\ u \in Txs /\ u.by = p /\ u.nonce = c.tx.nonce
          BY <1>0, <1>2, <1>4, <1>5, <3>3 DEF World
        <4>2. u.price # c.tx.price
          BY <1>2, <2>2, <4>1 DEF Txs
        <4>3. u.price \in Nat /\ c.tx.price \in Nat
          BY <1>2, <4>1, Numbers DEF Prices
        <4> QED BY <1>2, <3>3, <4>2, <4>3
      <3>4. Fits(p, BumpOrStop(f, c.tx), alive, queue, mined)
        BY <1>2, <1>4, <3>2, <3>3, BumpFits
      <3> QED BY <3>1, <3>4 DEF Lands
    <2>4. CASE ~OwnTxPending(e)
      <3> DEFINE f == [e EXCEPT !.nonce = None]
      <3>1. Go(p, Retry(f))
        BY <2>1, <2>4
      <3>2. Own(p, f) /\ f.resume = NoTx /\ f.price = c.price
        BY <1>7, <1>8
      <3> HIDE DEF f
      <3>3. \A t \in e.old : t.nonce = e.tx.nonce => t = e.tx
        BY <1>3, <2>4, OnlyOne DEF Own
      <3>4. c.tx \notin alive
        BY <1>5, <1>6, <2>2
      <3>5. alive = {}
        BY <1>2, <1>3, <3>3, <3>4
      <3>6. Fits(p, Retry(f), alive, queue, mined)
        BY <1>9, <3>2, <3>5
      <3> QED BY <3>1, <3>6 DEF Lands
    <2> QED BY <2>3, <2>4
  <1>12. CASE BroadcastGap(p)
    <2> DEFINE f == [e EXCEPT !.nonce = None]
    <2>1. IsGap(c.tx) /\ Go(p, Resync(f, "loop"))
      BY <1>3, <1>12 DEF BroadcastGap, c, e
    <2>2. Own(p, f) /\ f.resume = NoTx /\ f.price = c.price
      BY <1>7, <1>8
    <2> HIDE DEF f
    <2>3. Pending \in Nat /\ mined <= Pending
      <3>1. pool \subseteq Txs /\ Len(chain) \in Nat /\ Len(chain) <= MaxNonce + 1
        BY LenProperties DEF Typed
      <3>2. Mined \in 0 .. (MaxNonce + 1)
        BY <3>1, Numbers DEF Mined
      <3> QED BY <1>4, <3>1, <3>2, PendingIsNonce
    <2>4. /\ ~(c.tx.nonce < mined) /\ c.tx.nonce > Pending
          /\ \A t \in pool : t.nonce = c.tx.nonce => t.price < c.tx.price
      BY <1>4, <2>1 DEF IsGap, IsAcceptable, IsLow, PoolAt
    <2>5. ASSUME NEW t \in alive PROVE FALSE
      <3>1. t.nonce = c.tx.nonce /\ t \in queue
        BY <1>2, <1>6, <2>4, <2>5
      <3>2. t.price < c.tx.price
        BY <1>5, <2>4, <2>5, <3>1
      <3>3. t.nonce <= mined
        BY <1>2, <2>5, <3>1, <3>2
      <3> QED BY <1>4, <2>3, <2>4, <3>1, <3>3
    <2>6. Fits(p, Resync(f, "loop"), alive, queue, mined)
      BY <1>9, <2>2, <2>5
    <2> QED BY <2>1, <2>6 DEF Lands
  <1>13. CASE BroadcastLow(p)
    <2> DEFINE d == [e EXCEPT !.at = "low"]
    <2>1. Go(p, d) /\ c.tx.nonce < mined
      BY <1>3, <1>4, <1>13 DEF BroadcastLow, IsLow, c, e
    <2>2. /\ d \in CallStates /\ d.at = "low" /\ d.tx = c.tx /\ d.nonce = c.nonce /\ d.price = c.price
          /\ d.old = e.old /\ d.resume = NoTx /\ d.then = e.then
      BY <1>2, <1>3 DEF CallStates, Places
    <2> HIDE DEF d
    <2>3. Keeps(c, alive, queue, mined) /\ c.nonce \in {None, c.tx.nonce}
      BY <1>0, <1>1 DEF Fits, Rebuilds
    <2>4. Fits(p, d, alive, queue, mined)
      BY <1>3, <2>1, <2>2, <2>3 DEF Fits, Own, Watches, Rebuilds, Keeps, Price
    <2> QED BY <2>1, <2>4 DEF Lands
  <1> QED BY <1>10, <1>11, <1>12, <1>13

\* What a step of a call makes of the network, on one that answers at once.
LEMMA NetworkMoves ==
    ASSUME OneByOne, NEW p \in Procs, CallStep(p)
    PROVE  /\ chain' = chain /\ sync' = FALSE /\ inflight' = {}
           /\ \/ pool' = pool
              \/ /\ pool' = WithTx(call[p].tx) /\ IsAcceptable(call[p].tx)
                 /\ call[p].at = "built" /\ (BroadcastAccepted(p) \/ BroadcastFails(p))
  <1> DEFINE c == call[p]
  <1>1. Typed /\ sync = FALSE /\ inflight = {} /\ c.at # "sync"
    BY DEF OneByOne, Fits
  <1>2. c \in CallStates /\ Signed(c).tx = c.tx
    BY <1>1 DEF Typed, CallStates, Signed
  <1>3. CASE UNCHANGED netVars
    BY <1>1, <1>3 DEF netVars
  <1>4. CASE \/ BroadcastKnown(p) \/ BroadcastUnderpriced(p) \/ BroadcastGap(p) \/ BroadcastLow(p)
             \/ BroadcastFails(p)
    <2>1. /\ Refused(c)
          /\ pool' = pool \/ (pool' = WithTx(c.tx) /\ IsAcceptable(c.tx) /\ BroadcastFails(p))
      BY <1>2, <1>4 DEF BroadcastKnown, BroadcastUnderpriced, BroadcastGap, BroadcastLow, BroadcastFails
    <2> QED BY <1>1, <2>1 DEF Refused, AwaitsAnswer
  <1>5. CASE BroadcastAccepted(p)
    BY <1>1, <1>5 DEF BroadcastAccepted
  <1>6. ~SyncSubmit(p)
    BY <1>1 DEF SyncSubmit
  <1>7. \/ BroadcastAccepted(p) \/ SyncSubmit(p) \/ BroadcastKnown(p) \/ BroadcastUnderpriced(p)
        \/ BroadcastGap(p) \/ BroadcastLow(p) \/ BroadcastFails(p) \/ UNCHANGED netVars
    BY DEF CallStep, Cancelled, ResumeMonitoring, BeginBuild, EstimateFails, ReadFails, Acquire,
           AcquireFails, FeeFails, EstimateFindsMined, EstimateFindsPending, EstimateGivesNothing,
           SimulationFails, SimulationReverts, SignFails, SyncReceipt, SyncTimeoutAccepted,
           SyncTimeoutUnknown, SyncCancelled, Register, Persist, LowFindsMined, LowFindsNone,
           LowUnreadable, MonitorMined, MonitorPending, MonitorLost, SlowConsumed, SlowBlocking,
           SlowNotBlocking, ResyncRead, ResyncApply, Exit
  <1> QED BY <1>3, <1>4, <1>5, <1>6, <1>7

LEMMA ViewSame ==
    ASSUME pool' = pool, chain' = chain, NEW p
    PROVE  Alive(p)' = Alive(p) /\ Queue(p)' = Queue(p) /\ Mined' = Mined
  BY DEF Alive, Queue, Mined, Landed

\* A node that takes a transaction drops the call's other one at this nonce.
LEMMA ViewReplaced ==
    ASSUME NEW p \in Procs, NEW alive, NEW queue, NEW mined, Context(p, alive, queue, mined),
           call[p].at = "built", chain' = chain, pool' = WithTx(call[p].tx)
    PROVE  Alive(p)' \subseteq alive \union {call[p].tx} /\ Queue(p)' \subseteq {call[p].tx} /\ Mined' = mined
  <1>1. \A t \in alive : t.nonce = call[p].tx.nonce
    BY BuiltCall
  <1>2. alive = Alive(p) /\ queue = Queue(p) /\ mined = Mined /\ queue \subseteq alive
    BY DEF Context, World
  <1>3. \A t \in pool' : t \in pool \union {call[p].tx}
    BY DEF WithTx
  <1>4. Alive(p)' \subseteq alive \union {call[p].tx} /\ Mined' = mined
    BY <1>2, <1>3 DEF Alive, Landed, Mined
  <1>5. ASSUME NEW t \in pool', t.by = p PROVE t = call[p].tx
    <2>1. CASE t \in pool \ PoolAt(call[p].tx.nonce)
      BY <1>1, <1>2, <1>5, <2>1 DEF Queue, PoolAt
    <2> QED BY <1>5, <2>1 DEF WithTx
  <1>6. Queue(p)' \subseteq {call[p].tx}
    BY <1>5 DEF Queue
  <1> QED BY <1>4, <1>6

\* A broadcast whose transaction a node took, whether it said so or failed.
LEMMA TakenFits ==
    ASSUME NEW p \in Procs, NEW alive, NEW queue, NEW mined, Context(p, alive, queue, mined),
           call[p].at = "built", BroadcastAccepted(p) \/ BroadcastFails(p),
           NEW alive2, NEW queue2,
           \/ alive2 = alive /\ queue2 = queue /\ BroadcastFails(p)
           \/ alive2 \subseteq alive \union {call[p].tx} /\ queue2 \subseteq {call[p].tx}
    PROVE  Lands(p, alive2, queue2, mined)
  <1> DEFINE c == call[p]
             e == Signed(c)
  <1>1. /\ c \in CallStates /\ Own(p, c) /\ c.resume = NoTx
        /\ c.tx \in Txs /\ c.tx.by = p /\ c.tx.price = Price(c)
        /\ \A t \in alive : /\ t.nonce = c.tx.nonce
                            /\ t \in queue /\ t.price < Price(c) => t.nonce <= mined
    BY BuiltCall
  <1>2. /\ Own(p, e) /\ e \in CallStates /\ e.tx = c.tx /\ e.price = c.price /\ e.resume = c.resume
    BY <1>1, SignedOwn
  <1> HIDE DEF c, e
  <1>3. c.tx.price \in Nat
    BY <1>1, Numbers DEF Prices
  <1>4. \A t \in alive2 : /\ t.nonce = c.tx.nonce
                          /\ t \in queue2 /\ t.price < Price(c) => t.nonce <= mined
    BY <1>1, <1>3 DEF c
  <1>5. CASE BroadcastFails(p)
    <2>1. Go(p, RetrySameNonce(e))
      BY <1>5 DEF BroadcastFails, c, e
    <2>2. \A t \in alive2 : /\ t.nonce = e.tx.nonce
                            /\ t \in queue2 /\ t.price < Price(e) => t.nonce <= mined
      BY <1>2, <1>4 DEF Price
    <2>3. Fits(p, RetrySameNonce(e), alive2, queue2, mined)
      BY <1>1, <1>2, <2>2, SameNonceFits
    <2> QED BY <2>1, <2>3 DEF Lands
  <1>6. CASE BroadcastAccepted(p) /\ queue2 \subseteq {c.tx}
    <2> DEFINE d == [c EXCEPT !.at = "register"]
    <2>1. Go(p, d)
      BY <1>6 DEF BroadcastAccepted, c
    <2>2. /\ d \in CallStates /\ d.at = "register" /\ d.tx = c.tx /\ d.old = c.old
          /\ d.resume = NoTx /\ d.then = c.then
      BY <1>1 DEF CallStates, Places
    <2> HIDE DEF d
    <2>3. Fits(p, d, alive2, queue2, mined)
      BY <1>1, <1>4, <1>6, <2>2 DEF Fits, Own, Watches, Rebuilds, Focus
    <2> QED BY <2>1, <2>3 DEF Lands
  <1> QED BY <1>5, <1>6 DEF c

LEMMA StepFits ==
    ASSUME OneByOne, "txStatus" \notin Faults, NEW p \in Procs, CallStep(p)
    PROVE  Lands(p, Alive(p)', Queue(p)', Mined')
  <1>0. Typed /\ ChainOrdered /\ sync = FALSE
    BY DEF OneByOne
  <1>1. PICK alive, queue, mined : Context(p, alive, queue, mined)
    <2>1. Context(p, Alive(p), Queue(p), Mined)
      BY Worldly DEF OneByOne, Context, Typed
    <2> QED BY <2>1
  <1>2. alive = Alive(p) /\ queue = Queue(p) /\ mined = Mined /\ call[p].at # "sync"
    BY <1>1 DEF Context, Fits
  <1>3. PICK alive2, queue2, mined2 : alive2 = Alive(p)' /\ queue2 = Queue(p)' /\ mined2 = Mined'
    OBVIOUS
  <1>4. CASE pool' = pool
    <2>1. alive2 = alive /\ queue2 = queue /\ mined2 = mined
      BY <1>2, <1>3, <1>4, NetworkMoves, ViewSame
    <2>2. Lands(p, alive, queue, mined)
      <3>1. CASE \/ Cancelled(p) \/ ResumeMonitoring(p) \/ BeginBuild(p) \/ EstimateFails(p)
                 \/ ReadFails(p) \/ Acquire(p) \/ AcquireFails(p) \/ FeeFails(p)
        BY <1>1, <3>1, TopFits
      <3>2. CASE \/ EstimateFindsMined(p) \/ EstimateFindsPending(p) \/ EstimateGivesNothing(p)
                 \/ SimulationFails(p) \/ SimulationReverts(p) \/ SignFails(p)
        BY <1>1, <3>2, EstimateFits
      <3>3. CASE \/ Register(p) \/ Persist(p) \/ MonitorMined(p) \/ MonitorPending(p) \/ MonitorLost(p)
                 \/ SlowConsumed(p) \/ SlowBlocking(p) \/ SlowNotBlocking(p)
        BY <1>1, <3>3, WatchFits
      <3>4. CASE LowFindsMined(p) \/ LowFindsNone(p) \/ LowUnreadable(p)
        BY <1>1, <3>4, LowFits
      <3>5. CASE ResyncRead(p) \/ ResyncApply(p) \/ Exit(p)
        BY <1>1, <3>5, ExitFits
      <3>6. CASE BroadcastKnown(p) \/ BroadcastUnderpriced(p) \/ BroadcastGap(p) \/ BroadcastLow(p)
        BY <1>0, <1>1, <3>6, RefusedFits
      <3>7. CASE BroadcastAccepted(p)
        <4>1. call[p].at = "built" /\ pool' = WithTx(call[p].tx) /\ chain' = chain
          BY <3>7 DEF BroadcastAccepted
        <4>2. alive2 \subseteq alive \union {call[p].tx} /\ queue2 \subseteq {call[p].tx}
          BY <1>1, <1>3, <4>1, ViewReplaced
        <4>3. Lands(p, alive2, queue2, mined)
          BY <1>1, <3>7, <4>1, <4>2, TakenFits
        <4> QED BY <2>1, <4>3
      <3>8. CASE BroadcastFails(p)
        <4>1. call[p].at = "built"
          BY <1>2, <3>8 DEF BroadcastFails, Refused, AwaitsAnswer
        <4> QED BY <1>1, <3>8, <4>1, TakenFits
      <3>9. CASE SyncSubmit(p) \/ SyncReceipt(p) \/ SyncTimeoutAccepted(p) \/ SyncTimeoutUnknown(p)
                 \/ SyncCancelled(p)
        BY <1>0, <1>2, <3>9 DEF SyncSubmit, SyncReceipt, SyncTimeoutAccepted, SyncTimeoutUnknown,
                                SyncCancelled
      <3> QED BY <3>1, <3>2, <3>3, <3>4, <3>5, <3>6, <3>7, <3>8, <3>9 DEF CallStep
    <2>3. Lands(p, alive2, queue2, mined2)
      BY <2>1, <2>2
    <2> QED BY <1>3, <2>3
  <1>5. CASE pool' # pool
    <2>1. /\ pool' = WithTx(call[p].tx) /\ call[p].at = "built" /\ chain' = chain
          /\ BroadcastAccepted(p) \/ BroadcastFails(p)
      BY <1>5, NetworkMoves
    <2>2. alive2 \subseteq alive \union {call[p].tx} /\ queue2 \subseteq {call[p].tx} /\ mined2 = mined
      BY <1>1, <1>3, <2>1, ViewReplaced
    <2>3. Lands(p, alive2, queue2, mined2)
      BY <1>1, <2>1, <2>2, TakenFits
    <2> QED BY <1>3, <2>3
  <1> QED BY <1>4, <1>5

-----------------------------------------------------------------------------
(***************************************************************************)
(* Every behaviour keeps the invariant.                                    *)
(***************************************************************************)

\* A call that does not move, while the network mines, drops or takes transactions
\* of others.
LEMMA UnmovedFits ==
    ASSUME OneByOne, NEW q \in Procs, call'[q] = call[q], Mined' \in Nat, Mined <= Mined',
           Alive(q)' \subseteq Alive(q), Queue(q)' \subseteq Queue(q)
    PROVE  Fits(q, call'[q], Alive(q)', Queue(q)', Mined')
  <1>1. PICK c, alive, queue, mined :
            c = call[q] /\ alive = Alive(q) /\ queue = Queue(q) /\ mined = Mined
    OBVIOUS
  <1>2. PICK alive2, queue2, mined2 : alive2 = Alive(q)' /\ queue2 = Queue(q)' /\ mined2 = Mined'
    OBVIOUS
  <1>3. World(q, Alive(q), Queue(q), Mined) /\ CallOK(q, call[q]) /\ Fits(q, call[q], Alive(q), Queue(q), Mined)
    BY Worldly DEF OneByOne, Typed
  <1>4. World(q, alive, queue, mined) /\ CallOK(q, c) /\ Fits(q, c, alive, queue, mined)
    BY <1>1, <1>3
  <1>5. alive \subseteq Txs /\ mined \in Nat
    BY <1>4 DEF World
  <1>6. alive2 \in SUBSET alive /\ queue2 \in SUBSET queue /\ mined2 \in Nat /\ mined <= mined2
    BY <1>1, <1>2
  <1>7. Fits(q, c, alive2, queue2, mined2)
    BY <1>4, <1>5, <1>6, FitsLess
  <1> QED BY <1>1, <1>2, <1>7

LEMMA StartsOneByOne ==
    ASSUME SyncModes = {FALSE}, Init
    PROVE  OneByOne
  <1>1. Typed /\ Tracked
    BY Starts
  <1>2. chain = <<>> /\ sync = FALSE /\ inflight = {}
    BY DEF Init
  <1>3. Mined = 0 /\ Landed = {} /\ ChainOrdered
    BY <1>2 DEF Mined, Landed, ChainOrdered
  <1>4. NewCall.at = "loop" /\ NewCall.resume = NoTx /\ NewCall.then = "loop" /\ NewCall.old = {}
    BY DEF NewCall
  <1>5. \A p \in Procs : Fits(p, NewCall, {}, {}, 0)
    BY <1>4, CallsStart DEF Fits, Watches, Rebuilds, Keeps
  <1>6. CASE FreshStart
    <2>1. pool = {} /\ call = [p \in Procs |-> NewCall]
      BY <1>6 DEF FreshStart
    <2>2. \A p \in Procs : Alive(p) = {} /\ Queue(p) = {} /\ call[p] = NewCall
      BY <1>3, <2>1 DEF Alive, Queue
    <2>3. \A p \in Procs : Fits(p, call[p], Alive(p), Queue(p), Mined)
      BY <1>3, <1>5, <2>2
    <2>4. PoolOrdered
      BY <2>1 DEF PoolOrdered
    <2> QED BY <1>1, <1>2, <1>3, <2>2, <2>3, <2>4 DEF OneByOne, OneNonceAlive
  <1>7. CASE \E p \in Resumable : RecoveredStart(p)
    <2>1. PICK p \in Procs : RecoveredStart(p)
      BY <1>7, ExecutionAssumption
    <2>2. PICK t : t = PendingTx(p)
      OBVIOUS
    <2>3. t \in Txs /\ t.by = p /\ t.nonce = 0
      BY <2>2, CallsStart DEF PendingTx
    <2>4. pool = {t} /\ call = [q \in Procs |-> IF q = p THEN ResumedCall(t) ELSE NewCall]
      BY <2>1, <2>2 DEF RecoveredStart
    <2>5. PICK d : d = ResumedCall(t)
      OBVIOUS
    <2>6. /\ d \in CallStates /\ d.at = "loop" /\ d.resume = t /\ d.old = {t} /\ d.then = "loop"
      <3>1. NewCall \in CallStates /\ t.price \in {0} \union Prices /\ t.nonce \in {None} \union Nonces
        BY <2>3, CallsStart, Numbers
      <3> QED BY <1>4, <2>3, <2>5, <3>1 DEF ResumedCall, CallStates
    <2>7. Alive(p) = {t} /\ Queue(p) = {t} /\ call[p] = d
      BY <1>3, <2>3, <2>4, <2>5 DEF Alive, Queue
    <2>8. Fits(p, d, {t}, {t}, 0)
      BY <2>3, <2>6, Numbers DEF Fits, Watches, Rebuilds, Focus
    <2>9. \A q \in Procs : q # p => Alive(q) = {} /\ Queue(q) = {} /\ call[q] = NewCall
      BY <1>3, <2>3, <2>4 DEF Alive, Queue
    <2>10. \A q \in Procs : Fits(q, call[q], Alive(q), Queue(q), Mined)
      BY <1>3, <1>5, <2>7, <2>8, <2>9
    <2>11. PoolOrdered
      BY <1>3, <2>3, <2>4 DEF PoolOrdered
    <2>12. OneNonceAlive
      BY <2>7, <2>9 DEF OneNonceAlive
    <2> QED BY <1>1, <1>2, <1>3, <2>10, <2>11, <2>12 DEF OneByOne
  <1> QED BY <1>6, <1>7 DEF Init

\* What is alive of a call shrinks, or joins a transaction of the same nonce.
LEMMA AliveKeeps ==
    ASSUME OneByOne,
           \A p \in Procs : \/ Alive(p)' \subseteq Alive(p)
                            \/ \E n : \A t \in Alive(p)' : t.nonce = n
    PROVE  OneNonceAlive'
  <1> SUFFICES ASSUME NEW p \in Procs, NEW t \in Alive(p)', NEW u \in Alive(p)'
               PROVE  t.nonce = u.nonce
    BY DEF OneNonceAlive
  <1>1. CASE Alive(p)' \subseteq Alive(p)
    BY <1>1 DEF OneByOne, OneNonceAlive
  <1>2. CASE \E n : \A v \in Alive(p)' : v.nonce = n
    BY <1>2
  <1> QED BY <1>1, <1>2

LEMMA PoolTakes ==
    ASSUME PoolOrdered, NEW t, t.nonce >= Mined, chain' = chain, pool' = WithTx(t)
    PROVE  PoolOrdered'
  <1>1. Mined' = Mined
    BY DEF Mined
  <1>2. \A u \in pool' : u = t \/ (u \in pool /\ u.nonce # t.nonce)
    BY DEF WithTx, PoolAt
  <1> QED BY <1>1, <1>2 DEF PoolOrdered

LEMMA CallKeepsOne ==
    ASSUME OneByOne, "txStatus" \notin Faults, NEW p \in Procs, CallStep(p)
    PROVE  OneByOne'
  <1>1. Typed' /\ Tracked'
    BY CallKeeps DEF OneByOne
  <1>2. chain' = chain /\ sync' = FALSE /\ inflight' = {}
    BY NetworkMoves
  <1>3. ChainOrdered' /\ Mined' = Mined /\ Mined \in Nat /\ Landed' = Landed
    BY <1>2, LandedBelow DEF OneByOne, ChainOrdered, Mined, Landed
  <1>4. CallOK(p, call[p]) /\ Typed /\ PoolOrdered
    BY DEF OneByOne, Typed
  <1>5. pool' # pool => /\ pool' = WithTx(call[p].tx) /\ IsAcceptable(call[p].tx)
                        /\ call[p].tx \in Txs /\ call[p].tx.by = p
    BY <1>4, NetworkMoves DEF CallOK
  <1>6. PoolOrdered'
    <2>1. CASE pool' = pool
      BY <1>3, <1>4, <2>1 DEF PoolOrdered
    <2>2. CASE pool' # pool
      <3>1. call[p].tx.nonce \in Nat /\ ~(call[p].tx.nonce < Mined)
        BY <1>5, <2>2, Numbers DEF IsAcceptable, IsLow
      <3>2. call[p].tx.nonce >= Mined
        BY <1>3, <3>1
      <3> QED BY <1>2, <1>4, <1>5, <2>2, <3>2, PoolTakes
    <2> QED BY <2>1, <2>2
  <1>7. PICK d : Go(p, d) /\ Fits(p, d, Alive(p)', Queue(p)', Mined')
    BY StepFits DEF Lands
  <1>8. call'[p] = d /\ \A q \in Procs : q # p => call'[q] = call[q]
    BY <1>4, <1>7 DEF Typed, Go
  <1>9. ASSUME NEW q \in Procs PROVE Fits(q, call'[q], Alive(q)', Queue(q)', Mined')
    <2>1. CASE q = p
      BY <1>7, <1>8, <2>1
    <2>2. CASE q # p
      <3>1. \A t \in pool' : t.by = q => t \in pool
        BY <1>5, <2>2 DEF WithTx
      <3>2. Alive(q)' \subseteq Alive(q) /\ Queue(q)' \subseteq Queue(q)
        BY <1>3, <3>1 DEF Alive, Queue
      <3>3. Mined' \in Nat /\ Mined <= Mined' /\ call'[q] = call[q]
        BY <1>3, <1>8, <2>2
      <3> QED BY <3>2, <3>3, UnmovedFits
    <2> QED BY <2>1, <2>2
  <1>10. ASSUME NEW q \in Procs
         PROVE  Alive(q)' \subseteq Alive(q) \/ \E n : \A t \in Alive(q)' : t.nonce = n
    <2>1. CASE pool' = pool
      BY <1>2, <2>1, ViewSame
    <2>2. CASE q # p
      <3>1. \A t \in pool' : t.by = q => t \in pool
        BY <1>5, <2>2 DEF WithTx
      <3> QED BY <1>3, <3>1 DEF Alive
    <2>3. CASE pool' # pool /\ q = p
      <3>1. PICK alive, queue, mined : Context(p, alive, queue, mined)
        <4>1. Context(p, Alive(p), Queue(p), Mined)
          BY Worldly DEF OneByOne, Context, Typed
        <4> QED BY <4>1
      <3>2. call[p].at = "built" /\ pool' = WithTx(call[p].tx)
        BY <2>3, NetworkMoves
      <3>3. Alive(p)' \subseteq alive \union {call[p].tx}
        BY <1>2, <3>1, <3>2, ViewReplaced
      <3>4. \A t \in alive : t.nonce = call[p].tx.nonce
        BY <3>1, <3>2, BuiltCall
      <3> QED BY <2>3, <3>3, <3>4
    <2> QED BY <2>1, <2>2, <2>3
  <1>11. OneNonceAlive'
    BY <1>10, AliveKeeps
  <1> QED BY <1>1, <1>2, <1>3, <1>6, <1>9, <1>11 DEF OneByOne

\* A step of the network: what each call has out there only shrinks.
LEMMA NetworkKeepsOne ==
    ASSUME OneByOne, Mine \/ Arrive \/ ForeignTx \/ Evict
    PROVE  OneByOne'
  <1>1. Typed /\ Tracked /\ PoolOrdered /\ ChainOrdered /\ inflight = {} /\ sync = FALSE /\ pool \subseteq Txs
    BY DEF OneByOne, Typed
  <1>2. Typed' /\ Tracked'
    BY <1>1, MineKeeps, ArriveKeeps, ForeignKeeps, EvictKeeps
  <1>3. Mined \in Nat
    BY <1>1, LandedBelow
  <1>4. ~Arrive
    BY <1>1 DEF Arrive
  <1>5. ASSUME call' = call, sync' = sync, inflight' = inflight, ChainOrdered', PoolOrdered',
               Mined' \in Nat, Mined <= Mined',
               \A t \in pool' : t.by \in Procs => t \in pool,
               \A t \in Landed' : t \in Landed \union pool
        PROVE  OneByOne'
    <2>1. ASSUME NEW q \in Procs PROVE Fits(q, call'[q], Alive(q)', Queue(q)', Mined')
      <3>1. Alive(q)' \subseteq Alive(q) /\ Queue(q)' \subseteq Queue(q)
        BY <1>5 DEF Alive, Queue
      <3>2. call'[q] = call[q]
        BY <1>5
      <3> QED BY <1>5, <3>1, <3>2, UnmovedFits
    <2>2. \A q \in Procs : Alive(q)' \subseteq Alive(q)
      BY <1>5 DEF Alive
    <2>3. OneNonceAlive'
      BY <2>2, AliveKeeps
    <2> QED BY <1>1, <1>2, <1>5, <2>1, <2>3 DEF OneByOne
  <1>6. CASE Mine
    <2>1. /\ sync' = sync /\ inflight' = inflight /\ call' = call
          /\ Len(chain) \in Nat /\ Len(chain') = Len(chain) + 1
          /\ DOMAIN chain = 1 .. Len(chain) /\ DOMAIN chain' = 1 .. (Len(chain) + 1)
          /\ \A i \in 1 .. Len(chain) : chain'[i] = chain[i]
      BY <1>1, <1>6, MinedNext
    <2>2. PICK t \in pool : /\ t.nonce = Mined /\ pool' = pool \ {t}
                            /\ chain'[Len(chain) + 1] = t /\ Landed' \subseteq Landed \union {t}
      BY <1>1, <1>6, MinedNext
    <2>3. Mined' = Mined + 1
      BY <2>1 DEF Mined
    <2>4. ASSUME NEW i \in 1 .. (Len(chain) + 1) PROVE chain'[i].nonce = i - 1
      <3>1. CASE i \in 1 .. Len(chain)
        BY <1>1, <2>1, <3>1 DEF ChainOrdered
      <3>2. CASE i = Len(chain) + 1
        BY <2>1, <2>2, <3>2 DEF Mined
      <3> QED BY <2>1, <3>1, <3>2
    <2>5. ChainOrdered'
      BY <2>1, <2>4 DEF ChainOrdered
    <2>6. \A u \in pool' : u \in pool /\ u.nonce # Mined /\ u.nonce >= Mined /\ u.nonce \in Nat
      BY <1>1, <2>2, Numbers DEF PoolOrdered
    <2>7. PoolOrdered'
      BY <1>1, <1>3, <2>3, <2>6 DEF PoolOrdered
    <2> QED BY <1>3, <1>5, <2>1, <2>2, <2>3, <2>5, <2>7
  <1>7. CASE ForeignTx
    <2> DEFINE t == [by |-> Foreign, nonce |-> Pending, price |-> 1]
    <2>1. pool' = WithTx(t) /\ UNCHANGED <<chain, sync, inflight, call>>
      BY <1>7 DEF ForeignTx
    <2>2. Mined <= Pending /\ Pending \in Nat
      <3>1. Len(chain) <= MaxNonce + 1
        BY <1>1 DEF Typed
      <3>2. Mined \in 0 .. (MaxNonce + 1)
        BY <1>3, <3>1, Numbers DEF Mined
      <3> QED BY <1>1, <3>2, Numbers, PendingIsNonce
    <2>3. t.nonce >= Mined /\ t.by \notin Procs
      BY <1>3, <2>2, ForeignAssumption
    <2> HIDE DEF t
    <2>4. PoolOrdered'
      BY <1>1, <2>1, <2>3, PoolTakes
    <2>5. Mined' = Mined /\ Landed' = Landed /\ ChainOrdered'
      BY <1>1, <2>1 DEF Mined, Landed, ChainOrdered
    <2>6. \A u \in pool' : u.by \in Procs => u \in pool
      BY <2>1, <2>3 DEF WithTx
    <2> QED BY <1>3, <1>5, <2>1, <2>4, <2>5, <2>6
  <1>8. CASE Evict
    <2>1. pool' \subseteq pool /\ UNCHANGED <<chain, sync, inflight, call>>
      BY <1>8 DEF Evict
    <2>2. Mined' = Mined /\ Landed' = Landed /\ ChainOrdered'
      BY <1>1, <2>1 DEF Mined, Landed, ChainOrdered
    <2>3. PoolOrdered'
      BY <1>1, <2>1, <2>2 DEF PoolOrdered
    <2> QED BY <1>3, <1>5, <2>1, <2>2, <2>3
  <1> QED BY <1>4, <1>6, <1>7, <1>8

LEMMA StaysOneByOne ==
    ASSUME "txStatus" \notin Faults, OneByOne, [Next]_vars
    PROVE  OneByOne'
  <1>1. CASE UNCHANGED vars
    <2>1. UNCHANGED <<trackerVars, netVars, recorded, call, faults>>
      BY <1>1 DEF vars
    <2>2. Typed' /\ Tracked'
      BY Preserved DEF OneByOne
    <2>3. chain' = chain /\ pool' = pool /\ sync' = sync /\ inflight' = inflight /\ call' = call
      BY <2>1 DEF netVars
    <2>4. Mined' = Mined /\ Landed' = Landed
      BY <2>3 DEF Mined, Landed
    <2>5. \A q \in Procs : Alive(q)' = Alive(q) /\ Queue(q)' = Queue(q)
      BY <2>3, <2>4 DEF Alive, Queue
    <2>6. ChainOrdered' /\ PoolOrdered'
      BY <2>3, <2>4 DEF OneByOne, ChainOrdered, PoolOrdered
    <2>7. \A q \in Procs : Fits(q, call'[q], Alive(q)', Queue(q)', Mined')
      BY <2>3, <2>4, <2>5 DEF OneByOne
    <2>8. OneNonceAlive'
      BY <2>5, AliveKeeps
    <2> QED BY <2>2, <2>3, <2>6, <2>7, <2>8 DEF OneByOne
  <1>2. Next => (\E p \in Procs : CallStep(p)) \/ Mine \/ Arrive \/ ForeignTx \/ Evict \/ UNCHANGED vars
    BY DEF Next, Finished
  <1> QED BY <1>1, <1>2, CallKeepsOne, NetworkKeepsOne

-----------------------------------------------------------------------------
(***************************************************************************)
(* The theorem.                                                            *)
(***************************************************************************)

\* manager_tx.go:969-973, 1144-1287: a call that is underpriced, sees a nonce gap or
\* a nonce that is too low, bumps, loses or retries a transaction never has two of
\* its transactions alive at different nonces, whatever else happens to it, as long
\* as broadcasts are answered at once and the lookups of getTxStatuses do not fail.
\* Each hypothesis is needed: without it TLC finds two alive.
THEOREM PaysOnce ==
    ASSUME SyncModes = {FALSE}, "txStatus" \notin Faults
    PROVE  Spec => []OneNonceAlive
  <1>1. Init => OneByOne
    BY StartsOneByOne
  <1>2. OneByOne /\ [Next]_vars => OneByOne'
    BY StaysOneByOne
  <1>3. OneByOne => OneNonceAlive
    BY DEF OneByOne
  <1> QED BY <1>1, <1>2, <1>3, PTL DEF Spec
=============================================================================
