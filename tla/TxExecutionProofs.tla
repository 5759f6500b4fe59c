-------------------------- MODULE TxExecutionProofs --------------------------
(***************************************************************************)
(* What the execution loop guarantees for every number of concurrent       *)
(* calls, retries, failures and prices, whatever the nodes answer.         *)
(***************************************************************************)
EXTENDS TxExecution, NonceTrackerProofs, SequenceTheorems, WellFoundedInduction

(***************************************************************************)
(* The nodes' pending count is a nonce: the first without a transaction.   *)
(***************************************************************************)
LEMMA LeastNatural ==
    ASSUME NEW S \in SUBSET Nat, S # {}
    PROVE  \E n \in S : \A k \in S : n <= k
  <1> DEFINE R == {ss \in Nat \X Nat : ss[1] < ss[2]}
  <1>1. IsWellFoundedOn(R, Nat)
    BY NatLessThanWellFounded DEF OpToRel
  <1> HIDE DEF R
  <1>2. PICK n \in S : \A k \in S : ~(<<k, n>> \in R)
    BY <1>1, WFMin
  <1>3. \A k \in S : ~(k < n)
    BY <1>2 DEF R
  <1> QED BY <1>3

LEMMA Numbers ==
    /\ MaxNonce \in Nat /\ 0 \in Nonces /\ None \notin Nonces
    /\ Nonces \subseteq Nat /\ \A n \in Nonces : n - 1 \in {None} \union Nonces
    /\ \A n \in 0 .. (MaxNonce + 1) : n - 1 \in {None} \union Nonces
    /\ 1 \in Prices /\ 0 \notin Prices
    /\ NoTx \notin Txs
    /\ NoReplies \in Replies
    /\ \A c \in Replies : c.mined \in 0 .. (MaxNonce + 1) /\ c.pending \in 0 .. (MaxNonce + 1)
    /\ \A t \in Txs : t.nonce \in Nonces /\ t.price \in Prices
  BY ExecutionAssumption DEF Nonces, None, Prices, Txs, NoTx, NoReplies, Replies

LEMMA PendingIsNonce ==
    ASSUME pool \subseteq Txs, Mined \in 0 .. (MaxNonce + 1)
    PROVE  Pending \in 0 .. (MaxNonce + 1) /\ Mined <= Pending
  <1> DEFINE Free == {n \in Mined .. (MaxNonce + 1) : PoolAt(n) = {}}
             First(n) == PoolAt(n) = {} /\ \A k \in Mined .. (n - 1) : PoolAt(k) # {}
  <1>1. MaxNonce \in Nat /\ Mined \in Nat /\ Mined <= MaxNonce + 1
    BY Numbers
  <1>2. PoolAt(MaxNonce + 1) = {}
    BY <1>1, Numbers DEF PoolAt, Nonces
  <1>3. Free \in SUBSET Nat /\ MaxNonce + 1 \in Free
    BY <1>1, <1>2
  <1>4. PICK n \in Free : \A k \in Free : n <= k
    <2> HIDE DEF Free
    <2> QED BY <1>3, LeastNatural
  <1>5. n \in Mined .. (MaxNonce + 1) /\ PoolAt(n) = {}
    BY <1>4
  <1>6. \A k \in Mined .. (n - 1) : PoolAt(k) # {}
    <2> SUFFICES ASSUME NEW k \in Mined .. (n - 1) PROVE k \notin Free
      BY <1>1, <1>5
    <2>1. ~(n <= k)
      BY <1>1, <1>5
    <2> QED BY <1>4, <2>1
  <1>7. \E k \in Mined .. (MaxNonce + 1) : First(k)
    BY <1>5, <1>6
  <1>8. Pending = CHOOSE k \in Mined .. (MaxNonce + 1) : First(k)
    BY DEF Pending
  <1>9. Pending \in Mined .. (MaxNonce + 1)
    <2> HIDE DEF First
    <2> QED BY <1>7, <1>8
  <1> QED BY <1>1, <1>9

LEMMA Counted ==
    ASSUME faults \in 0 .. MaxFaults, NEW kind, NoFault \/ Fault(kind)
    PROVE  faults' \in 0 .. MaxFaults
  BY ExecutionAssumption DEF NoFault, Fault

-----------------------------------------------------------------------------
(***************************************************************************)
(* The states of one call, and what the operators the handlers are built   *)
(* from make of one.                                                       *)
(***************************************************************************)
Thens == {"loop", "receipt", "exit", "done"}

CallStates ==
    [at : Places, attempts : 0 .. MaxAttempts, nonce : {None} \union Nonces,
     price : {0} \union Prices, limit : BOOLEAN, resume : {NoTx} \union Txs,
     old : SUBSET Txs, tx : {NoTx} \union Txs, remote : Replies,
     then : Thens, outcome : Outcomes]

\* What a handler changes of the call besides its retry state.
Left(d, c, place, t, old, outcome) ==
    /\ d \in CallStates
    /\ d.at = place /\ d.tx = t /\ d.old = old /\ d.outcome = outcome
    /\ d.resume = c.resume

LEMMA CallFields ==
    ASSUME NEW c \in CallStates
    PROVE  /\ c.at \in Places /\ c.attempts \in 0 .. MaxAttempts /\ c.nonce \in {None} \union Nonces
           /\ c.price \in {0} \union Prices /\ c.limit \in BOOLEAN /\ c.resume \in {NoTx} \union Txs
           /\ c.old \in SUBSET Txs /\ c.tx \in {NoTx} \union Txs /\ c.remote \in Replies
           /\ c.then \in Thens /\ c.outcome \in Outcomes
  BY DEF CallStates

LEMMA PlaceSet ==
    ASSUME NEW c \in CallStates, NEW place \in Places
    PROVE  Left([c EXCEPT !.at = place], c, place, c.tx, c.old, c.outcome)
  BY DEF CallStates, Left

LEMMA Returned ==
    ASSUME NEW c \in CallStates, NEW o \in Outcomes
    PROVE  Left(Return(c, o), c, "exit", NoTx, c.old, o)
  BY DEF CallStates, Left, Return, Places

LEMMA Retried ==
    ASSUME NEW c \in CallStates
    PROVE  Left(Retry(c), c, "loop", NoTx, c.old, c.outcome)
  BY DEF CallStates, Left, Retry, Places

LEMMA Monitored ==
    ASSUME NEW c \in CallStates, NEW t \in Txs
    PROVE  Left(Monitor(c, t), c, "monitor", t, c.old, c.outcome)
  BY DEF CallStates, Left, Monitor, Places

LEMMA Reported ==
    ASSUME NEW c \in CallStates, NEW t \in Txs
    PROVE  Left(Report(c, t), c, "done", t, c.old, "mined")
  BY DEF CallStates, Left, Report, Places, Outcomes

LEMMA Resynced ==
    ASSUME NEW c \in CallStates, NEW next \in Thens
    PROVE  Left(Resync(c, next), c, "resync", NoTx, c.old, c.outcome) /\ Resync(c, next).then = next
  BY DEF CallStates, Left, Resync, Places

LEMMA SignedCall ==
    ASSUME NEW c \in CallStates, c.tx \in Txs
    PROVE  /\ Left(Signed(c), c, c.at, c.tx, c.old \union {c.tx}, c.outcome)
           /\ Signed(c).nonce = c.nonce /\ Signed(c).attempts = c.attempts
           /\ Signed(c).then = c.then
  <1>1. c.old \union {c.tx} \in SUBSET Txs
    BY DEF CallStates
  <1> QED BY <1>1 DEF CallStates, Left, Signed

LEMMA NonceSet ==
    ASSUME NEW c \in CallStates, NEW n \in {None} \union Nonces
    PROVE  /\ Left([c EXCEPT !.nonce = n], c, c.at, c.tx, c.old, c.outcome)
           /\ [c EXCEPT !.nonce = n].attempts = c.attempts
  BY DEF CallStates, Left

LEMMA RetryCounted ==
    ASSUME NEW c \in CallStates, ~Exhausted(c)
    PROVE  Left(CountRetry(c), c, c.at, c.tx, c.old, c.outcome)
  <1>1. c.attempts + 1 \in 0 .. MaxAttempts
    BY ExecutionAssumption DEF CallStates, Exhausted
  <1> QED BY <1>1 DEF CallStates, Left, CountRetry

LEMMA BumpedCall ==
    ASSUME NEW c \in CallStates, NEW t \in Txs, CanBump(t)
    PROVE  Left(Bump(c, t), c, c.at, c.tx, c.old, c.outcome)
  <1>1. t.price + 1 \in Prices /\ t.nonce \in Nonces
    BY ExecutionAssumption, Numbers DEF CanBump, Prices
  <1> QED BY <1>1 DEF CallStates, Left, Bump

\* A handler that leaves the transaction it worked on: for the top of the loop, a
\* result, or the resynchronisation before one of them.
Ends(d, c) ==
    /\ d \in CallStates /\ d.old = c.old /\ d.resume = c.resume
    /\ d.at \in {"loop", "exit", "done", "resync"}
    /\ d.at = "resync" => d.then \in {"loop", "exit", "done"}
    /\ d.outcome = c.outcome \/ d.outcome # "cancelled"

LEMMA RetryEnds == \A c \in CallStates : Ends(Retry(c), c)
  BY Retried DEF Ends, Left

LEMMA ReturnEnds == \A c \in CallStates, o \in Outcomes \ {"cancelled"} : Ends(Return(c, o), c)
  BY Returned DEF Ends, Left

LEMMA ResyncEnds == \A c \in CallStates, next \in {"loop", "exit", "done"} : Ends(Resync(c, next), c)
  BY Resynced DEF Ends, Left, Thens

LEMMA RetryResyncs ==
    ASSUME NEW c \in CallStates
    PROVE  Ends(Resync(Return(c, "retries"), "exit"), c)
  <1>1. Left(Return(c, "retries"), c, "exit", NoTx, c.old, "retries")
    BY Returned DEF Outcomes
  <1>2. Ends(Resync(Return(c, "retries"), "exit"), Return(c, "retries"))
    BY <1>1, ResyncEnds DEF Left
  <1> QED BY <1>1, <1>2 DEF Ends, Left

LEMMA BumpEnds ==
    ASSUME NEW c \in CallStates, NEW t \in Txs
    PROVE  Ends(BumpOrStop(c, t), c)
  <1>1. CASE CanBump(t)
    <2>1. Left(Bump(c, t), c, c.at, c.tx, c.old, c.outcome)
      BY <1>1, BumpedCall
    <2>2. Ends(Retry(Bump(c, t)), Bump(c, t))
      BY <2>1, RetryEnds DEF Left
    <2> QED BY <1>1, <2>1, <2>2 DEF BumpOrStop, Ends, Left
  <1>2. CASE ~CanBump(t)
    BY <1>2, ReturnEnds DEF BumpOrStop, Outcomes
  <1> QED BY <1>1, <1>2

LEMMA SameNonceEnds ==
    ASSUME NEW c \in CallStates, c.tx \in Txs
    PROVE  Ends(RetrySameNonce(c), c)
  <1>1. CASE Exhausted(c)
    BY <1>1, RetryResyncs DEF RetrySameNonce
  <1>2. CASE ~Exhausted(c)
    <2> DEFINE e == [CountRetry(c) EXCEPT !.nonce = c.tx.nonce]
    <2>1. Left(CountRetry(c), c, c.at, c.tx, c.old, c.outcome)
      BY <1>2, RetryCounted
    <2>2. c.tx.nonce \in {None} \union Nonces /\ CountRetry(c) \in CallStates
      BY <2>1, Numbers DEF Left
    <2>3. Left(e, CountRetry(c), CountRetry(c).at, CountRetry(c).tx, CountRetry(c).old,
               CountRetry(c).outcome)
      BY <2>2, NonceSet
    <2>4. RetrySameNonce(c) = Retry(e)
      BY <1>2 DEF RetrySameNonce
    <2> HIDE DEF e
    <2>5. Ends(Retry(e), e)
      BY <2>3, RetryEnds DEF Left
    <2> QED BY <2>1, <2>3, <2>4, <2>5 DEF Ends, Left
  <1> QED BY <1>1, <1>2

LEMMA LowEnds ==
    ASSUME NEW c \in CallStates, ~Exhausted(c)
    PROVE  Ends(LowRetry(c), c)
  <1> DEFINE e == [CountRetry(c) EXCEPT !.nonce = None]
  <1>1. Left(CountRetry(c), c, c.at, c.tx, c.old, c.outcome)
    BY RetryCounted
  <1>2. Left(e, CountRetry(c), CountRetry(c).at, CountRetry(c).tx, CountRetry(c).old,
             CountRetry(c).outcome)
    BY <1>1, NonceSet DEF Left
  <1>3. LowRetry(c) = Resync(e, "loop")
    BY DEF LowRetry
  <1> HIDE DEF e
  <1>4. Ends(Resync(e, "loop"), e)
    BY <1>2, ResyncEnds DEF Left
  <1> QED BY <1>1, <1>2, <1>3, <1>4 DEF Ends, Left

LEMMA HandledMined ==
    ASSUME NEW p \in Procs, NEW c \in CallStates, NEW t \in Txs, HandleMined(p, c, t)
    PROVE  \E d : Go(p, d) /\ Ends(d, c)
  <1>1. Ends(Report(c, t), c)
    BY Reported DEF Ends, Left
  <1>2. \A e \in {"reverted", "hook"} : Ends(Return(c, e), c)
    BY ReturnEnds DEF Outcomes
  <1> QED BY <1>1, <1>2 DEF HandleMined

-----------------------------------------------------------------------------
(***************************************************************************)
(* The inductive invariant.  A call knows what it signed: OldTxs and,      *)
(* until a broadcast that may have succeeded is registered, its            *)
(* transaction.  What is out is in the mempool, mined, or may still reach  *)
(* a node.  Only a call cancelled in the middle of a synchronous broadcast *)
(* may leave something it does not know; it sends nothing any more.        *)
(***************************************************************************)
Sent == {"sync", "register", "persist"}
Stopped == {"exit", "resync", "apply", "done"}

Knows(c) == c.old \union (IF c.at \in Sent THEN {c.tx} ELSE {})

CallOK(p, c) ==
    /\ c \in CallStates
    /\ c.at \in Sent \union {"built", "low"} => c.tx \in Txs /\ c.tx.by = p
    /\ c.at \in {"monitor", "waiting"} => c.tx \in c.old
    /\ c.resume # NoTx => c.resume \in c.old
    /\ c.at \in {"resync", "apply"} => c.then \in {"loop", "exit", "done"}
    /\ c.outcome = "cancelled" =>
           /\ c.at \in Stopped
           /\ c.at \in {"resync", "apply"} => c.then \in {"exit", "done"}

Typed ==
    /\ stored \in {None} \union Nonces
    /\ claimed \subseteq Nonces
    /\ chain \in Seq(Txs) /\ Len(chain) <= MaxNonce + 1
    /\ pool \subseteq Txs
    /\ sync \in SyncModes
    /\ inflight \subseteq [tx : Txs, attempt : 0 .. MaxAttempts]
    /\ recorded \subseteq Nonces
    /\ call \in [Procs -> CallStates]
    /\ \A p \in Procs : CallOK(p, call[p])
    /\ faults \in 0 .. MaxFaults

Out == pool \union Landed \union {s.tx : s \in inflight}

Tracked ==
    \A p \in Procs : call[p].outcome # "cancelled" =>
        \A t \in Out : t.by = p => t \in Knows(call[p])

\* A step of a call, by what it makes of the call and of what is out.
Advances(p, d) ==
    /\ Go(p, d) /\ CallOK(p, d)
    /\ call[p].outcome = "cancelled" => d.outcome = "cancelled"
    /\ d.outcome = "cancelled" \/ Knows(call[p]) \subseteq Knows(d)
    /\ \A t \in Out' : t \in Out \/ (t \in Knows(d) /\ t.by = p)

LEMMA OutSame == UNCHANGED netVars => Out' = Out
  BY DEF netVars, Out, Landed

\* The call leaves its transaction, which nobody has or which joins OldTxs.
LEMMA EndsAdvances ==
    ASSUME Typed, NEW p \in Procs, NEW d, Go(p, d),
           call[p].at \notin Stopped,
           \/ call[p].at \notin Sent /\ Ends(d, call[p])
           \/ call[p].tx \in Txs /\ Ends(d, Signed(call[p])),
           Out' \subseteq Out
    PROVE  Advances(p, d)
  <1>1. CallOK(p, call[p]) /\ call[p] \in CallStates
    BY DEF Typed
  <1>2. call[p].outcome # "cancelled"
    BY <1>1 DEF CallOK
  <1>3. CASE call[p].at \notin Sent /\ Ends(d, call[p])
    BY <1>1, <1>2, <1>3 DEF Ends, CallOK, Advances, Knows, Sent, Stopped
  <1>4. CASE call[p].tx \in Txs /\ Ends(d, Signed(call[p]))
    <2>1. Left(Signed(call[p]), call[p], call[p].at, call[p].tx, call[p].old \union {call[p].tx},
               call[p].outcome)
      BY <1>1, <1>4, SignedCall
    <2> QED BY <1>1, <1>2, <1>4, <2>1 DEF Ends, Left, CallOK, Advances, Knows, Sent, Stopped
  <1> QED BY <1>3, <1>4

Moves(p) == \E d : Advances(p, d)

LEMMA TopMoves ==
    ASSUME Typed, NEW p \in Procs,
           \/ Cancelled(p) \/ ResumeMonitoring(p) \/ BeginBuild(p) \/ EstimateFails(p)
           \/ ReadFails(p) \/ Acquire(p) \/ AcquireFails(p) \/ FeeFails(p)
    PROVE  Moves(p)
  <1> DEFINE c == call[p]
  <1>0. c \in CallStates /\ CallOK(p, c)
    BY DEF Typed
  <1>a. Out' = Out
    BY OutSame DEF Cancelled, ResumeMonitoring, BeginBuild, EstimateFails, ReadFails, Acquire,
                   AcquireFails, FeeFails
  <1> HIDE DEF c
  <1>1. CASE Cancelled(p)
    <2>1. Go(p, Return(c, "cancelled"))
      BY <1>1 DEF Cancelled, c
    <2>2. Left(Return(c, "cancelled"), c, "exit", NoTx, c.old, "cancelled")
      BY <1>0, Returned DEF Outcomes
    <2> QED BY <1>0, <1>a, <2>1, <2>2 DEF Moves, Advances, CallOK, Left, Sent, Stopped
  <1>2. CASE ResumeMonitoring(p)
    <2> DEFINE e == [c EXCEPT !.resume = NoTx]
    <2>1. Go(p, Monitor(e, c.resume)) /\ c.at = "loop" /\ c.resume \in c.old
      BY <1>0, <1>2 DEF ResumeMonitoring, c, CallOK
    <2>2. /\ e \in CallStates /\ e.old = c.old /\ e.resume = NoTx /\ e.outcome = c.outcome
          /\ c.resume \in Txs
      BY <1>0, <2>1 DEF CallStates
    <2> HIDE DEF e
    <2>3. Left(Monitor(e, c.resume), e, "monitor", c.resume, e.old, e.outcome)
      BY <2>2, Monitored
    <2> QED BY <1>0, <1>a, <2>1, <2>2, <2>3
            DEF Moves, Advances, CallOK, Left, Sent, Stopped, Knows, c
  <1>3. CASE BeginBuild(p)
    <2>0. c.at = "loop" /\ c.resume = NoTx /\ c.outcome # "cancelled"
      BY <1>0, <1>3 DEF BeginBuild, c, CallOK, Stopped
    <2>1. CASE c.nonce # None
      <3> DEFINE t == [by |-> p, nonce |-> c.nonce, price |-> Price(c)]
      <3>1. Go(p, [c EXCEPT !.at = "built", !.tx = t])
        BY <1>3, <2>1 DEF BeginBuild, c
      <3>2. t \in Txs /\ t.by = p
        BY <1>0, <2>1, Numbers, CallFields DEF Price, Txs
      <3> HIDE DEF t
      <3>3. /\ [c EXCEPT !.at = "built", !.tx = t] \in CallStates
            /\ [c EXCEPT !.at = "built", !.tx = t].at = "built"
            /\ [c EXCEPT !.at = "built", !.tx = t].tx = t
            /\ [c EXCEPT !.at = "built", !.tx = t].old = c.old
            /\ [c EXCEPT !.at = "built", !.tx = t].resume = c.resume
            /\ [c EXCEPT !.at = "built", !.tx = t].outcome = c.outcome
        BY <1>0, <3>2 DEF CallStates, Places
      <3> QED BY <1>a, <2>0, <3>1, <3>2, <3>3 DEF Moves, Advances, CallOK, Sent, Stopped, Knows, c
    <2>2. CASE c.nonce = None
      <3>1. PICK counts \in Replies : Go(p, [c EXCEPT !.at = "acquire", !.remote = counts])
        BY <1>3, <2>2 DEF BeginBuild, c
      <3>2. /\ [c EXCEPT !.at = "acquire", !.remote = counts] \in CallStates
            /\ [c EXCEPT !.at = "acquire", !.remote = counts].at = "acquire"
            /\ [c EXCEPT !.at = "acquire", !.remote = counts].old = c.old
            /\ [c EXCEPT !.at = "acquire", !.remote = counts].resume = c.resume
            /\ [c EXCEPT !.at = "acquire", !.remote = counts].outcome = c.outcome
        BY <1>0 DEF CallStates, Places
      <3> QED BY <1>a, <2>0, <3>1, <3>2 DEF Moves, Advances, CallOK, Sent, Stopped, Knows, c
    <2> QED BY <2>1, <2>2
  <1>4. CASE EstimateFails(p)
    <2>0. c.at = "loop" /\ c.resume = NoTx /\ c.outcome # "cancelled"
      BY <1>0, <1>4 DEF EstimateFails, c, CallOK, Stopped
    <2>1. Go(p, [c EXCEPT !.at = "estimateFailed"])
      BY <1>4 DEF EstimateFails, c
    <2>2. Left([c EXCEPT !.at = "estimateFailed"], c, "estimateFailed", c.tx, c.old, c.outcome)
      BY <1>0, PlaceSet DEF Places
    <2> QED BY <1>a, <2>0, <2>1, <2>2 DEF Moves, Advances, CallOK, Left, Sent, Stopped, Knows, c
  <1>5. CASE ReadFails(p)
    <2>1. Go(p, Return(c, "acquire")) /\ c.at = "loop"
      BY <1>5 DEF ReadFails, c
    <2>2. Ends(Return(c, "acquire"), c)
      BY <1>0, ReturnEnds DEF Outcomes
    <2> QED BY <1>a, <2>1, <2>2, EndsAdvances DEF Moves, Sent, Stopped, c
  <1>6. CASE Acquire(p)
    <2>0. c.at = "acquire" /\ c.outcome # "cancelled"
      BY <1>0, <1>6 DEF Acquire, c, CallOK, Stopped
    <2>1. PICK n \in Nonces :
              Go(p, [c EXCEPT !.at = "built", !.remote = NoReplies,
                              !.tx = [by |-> p, nonce |-> n, price |-> Price(c)]])
      BY <1>6 DEF Acquire, c
    <2> DEFINE t == [by |-> p, nonce |-> n, price |-> Price(c)]
    <2>2. t \in Txs /\ t.by = p
      BY <1>0, Numbers, CallFields DEF Price, Txs
    <2> HIDE DEF t
    <2> DEFINE d == [c EXCEPT !.at = "built", !.remote = NoReplies, !.tx = t]
    <2>3. /\ d \in CallStates /\ d.at = "built" /\ d.tx = t /\ d.old = c.old
          /\ d.resume = c.resume /\ d.outcome = c.outcome
      BY <1>0, <2>2, Numbers DEF CallStates, Places
    <2>4. Go(p, d)
      BY <2>1 DEF t
    <2> HIDE DEF d
    <2> QED BY <1>0, <1>a, <2>0, <2>2, <2>3, <2>4 DEF Moves, Advances, CallOK, Sent, Stopped, Knows, c
  <1>7. CASE AcquireFails(p)
    <2> DEFINE e == [c EXCEPT !.remote = NoReplies]
    <2>1. Go(p, Return(e, "acquire")) /\ c.at = "acquire"
      BY <1>7 DEF AcquireFails, c
    <2>2. e \in CallStates /\ e.old = c.old /\ e.resume = c.resume /\ e.outcome = c.outcome
      BY <1>0, Numbers DEF CallStates
    <2> HIDE DEF e
    <2>3. Ends(Return(e, "acquire"), e)
      BY <2>2, ReturnEnds DEF Outcomes
    <2>4. Ends(Return(e, "acquire"), c)
      BY <2>2, <2>3 DEF Ends
    <2> QED BY <1>a, <2>1, <2>4, EndsAdvances DEF Moves, Sent, Stopped, c
  <1>8. CASE FeeFails(p)
    <2>1. Go(p, Return(c, "fee")) /\ c.at = "built"
      BY <1>8 DEF FeeFails, c
    <2>2. Ends(Return(c, "fee"), c)
      BY <1>0, ReturnEnds DEF Outcomes
    <2> QED BY <1>a, <2>1, <2>2, EndsAdvances DEF Moves, Sent, Stopped, c
  <1> QED BY <1>1, <1>2, <1>3, <1>4, <1>5, <1>6, <1>7, <1>8

LEMMA EstimateMoves ==
    ASSUME Typed, NEW p \in Procs,
           \/ EstimateFindsMined(p) \/ EstimateFindsPending(p) \/ EstimateGivesNothing(p)
           \/ SimulationFails(p) \/ SimulationReverts(p) \/ SignFails(p)
    PROVE  Moves(p)
  <1> DEFINE c == call[p]
  <1>0. c \in CallStates /\ CallOK(p, c) /\ c.old \subseteq Txs
    BY CallFields DEF Typed
  <1>a. Out' = Out
    BY OutSame DEF EstimateFindsMined, EstimateFindsPending, EstimateGivesNothing, SimulationFails,
                   SimulationReverts, SignFails
  <1>b. c.at \in {"estimateFailed", "built"}
    BY DEF EstimateFindsMined, EstimateFindsPending, EstimateGivesNothing, SimulationFails,
           SimulationReverts, SignFails
  <1>c. ASSUME NEW d, Go(p, d), Ends(d, c) PROVE Moves(p)
    BY <1>a, <1>b, <1>c, EndsAdvances DEF Moves, Sent, Stopped
  <1> HIDE DEF c
  <1>1. CASE EstimateFindsMined(p)
    <2>1. PICK t \in c.old : HandleMined(p, c, t)
      BY <1>1 DEF EstimateFindsMined, c
    <2> QED BY <1>0, <1>c, <2>1, HandledMined
  <1>2. CASE EstimateFindsPending(p)
    <2>1. PICK t \in c.old : Go(p, Monitor(c, t))
      BY <1>2 DEF EstimateFindsPending, c
    <2>2. Left(Monitor(c, t), c, "monitor", t, c.old, c.outcome)
      BY <1>0, <2>1, Monitored
    <2>3. c.outcome # "cancelled"
      BY <1>0, <1>b DEF CallOK, Stopped
    <2> QED BY <1>0, <1>a, <1>b, <2>1, <2>2, <2>3 DEF Moves, Advances, CallOK, Left, Sent, Stopped, Knows, c
  <1>3. CASE EstimateGivesNothing(p)
    <2>1. CASE Go(p, Return(c, "estimate"))
      BY <1>0, <1>c, <2>1, ReturnEnds DEF Outcomes
    <2>2. ASSUME ~Exhausted(c), NEW set \in BOOLEAN,
                 Go(p, Retry([CountRetry(c) EXCEPT !.limit = set]))
          PROVE  Moves(p)
      <3> DEFINE b == CountRetry(c)
                 e == [b EXCEPT !.limit = set]
      <3>1. Left(b, c, c.at, c.tx, c.old, c.outcome)
        BY <1>0, <2>2, RetryCounted
      <3> HIDE DEF b
      <3>2. e \in CallStates /\ e.old = b.old /\ e.resume = b.resume /\ e.outcome = b.outcome
        BY <3>1 DEF CallStates, Left
      <3>3. Go(p, Retry(e))
        BY <2>2 DEF b
      <3> HIDE DEF e
      <3>4. Ends(Retry(e), c)
        BY <3>1, <3>2, RetryEnds DEF Ends, Left
      <3> QED BY <1>c, <3>3, <3>4
    <2> QED BY <1>3, <2>1, <2>2 DEF EstimateGivesNothing, c
  <1>4. CASE SimulationFails(p) \/ SignFails(p)
    <2>1. PICK o \in {"simulation", "sign"} : Go(p, Return(c, o))
      BY <1>4 DEF SimulationFails, SignFails, c
    <2> QED BY <1>0, <1>c, <2>1, ReturnEnds DEF Outcomes
  <1>5. CASE SimulationReverts(p)
    <2>1. CASE Go(p, Return(c, "simulation"))
      BY <1>0, <1>c, <2>1, ReturnEnds DEF Outcomes
    <2>2. CASE /\ ~Exhausted(c)
               /\ Go(p, Retry([CountRetry(c) EXCEPT !.nonce = c.tx.nonce, !.limit = TRUE]))
      <3> DEFINE b == CountRetry(c)
                 e == [b EXCEPT !.nonce = c.tx.nonce, !.limit = TRUE]
      <3>1. Left(b, c, c.at, c.tx, c.old, c.outcome)
        BY <1>0, <2>2, RetryCounted
      <3>2. c.tx.nonce \in Nonces
        BY <1>0, <1>5, Numbers DEF SimulationReverts, c, CallOK
      <3> HIDE DEF b
      <3>3. e \in CallStates /\ e.old = b.old /\ e.resume = b.resume /\ e.outcome = b.outcome
        BY <3>1, <3>2 DEF CallStates, Left
      <3>4. Go(p, Retry(e))
        BY <2>2 DEF b
      <3> HIDE DEF e
      <3>5. Ends(Retry(e), c)
        BY <3>1, <3>3, RetryEnds DEF Ends, Left
      <3> QED BY <1>c, <3>4, <3>5
    <2> QED BY <1>5, <2>1, <2>2 DEF SimulationReverts, c
  <1> QED BY <1>1, <1>2, <1>3, <1>4, <1>5

LEMMA BroadcastMoves ==
    ASSUME Typed, NEW p \in Procs,
           \/ BroadcastAccepted(p) \/ SyncSubmit(p) \/ SyncReceipt(p) \/ SyncTimeoutAccepted(p)
           \/ SyncTimeoutUnknown(p) \/ SyncCancelled(p) \/ Register(p) \/ Persist(p)
    PROVE  Moves(p)
  <1> DEFINE c == call[p]
  <1>0. c \in CallStates /\ CallOK(p, c)
    BY DEF Typed
  <1>a. c.at \in Sent \union {"built"} /\ c.tx \in Txs /\ c.tx.by = p /\ c.outcome # "cancelled"
    <2>1. c.at \in Sent \union {"built"}
      BY DEF BroadcastAccepted, SyncSubmit, SyncReceipt, SyncTimeoutAccepted, SyncTimeoutUnknown,
             SyncCancelled, Register, Persist, Sent
    <2> QED BY <1>0, <2>1 DEF CallOK, Sent, Stopped
  <1> HIDE DEF c
  <1>1. CASE BroadcastAccepted(p)
    <2>1. Go(p, [c EXCEPT !.at = "register"]) /\ c.at = "built"
      BY <1>1 DEF BroadcastAccepted, c
    <2>2. Left([c EXCEPT !.at = "register"], c, "register", c.tx, c.old, c.outcome)
      BY <1>0, PlaceSet DEF Places
    <2>3. pool' \subseteq pool \union {c.tx} /\ chain' = chain /\ inflight' = inflight
      BY <1>1 DEF BroadcastAccepted, WithTx, c
    <2>4. \A t \in Out' : t \in Out \union {c.tx}
      BY <2>3 DEF Out, Landed
    <2> QED BY <1>0, <1>a, <2>1, <2>2, <2>4 DEF Moves, Advances, CallOK, Left, Sent, Stopped, Knows, c
  <1>2. CASE SyncSubmit(p)
    <2>1. Go(p, [c EXCEPT !.at = "sync"]) /\ c.at = "built"
      BY <1>2 DEF SyncSubmit, c
    <2>2. Left([c EXCEPT !.at = "sync"], c, "sync", c.tx, c.old, c.outcome)
      BY <1>0, PlaceSet DEF Places
    <2>3. /\ inflight' = inflight \union {Submission(c)} /\ Submission(c).tx = c.tx
          /\ chain' = chain /\ pool' = pool
      BY <1>2 DEF SyncSubmit, Submission, c
    <2>4. \A t \in Out' : t \in Out \union {c.tx}
      BY <2>3 DEF Out, Landed
    <2> QED BY <1>0, <1>a, <2>1, <2>2, <2>4 DEF Moves, Advances, CallOK, Left, Sent, Stopped, Knows, c
  <1>3. CASE SyncReceipt(p)
    <2> DEFINE d == [c EXCEPT !.at = "register", !.then = "receipt"]
    <2>1. Go(p, d) /\ c.at = "sync" /\ UNCHANGED netVars
      BY <1>3 DEF SyncReceipt, c
    <2>2. Left(d, c, "register", c.tx, c.old, c.outcome)
      BY <1>0 DEF CallStates, Left, Places, Thens
    <2> HIDE DEF d
    <2> QED BY <1>0, <1>a, <2>1, <2>2, OutSame DEF Moves, Advances, CallOK, Left, Sent, Stopped, Knows, c
  <1>4. CASE SyncTimeoutAccepted(p)
    <2>1. Go(p, [c EXCEPT !.at = "register"]) /\ c.at = "sync" /\ UNCHANGED netVars
      BY <1>4 DEF SyncTimeoutAccepted, c
    <2>2. Left([c EXCEPT !.at = "register"], c, "register", c.tx, c.old, c.outcome)
      BY <1>0, PlaceSet DEF Places
    <2> QED BY <1>0, <1>a, <2>1, <2>2, OutSame DEF Moves, Advances, CallOK, Left, Sent, Stopped, Knows, c
  <1>5. CASE SyncTimeoutUnknown(p)
    <2>1. Go(p, RetrySameNonce(Signed(c))) /\ UNCHANGED netVars
      BY <1>5 DEF SyncTimeoutUnknown, c
    <2>2. Signed(c) \in CallStates /\ Signed(c).tx \in Txs
      BY <1>0, <1>a, SignedCall DEF Left
    <2>3. Ends(RetrySameNonce(Signed(c)), Signed(c))
      BY <2>2, SameNonceEnds
    <2> QED BY <1>a, <2>1, <2>3, OutSame, EndsAdvances DEF Moves, Sent, Stopped, c
  <1>6. CASE SyncCancelled(p)
    <2>1. Go(p, Return(c, "cancelled")) /\ UNCHANGED netVars
      BY <1>6 DEF SyncCancelled, c
    <2>2. Left(Return(c, "cancelled"), c, "exit", NoTx, c.old, "cancelled")
      BY <1>0, Returned DEF Outcomes
    <2> QED BY <1>0, <2>1, <2>2, OutSame DEF Moves, Advances, CallOK, Left, Sent, Stopped
  <1>7. CASE Register(p)
    <2>1. Go(p, [c EXCEPT !.at = "persist"]) /\ c.at = "register" /\ UNCHANGED netVars
      BY <1>7 DEF Register, c
    <2>2. Left([c EXCEPT !.at = "persist"], c, "persist", c.tx, c.old, c.outcome)
      BY <1>0, PlaceSet DEF Places
    <2> QED BY <1>0, <1>a, <2>1, <2>2, OutSame DEF Moves, Advances, CallOK, Left, Sent, Stopped, Knows, c
  <1>8. CASE Persist(p)
    <2> DEFINE e == [Signed(c) EXCEPT !.then = "loop"]
    <2>1. /\ UNCHANGED netVars
          /\ Go(p, Monitor(e, e.tx)) \/ HandleMined(p, e, e.tx) \/ Go(p, Return(e, "hook"))
      BY <1>8 DEF Persist, c
    <2>2. Left(Signed(c), c, c.at, c.tx, c.old \union {c.tx}, c.outcome)
      BY <1>0, <1>a, SignedCall
    <2>3. /\ e \in CallStates /\ e.old = Signed(c).old /\ e.resume = Signed(c).resume
          /\ e.outcome = Signed(c).outcome /\ e.tx = Signed(c).tx
      BY <2>2 DEF CallStates, Left, Thens
    <2> HIDE DEF e
    <2>4. ASSUME NEW d, Go(p, d), Ends(d, e) PROVE Moves(p)
      <3>1. Ends(d, Signed(c))
        BY <2>3, <2>4 DEF Ends
      <3> QED BY <1>a, <2>1, <2>4, <3>1, OutSame, EndsAdvances DEF Moves, Sent, Stopped, c
    <2>5. CASE Go(p, Monitor(e, e.tx))
      <3>1. Left(Monitor(e, e.tx), e, "monitor", e.tx, e.old, e.outcome)
        BY <1>a, <2>2, <2>3, Monitored DEF Left
      <3> QED BY <1>0, <1>a, <2>1, <2>2, <2>3, <2>5, <3>1, OutSame
              DEF Moves, Advances, CallOK, Left, Sent, Stopped, Knows, c
    <2>6. CASE HandleMined(p, e, e.tx)
      BY <1>a, <2>2, <2>3, <2>4, <2>6, HandledMined DEF Left
    <2>7. CASE Go(p, Return(e, "hook"))
      BY <2>3, <2>4, <2>7, ReturnEnds DEF Outcomes
    <2> QED BY <2>1, <2>5, <2>6, <2>7
  <1> QED BY <1>1, <1>2, <1>3, <1>4, <1>5, <1>6, <1>7, <1>8

LEMMA RefusedMoves ==
    ASSUME Typed, NEW p \in Procs,
           \/ BroadcastKnown(p) \/ BroadcastUnderpriced(p) \/ BroadcastGap(p) \/ BroadcastLow(p)
           \/ BroadcastFails(p)
    PROVE  Moves(p)
  <1> DEFINE c == call[p]
             e == Signed(c)
  <1>0. c \in CallStates /\ CallOK(p, c)
    BY DEF Typed
  <1>1. Refused(c) /\ AwaitsAnswer(c)
    BY DEF BroadcastKnown, BroadcastUnderpriced, BroadcastGap, BroadcastLow, BroadcastFails, Refused
  <1>2. /\ c.at \in {"built", "sync"} /\ c.tx \in Txs /\ c.tx.by = p /\ c.outcome # "cancelled"
        /\ c.at \notin Stopped
    BY <1>0, <1>1 DEF AwaitsAnswer, CallOK, Sent, Stopped
  <1>3. /\ Left(e, c, c.at, c.tx, c.old \union {c.tx}, c.outcome)
        /\ e \in CallStates /\ e.tx \in Txs /\ e.tx = c.tx
    BY <1>0, <1>2, SignedCall DEF Left
  <1>4. c.tx.nonce \in {None} \union Nonces /\ None \in {None} \union Nonces
    BY <1>2, Numbers
  <1>5. ASSUME pool' = pool PROVE Out' \subseteq Out
    <2>1. chain' = chain /\ inflight' \subseteq inflight
      BY <1>1 DEF Refused
    <2> QED BY <1>5, <2>1 DEF Out, Landed
  <1>6. ASSUME NEW d, Go(p, d), Ends(d, e), pool' = pool PROVE Moves(p)
    BY <1>2, <1>5, <1>6, EndsAdvances DEF Moves
  <1>7. ASSUME NEW n \in {None} \union Nonces
        PROVE  /\ [e EXCEPT !.nonce = n] \in CallStates
               /\ \A d : Ends(d, [e EXCEPT !.nonce = n]) => Ends(d, e)
    BY <1>3, <1>7, NonceSet DEF Left, Ends
  <1> HIDE DEF c, e
  <1>8. CASE BroadcastKnown(p)
    <2>1. Go(p, Retry([e EXCEPT !.nonce = e.tx.nonce])) /\ pool' = pool
      BY <1>8 DEF BroadcastKnown, c, e
    <2> QED BY <1>3, <1>4, <1>6, <1>7, <2>1, RetryEnds
  <1>9. CASE BroadcastUnderpriced(p)
    <2>1. /\ pool' = pool
          /\ \/ Go(p, BumpOrStop([e EXCEPT !.nonce = e.tx.nonce], e.tx))
             \/ Go(p, Retry([e EXCEPT !.nonce = None]))
      BY <1>9 DEF BroadcastUnderpriced, c, e
    <2>2. CASE Go(p, BumpOrStop([e EXCEPT !.nonce = e.tx.nonce], e.tx))
      BY <1>3, <1>4, <1>6, <1>7, <2>1, <2>2, BumpEnds
    <2>3. CASE Go(p, Retry([e EXCEPT !.nonce = None]))
      BY <1>4, <1>6, <1>7, <2>1, <2>3, RetryEnds
    <2> QED BY <2>1, <2>2, <2>3
  <1>10. CASE BroadcastGap(p)
    <2>1. Go(p, Resync([e EXCEPT !.nonce = None], "loop")) /\ pool' = pool
      BY <1>10 DEF BroadcastGap, c, e
    <2> QED BY <1>4, <1>6, <1>7, <2>1, ResyncEnds
  <1>11. CASE BroadcastLow(p)
    <2>1. Go(p, [e EXCEPT !.at = "low"]) /\ pool' = pool
      BY <1>11 DEF BroadcastLow, c, e
    <2>2. Left([e EXCEPT !.at = "low"], e, "low", e.tx, e.old, e.outcome)
      BY <1>3, PlaceSet DEF Places
    <2> QED BY <1>0, <1>2, <1>3, <1>5, <2>1, <2>2
            DEF Moves, Advances, CallOK, Left, Sent, Stopped, Knows, c
  <1>12. CASE BroadcastFails(p)
    <2> DEFINE d == RetrySameNonce(e)
    <2>1. Go(p, d) /\ (pool' = pool \/ pool' = WithTx(c.tx))
      BY <1>3, <1>12 DEF BroadcastFails, c, e
    <2>2. Ends(d, e)
      BY <1>3, SameNonceEnds
    <2> HIDE DEF d
    <2>3. CASE pool' = pool
      BY <1>6, <2>1, <2>2, <2>3
    <2>4. CASE pool' = WithTx(c.tx)
      <3>1. chain' = chain /\ inflight' \subseteq inflight /\ pool' \subseteq pool \union {c.tx}
        BY <1>1, <2>4 DEF Refused, WithTx
      <3>2. \A t \in Out' : t \in Out \union {c.tx}
        BY <3>1 DEF Out, Landed
      <3> QED BY <1>0, <1>2, <1>3, <2>1, <2>2, <3>2
              DEF Moves, Advances, Ends, CallOK, Left, Sent, Stopped, Knows, c
    <2> QED BY <2>1, <2>3, <2>4
  <1> QED BY <1>8, <1>9, <1>10, <1>11, <1>12

LEMMA LowMoves ==
    ASSUME Typed, NEW p \in Procs, LowFindsMined(p) \/ LowFindsNone(p) \/ LowUnreadable(p)
    PROVE  Moves(p)
  <1> DEFINE c == call[p]
  <1>0. c \in CallStates /\ c.old \subseteq Txs
    BY CallFields DEF Typed
  <1>a. c.at = "low" /\ Out' = Out
    BY OutSame DEF LowFindsMined, LowFindsNone, LowUnreadable
  <1>b. ASSUME NEW d, Go(p, d), Ends(d, c) PROVE Moves(p)
    BY <1>a, <1>b, EndsAdvances DEF Moves, Sent, Stopped
  <1>1. CASE LowFindsMined(p)
    <2>1. PICK t \in c.old : HandleMined(p, c, t)
      BY <1>1 DEF LowFindsMined
    <2> QED BY <1>0, <1>b, <2>1, HandledMined
  <1>2. CASE LowFindsNone(p)
    <2>1. IF Exhausted(c) THEN Go(p, Resync(Return(c, "retries"), "exit")) ELSE Go(p, LowRetry(c))
      BY <1>2 DEF LowFindsNone
    <2> HIDE DEF c
    <2> QED BY <1>0, <1>b, <2>1, RetryResyncs, LowEnds
  <1>3. CASE LowUnreadable(p)
    <2>1. IF Exhausted(c) THEN Go(p, Return(c, "retries")) ELSE Go(p, Retry(CountRetry(c)))
      BY <1>3 DEF LowUnreadable
    <2> HIDE DEF c
    <2>2. ~Exhausted(c) => Ends(Retry(CountRetry(c)), c)
      BY <1>0, RetryCounted, RetryEnds DEF Left, Ends
    <2> QED BY <1>0, <1>b, <2>1, <2>2, ReturnEnds DEF Outcomes
  <1> QED BY <1>1, <1>2, <1>3

LEMMA WatchMoves ==
    ASSUME Typed, NEW p \in Procs,
           \/ MonitorMined(p) \/ MonitorPending(p) \/ MonitorLost(p)
           \/ SlowConsumed(p) \/ SlowBlocking(p) \/ SlowNotBlocking(p)
    PROVE  Moves(p)
  <1> DEFINE c == call[p]
  <1>0. c \in CallStates /\ CallOK(p, c) /\ c.old \subseteq Txs
    BY CallFields DEF Typed
  <1>a. c.at \in {"monitor", "waiting"} /\ Out' = Out
    BY OutSame DEF MonitorMined, MonitorPending, MonitorLost, SlowConsumed, SlowBlocking, SlowNotBlocking
  <1>b. c.tx \in c.old /\ c.tx \in Txs /\ c.outcome # "cancelled"
    BY <1>0, <1>a DEF CallOK, Stopped
  <1>c. ASSUME NEW d, Go(p, d), Ends(d, c) PROVE Moves(p)
    BY <1>a, <1>c, EndsAdvances DEF Moves, Sent, Stopped
  <1>1. CASE MonitorMined(p)
    <2>1. HandleMined(p, c, c.tx)
      BY <1>1 DEF MonitorMined
    <2> HIDE DEF c
    <2> QED BY <1>0, <1>b, <1>c, <2>1, HandledMined
  <1>2. CASE MonitorPending(p)
    <2>1. Go(p, [c EXCEPT !.at = "waiting"])
      BY <1>2 DEF MonitorPending
    <2>2. Left([c EXCEPT !.at = "waiting"], c, "waiting", c.tx, c.old, c.outcome)
      BY <1>0, PlaceSet DEF Places
    <2> QED BY <1>0, <1>a, <1>b, <2>1, <2>2 DEF Moves, Advances, CallOK, Left, Sent, Stopped, Knows
  <1>3. CASE MonitorLost(p) \/ SlowConsumed(p) \/ SlowBlocking(p)
    <2>1. Go(p, Return(c, "consumed")) \/ Go(p, BumpOrStop(c, c.tx))
      BY <1>3 DEF MonitorLost, SlowConsumed, SlowBlocking
    <2> HIDE DEF c
    <2> QED BY <1>0, <1>b, <1>c, <2>1, ReturnEnds, BumpEnds DEF Outcomes
  <1>4. CASE SlowNotBlocking(p)
    <2> DEFINE e == [c EXCEPT !.resume = c.tx]
    <2>1. Go(p, Retry(e))
      BY <1>4 DEF SlowNotBlocking
    <2>2. e \in CallStates /\ e.old = c.old /\ e.resume = c.tx /\ e.outcome = c.outcome
      <3> HIDE DEF c
      <3> QED BY <1>0, <1>b DEF CallStates
    <2> HIDE DEF e
    <2>3. Ends(Retry(e), e)
      BY <2>2, RetryEnds
    <2>4. Retry(e).at = "loop"
      BY <2>2, Retried DEF Left
    <2> QED BY <1>0, <1>a, <1>b, <2>1, <2>2, <2>3, <2>4
            DEF Moves, Advances, Ends, CallOK, Sent, Stopped, Knows
  <1> QED BY <1>1, <1>2, <1>3, <1>4

LEMMA ExitMoves ==
    ASSUME Typed, NEW p \in Procs, ResyncRead(p) \/ ResyncApply(p) \/ Exit(p)
    PROVE  Moves(p)
  <1> DEFINE c == call[p]
  <1>0. c \in CallStates /\ CallOK(p, c)
    BY DEF Typed
  <1>a. Out' = Out
    BY OutSame DEF ResyncRead, ResyncApply, Exit
  <1> HIDE DEF c
  <1>1. ASSUME c.at \in {"resync", "apply"}, NEW d, Go(p, d), d \in CallStates,
               d.old = c.old, d.resume = c.resume, d.outcome = c.outcome,
               \/ d.at = "apply" /\ d.then = c.then
               \/ d.at = c.then
        PROVE  Moves(p)
    BY <1>0, <1>a, <1>1 DEF Moves, Advances, CallOK, Sent, Stopped, Knows, c
  <1>2. CASE ResyncRead(p)
    <2>0. c.at = "resync" /\ c.then \in Places
      BY <1>0, <1>2 DEF ResyncRead, c, CallOK, Places
    <2>1. ASSUME NEW counts \in Replies, Go(p, [c EXCEPT !.at = "apply", !.remote = counts])
          PROVE  Moves(p)
      <3> DEFINE d == [c EXCEPT !.at = "apply", !.remote = counts]
      <3>1. /\ d \in CallStates /\ d.old = c.old /\ d.resume = c.resume /\ d.outcome = c.outcome
            /\ d.at = "apply" /\ d.then = c.then
        BY <1>0 DEF CallStates, Places
      <3>2. Go(p, d)
        BY <2>1
      <3> HIDE DEF d
      <3> QED BY <1>1, <2>0, <3>1, <3>2
    <2>2. ASSUME Go(p, [c EXCEPT !.at = c.then, !.then = "loop"]) PROVE Moves(p)
      <3> DEFINE d == [c EXCEPT !.at = c.then, !.then = "loop"]
      <3>1. /\ d \in CallStates /\ d.old = c.old /\ d.resume = c.resume /\ d.outcome = c.outcome
            /\ d.at = c.then
        BY <1>0, <2>0 DEF CallStates, Thens
      <3>2. Go(p, d)
        BY <2>2
      <3> HIDE DEF d
      <3> QED BY <1>1, <2>0, <3>1, <3>2
    <2> QED BY <1>2, <2>1, <2>2 DEF ResyncRead, c
  <1>3. CASE ResyncApply(p)
    <2> DEFINE d == [c EXCEPT !.at = c.then, !.then = "loop", !.remote = NoReplies]
    <2>0. c.at = "apply" /\ c.then \in Places
      BY <1>0, <1>3 DEF ResyncApply, c, CallOK, Places
    <2>1. /\ d \in CallStates /\ d.old = c.old /\ d.resume = c.resume /\ d.outcome = c.outcome
          /\ d.at = c.then
      BY <1>0, <2>0, Numbers DEF CallStates, Thens
    <2>2. Go(p, d)
      BY <1>3 DEF ResyncApply, c
    <2> HIDE DEF d
    <2> QED BY <1>1, <2>0, <2>1, <2>2
  <1>4. CASE Exit(p)
    <2>0. c.at = "exit"
      BY <1>4 DEF Exit, c
    <2>1. Go(p, [c EXCEPT !.at = "done"]) \/ Go(p, Resync(c, "done"))
      BY <1>4 DEF Exit, c
    <2>2. Left([c EXCEPT !.at = "done"], c, "done", c.tx, c.old, c.outcome)
      BY <1>0, PlaceSet DEF Places
    <2>3. Left(Resync(c, "done"), c, "resync", NoTx, c.old, c.outcome) /\ Resync(c, "done").then = "done"
      BY <1>0, Resynced DEF Thens
    <2>4. ASSUME Go(p, [c EXCEPT !.at = "done"]) PROVE Moves(p)
      BY <1>0, <1>a, <2>0, <2>2, <2>4 DEF Moves, Advances, CallOK, Left, Sent, Stopped, Knows, c
    <2>5. ASSUME Go(p, Resync(c, "done")) PROVE Moves(p)
      BY <1>0, <1>a, <2>0, <2>3, <2>5 DEF Moves, Advances, CallOK, Left, Sent, Stopped, Knows, c
    <2> QED BY <2>1, <2>4, <2>5
  <1> QED BY <1>2, <1>3, <1>4

LEMMA CallMoves == ASSUME Typed, NEW p \in Procs, CallStep(p) PROVE Moves(p)
  BY TopMoves, EstimateMoves, BroadcastMoves, RefusedMoves, LowMoves, WatchMoves, ExitMoves DEF CallStep

\* An advance of one call leaves the others' knowledge alone.
LEMMA AdvanceKeeps ==
    ASSUME Typed, Tracked, NEW p \in Procs, Moves(p)
    PROVE  /\ call' \in [Procs -> CallStates]
           /\ \A q \in Procs : CallOK(q, call'[q])
           /\ Tracked'
  <1>1. PICK d : Advances(p, d)
    BY DEF Moves
  <1>2. /\ call \in [Procs -> CallStates] /\ d \in CallStates
        /\ call' = [call EXCEPT ![p] = d]
    BY <1>1 DEF Typed, Advances, CallOK, Go
  <1>3. call'[p] = d /\ \A q \in Procs : q # p => call'[q] = call[q]
    BY <1>2
  <1>4. \A q \in Procs : CallOK(q, call'[q])
    BY <1>1, <1>3 DEF Advances, Typed
  <1>5. ASSUME NEW q \in Procs, call'[q].outcome # "cancelled", NEW t \in Out', t.by = q
        PROVE  t \in Knows(call'[q])
    <2>1. CASE q = p
      <3>1. /\ Knows(call[p]) \subseteq Knows(d) /\ call[p].outcome # "cancelled"
            /\ t \in Out \/ t \in Knows(d)
        BY <1>1, <1>3, <1>5, <2>1 DEF Advances
      <3>2. t \in Knows(d)
        BY <1>5, <2>1, <3>1 DEF Tracked
      <3> QED BY <1>3, <2>1, <3>2
    <2>2. CASE q # p
      BY <1>1, <1>3, <1>5, <2>2 DEF Advances, Tracked
    <2> QED BY <2>1, <2>2
  <1> QED BY <1>2, <1>4, <1>5 DEF Tracked

-----------------------------------------------------------------------------
(***************************************************************************)
(* The same step of a call, for the tracker, the network and the store.    *)
(***************************************************************************)
LEMMA ReleaseStays ==
    ASSUME Typed, NEW n \in Nonces, ReleaseNonce(n)
    PROVE  stored' \in {None} \union Nonces /\ claimed' \subseteq Nonces
  <1>1. stored \in Int /\ n \in Nat
    BY Numbers DEF Typed, None
  <1>2. claimed' = claimed \ {n} /\ (stored' = stored \/ stored' = n - 1)
    BY <1>1, ReleasedNonce
  <1> QED BY <1>2, Numbers DEF Typed

LEMMA TrackerStays ==
    ASSUME Typed, NEW p \in Procs, CallStep(p)
    PROVE  stored' \in {None} \union Nonces /\ claimed' \subseteq Nonces
  <1> DEFINE c == call[p]
             Stays == stored' \in {None} \union Nonces /\ claimed' \subseteq Nonces
  <1>0. /\ c \in CallStates /\ CallOK(p, c)
        /\ stored \in {None} \union Nonces /\ claimed \subseteq Nonces
    BY DEF Typed
  <1>1. /\ stored \in Nat \union {None} /\ stored \in Int /\ claimed \subseteq Nat
    BY <1>0, Numbers DEF None
  <1>2. c.remote.mined \in 0 .. (MaxNonce + 1) /\ c.remote.pending \in 0 .. (MaxNonce + 1)
    BY <1>0, CallFields, Numbers
  <1>3. c.at \in {"built", "register"} => c.tx.nonce \in Nonces
    BY <1>0, Numbers DEF CallOK, Sent
  <1>4. UNCHANGED trackerVars => Stays
    BY <1>0 DEF trackerVars
  <1>5. CASE Acquire(p)
    <2>1. PICK n \in Nonces : AcquireNonce(c.remote.mined, c.remote.pending, recorded, n)
      BY <1>5 DEF Acquire
    <2>2. c.remote.mined \in Nat /\ c.remote.pending \in Nat /\ n \in Nat
      BY <1>2, Numbers
    <2> HIDE DEF c
    <2>3. (stored' = stored \/ stored' = n) /\ claimed' \subseteq claimed \union {n}
      BY <1>1, <2>1, <2>2, AcquiredNonce
    <2> QED BY <1>0, <2>3
  <1>6. CASE AcquireFails(p)
    <2>1. stored' = stored /\ claimed' \subseteq claimed
      BY <1>6 DEF AcquireFails, AbnormalNonceState, Cleaned
    <2> QED BY <1>0, <2>1
  <1>8. CASE FeeFails(p) \/ SimulationFails(p) \/ SimulationReverts(p) \/ SignFails(p)
    <2>1. c.tx.nonce \in Nonces
      BY <1>3, <1>8 DEF FeeFails, SimulationFails, SimulationReverts, SignFails
    <2>2. PICK n \in Nonces : ReleaseNonce(n) \/ UNCHANGED trackerVars
      BY <1>8, <2>1 DEF FeeFails, SimulationFails, SimulationReverts, SignFails
    <2> QED BY <1>4, <2>2, ReleaseStays
  <1>9. CASE Register(p)
    <2>1. c.at = "register" /\ SetPendingNonce(c.tx.nonce)
      BY <1>9 DEF Register
    <2>2. c.tx.nonce \in Nonces /\ c.tx.nonce \in Nat
      BY <1>3, <2>1, Numbers
    <2> HIDE DEF c
    <2>3. (stored' = stored \/ stored' = c.tx.nonce) /\ claimed' = claimed
      BY <1>1, <2>1, <2>2, RegisteredNonce
    <2> QED BY <1>0, <2>2, <2>3
  <1>10. CASE ResyncApply(p)
    <2>1. PICK next \in 0 .. (MaxNonce + 1) : claimed' \subseteq claimed /\ stored' = next - 1
      BY <1>2, <1>10 DEF ResyncApply, ResyncFromRemote, Larger
    <2> QED BY <1>0, <2>1, Numbers
  <1>11. CASE Exit(p)
    <2>1. c.nonce \in {None} \union Nonces
      BY <1>0, CallFields
    <2>2. PICK n \in Nonces : ReleaseNonce(n) \/ UNCHANGED trackerVars
      BY <1>11, <2>1, Numbers DEF Exit
    <2> QED BY <1>4, <2>2, ReleaseStays
  <1>12. \/ Acquire(p) \/ AcquireFails(p) \/ FeeFails(p) \/ SimulationFails(p) \/ SimulationReverts(p)
         \/ SignFails(p) \/ Register(p) \/ ResyncApply(p) \/ Exit(p) \/ UNCHANGED trackerVars
    BY DEF CallStep, Cancelled, ResumeMonitoring, BeginBuild, EstimateFails, ReadFails,
           EstimateFindsMined, EstimateFindsPending, EstimateGivesNothing, BroadcastAccepted,
           SyncSubmit, SyncReceipt, SyncTimeoutAccepted, SyncTimeoutUnknown, SyncCancelled, Persist,
           BroadcastKnown, BroadcastUnderpriced, BroadcastGap, BroadcastLow, BroadcastFails, Refused,
           LowFindsMined, LowFindsNone, LowUnreadable, MonitorMined, MonitorPending, MonitorLost,
           SlowConsumed, SlowBlocking, SlowNotBlocking, ResyncRead
  <1> QED BY <1>4, <1>5, <1>6, <1>8, <1>9, <1>10, <1>11, <1>12

LEMMA NetworkStays ==
    ASSUME Typed, NEW p \in Procs, CallStep(p)
    PROVE  /\ chain' = chain /\ sync' = sync
           /\ pool' \subseteq Txs
           /\ inflight' \subseteq [tx : Txs, attempt : 0 .. MaxAttempts]
  <1> DEFINE c == call[p]
             Stays == /\ chain' = chain /\ sync' = sync
                      /\ pool' \subseteq Txs
                      /\ inflight' \subseteq [tx : Txs, attempt : 0 .. MaxAttempts]
  <1>0. /\ c \in CallStates /\ CallOK(p, c)
        /\ pool \subseteq Txs /\ inflight \subseteq [tx : Txs, attempt : 0 .. MaxAttempts]
    BY DEF Typed
  <1>1. c.at \in {"built", "sync"} => c.tx \in Txs /\ c.attempts \in 0 .. MaxAttempts
    BY <1>0, CallFields DEF CallOK, Sent
  <1>2. c.tx \in Txs => WithTx(c.tx) \subseteq Txs
    BY <1>0 DEF WithTx
  <1>3. CASE UNCHANGED netVars
    BY <1>0, <1>3 DEF netVars
  <1>4. CASE BroadcastAccepted(p)
    <2>1. c.at = "built" /\ pool' = WithTx(c.tx) /\ UNCHANGED <<chain, sync, inflight>>
      BY <1>4 DEF BroadcastAccepted
    <2> HIDE DEF c
    <2> QED BY <1>0, <1>1, <1>2, <2>1
  <1>5. CASE SyncSubmit(p)
    <2>1. c.at = "built" /\ inflight' = inflight \union {Submission(c)} /\ UNCHANGED <<chain, sync, pool>>
      BY <1>5 DEF SyncSubmit
    <2> HIDE DEF c
    <2>2. Submission(c) \in [tx : Txs, attempt : 0 .. MaxAttempts]
      BY <1>1, <2>1 DEF Submission
    <2> QED BY <1>0, <2>1, <2>2
  <1>6. CASE Refused(c) /\ (pool' = pool \/ pool' = WithTx(c.tx))
    <2>1. /\ c.at \in {"built", "sync"} /\ inflight' \subseteq inflight /\ UNCHANGED <<chain, sync>>
      BY <1>6 DEF Refused, AwaitsAnswer
    <2> HIDE DEF c
    <2> QED BY <1>0, <1>1, <1>2, <1>6, <2>1
  <1>7. CASE \/ BroadcastKnown(p) \/ BroadcastUnderpriced(p) \/ BroadcastGap(p) \/ BroadcastLow(p)
             \/ BroadcastFails(p)
    <2>1. Signed(c).tx = c.tx
      BY <1>0 DEF CallStates, Signed
    <2>2. Refused(c) /\ (pool' = pool \/ pool' = WithTx(c.tx))
      BY <1>7, <2>1 DEF BroadcastKnown, BroadcastUnderpriced, BroadcastGap, BroadcastLow, BroadcastFails
    <2> QED BY <1>6, <2>2
  <1>8. \/ BroadcastAccepted(p) \/ SyncSubmit(p) \/ BroadcastKnown(p) \/ BroadcastUnderpriced(p)
        \/ BroadcastGap(p) \/ BroadcastLow(p) \/ BroadcastFails(p) \/ UNCHANGED netVars
    BY DEF CallStep, Cancelled, ResumeMonitoring, BeginBuild, EstimateFails, ReadFails, Acquire,
           AcquireFails, FeeFails, EstimateFindsMined, EstimateFindsPending, EstimateGivesNothing,
           SimulationFails, SimulationReverts, SignFails, SyncReceipt, SyncTimeoutAccepted,
           SyncTimeoutUnknown, SyncCancelled, Register, Persist, LowFindsMined, LowFindsNone,
           LowUnreadable, MonitorMined, MonitorPending, MonitorLost, SlowConsumed, SlowBlocking,
           SlowNotBlocking, ResyncRead, ResyncApply, Exit
  <1> QED BY <1>3, <1>4, <1>5, <1>7, <1>8

LEMMA RecordsStay ==
    ASSUME Typed, NEW p \in Procs, CallStep(p)
    PROVE  recorded' \subseteq Nonces
  <1>0. recorded \subseteq Nonces /\ CallOK(p, call[p]) /\ call[p] \in CallStates
    BY DEF Typed
  <1>1. CASE Persist(p)
    <2> DEFINE c == call[p]
               e == [Signed(c) EXCEPT !.then = "loop"]
    <2>1. c.at = "persist" /\ recorded' \subseteq recorded \union {e.tx.nonce}
      BY <1>1 DEF Persist
    <2>2. c.tx \in Txs
      BY <1>0, <2>1 DEF CallOK, Sent
    <2>3. e.tx = c.tx
      BY <1>0 DEF CallStates, Signed
    <2> QED BY <1>0, <2>1, <2>2, <2>3, Numbers
  <1>2. recorded' = recorded \/ Persist(p)
    BY DEF CallStep, Cancelled, ResumeMonitoring, BeginBuild, EstimateFails, ReadFails, Acquire,
           AcquireFails, FeeFails, EstimateFindsMined, EstimateFindsPending, EstimateGivesNothing,
           SimulationFails, SimulationReverts, SignFails, BroadcastAccepted, SyncSubmit, SyncReceipt,
           SyncTimeoutAccepted, SyncTimeoutUnknown, SyncCancelled, Register, BroadcastKnown,
           BroadcastUnderpriced, BroadcastGap, BroadcastLow, BroadcastFails, Refused, LowFindsMined,
           LowFindsNone, LowUnreadable, MonitorMined, MonitorPending, MonitorLost, SlowConsumed,
           SlowBlocking, SlowNotBlocking, ResyncRead, ResyncApply, Exit
  <1> QED BY <1>0, <1>1, <1>2

LEMMA FaultsStay ==
    ASSUME Typed, NEW p \in Procs, CallStep(p)
    PROVE  faults' \in 0 .. MaxFaults
  <1>0. faults \in 0 .. MaxFaults
    BY DEF Typed
  <1>1. \E kind \in FaultKinds : NoFault \/ Fault(kind)
    BY DEF FaultKinds, NoFault, ReadCounts, HandleMined,
           CallStep, Cancelled, ResumeMonitoring, BeginBuild, EstimateFails, ReadFails, Acquire,
           AcquireFails, FeeFails, EstimateFindsMined, EstimateFindsPending, EstimateGivesNothing,
           SimulationFails, SimulationReverts, SignFails, BroadcastAccepted, SyncSubmit, SyncReceipt,
           SyncTimeoutAccepted, SyncTimeoutUnknown, SyncCancelled, Register, Persist, BroadcastKnown,
           BroadcastUnderpriced, BroadcastGap, BroadcastLow, BroadcastFails, LowFindsMined,
           LowFindsNone, LowUnreadable, MonitorMined, MonitorPending, MonitorLost, SlowConsumed,
           SlowBlocking, SlowNotBlocking, ResyncRead, ResyncApply, Exit
  <1> QED BY <1>0, <1>1, Counted

-----------------------------------------------------------------------------
(***************************************************************************)
(* Every behaviour keeps the invariant: its start, whether the wallet is   *)
(* new or recovered, and the steps of the network.                         *)
(***************************************************************************)
LEMMA CallsStart ==
    /\ NewCall \in CallStates
    /\ \A p \in Procs : /\ CallOK(p, NewCall)
                        /\ PendingTx(p) \in Txs
                        /\ CallOK(p, ResumedCall(PendingTx(p)))
                        /\ ResumedCall(PendingTx(p)).old = {PendingTx(p)}
  <1>1. NewCall \in CallStates
    BY ExecutionAssumption, Numbers DEF NewCall, CallStates, Places, Thens, Outcomes
  <1>2. ASSUME NEW p \in Procs
        PROVE  /\ CallOK(p, NewCall)
               /\ PendingTx(p) \in Txs
               /\ CallOK(p, ResumedCall(PendingTx(p)))
               /\ ResumedCall(PendingTx(p)).old = {PendingTx(p)}
    <2>1. NewCall.at = "loop" /\ NewCall.resume = NoTx /\ NewCall.outcome = "running"
      BY DEF NewCall
    <2>2. CallOK(p, NewCall)
      BY <1>1, <2>1 DEF CallOK, Sent
    <2>3. PendingTx(p) \in Txs /\ PendingTx(p).nonce \in Nonces /\ PendingTx(p).price \in Prices
      BY Numbers DEF PendingTx, Txs
    <2> DEFINE t == PendingTx(p)
               d == ResumedCall(t)
    <2> HIDE DEF t
    <2>4. t \in Txs /\ t.nonce \in Nonces /\ t.price \in Prices
      BY <2>3 DEF t
    <2>5. /\ d \in CallStates /\ d.at = "loop" /\ d.resume = t /\ d.old = {t}
          /\ d.outcome = "running"
      BY <1>1, <2>1, <2>4 DEF ResumedCall, CallStates
    <2> HIDE DEF d
    <2>6. CallOK(p, d)
      BY <2>5 DEF CallOK, Sent
    <2> QED BY <2>2, <2>3, <2>5, <2>6 DEF d, t
  <1> QED BY <1>1, <1>2

LEMMA Starts == Init => Typed /\ Tracked
  <1> SUFFICES ASSUME Init PROVE Typed /\ Tracked
    OBVIOUS
  <1>1. /\ chain = <<>> /\ sync \in SyncModes /\ inflight = {} /\ faults = 0
    BY DEF Init
  <1>2. Landed = {} /\ {s.tx : s \in inflight} = {}
    BY <1>1 DEF Landed
  <1>3. chain \in Seq(Txs) /\ Len(chain) <= MaxNonce + 1 /\ faults \in 0 .. MaxFaults
    BY <1>1, ExecutionAssumption
  <1>4. CASE FreshStart
    <2>1. /\ stored = None /\ claimed = {} /\ pool = {} /\ recorded = {}
          /\ call = [p \in Procs |-> NewCall]
      BY <1>4 DEF FreshStart, TrackerInit
    <2>2. call \in [Procs -> CallStates] /\ \A p \in Procs : CallOK(p, call[p])
      BY <2>1, CallsStart
    <2>3. Typed
      BY <1>1, <1>3, <2>1, <2>2 DEF Typed
    <2> QED BY <1>2, <2>1, <2>3 DEF Tracked, Out
  <1>5. CASE \E p \in Resumable : RecoveredStart(p)
    <2>1. PICK p \in Procs : RecoveredStart(p)
      BY <1>5, ExecutionAssumption
    <2> DEFINE d == ResumedCall(PendingTx(p))
    <2>2. /\ stored \in {None} \union Nonces /\ claimed = {} /\ pool = {PendingTx(p)}
          /\ recorded \subseteq Nonces
          /\ call = [q \in Procs |-> IF q = p THEN d ELSE NewCall]
      BY <2>1, Numbers DEF RecoveredStart
    <2>3. CallOK(p, d) /\ d.old = {PendingTx(p)} /\ PendingTx(p) \in Txs /\ PendingTx(p).by = p
      BY CallsStart DEF PendingTx
    <2> HIDE DEF d
    <2>4. d \in CallStates
      BY <2>3 DEF CallOK
    <2>5. call \in [Procs -> CallStates] /\ \A q \in Procs : CallOK(q, call[q])
      BY <2>2, <2>3, <2>4, CallsStart
    <2>6. Typed
      BY <1>1, <1>3, <2>2, <2>3, <2>5 DEF Typed
    <2>7. ASSUME NEW q \in Procs, NEW t \in Out, t.by = q PROVE t \in Knows(call[q])
      <3>1. t = PendingTx(p) /\ q = p
        BY <1>2, <2>2, <2>3, <2>7 DEF Out
      <3> QED BY <2>2, <2>3, <3>1 DEF Knows
    <2> QED BY <2>6, <2>7 DEF Tracked
  <1> QED BY <1>4, <1>5 DEF Init

\* What is out of a call stays, or goes: a step of the network knows no more.
LEMMA TrackedKept ==
    ASSUME Tracked, call' = call, \A t \in Out' : t \in Out \/ t.by \notin Procs
    PROVE  Tracked'
  BY DEF Tracked, Knows

\* The transaction at the wallet's next nonce moves from the mempool to the chain.
LEMMA MinedNext ==
    ASSUME Typed, Mine
    PROVE  /\ UNCHANGED <<trackerVars, sync, inflight, recorded, call, faults>>
           /\ chain' \in Seq(Txs) /\ Len(chain) \in Nat /\ Len(chain') = Len(chain) + 1
           /\ DOMAIN chain = 1 .. Len(chain) /\ DOMAIN chain' = 1 .. (Len(chain) + 1)
           /\ \A i \in 1 .. Len(chain) : chain'[i] = chain[i]
           /\ \E t \in pool : /\ t.nonce = Mined /\ pool' = pool \ {t}
                              /\ chain'[Len(chain) + 1] = t /\ Landed' \subseteq Landed \union {t}
  <1>1. PICK t \in PoolAt(Mined) : chain' = Append(chain, t) /\ pool' = pool \ {t}
    BY DEF Mine
  <1>2. t \in pool /\ t \in Txs /\ t.nonce = Mined /\ chain \in Seq(Txs)
    BY <1>1 DEF Typed, PoolAt
  <1>3. /\ chain' \in Seq(Txs) /\ Len(chain') = Len(chain) + 1
        /\ \A i \in 1 .. Len(chain) : chain'[i] = chain[i]
        /\ chain'[Len(chain) + 1] = t
    BY <1>1, <1>2, AppendProperties
  <1>4. Len(chain) \in Nat /\ DOMAIN chain = 1 .. Len(chain) /\ DOMAIN chain' = 1 .. (Len(chain) + 1)
    BY <1>2, <1>3, LenProperties
  <1>5. ASSUME NEW u \in Landed' PROVE u \in Landed \union {t}
    <2>1. PICK i \in 1 .. (Len(chain) + 1) : u = chain'[i]
      BY <1>4, <1>5 DEF Landed
    <2>2. CASE i \in 1 .. Len(chain)
      BY <1>3, <1>4, <2>1, <2>2 DEF Landed
    <2>3. CASE i = Len(chain) + 1
      BY <1>3, <2>1, <2>3
    <2> QED BY <1>4, <2>1, <2>2, <2>3
  <1>6. UNCHANGED <<trackerVars, sync, inflight, recorded, call, faults>>
    BY DEF Mine
  <1> QED BY <1>1, <1>2, <1>3, <1>4, <1>5, <1>6

LEMMA MineKeeps == ASSUME Typed, Tracked, Mine PROVE Typed' /\ Tracked'
  <1>1. /\ UNCHANGED <<trackerVars, sync, inflight, recorded, call, faults>>
        /\ chain' \in Seq(Txs) /\ Len(chain) \in Nat /\ Len(chain') = Len(chain) + 1
    BY MinedNext
  <1>2. PICK t \in pool : t.nonce = Mined /\ pool' = pool \ {t} /\ Landed' \subseteq Landed \union {t}
    BY MinedNext
  <1>3. t.nonce \in Nonces
    BY <1>2, Numbers DEF Typed
  <1>4. Len(chain') <= MaxNonce + 1
    BY <1>1, <1>2, <1>3, ExecutionAssumption DEF Nonces, Mined
  <1>5. Typed'
    BY <1>1, <1>2, <1>4 DEF Typed, CallOK, trackerVars
  <1>6. Out' \subseteq Out
    BY <1>1, <1>2 DEF Out
  <1> QED BY <1>1, <1>5, <1>6, TrackedKept

LEMMA ArriveKeeps == ASSUME Typed, Tracked, Arrive PROVE Typed' /\ Tracked'
  <1>1. PICK s \in inflight : pool' = WithTx(s.tx) /\ inflight' = inflight \ {s}
    BY DEF Arrive
  <1>2. s.tx \in Txs /\ pool' \subseteq pool \union {s.tx} /\ inflight' \subseteq inflight
    BY <1>1 DEF Typed, WithTx
  <1>3. UNCHANGED <<trackerVars, chain, sync, recorded, call, faults>>
    BY DEF Arrive
  <1>4. Typed'
    BY <1>2, <1>3 DEF Typed, CallOK, trackerVars
  <1>5. Out' \subseteq Out
    BY <1>2, <1>3 DEF Out, Landed
  <1> QED BY <1>3, <1>4, <1>5, TrackedKept

LEMMA ForeignKeeps == ASSUME Typed, Tracked, ForeignTx PROVE Typed' /\ Tracked'
  <1> DEFINE t == [by |-> Foreign, nonce |-> Pending, price |-> 1]
  <1>1. pool \subseteq Txs /\ chain \in Seq(Txs) /\ Len(chain) <= MaxNonce + 1
    BY DEF Typed
  <1>2. Mined \in 0 .. (MaxNonce + 1)
    BY <1>1, LenProperties, ExecutionAssumption DEF Mined
  <1>3. Pending \in 0 .. (MaxNonce + 1) /\ Pending <= MaxNonce
    BY <1>1, <1>2, PendingIsNonce DEF ForeignTx
  <1>4. Pending \in Nonces
    BY <1>3, ExecutionAssumption DEF Nonces
  <1>5. t \in Txs /\ t.by \notin Procs
    BY <1>4, Numbers, ForeignAssumption DEF Txs
  <1>6. pool' = WithTx(t) /\ UNCHANGED <<trackerVars, chain, sync, inflight, recorded, call>>
    BY DEF ForeignTx
  <1> HIDE DEF t
  <1>7. pool' \subseteq pool \union {t}
    BY <1>6 DEF WithTx
  <1>8. faults' \in 0 .. MaxFaults
    BY Counted DEF ForeignTx, Typed
  <1>9. Typed'
    BY <1>5, <1>6, <1>7, <1>8 DEF Typed, CallOK, trackerVars
  <1>10. \A u \in Out' : u \in Out \/ u.by \notin Procs
    BY <1>5, <1>6, <1>7 DEF Out, Landed
  <1> QED BY <1>6, <1>9, <1>10, TrackedKept

LEMMA EvictKeeps == ASSUME Typed, Tracked, Evict PROVE Typed' /\ Tracked'
  <1>1. pool' \subseteq pool /\ UNCHANGED <<trackerVars, chain, sync, inflight, recorded, call>>
    BY DEF Evict
  <1>2. faults' \in 0 .. MaxFaults
    BY Counted DEF Evict, Typed
  <1>3. Typed'
    BY <1>1, <1>2 DEF Typed, CallOK, trackerVars
  <1>4. Out' \subseteq Out
    BY <1>1 DEF Out, Landed
  <1> QED BY <1>1, <1>3, <1>4, TrackedKept

LEMMA CallKeeps ==
    ASSUME Typed, Tracked, NEW p \in Procs, CallStep(p)
    PROVE  Typed' /\ Tracked'
  <1>1. Moves(p)
    BY CallMoves
  <1>2. /\ call' \in [Procs -> CallStates]
        /\ \A q \in Procs : CallOK(q, call'[q])
        /\ Tracked'
    BY <1>1, AdvanceKeeps
  <1>3. stored' \in {None} \union Nonces /\ claimed' \subseteq Nonces
    BY TrackerStays
  <1>4. /\ chain' = chain /\ sync' = sync /\ pool' \subseteq Txs
        /\ inflight' \subseteq [tx : Txs, attempt : 0 .. MaxAttempts]
    BY NetworkStays
  <1>5. recorded' \subseteq Nonces /\ faults' \in 0 .. MaxFaults
    BY RecordsStay, FaultsStay
  <1>6. chain' \in Seq(Txs) /\ Len(chain') <= MaxNonce + 1 /\ sync' \in SyncModes
    BY <1>4 DEF Typed
  <1> QED BY <1>2, <1>3, <1>4, <1>5, <1>6 DEF Typed, CallOK

LEMMA Preserved == Typed /\ Tracked /\ [Next]_vars => Typed' /\ Tracked'
  <1> SUFFICES ASSUME Typed, Tracked, [Next]_vars PROVE Typed' /\ Tracked'
    OBVIOUS
  <1>1. CASE UNCHANGED vars
    <2>1. UNCHANGED <<trackerVars, netVars, recorded, call, faults>>
      BY <1>1 DEF vars
    <2>2. Typed'
      BY <2>1 DEF Typed, CallOK, trackerVars, netVars
    <2>3. Out' = Out /\ call' = call
      BY <2>1, OutSame
    <2> QED BY <2>2, <2>3, TrackedKept
  <1>2. ASSUME NEW p \in Procs, CallStep(p) PROVE Typed' /\ Tracked'
    BY <1>2, CallKeeps
  <1>3. Next => (\E p \in Procs : CallStep(p)) \/ Mine \/ Arrive \/ ForeignTx \/ Evict \/ UNCHANGED vars
    BY DEF Next, Finished
  <1> QED BY <1>1, <1>2, <1>3, MineKeeps, ArriveKeeps, ForeignKeeps, EvictKeeps

-----------------------------------------------------------------------------
(***************************************************************************)
(* The theorems.                                                           *)
(***************************************************************************)

\* manager_tx.go:483-632, execution_context.go: whatever the calls, the nodes and
\* the failures do, a call's state is one the loop can handle: its attempts within
\* MaxAttempts, its price within the gas bound, and the tracker, the mempool and
\* the chain within the wallet's nonces.
THEOREM TypeCorrect == Spec => []TypeOK
  <1>1. Typed => TypeOK
    <2> SUFFICES ASSUME Typed PROVE TypeOK
      OBVIOUS
    <2>1. ASSUME NEW p \in Procs
          PROVE  /\ call[p].at \in Places
                 /\ call[p].attempts \in 0 .. (MaxAttempts + 1)
                 /\ call[p].nonce \in {None} \union Nonces
                 /\ call[p].price \in {0} \union Prices
                 /\ call[p].limit \in BOOLEAN
                 /\ call[p].resume \in {NoTx} \union Txs
                 /\ call[p].tx \in {NoTx} \union Txs
                 /\ call[p].old \subseteq Txs
                 /\ call[p].remote \in Replies
                 /\ call[p].then \in {"loop", "receipt", "exit", "done"}
                 /\ call[p].outcome \in Outcomes
      <3>1. call[p] \in CallStates
        BY DEF Typed
      <3>2. 0 .. MaxAttempts \subseteq 0 .. (MaxAttempts + 1)
        BY ExecutionAssumption
      <3> QED BY <3>1, <3>2, CallFields DEF Thens
    <2> QED BY <2>1 DEF Typed, TypeOK
  <1> QED BY <1>1, Starts, Preserved, PTL DEF Spec

\* manager_tx.go:969-973: a transaction of a call that is mined, in the mempool or
\* may still reach a node is one the call tracks, through refusals, lost and late
\* synchronous answers, evictions and restarts; only a call whose context was
\* cancelled while it waited for a synchronous answer may miss its last one.
THEOREM EverySignedIsTracked == Spec => []SignedTracked
  <1>1. Typed /\ Tracked => SignedTracked
    BY DEF Tracked, SignedTracked, Out, Knows
  <1> QED BY <1>1, Starts, Preserved, PTL DEF Spec
=============================================================================
