---------------------------- MODULE ClaimProofs ----------------------------
(***************************************************************************)
(* No claim of the tracker is orphaned.  Unless a call's context is        *)
(* cancelled or its fee lookup fails, every nonce the tracker holds as     *)
(* claimed belongs to a call that works on it or has signed a transaction  *)
(* with it, for every number of calls, on networks that answer broadcasts  *)
(* at once or with a receipt.                                              *)
(***************************************************************************)
EXTENDS TxExecutionProofs

(***************************************************************************)
(* The inductive invariant.  A call grips the nonces it signed with and,   *)
(* until it returns having signed something, the one of the transaction it *)
(* builds and the one kept in State.Nonce.  Where a handler drops one of   *)
(* the two, it is no nonce, is signed for, or is released.  Gas is         *)
(* estimated only for a nonce that is signed for: a retry that keeps one   *)
(* without a signature keeps its gas limit as well.                        *)
(***************************************************************************)
Used(c) == {t.nonce : t \in c.old}

Leaves(c) ==
    \/ c.at = "done"
    \/ c.old # {} /\ (c.at = "exit" \/ (c.at \in {"resync", "apply"} /\ c.then # "loop"))

Grip(c) == Used(c) \union (IF Leaves(c) THEN {} ELSE {c.nonce, c.tx.nonce})

Busy == {"estimateFailed", "acquire", "built", "sync", "register", "persist", "low", "monitor", "waiting"}

Secure(c) ==
    /\ c \in CallStates
    /\ c.at \in Busy => c.resume = NoTx
    /\ c.at = "acquire" => c.nonce = None
    /\ c.at \in {"built", "sync", "register", "persist", "low"} => c.nonce \in {None, c.tx.nonce}
    /\ c.at = "low" => c.tx \in c.old
    /\ c.at \in {"monitor", "waiting"} => c.nonce \in {None} \union Used(c)
    /\ c.at = "loop" /\ (c.resume # NoTx \/ ~c.limit) => c.nonce \in {None} \union Used(c)
    /\ c.at = "estimateFailed" => c.nonce \in {None} \union Used(c)
    /\ c.at \in {"loop", "estimateFailed", "acquire", "exit", "resync", "apply"} => c.tx = NoTx
    /\ c.at \in {"resync", "apply"} => IF c.then = "loop" THEN c.nonce = None ELSE c.old # {}

Gripped ==
    /\ Typed /\ Tracked
    /\ \A p \in Procs : Secure(call[p])
    /\ \A n \in claimed : \E p \in Procs : n \in Grip(call[p])

-----------------------------------------------------------------------------
(***************************************************************************)
(* The ways a handler leaves a call.                                       *)
(***************************************************************************)
LEMMA ReturnSecure ==
    ASSUME NEW c \in CallStates, NEW o \in Outcomes
    PROVE  Secure(Return(c, o)) /\ Return(c, o).old = c.old
  <1> DEFINE d == Return(c, o)
  <1>1. d \in CallStates /\ d.at = "exit" /\ d.tx = NoTx /\ d.old = c.old
    BY DEF CallStates, Return, Places
  <1> HIDE DEF d
  <1>2. Secure(d)
    BY <1>1 DEF Secure, Busy
  <1> QED BY <1>1, <1>2 DEF d

LEMMA ReportSecure ==
    ASSUME NEW c \in CallStates, NEW t \in Txs
    PROVE  Secure(Report(c, t)) /\ Report(c, t).old = c.old
  <1> DEFINE d == Report(c, t)
  <1>1. d \in CallStates /\ d.at = "done" /\ d.old = c.old
    BY DEF CallStates, Report, Places, Outcomes
  <1> HIDE DEF d
  <1>2. Secure(d)
    BY <1>1 DEF Secure, Busy
  <1> QED BY <1>1, <1>2 DEF d

LEMMA RetrySecure ==
    ASSUME NEW c \in CallStates,
           (c.resume = NoTx /\ c.limit) \/ c.nonce \in {None} \union Used(c)
    PROVE  Secure(Retry(c)) /\ Retry(c).old = c.old
  <1> DEFINE d == Retry(c)
  <1>1. /\ d \in CallStates /\ d.at = "loop" /\ d.tx = NoTx /\ d.old = c.old
        /\ d.resume = c.resume /\ d.nonce = c.nonce /\ d.limit = c.limit
    BY DEF CallStates, Retry, Places
  <1> HIDE DEF d
  <1>2. Secure(d)
    BY <1>1 DEF Secure, Busy, Used
  <1> QED BY <1>1, <1>2 DEF d

LEMMA ResyncSecure ==
    ASSUME NEW c \in CallStates, NEW next \in {"loop", "exit", "done"},
           IF next = "loop" THEN c.nonce = None ELSE c.old # {}
    PROVE  Secure(Resync(c, next)) /\ Resync(c, next).old = c.old
  <1> DEFINE d == Resync(c, next)
  <1>1. /\ d \in CallStates /\ d.at = "resync" /\ d.tx = NoTx /\ d.old = c.old
        /\ d.then = next /\ d.nonce = c.nonce
    BY DEF CallStates, Resync, Places, Thens
  <1> HIDE DEF d
  <1>2. Secure(d)
    BY <1>1 DEF Secure, Busy
  <1> QED BY <1>1, <1>2 DEF d

LEMMA BumpSecure ==
    ASSUME NEW c \in CallStates, NEW t \in Txs, t \in c.old
    PROVE  Secure(BumpOrStop(c, t)) /\ BumpOrStop(c, t).old = c.old
  <1>1. CASE CanBump(t)
    <2> DEFINE e == Bump(c, t)
    <2>1. t.price + 1 \in Prices /\ t.nonce \in Nonces
      BY <1>1, ExecutionAssumption, Numbers DEF CanBump, Prices
    <2>2. e \in CallStates /\ e.old = c.old /\ e.nonce = t.nonce
      BY <2>1 DEF CallStates, Bump
    <2>3. BumpOrStop(c, t) = Retry(e)
      BY <1>1 DEF BumpOrStop
    <2> HIDE DEF e
    <2>4. e.nonce \in Used(e)
      BY <2>2 DEF Used
    <2> QED BY <2>2, <2>3, <2>4, RetrySecure
  <1>2. CASE ~CanBump(t)
    BY <1>2, ReturnSecure DEF BumpOrStop, Outcomes
  <1> QED BY <1>1, <1>2

LEMMA LastTrySecure ==
    ASSUME NEW c \in CallStates, c.old # {}
    PROVE  /\ Secure(Resync(Return(c, "retries"), "exit"))
           /\ Resync(Return(c, "retries"), "exit").old = c.old
  <1> DEFINE d == Return(c, "retries")
  <1>1. d \in CallStates /\ d.old = c.old
    BY ReturnSecure DEF Secure, Outcomes
  <1> HIDE DEF d
  <1>2. Secure(Resync(d, "exit")) /\ Resync(d, "exit").old = c.old
    BY <1>1, ResyncSecure
  <1> QED BY <1>2 DEF d

LEMMA SameNonceSecure ==
    ASSUME NEW c \in CallStates, c.tx \in Txs, c.tx \in c.old
    PROVE  Secure(RetrySameNonce(c)) /\ RetrySameNonce(c).old = c.old
  <1>1. CASE Exhausted(c)
    BY <1>1, LastTrySecure DEF RetrySameNonce
  <1>2. CASE ~Exhausted(c)
    <2> DEFINE e == [CountRetry(c) EXCEPT !.nonce = c.tx.nonce]
    <2>1. c.attempts + 1 \in 0 .. MaxAttempts /\ c.tx.nonce \in Nonces
      BY <1>2, ExecutionAssumption, Numbers DEF CallStates, Exhausted
    <2>2. e \in CallStates /\ e.old = c.old /\ e.nonce = c.tx.nonce
      BY <2>1 DEF CallStates, CountRetry
    <2>3. RetrySameNonce(c) = Retry(e)
      BY <1>2 DEF RetrySameNonce
    <2> HIDE DEF e
    <2>4. e.nonce \in Used(e)
      BY <2>2 DEF Used
    <2> QED BY <2>2, <2>3, <2>4, RetrySecure
  <1> QED BY <1>1, <1>2

LEMMA MinedSecure ==
    ASSUME NEW p, NEW c \in CallStates, NEW t \in Txs, HandleMined(p, c, t)
    PROVE  \E d : Go(p, d) /\ Secure(d) /\ d.old = c.old
  <1>1. Secure(Report(c, t)) /\ Report(c, t).old = c.old
    BY ReportSecure
  <1>2. \A e \in {"reverted", "hook"} : Secure(Return(c, e)) /\ Return(c, e).old = c.old
    BY ReturnSecure DEF Outcomes
  <1> QED BY <1>1, <1>2 DEF HandleMined

-----------------------------------------------------------------------------
(***************************************************************************)
(* The steps of a call.                                                    *)
(***************************************************************************)
Settles(p) ==
    \E d : /\ Go(p, d) /\ Secure(d)
           /\ \A n \in claimed' : n \in Grip(d) \/ (n \in claimed /\ n \notin Grip(call[p]))

\* What the call grips is signed for afterwards.
LEMMA SignedSettles ==
    ASSUME NEW p, NEW d, Go(p, d), Secure(d), claimed \subseteq Nonces, claimed' \subseteq claimed,
           \A n \in Nonces : n \in Grip(call[p]) => n \in Used(d)
    PROVE  Settles(p)
  BY DEF Settles, Grip

\* The call keeps its grip.
LEMMA GripSettles ==
    ASSUME NEW p, NEW d, Go(p, d), Secure(d), claimed \subseteq Nonces, claimed' \subseteq claimed,
           \A n \in Nonces : n \in Grip(call[p]) => n \in Grip(d)
    PROVE  Settles(p)
  BY DEF Settles

\* A nonce that is released need not be gripped any more.
LEMMA ReleaseSettles ==
    ASSUME NEW p, NEW d, Go(p, d), Secure(d), NEW k, claimed \subseteq Nonces, claimed' = claimed \ {k},
           \A n \in Nonces : n \in Grip(call[p]) => n \in Grip(d) \/ n = k
    PROVE  Settles(p)
  BY DEF Settles

LEMMA StartSettles ==
    ASSUME Typed, NEW p \in Procs, Secure(call[p]),
           ResumeMonitoring(p) \/ BeginBuild(p) \/ ReadFails(p) \/ Acquire(p) \/ AcquireFails(p)
    PROVE  Settles(p)
  <1> DEFINE c == call[p]
  <1>0. c \in CallStates /\ CallOK(p, c) /\ Secure(c) /\ claimed \subseteq Nonces
    BY DEF Typed
  <1>1. None \notin Nonces /\ NoTx.nonce = None
    BY Numbers DEF NoTx
  <1>2. c.at \in {"loop", "acquire"} /\ c.tx = NoTx
    BY <1>0 DEF ResumeMonitoring, BeginBuild, ReadFails, Acquire, AcquireFails, Secure
  <1>3. Grip(c) = Used(c) \union {c.nonce, None}
    BY <1>1, <1>2 DEF Grip, Leaves
  <1> HIDE DEF c
  <1>4. ASSUME UNCHANGED trackerVars PROVE claimed' \subseteq claimed
    BY <1>4 DEF trackerVars
  <1>5. CASE ResumeMonitoring(p)
    <2> DEFINE d == Monitor([c EXCEPT !.resume = NoTx], c.resume)
    <2>1. c.at = "loop" /\ c.resume # NoTx /\ Go(p, d) /\ claimed' \subseteq claimed
      BY <1>4, <1>5 DEF ResumeMonitoring, c
    <2>2. c.resume \in Txs
      BY <1>0, <2>1, CallFields
    <2>3. d \in CallStates /\ d.at = "monitor" /\ d.old = c.old /\ d.resume = NoTx /\ d.nonce = c.nonce
      BY <1>0, <2>2 DEF CallStates, Monitor, Places
    <2> HIDE DEF d
    <2>4. Used(d) = Used(c) /\ c.nonce \in {None} \union Used(c)
      BY <1>0, <2>1, <2>3 DEF Used, Secure
    <2>5. Secure(d)
      BY <2>3, <2>4 DEF Secure, Busy
    <2> QED BY <1>0, <1>1, <1>3, <2>1, <2>4, <2>5, SignedSettles DEF c
  <1>6. CASE BeginBuild(p)
    <2>0. c.at = "loop" /\ c.resume = NoTx /\ claimed' \subseteq claimed
      BY <1>4, <1>6 DEF BeginBuild, c
    <2>1. ASSUME NEW d \in CallStates, Go(p, d), d.at \in {"acquire", "built"}, d.nonce = c.nonce,
                 d.old = c.old, d.resume = NoTx,
                 d.at = "acquire" => c.nonce = None /\ d.tx = NoTx,
                 d.at = "built" => d.tx.nonce = c.nonce
          PROVE  Settles(p)
      <3>1. Secure(d)
        BY <2>1 DEF Secure, Busy
      <3>2. Grip(c) \subseteq Grip(d) \union {None}
        BY <1>3, <2>1 DEF Grip, Leaves, Used
      <3> QED BY <1>0, <1>1, <2>0, <2>1, <3>1, <3>2, GripSettles DEF c
    <2>2. CASE c.nonce # None
      <3> DEFINE t == [by |-> p, nonce |-> c.nonce, price |-> Price(c)]
                 d == [c EXCEPT !.at = "built", !.tx = t]
      <3>1. Go(p, d)
        BY <1>6, <2>2 DEF BeginBuild, c
      <3>2. t \in Txs /\ t.nonce = c.nonce
        BY <1>0, <2>2, Numbers, CallFields DEF Price, Txs
      <3> HIDE DEF t
      <3>3. /\ d \in CallStates /\ d.at = "built" /\ d.tx = t /\ d.nonce = c.nonce
            /\ d.old = c.old /\ d.resume = c.resume
        BY <1>0, <3>2 DEF CallStates, Places
      <3> HIDE DEF d
      <3> QED BY <2>0, <2>1, <3>1, <3>2, <3>3
    <2>3. CASE c.nonce = None
      <3>1. PICK counts \in Replies : Go(p, [c EXCEPT !.at = "acquire", !.remote = counts])
        BY <1>6, <2>3 DEF BeginBuild, c
      <3> DEFINE d == [c EXCEPT !.at = "acquire", !.remote = counts]
      <3>2. /\ d \in CallStates /\ d.at = "acquire" /\ d.tx = c.tx /\ d.nonce = c.nonce
            /\ d.old = c.old /\ d.resume = c.resume
        BY <1>0 DEF CallStates, Places
      <3>3. Go(p, d)
        BY <3>1
      <3> HIDE DEF d
      <3> QED BY <1>2, <2>0, <2>1, <2>3, <3>2, <3>3
    <2> QED BY <2>2, <2>3
  <1>7. CASE ReadFails(p)
    <2>1. Go(p, Return(c, "acquire")) /\ c.nonce = None /\ claimed' \subseteq claimed
      BY <1>4, <1>7 DEF ReadFails, c
    <2>2. Secure(Return(c, "acquire")) /\ Used(Return(c, "acquire")) = Used(c)
      BY <1>0, ReturnSecure DEF Outcomes, Used
    <2> QED BY <1>0, <1>1, <1>3, <2>1, <2>2, SignedSettles DEF c
  <1>8. CASE AcquireFails(p)
    <2> DEFINE e == [c EXCEPT !.remote = NoReplies]
    <2>1. Go(p, Return(e, "acquire")) /\ c.at = "acquire" /\ claimed' \subseteq claimed
      BY <1>8 DEF AcquireFails, AbnormalNonceState, Cleaned, c
    <2>2. e \in CallStates /\ e.old = c.old
      BY <1>0, Numbers DEF CallStates
    <2> HIDE DEF e
    <2>3. Secure(Return(e, "acquire")) /\ Used(Return(e, "acquire")) = Used(c)
      BY <2>2, ReturnSecure DEF Outcomes, Used
    <2>4. c.nonce = None
      BY <1>0, <2>1 DEF Secure
    <2> QED BY <1>0, <1>1, <1>3, <2>1, <2>3, <2>4, SignedSettles DEF c
  <1>9. CASE Acquire(p)
    <2>1. PICK n \in Nonces :
              /\ AcquireNonce(c.remote.mined, c.remote.pending, recorded, n)
              /\ Go(p, [c EXCEPT !.at = "built", !.remote = NoReplies,
                                 !.tx = [by |-> p, nonce |-> n, price |-> Price(c)]])
      BY <1>9 DEF Acquire, c
    <2>2. c.at = "acquire" /\ c.nonce = None /\ c.resume = NoTx
      BY <1>0, <1>9 DEF Acquire, c, Secure, Busy
    <2>3. claimed' \subseteq claimed \union {n}
      <3>1. c.remote.mined \in Nat /\ c.remote.pending \in Nat /\ n \in Nat
        BY <1>0, Numbers, CallFields
      <3>2. stored \in Nat \union {None} /\ claimed \subseteq Nat
        BY Numbers DEF Typed
      <3> QED BY <2>1, <3>1, <3>2, AcquiredNonce
    <2> DEFINE t == [by |-> p, nonce |-> n, price |-> Price(c)]
               d == [c EXCEPT !.at = "built", !.remote = NoReplies, !.tx = t]
    <2>4. t \in Txs /\ t.nonce = n
      BY <1>0, Numbers, CallFields DEF Price, Txs
    <2>5. Go(p, d)
      BY <2>1
    <2> HIDE DEF t
    <2>6. /\ d \in CallStates /\ d.at = "built" /\ d.tx = t /\ d.nonce = c.nonce /\ d.old = c.old
          /\ d.resume = c.resume
      BY <1>0, <2>4, Numbers DEF CallStates, Places
    <2> HIDE DEF d
    <2>7. Secure(d)
      BY <2>2, <2>6 DEF Secure, Busy
    <2>8. n \in Grip(d) /\ Used(c) \subseteq Grip(d)
      BY <2>4, <2>6 DEF Grip, Leaves, Used
    <2>9. \A k \in claimed' : k \in Grip(d) \/ (k \in claimed /\ k \notin Grip(c))
      BY <1>0, <1>1, <1>3, <2>2, <2>3, <2>8
    <2> QED BY <2>5, <2>7, <2>9 DEF Settles, c
  <1> QED BY <1>5, <1>6, <1>7, <1>8, <1>9

LEMMA EstimateSettles ==
    ASSUME Typed, NEW p \in Procs, Secure(call[p]),
           \/ EstimateFails(p) \/ EstimateFindsMined(p) \/ EstimateFindsPending(p)
           \/ EstimateGivesNothing(p)
    PROVE  Settles(p)
  <1> DEFINE c == call[p]
  <1>0. c \in CallStates /\ Secure(c) /\ claimed \subseteq Nonces
    BY DEF Typed
  <1>1. None \notin Nonces /\ NoTx.nonce = None
    BY Numbers DEF NoTx
  <1>2. /\ c.at = "estimateFailed" \/ (c.at = "loop" /\ ~c.limit)
        /\ c.resume = NoTx /\ claimed' \subseteq claimed
    BY <1>0 DEF EstimateFails, EstimateFindsMined, EstimateFindsPending, EstimateGivesNothing, Secure,
                Busy, trackerVars
  <1>3. c.tx = NoTx /\ c.nonce \in {None} \union Used(c) /\ Grip(c) = Used(c) \union {c.nonce, None}
    BY <1>0, <1>1, <1>2 DEF Secure, Grip, Leaves
  <1> HIDE DEF c
  <1>4. ASSUME NEW d, Go(p, d), Secure(d), d.old = c.old PROVE Settles(p)
    <2>1. \A n \in Nonces : n \in Grip(c) => n \in Used(d)
      BY <1>1, <1>3, <1>4 DEF Used
    <2> QED BY <1>0, <1>2, <1>4, <2>1, SignedSettles DEF c
  <1>5. CASE EstimateFails(p)
    <2> DEFINE d == [c EXCEPT !.at = "estimateFailed"]
    <2>1. Go(p, d)
      BY <1>5 DEF EstimateFails, c
    <2>2. /\ d \in CallStates /\ d.at = "estimateFailed" /\ d.old = c.old /\ d.resume = NoTx
          /\ d.nonce = c.nonce /\ d.tx = NoTx
      BY <1>0, <1>2, <1>3 DEF CallStates, Places
    <2> HIDE DEF d
    <2>3. Secure(d)
      BY <1>3, <2>2 DEF Secure, Busy, Used
    <2> QED BY <1>4, <2>1, <2>2, <2>3
  <1>6. CASE EstimateFindsMined(p)
    <2>1. PICK t \in c.old : HandleMined(p, c, t)
      BY <1>6 DEF EstimateFindsMined, c
    <2>2. t \in Txs
      BY <1>0, CallFields
    <2> QED BY <1>0, <1>4, <2>1, <2>2, MinedSecure
  <1>7. CASE EstimateFindsPending(p)
    <2>1. PICK t \in c.old : Go(p, Monitor(c, t))
      BY <1>7 DEF EstimateFindsPending, c
    <2> DEFINE d == Monitor(c, t)
    <2>2. t \in Txs
      BY <1>0, CallFields
    <2>3. /\ d \in CallStates /\ d.at = "monitor" /\ d.old = c.old /\ d.resume = NoTx
          /\ d.nonce = c.nonce
      BY <1>0, <1>2, <2>2 DEF CallStates, Monitor, Places
    <2> HIDE DEF d
    <2>4. Secure(d)
      BY <1>3, <2>3 DEF Secure, Busy, Used
    <2> QED BY <1>4, <2>1, <2>3, <2>4 DEF d
  <1>8. CASE EstimateGivesNothing(p)
    <2>1. CASE Go(p, Return(c, "estimate"))
      BY <1>0, <1>4, <2>1, ReturnSecure DEF Outcomes
    <2>2. CASE /\ ~Exhausted(c)
               /\ \E set \in BOOLEAN : Go(p, Retry([CountRetry(c) EXCEPT !.limit = set]))
      <3>1. PICK set \in BOOLEAN : Go(p, Retry([CountRetry(c) EXCEPT !.limit = set]))
        BY <2>2
      <3> DEFINE e == [CountRetry(c) EXCEPT !.limit = set]
      <3>2. c.attempts + 1 \in 0 .. MaxAttempts
        BY <1>0, <2>2, ExecutionAssumption, CallFields DEF Exhausted
      <3>3. e \in CallStates /\ e.old = c.old /\ e.nonce = c.nonce
        BY <1>0, <3>2 DEF CallStates, CountRetry
      <3>4. Go(p, Retry(e))
        BY <3>1
      <3> HIDE DEF e
      <3>5. e.nonce \in {None} \union Used(e)
        BY <1>3, <3>3 DEF Used
      <3> QED BY <1>4, <3>3, <3>4, <3>5, RetrySecure
    <2> QED BY <1>8, <2>1, <2>2 DEF EstimateGivesNothing, c
  <1> QED BY <1>5, <1>6, <1>7, <1>8

LEMMA BuildSettles ==
    ASSUME Typed, NEW p \in Procs, Secure(call[p]),
           \/ SimulationFails(p) \/ SimulationReverts(p) \/ SignFails(p)
           \/ BroadcastAccepted(p) \/ SyncSubmit(p) \/ SyncReceipt(p) \/ SyncTimeoutAccepted(p)
           \/ Register(p)
    PROVE  Settles(p)
  <1> DEFINE c == call[p]
  <1>0. c \in CallStates /\ CallOK(p, c) /\ Secure(c) /\ claimed \subseteq Nonces
    BY DEF Typed
  <1>1. None \notin Nonces /\ NoTx.nonce = None
    BY Numbers DEF NoTx
  <1>2. c.at \in {"built", "sync", "register"}
    BY DEF SimulationFails, SimulationReverts, SignFails, BroadcastAccepted, SyncSubmit, SyncReceipt,
           SyncTimeoutAccepted, Register
  <1>3. /\ Grip(c) = Used(c) \union {c.nonce, c.tx.nonce} /\ c.nonce \in {None, c.tx.nonce}
        /\ c.tx \in Txs /\ c.resume = NoTx
    BY <1>0, <1>2 DEF Grip, Leaves, Secure, Busy, CallOK, Sent
  <1> HIDE DEF c
  <1>4. CASE SimulationFails(p) \/ SignFails(p) \/ (SimulationReverts(p) /\ Go(p, Return(c, "simulation"))
                                                     /\ ReleaseNonce(c.tx.nonce))
    <2>1. PICK o \in {"simulation", "sign"} : Go(p, Return(c, o)) /\ ReleaseNonce(c.tx.nonce)
      BY <1>4 DEF SimulationFails, SignFails, c
    <2>2. claimed' = claimed \ {c.tx.nonce}
      BY <2>1 DEF ReleaseNonce
    <2>3. Secure(Return(c, o)) /\ Used(Return(c, o)) = Used(c)
      BY <1>0, ReturnSecure DEF Outcomes, Used
    <2>4. \A n \in Nonces : n \in Grip(c) => n \in Grip(Return(c, o)) \/ n = c.tx.nonce
      BY <1>1, <1>3, <2>3 DEF Grip
    <2> QED BY <1>0, <2>1, <2>2, <2>3, <2>4, ReleaseSettles DEF c
  <1>5. CASE /\ SimulationReverts(p) /\ ~Exhausted(c) /\ UNCHANGED trackerVars
             /\ Go(p, Retry([CountRetry(c) EXCEPT !.nonce = c.tx.nonce, !.limit = TRUE]))
    <2> DEFINE e == [CountRetry(c) EXCEPT !.nonce = c.tx.nonce, !.limit = TRUE]
               d == Retry(e)
    <2>1. c.attempts + 1 \in 0 .. MaxAttempts /\ c.tx.nonce \in Nonces
      BY <1>0, <1>3, <1>5, ExecutionAssumption, Numbers DEF CallStates, Exhausted
    <2>2. e \in CallStates /\ e.old = c.old /\ e.resume = NoTx /\ e.nonce = c.tx.nonce
          /\ e.limit
      BY <1>0, <1>3, <2>1 DEF CallStates, CountRetry
    <2> HIDE DEF e
    <2>3. Secure(d) /\ d.old = c.old
      BY <2>2, RetrySecure
    <2>4. d.at = "loop" /\ d.nonce = c.tx.nonce
      BY <2>2 DEF CallStates, Retry
    <2>5. Go(p, d) /\ claimed' \subseteq claimed
      BY <1>5 DEF trackerVars, e
    <2> HIDE DEF d
    <2>6. \A n \in Nonces : n \in Grip(c) => n \in Grip(d)
      BY <1>1, <1>3, <2>3, <2>4 DEF Grip, Leaves, Used
    <2> QED BY <1>0, <2>3, <2>5, <2>6, GripSettles DEF c
  <1>6. CASE SimulationReverts(p)
    BY <1>4, <1>5, <1>6 DEF SimulationReverts, c
  <1>7. ASSUME NEW d \in CallStates, Go(p, d), claimed' \subseteq claimed,
               d.at \in {"sync", "register", "persist"}, d.tx = c.tx,
               d.nonce = c.nonce, d.old = c.old, d.resume = c.resume
        PROVE  Settles(p)
    <2>1. Secure(d)
      BY <1>3, <1>7 DEF Secure, Busy
    <2>2. \A n \in Nonces : n \in Grip(c) => n \in Grip(d)
      BY <1>3, <1>7 DEF Grip, Leaves, Used
    <2> QED BY <1>0, <1>7, <2>1, <2>2, GripSettles DEF c
  <1>8. CASE BroadcastAccepted(p) \/ SyncSubmit(p) \/ SyncTimeoutAccepted(p) \/ Register(p)
    <2>1. PICK place \in {"register", "sync", "persist"} :
              Go(p, [c EXCEPT !.at = place]) /\ claimed' \subseteq claimed
      BY <1>8 DEF BroadcastAccepted, SyncSubmit, SyncTimeoutAccepted, Register, SetPendingNonce,
                  trackerVars, c
    <2> DEFINE d == [c EXCEPT !.at = place]
    <2>2. /\ d \in CallStates /\ d.at = place /\ d.tx = c.tx /\ d.nonce = c.nonce /\ d.old = c.old
          /\ d.resume = c.resume
      BY <1>0 DEF CallStates, Places
    <2>3. Go(p, d)
      BY <2>1
    <2> HIDE DEF d
    <2> QED BY <1>7, <2>1, <2>2, <2>3
  <1>9. CASE SyncReceipt(p)
    <2> DEFINE d == [c EXCEPT !.at = "register", !.then = "receipt"]
    <2>1. Go(p, d) /\ claimed' \subseteq claimed
      BY <1>9 DEF SyncReceipt, trackerVars, c
    <2>2. /\ d \in CallStates /\ d.at = "register" /\ d.tx = c.tx /\ d.nonce = c.nonce /\ d.old = c.old
          /\ d.resume = c.resume
      BY <1>0 DEF CallStates, Places, Thens
    <2> HIDE DEF d
    <2> QED BY <1>7, <2>1, <2>2
  <1> QED BY <1>4, <1>6, <1>8, <1>9

\* What a call has broadcast joins OldTxs, and its nonce with it.
LEMMA BroadcastSettles ==
    ASSUME Typed, NEW p \in Procs, Secure(call[p]),
           \/ SyncTimeoutUnknown(p) \/ Persist(p) \/ BroadcastKnown(p) \/ BroadcastUnderpriced(p)
           \/ BroadcastGap(p) \/ BroadcastLow(p) \/ BroadcastFails(p)
    PROVE  Settles(p)
  <1> DEFINE c == call[p]
             e == Signed(c)
  <1>0. c \in CallStates /\ CallOK(p, c) /\ Secure(c) /\ claimed \subseteq Nonces
    BY DEF Typed
  <1>1. None \notin Nonces
    BY Numbers
  <1>2. c.at \in {"built", "sync", "persist"} /\ claimed' \subseteq claimed
    BY DEF SyncTimeoutUnknown, Persist, BroadcastKnown, BroadcastUnderpriced, BroadcastGap, BroadcastLow,
           BroadcastFails, Refused, AwaitsAnswer, trackerVars
  <1>3. /\ Grip(c) = Used(c) \union {c.nonce, c.tx.nonce} /\ c.nonce \in {None, c.tx.nonce}
        /\ c.tx \in Txs /\ c.resume = NoTx
    BY <1>0, <1>2 DEF Grip, Leaves, Secure, Busy, CallOK, Sent
  <1> HIDE DEF c
  <1>4. /\ e \in CallStates /\ e.old = c.old \union {c.tx} /\ e.old # {} /\ e.resume = NoTx /\ e.tx = c.tx
        /\ e.nonce = c.nonce
    BY <1>0, <1>3, SignedCall DEF Left
  <1>5. c.tx.nonce \in Nonces
    BY <1>3, Numbers
  <1> HIDE DEF e
  <1>6. ASSUME NEW d, Go(p, d), Secure(d), d.old = e.old PROVE Settles(p)
    <2>1. \A n \in Nonces : n \in Grip(c) => n \in Used(d)
      BY <1>1, <1>3, <1>4, <1>6 DEF Used
    <2> QED BY <1>0, <1>2, <1>6, <2>1, SignedSettles DEF c
  <1> DEFINE Kept(n) == [e EXCEPT !.nonce = n]
  <1>7. ASSUME NEW n \in {None} \union Nonces
        PROVE  /\ Kept(n) \in CallStates /\ Kept(n).old = e.old /\ Kept(n).resume = NoTx
               /\ Kept(n).nonce = n
    BY <1>4 DEF CallStates
  <1> HIDE DEF Kept
  <1>8. CASE SyncTimeoutUnknown(p) \/ BroadcastFails(p)
    <2>1. Go(p, RetrySameNonce(e))
      BY <1>8 DEF SyncTimeoutUnknown, BroadcastFails, c, e
    <2> QED BY <1>3, <1>4, <1>6, <2>1, SameNonceSecure
  <1>9. CASE Persist(p)
    <2> DEFINE f == [e EXCEPT !.then = "loop"]
    <2>1. \/ Go(p, Monitor(f, f.tx))
          \/ HandleMined(p, f, f.tx)
          \/ Go(p, Return(f, "hook"))
      BY <1>9 DEF Persist, c, e
    <2>2. f \in CallStates /\ f.old = e.old /\ f.resume = NoTx /\ f.tx = c.tx /\ f.nonce = c.nonce
      BY <1>4 DEF CallStates, Thens
    <2> HIDE DEF f
    <2>3. CASE Go(p, Monitor(f, f.tx))
      <3> DEFINE d == Monitor(f, f.tx)
      <3>1. /\ d \in CallStates /\ d.at = "monitor" /\ d.old = e.old /\ d.resume = NoTx
            /\ d.nonce = c.nonce
        BY <1>3, <2>2 DEF CallStates, Monitor, Places
      <3> HIDE DEF d
      <3>2. d.nonce \in {None} \union Used(d)
        BY <1>3, <1>4, <3>1 DEF Used
      <3>3. Secure(d)
        BY <3>1, <3>2 DEF Secure, Busy
      <3> QED BY <1>6, <2>3, <3>1, <3>3 DEF d
    <2>4. CASE HandleMined(p, f, f.tx)
      <3>1. PICK d : Go(p, d) /\ Secure(d) /\ d.old = f.old
        BY <1>3, <2>2, <2>4, MinedSecure
      <3> QED BY <1>6, <2>2, <3>1
    <2>5. CASE Go(p, Return(f, "hook"))
      BY <1>6, <2>2, <2>5, ReturnSecure DEF Outcomes
    <2> QED BY <2>1, <2>3, <2>4, <2>5
  <1>10. CASE BroadcastKnown(p)
    <2>1. Go(p, Retry(Kept(e.tx.nonce)))
      BY <1>10 DEF BroadcastKnown, c, e, Kept
    <2>2. e.tx.nonce \in Used(Kept(e.tx.nonce))
      BY <1>4, <1>5, <1>7 DEF Used
    <2> QED BY <1>4, <1>5, <1>6, <1>7, <2>1, <2>2, RetrySecure
  <1>11. CASE BroadcastUnderpriced(p)
    <2>1. Go(p, BumpOrStop(Kept(e.tx.nonce), e.tx)) \/ Go(p, Retry(Kept(None)))
      BY <1>11 DEF BroadcastUnderpriced, c, e, Kept
    <2>2. CASE Go(p, BumpOrStop(Kept(e.tx.nonce), e.tx))
      BY <1>3, <1>4, <1>5, <1>6, <1>7, <2>2, BumpSecure
    <2>3. CASE Go(p, Retry(Kept(None)))
      BY <1>6, <1>7, <2>3, RetrySecure
    <2> QED BY <2>1, <2>2, <2>3
  <1>12. CASE BroadcastGap(p)
    <2>1. Go(p, Resync(Kept(None), "loop"))
      BY <1>12 DEF BroadcastGap, c, e, Kept
    <2> QED BY <1>6, <1>7, <2>1, ResyncSecure
  <1>13. CASE BroadcastLow(p)
    <2> DEFINE d == [e EXCEPT !.at = "low"]
    <2>1. Go(p, d)
      BY <1>13 DEF BroadcastLow, c, e
    <2>2. /\ d \in CallStates /\ d.at = "low" /\ d.old = e.old /\ d.resume = NoTx /\ d.tx = c.tx
          /\ d.nonce = c.nonce
      BY <1>4 DEF CallStates, Places
    <2> HIDE DEF d
    <2>3. Secure(d)
      BY <1>3, <1>4, <2>2 DEF Secure, Busy
    <2> QED BY <1>6, <2>1, <2>2, <2>3
  <1> QED BY <1>8, <1>9, <1>10, <1>11, <1>12, <1>13

\* What a call knows of is signed for already.
LEMMA KnownSettles ==
    ASSUME Typed, NEW p \in Procs, Secure(call[p]),
           \/ LowFindsMined(p) \/ LowFindsNone(p) \/ LowUnreadable(p)
           \/ MonitorMined(p) \/ MonitorPending(p) \/ MonitorLost(p)
           \/ SlowConsumed(p) \/ SlowBlocking(p) \/ SlowNotBlocking(p)
    PROVE  Settles(p)
  <1> DEFINE c == call[p]
  <1>0. c \in CallStates /\ CallOK(p, c) /\ Secure(c) /\ claimed \subseteq Nonces
    BY DEF Typed
  <1>1. None \notin Nonces
    BY Numbers
  <1>2. c.at \in {"low", "monitor", "waiting"} /\ claimed' \subseteq claimed
    BY DEF LowFindsMined, LowFindsNone, LowUnreadable, MonitorMined, MonitorPending, MonitorLost,
           SlowConsumed, SlowBlocking, SlowNotBlocking, trackerVars
  <1>3. /\ c.tx \in c.old /\ c.old # {} /\ c.tx \in Txs /\ c.resume = NoTx
        /\ c.tx.nonce \in Used(c) /\ c.nonce \in {None} \union Used(c)
        /\ Grip(c) = Used(c) \union {c.nonce, c.tx.nonce}
    BY <1>0, <1>2, CallFields DEF Secure, Busy, CallOK, Grip, Leaves, Used
  <1> HIDE DEF c
  <1>4. ASSUME NEW d, Go(p, d), Secure(d), d.old = c.old PROVE Settles(p)
    <2>1. \A n \in Nonces : n \in Grip(c) => n \in Used(d)
      BY <1>1, <1>3, <1>4 DEF Used
    <2> QED BY <1>0, <1>2, <1>4, <2>1, SignedSettles DEF c
  <1>5. ASSUME NEW t \in Txs, HandleMined(p, c, t) PROVE Settles(p)
    BY <1>0, <1>4, <1>5, MinedSecure
  <1>6. CASE LowFindsMined(p) \/ MonitorMined(p)
    <2>1. PICK t \in c.old : HandleMined(p, c, t)
      BY <1>3, <1>6 DEF LowFindsMined, MonitorMined, c
    <2>2. t \in Txs
      BY <1>0, CallFields
    <2> QED BY <1>5, <2>1, <2>2
  <1>7. CASE LowFindsNone(p)
    <2>1. CASE Exhausted(c)
      <3>1. Go(p, Resync(Return(c, "retries"), "exit"))
        BY <1>7, <2>1 DEF LowFindsNone, c
      <3> QED BY <1>0, <1>3, <1>4, <3>1, LastTrySecure
    <2>2. CASE ~Exhausted(c)
      <3> DEFINE f == [CountRetry(c) EXCEPT !.nonce = None]
      <3>1. Go(p, Resync(f, "loop"))
        BY <1>7, <2>2 DEF LowFindsNone, LowRetry, c
      <3>2. c.attempts + 1 \in 0 .. MaxAttempts
        BY <1>0, <2>2, ExecutionAssumption, CallFields DEF Exhausted
      <3>3. f \in CallStates /\ f.old = c.old /\ f.nonce = None
        BY <1>0, <3>2 DEF CallStates, CountRetry
      <3> HIDE DEF f
      <3> QED BY <1>4, <3>1, <3>3, ResyncSecure
    <2> QED BY <2>1, <2>2
  <1>8. CASE LowUnreadable(p)
    <2>1. CASE Exhausted(c)
      <3>1. Go(p, Return(c, "retries"))
        BY <1>8, <2>1 DEF LowUnreadable, c
      <3> QED BY <1>0, <1>4, <3>1, ReturnSecure DEF Outcomes
    <2>2. CASE ~Exhausted(c)
      <3>1. Go(p, Retry(CountRetry(c)))
        BY <1>8, <2>2 DEF LowUnreadable, c
      <3>2. CountRetry(c) \in CallStates /\ CountRetry(c).old = c.old /\ CountRetry(c).resume = NoTx
        BY <1>0, <1>3, <2>2, RetryCounted DEF Left
      <3>3. CountRetry(c).nonce = c.nonce
        BY <1>0 DEF CallStates, CountRetry
      <3>4. CountRetry(c).nonce \in {None} \union Used(CountRetry(c))
        BY <1>3, <3>2, <3>3 DEF Used
      <3> QED BY <1>4, <3>1, <3>2, <3>4, RetrySecure
    <2> QED BY <2>1, <2>2
  <1>9. CASE MonitorPending(p)
    <2> DEFINE d == [c EXCEPT !.at = "waiting"]
    <2>1. Go(p, d)
      BY <1>9 DEF MonitorPending, c
    <2>2. d \in CallStates /\ d.at = "waiting" /\ d.old = c.old /\ d.resume = NoTx /\ d.nonce = c.nonce
      BY <1>0, <1>3 DEF CallStates, Places
    <2> HIDE DEF d
    <2>3. Secure(d)
      BY <1>3, <2>2 DEF Secure, Busy, Used
    <2> QED BY <1>4, <2>1, <2>2, <2>3
  <1>10. CASE MonitorLost(p) \/ SlowConsumed(p) \/ SlowBlocking(p)
    <2>1. Go(p, BumpOrStop(c, c.tx)) \/ Go(p, Return(c, "consumed"))
      BY <1>10 DEF MonitorLost, SlowConsumed, SlowBlocking, c
    <2>2. CASE Go(p, BumpOrStop(c, c.tx))
      BY <1>0, <1>3, <1>4, <2>2, BumpSecure
    <2>3. CASE Go(p, Return(c, "consumed"))
      BY <1>0, <1>4, <2>3, ReturnSecure DEF Outcomes
    <2> QED BY <2>1, <2>2, <2>3
  <1>11. CASE SlowNotBlocking(p)
    <2> DEFINE f == [c EXCEPT !.resume = c.tx]
    <2>1. Go(p, Retry(f))
      BY <1>11 DEF SlowNotBlocking, c
    <2>2. f \in CallStates /\ f.old = c.old /\ f.nonce = c.nonce
      BY <1>0, <1>3 DEF CallStates
    <2>3. f.nonce \in {None} \union Used(f)
      BY <1>3, <2>2 DEF Used
    <2> HIDE DEF f
    <2> QED BY <1>4, <2>1, <2>2, <2>3, RetrySecure
  <1> QED BY <1>6, <1>7, <1>8, <1>9, <1>10, <1>11

\* A call that returns has signed for its nonce, or releases it.
LEMMA ReturnSettles ==
    ASSUME Typed, NEW p \in Procs, Secure(call[p]), ResyncRead(p) \/ ResyncApply(p) \/ Exit(p)
    PROVE  Settles(p)
  <1> DEFINE c == call[p]
  <1>0. c \in CallStates /\ CallOK(p, c) /\ Secure(c) /\ claimed \subseteq Nonces
    BY DEF Typed
  <1>1. None \notin Nonces /\ NoTx.nonce = None
    BY Numbers DEF NoTx
  <1>2. c.at \in {"resync", "apply", "exit"} /\ c.tx = NoTx
    BY <1>0 DEF ResyncRead, ResyncApply, Exit, Secure
  <1> HIDE DEF c
  <1>3. ASSUME NEW d, Go(p, d), Secure(d), d.old = c.old, claimed' \subseteq claimed,
               c.old = {} => c.nonce = None
        PROVE  Settles(p)
    <2>1. c.at \in {"resync", "apply"} /\ c.then = "loop" => c.nonce = None
      BY <1>0 DEF Secure
    <2>2. Grip(c) \subseteq Used(c) \union {None}
      BY <1>1, <1>2, <1>3, <2>1 DEF Grip, Leaves
    <2>3. \A n \in Nonces : n \in Grip(c) => n \in Used(d)
      BY <1>1, <1>3, <2>2 DEF Used
    <2> QED BY <1>0, <1>3, <2>3, SignedSettles DEF c
  <1>4. CASE ResyncRead(p) \/ ResyncApply(p)
    <2>1. /\ c.at \in {"resync", "apply"} /\ c.then \in {"loop", "exit", "done"}
          /\ IF c.then = "loop" THEN c.nonce = None ELSE c.old # {}
      BY <1>0, <1>4 DEF ResyncRead, ResyncApply, Secure, CallOK, c
    <2>2. claimed' \subseteq claimed
      BY <1>4 DEF ResyncRead, ResyncApply, ResyncFromRemote, trackerVars
    <2>3. ASSUME NEW d \in CallStates, Go(p, d), d.tx = NoTx, d.old = c.old, d.nonce = c.nonce,
                 (d.at = "apply" /\ d.then = c.then) \/ d.at = c.then
          PROVE  Settles(p)
      <3>1. Secure(d)
        BY <2>1, <2>3 DEF Secure, Busy
      <3> QED BY <1>3, <2>1, <2>2, <2>3, <3>1
    <2>4. ASSUME NEW counts \in Replies, Go(p, [c EXCEPT !.at = "apply", !.remote = counts])
          PROVE  Settles(p)
      <3> DEFINE d == [c EXCEPT !.at = "apply", !.remote = counts]
      <3>1. /\ d \in CallStates /\ d.at = "apply" /\ d.tx = NoTx /\ d.old = c.old /\ d.nonce = c.nonce
            /\ d.then = c.then
        BY <1>0, <1>2 DEF CallStates, Places
      <3>2. Go(p, d)
        BY <2>4
      <3> HIDE DEF d
      <3> QED BY <2>3, <3>1, <3>2
    <2>5. ASSUME NEW counts \in Replies,
                 Go(p, [c EXCEPT !.at = c.then, !.then = "loop", !.remote = counts])
          PROVE  Settles(p)
      <3> DEFINE d == [c EXCEPT !.at = c.then, !.then = "loop", !.remote = counts]
      <3>1. /\ d \in CallStates /\ d.at = c.then /\ d.tx = NoTx /\ d.old = c.old /\ d.nonce = c.nonce
        BY <1>0, <1>2, <2>1 DEF CallStates, Places, Thens
      <3>2. Go(p, d)
        BY <2>5
      <3> HIDE DEF d
      <3> QED BY <2>3, <3>1, <3>2
    <2>6. [c EXCEPT !.at = c.then, !.then = "loop"]
              = [c EXCEPT !.at = c.then, !.then = "loop", !.remote = c.remote]
      BY <1>0 DEF CallStates
    <2> QED BY <1>0, <1>1, <1>4, <2>4, <2>5, <2>6, Numbers, CallFields DEF ResyncRead, ResyncApply, c
  <1>5. CASE Exit(p) /\ c.old # {}
    <2>1. Go(p, Resync(c, "done")) /\ claimed' \subseteq claimed
      BY <1>5 DEF Exit, trackerVars, c
    <2> QED BY <1>0, <1>3, <1>5, <2>1, ResyncSecure
  <1>6. CASE Exit(p) /\ c.old = {}
    <2> DEFINE d == [c EXCEPT !.at = "done"]
    <2>1. /\ Go(p, d) /\ c.at = "exit"
          /\ IF c.nonce # None THEN ReleaseNonce(c.nonce) ELSE UNCHANGED trackerVars
      BY <1>6 DEF Exit, c
    <2>2. d \in CallStates /\ d.at = "done" /\ d.old = c.old
      BY <1>0 DEF CallStates, Places
    <2> HIDE DEF d
    <2>3. Secure(d)
      BY <2>2 DEF Secure, Busy
    <2>4. CASE c.nonce = None
      BY <1>3, <2>1, <2>2, <2>3, <2>4 DEF trackerVars
    <2>5. CASE c.nonce # None
      <3>1. claimed' = claimed \ {c.nonce}
        BY <2>1, <2>5 DEF ReleaseNonce
      <3>2. Grip(c) = {c.nonce, None}
        BY <1>1, <1>2, <1>6, <2>1 DEF Grip, Leaves, Used
      <3> QED BY <1>0, <1>1, <2>1, <2>3, <3>1, <3>2, ReleaseSettles DEF c
    <2> QED BY <2>4, <2>5
  <1> QED BY <1>4, <1>5, <1>6

-----------------------------------------------------------------------------
(***************************************************************************)
(* The invariant holds at the start and every step keeps it.               *)
(***************************************************************************)

\* No context is cancelled and no fee lookup fails.
Undisturbed == Faults \intersect {"cancel", "fee"} = {}

LEMMA CallSettles ==
    ASSUME Undisturbed, Typed, NEW p \in Procs, Secure(call[p]), CallStep(p)
    PROVE  Settles(p)
  <1>1. ~Cancelled(p) /\ ~SyncCancelled(p) /\ ~FeeFails(p)
    BY DEF Undisturbed, Cancelled, SyncCancelled, FeeFails, Fault
  <1> QED BY <1>1, StartSettles, EstimateSettles, BuildSettles, BroadcastSettles, KnownSettles, ReturnSettles
          DEF CallStep

LEMMA CallGrips ==
    ASSUME Undisturbed, Gripped, NEW p \in Procs, CallStep(p)
    PROVE  Gripped'
  <1>1. Typed' /\ Tracked' /\ call \in [Procs -> CallStates]
    BY CallKeeps DEF Gripped, Typed
  <1>2. PICK d : /\ Go(p, d) /\ Secure(d)
                 /\ \A n \in claimed' : n \in Grip(d) \/ (n \in claimed /\ n \notin Grip(call[p]))
    BY CallSettles DEF Gripped, Settles
  <1>3. call' = [call EXCEPT ![p] = d]
    BY <1>2 DEF Go
  <1>4. call'[p] = d /\ \A q \in Procs : q # p => call'[q] = call[q]
    BY <1>1, <1>3
  <1>5. ASSUME NEW q \in Procs PROVE Secure(call'[q])
    BY <1>2, <1>4 DEF Gripped
  <1>6. ASSUME NEW n \in claimed' PROVE \E q \in Procs : n \in Grip(call'[q])
    <2>1. CASE n \in Grip(d)
      BY <1>4, <2>1
    <2>2. CASE n \in claimed /\ n \notin Grip(call[p])
      <3>1. PICK q \in Procs : n \in Grip(call[q])
        BY <2>2 DEF Gripped
      <3> QED BY <1>4, <2>2, <3>1
    <2> QED BY <1>2, <2>1, <2>2
  <1>7. \A q \in Procs : Secure(call'[q])
    BY <1>5
  <1>8. \A n \in claimed' : \E q \in Procs : n \in Grip(call'[q])
    BY <1>6
  <1> QED BY <1>1, <1>7, <1>8 DEF Gripped, Secure, Grip, Leaves, Used, CallStates

LEMMA NetworkGrips ==
    ASSUME Gripped, Typed', Tracked', UNCHANGED <<claimed, call>>
    PROVE  Gripped'
  BY DEF Gripped, Secure, Grip, Leaves, Used, CallStates

LEMMA GripStarts == Init => Gripped
  <1> SUFFICES ASSUME Init PROVE Gripped
    OBVIOUS
  <1>1. Typed /\ Tracked /\ claimed = {}
    BY Starts DEF Init, FreshStart, RecoveredStart, TrackerInit
  <1>2. NewCall \in CallStates /\ Secure(NewCall)
    BY CallsStart DEF NewCall, Secure, Busy
  <1>3. ASSUME NEW p \in Procs PROVE Secure(ResumedCall(PendingTx(p)))
    <2> DEFINE t == PendingTx(p)
               d == ResumedCall(t)
    <2>1. d \in CallStates /\ d.old = {t} /\ t.nonce = 0
      BY CallsStart DEF CallOK, PendingTx
    <2>2. d.at = "loop" /\ d.tx = NoTx /\ d.nonce = t.nonce
      BY DEF ResumedCall, NewCall
    <2> HIDE DEF t, d
    <2>3. d.nonce \in Used(d)
      BY <2>1, <2>2 DEF Used
    <2> QED BY <2>1, <2>2, <2>3 DEF Secure, Busy, d, t
  <1>4. \A p \in Procs : Secure(call[p])
    BY <1>2, <1>3, ExecutionAssumption DEF Init, FreshStart, RecoveredStart
  <1> QED BY <1>1, <1>4 DEF Gripped

LEMMA GripPreserved == Undisturbed /\ Gripped /\ [Next]_vars => Gripped'
  <1> SUFFICES ASSUME Undisturbed, Gripped, [Next]_vars PROVE Gripped'
    OBVIOUS
  <1>1. Typed' /\ Tracked'
    BY Preserved DEF Gripped
  <1>2. CASE UNCHANGED vars
    BY <1>1, <1>2, NetworkGrips DEF vars, trackerVars
  <1>3. CASE Mine \/ Arrive \/ ForeignTx \/ Evict
    BY <1>1, <1>3, NetworkGrips DEF Mine, Arrive, ForeignTx, Evict, trackerVars
  <1> QED BY <1>2, <1>3, CallGrips DEF Next, Finished

-----------------------------------------------------------------------------
(***************************************************************************)
(* The theorem.                                                            *)
(***************************************************************************)

\* executeTransactionLoop:502-511, buildTx and the handlers that release a nonce:
\* as long as no context is cancelled and no fee lookup fails, every nonce the
\* tracker holds as claimed is one a call still works on or has signed a
\* transaction with.  After either failure a call that signed something returns
\* with a nonce on hand that is neither signed for nor released; only a
\* resynchronisation that can read the chain may drop it.
THEOREM ClaimsHaveOwners ==
    ASSUME Faults \intersect {"cancel", "fee"} = {}
    PROVE  Spec => []NoOrphanClaim
  <1>1. Gripped => NoOrphanClaim
    <2> SUFFICES ASSUME Gripped, NEW n \in claimed
                 PROVE  \E p \in Procs : n \in OnHand(p) \/ \E t \in call[p].old : t.nonce = n
      BY DEF NoOrphanClaim
    <2>1. PICK p \in Procs : n \in Grip(call[p])
      BY DEF Gripped
    <2>2. n # None
      BY Numbers DEF Gripped, Typed
    <2> QED BY <2>1, <2>2 DEF Grip, Leaves, Used, OnHand
  <1>2. Undisturbed
    BY DEF Undisturbed
  <1>3. Gripped /\ [Next]_vars => Gripped'
    BY <1>2, GripPreserved
  <1> QED BY <1>1, <1>3, GripStarts, PTL DEF Spec
=============================================================================
