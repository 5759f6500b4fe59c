--------------------------- MODULE RecoveryProofs ---------------------------
(***************************************************************************)
(* What a restart guarantees, for every number of payments, senders,       *)
(* crashes and failures, however the answers of the nodes, the steps of    *)
(* Recover, the executions it resumes and those that begin after it        *)
(* interleave.                                                             *)
(***************************************************************************)
EXTENDS Recovery, NonceTrackerProofs, SequenceTheorems, FiniteSetTheorems

RecStates == [at : {"reconcile", "apply", "list", "process", "spawn", "done"},
              remote : Replies, todo : SUBSET Txs, next : SUBSET Txs,
              errors : SUBSET Txs, slots : Nat]

Mining == [tx : Txs, ok : BOOLEAN]

Drafts == [nonce : {None} \union Nonces, pay : Payments, bump : 0 .. MaxBump]
ExecStates == [orig : Origs, cur : Drafts, old : SUBSET Txs, at : Places]

\* An execution works for one payment all its life.  It watches only what it
\* tracks, a resumed one tracks something until it ends, and only the end of a
\* resumed one is waited for.
Shape(e) ==
    /\ e \in ExecStates
    /\ e.cur.pay = e.orig.pay
    /\ \A t \in e.old : t.pay = e.orig.pay
    /\ e.at \in {"acquired", "built", "sent", "watch", "mined"} => e.cur.nonce \in Nonces
    /\ e.at \in {"sent", "watch"} => e.cur \in e.old
    /\ e.at \in {"failed", "mined"} => IsResumed(e)
    /\ IsResumed(e) /\ e.at \notin {"erred", "failed", "mined"} => e.old # {}

Typed ==
    /\ stored \in {None} \union Nonces
    /\ claimed \subseteq Nonces
    /\ chain \in Seq(Mining) /\ Len(chain) <= MaxNonce + 1
    /\ \A i \in 1 .. Len(chain) : chain[i].tx.nonce = i - 1
    /\ pool \subseteq Txs
    /\ saved \in {None} \union Nonces
    /\ reserved \subseteq Nonces
    /\ status \in [Txs -> Statuses]
    /\ asked \in [Payments -> {"not yet", "begun", "lost"}]
    /\ \A e \in execs : Shape(e)
    /\ rec \in RecStates
    /\ taken \subseteq Nonces
    /\ crashes \in 0 .. MaxCrashes
    /\ faults \in 0 .. MaxFaults

-----------------------------------------------------------------------------
(* What the operators the actions share do. *)

LEMMA Numbers ==
    /\ Nonces \subseteq Nat /\ None \notin Nonces /\ None = 0 - 1
    /\ 0 \in Nonces
    /\ \A n \in Nonces : n - 1 \in {None} \union Nonces
    /\ \A n \in 0 .. (MaxNonce + 1) : n - 1 \in {None} \union Nonces
    /\ \A n \in 0 .. (MaxNonce + 1) : n > 0 => n - 1 \in Nonces
    /\ \A t \in Txs : t.nonce \in Nonces /\ t.pay \in Payments
    /\ \A c \in Replies : c.mined \in 0 .. (MaxNonce + 1) /\ c.pending \in 0 .. (MaxNonce + 1)
    /\ NoReplies \in Replies
  BY RecoveryAssumption DEF Nonces, None, Txs, Replies, NoReplies

LEMMA NonceOrNone == {None} \union Nonces \subseteq Int
  BY RecoveryAssumption DEF Nonces, None

LEMMA Counted ==
    ASSUME faults \in 0 .. MaxFaults, NEW kind, NoFault \/ Fault(kind)
    PROVE  faults' \in 0 .. MaxFaults
  BY RecoveryAssumption DEF NoFault, Fault

LEMMA CountsRead ==
    ASSUME faults \in 0 .. MaxFaults, NEW c \in Counts, ReadCounts(c)
    PROVE  /\ c.mined \in 0 .. (MaxNonce + 1) /\ c.pending \in 0 .. (MaxNonce + 1)
           /\ c \in Replies
           /\ faults' \in 0 .. MaxFaults
  BY Numbers, Counted DEF ReadCounts, Counts

LEMMA StoredStatus ==
    ASSUME status \in [Txs -> Statuses], NEW t \in Txs, NEW s \in Statuses
    PROVE  /\ Store(t, s) \in [Txs -> Statuses]
           /\ \A u \in Txs : Store(t, s)[u] = IF u = t /\ UseTxStore THEN s ELSE status[u]
  BY DEF Store

LEMMA OutcomeStatus ==
    \A t : Outcome(t) \in {"mined", "reverted"} /\ (Outcome(t) = "mined" <=> Succeeded(t))
  BY DEF Outcome

LEMMA Accepted ==
    ASSUME pool \subseteq Txs, NEW t \in Txs, NodeAccepts(t), faults \in 0 .. MaxFaults
    PROVE  /\ chain' = chain /\ t.nonce >= Mined
           /\ pool' \subseteq pool \union {t}
           /\ faults' \in 0 .. MaxFaults
  <1>1. faults' \in 0 .. MaxFaults
    BY RecoveryAssumption DEF NodeAccepts, NoFault, Fault
  <1> QED BY <1>1 DEF NodeAccepts, PoolAt

LEMMA DraftOfTx ==
    /\ \A t \in Txs : t \in Drafts
    /\ \A t \in Drafts : t.nonce \in Nonces => t \in Txs
    /\ \A t \in Origs : t \in Drafts /\ t.pay \in Payments
    /\ \A t \in Origs : t.nonce # None => t \in Txs /\ t.nonce \in Nonces
    /\ \A p \in Payments : Unsent(p) \in Drafts /\ Unsent(p) \in Origs
                           /\ Unsent(p).nonce = None /\ Unsent(p).pay = p
    /\ \A t \in Txs : t \in Origs /\ t.nonce # None
    /\ \A t \in Origs : t.nonce = None => t = Unsent(t.pay)
  <1>1. \A p \in Payments : /\ Unsent(p) \in Drafts /\ Unsent(p) \in Origs
                            /\ Unsent(p).nonce = None /\ Unsent(p).pay = p
    BY RecoveryAssumption DEF Unsent, Drafts, Origs
  <1>2. \A t \in Txs : t \in Drafts /\ t \in Origs /\ t.nonce # None /\ t.pay \in Payments /\ t.nonce \in Nonces
    BY Numbers DEF Txs, Drafts, Origs
  <1>3. \A t \in Drafts : t.nonce \in Nonces => t \in Txs
    BY DEF Drafts, Txs
  <1>4. \A t \in Origs : t \in Txs \/ \E p \in Payments : t = Unsent(p)
    BY DEF Origs
  <1> QED BY <1>1, <1>2, <1>3, <1>4

-----------------------------------------------------------------------------
(* What an execution becomes in a step. *)

\* A draft with other fields is a draft.
LEMMA Redrafted ==
    ASSUME NEW d \in Drafts
    PROVE  /\ \A n \in {None} \union Nonces :
                  LET f == [d EXCEPT !.nonce = n]
                  IN  f \in Drafts /\ f.nonce = n /\ f.pay = d.pay
           /\ d.bump < MaxBump =>
                  LET f == [d EXCEPT !.bump = @ + 1]
                  IN  f \in Drafts /\ f.nonce = d.nonce /\ f.pay = d.pay
  <1>1. ASSUME NEW n \in {None} \union Nonces
        PROVE  LET f == [d EXCEPT !.nonce = n] IN f \in Drafts /\ f.nonce = n /\ f.pay = d.pay
    BY DEF Drafts
  <1>2. ASSUME d.bump < MaxBump
        PROVE  LET f == [d EXCEPT !.bump = @ + 1]
               IN  f \in Drafts /\ f.nonce = d.nonce /\ f.pay = d.pay
    <2>1. d.bump + 1 \in 0 .. MaxBump
      BY <1>2, RecoveryAssumption DEF Drafts
    <2> QED BY <2>1 DEF Drafts
  <1> QED BY <1>1, <1>2

Fields(f, orig, cur, old, at) ==
    f \in ExecStates /\ f.orig = orig /\ f.cur = cur /\ f.old = old /\ f.at = at

LEMMA Rebuilt ==
    ASSUME NEW e \in ExecStates, NEW d \in Drafts, NEW s \in SUBSET Txs, NEW place \in Places
    PROVE  /\ Fields([e EXCEPT !.at = place], e.orig, e.cur, e.old, place)
           /\ Fields([e EXCEPT !.cur = d, !.at = place], e.orig, d, e.old, place)
           /\ Fields([e EXCEPT !.cur = d], e.orig, d, e.old, e.at)
           /\ Fields([e EXCEPT !.old = s], e.orig, e.cur, s, e.at)
           /\ Fields([e EXCEPT !.cur = d, !.old = s, !.at = place], e.orig, d, s, place)
  BY DEF ExecStates, Fields

LEMMA OverFields ==
    ASSUME NEW e \in ExecStates, NEW place \in Places
    PROVE  /\ Fields(Over(e, place), e.orig, e.orig, {}, place)
           /\ \A t \in Txs : Fields([Over(e, place) EXCEPT !.cur = t], e.orig, t, {}, place)
  <1>1. e.orig \in Drafts /\ {} \in SUBSET Txs
    BY DraftOfTx DEF ExecStates
  <1>2. Fields(Over(e, place), e.orig, e.orig, {}, place)
    BY <1>1, Rebuilt DEF Over
  <1>3. \A t \in Txs : Fields([Over(e, place) EXCEPT !.cur = t], e.orig, t, {}, place)
    <2>1. PICK o : o = Over(e, place)
      OBVIOUS
    <2>2. /\ o \in ExecStates /\ o.old \in SUBSET Txs /\ o.at \in Places
          /\ o.orig = e.orig /\ o.old = {} /\ o.at = place
      BY <1>2, <2>1 DEF Fields, ExecStates
    <2>3. \A t \in Txs : Fields([o EXCEPT !.cur = t], o.orig, t, o.old, o.at)
      BY <2>2, DraftOfTx, Rebuilt
    <2> QED BY <2>1, <2>2, <2>3
  <1> QED BY <1>2, <1>3

LEMMA SignedFields ==
    ASSUME NEW e \in ExecStates, e.cur \in Txs
    PROVE  /\ Fields(Signed(e), e.orig, e.cur, e.old \union {e.cur}, e.at)
           /\ Fields([Signed(e) EXCEPT !.at = "sent"], e.orig, e.cur, e.old \union {e.cur}, "sent")
  <1>1. e.old \union {e.cur} \in SUBSET Txs
    BY DEF ExecStates
  <1>2. Signed(e) = [e EXCEPT !.old = e.old \union {e.cur}]
    BY DEF Signed, ExecStates
  <1>3. Fields(Signed(e), e.orig, e.cur, e.old \union {e.cur}, e.at)
    BY <1>1, <1>2, Rebuilt DEF ExecStates
  <1>4. "sent" \in Places
    BY DEF Places
  <1>5. Fields([Signed(e) EXCEPT !.at = "sent"], e.orig, e.cur, e.old \union {e.cur}, "sent")
    <2>1. PICK s : s = Signed(e)
      OBVIOUS
    <2>2. s \in ExecStates /\ s.cur \in Drafts /\ s.old \in SUBSET Txs
      BY <1>3, <2>1 DEF Fields, ExecStates
    <2>3. Fields([s EXCEPT !.at = "sent"], s.orig, s.cur, s.old, "sent")
      BY <1>4, <2>2, Rebuilt
    <2> QED BY <1>3, <2>1, <2>3 DEF Fields
  <1> QED BY <1>3, <1>5

\* Signed, and the nonce is given up for another.
LEMMA RenouncedFields ==
    ASSUME NEW e \in ExecStates, NEW place \in Places
    PROVE  \E d \in Drafts : /\ d.pay = e.cur.pay
                             /\ Fields([Renounced(e) EXCEPT !.at = place], e.orig, d, e.old, place)
  <1>1. PICK d : d = [e.cur EXCEPT !.nonce = None]
    OBVIOUS
  <1>2. d \in Drafts /\ d.pay = e.cur.pay
    <2>1. e.cur \in Drafts
      BY DEF ExecStates
    <2> QED BY <1>1, <2>1, Redrafted
  <1>3. Renounced(e) = [e EXCEPT !.cur = d]
    BY <1>1 DEF Renounced, ExecStates
  <1>4. Fields(Renounced(e), e.orig, d, e.old, e.at)
    BY <1>2, <1>3, Rebuilt DEF ExecStates, Places
  <1>5. Fields([Renounced(e) EXCEPT !.at = place], e.orig, d, e.old, place)
    <2>1. PICK r : r = Renounced(e)
      OBVIOUS
    <2> QED BY <1>4, <2>1, Rebuilt DEF Fields, ExecStates
  <1> QED BY <1>2, <1>5

LEMMA BumpedFields ==
    ASSUME NEW e \in ExecStates
    PROVE  \/ \E d \in Drafts : /\ d.pay = e.cur.pay /\ d.nonce = e.cur.nonce
                                /\ Fields(Bumped(e), e.orig, d, e.old, "built")
           \/ Fields(Bumped(e), e.orig, e.orig, {}, "erred")
  <1>1. CASE e.cur.bump < MaxBump
    <2>1. PICK d : d = [e.cur EXCEPT !.bump = @ + 1]
      OBVIOUS
    <2>2. d \in Drafts /\ d.pay = e.cur.pay /\ d.nonce = e.cur.nonce
      <3>1. e.cur \in Drafts
        BY DEF ExecStates
      <3> QED BY <1>1, <2>1, <3>1, Redrafted
    <2>3. Bumped(e) = [e EXCEPT !.cur = d, !.at = "built"]
      BY <1>1, <2>1 DEF Bumped, ExecStates
    <2>4. Fields(Bumped(e), e.orig, d, e.old, "built")
      BY <2>2, <2>3, Rebuilt DEF ExecStates, Places
    <2> QED BY <2>2, <2>4
  <1>2. CASE ~(e.cur.bump < MaxBump)
    BY <1>2, OverFields DEF Bumped, Places
  <1> QED BY <1>1, <1>2

LEMMA AcquiredFields ==
    ASSUME NEW e \in ExecStates, NEW n \in Nonces
    PROVE  LET f == [e EXCEPT !.cur.nonce = n, !.at = "acquired"]
           IN  \E d \in Drafts : /\ d.pay = e.cur.pay /\ d.nonce = n
                                 /\ Fields(f, e.orig, d, e.old, "acquired")
  <1>1. PICK d : d = [e.cur EXCEPT !.nonce = n]
    OBVIOUS
  <1>2. d \in Drafts /\ d.pay = e.cur.pay /\ d.nonce = n
    <2>1. e.cur \in Drafts
      BY DEF ExecStates
    <2> QED BY <1>1, <2>1, Redrafted
  <1>3. [e EXCEPT !.cur.nonce = n, !.at = "acquired"] = [e EXCEPT !.cur = d, !.at = "acquired"]
    BY <1>1 DEF ExecStates
  <1>4. Fields([e EXCEPT !.cur = d, !.at = "acquired"], e.orig, d, e.old, "acquired")
    BY <1>2, Rebuilt DEF ExecStates, Places
  <1> QED BY <1>2, <1>3, <1>4

\* How an execution goes on: it keeps its payment, and comes to "built" from
\* "acquired" or with a nonce it has signed for already.
Moves(e, f) ==
    /\ Shape(f) /\ f.orig = e.orig
    /\ execs' = (execs \ {e}) \union {f}
    /\ f.at = "mined" => Succeeded(f.cur) /\ (UseTxStore => status'[f.cur] = "mined")
    /\ f.at = "acquired" => Acquire(e)
    /\ f.at = "built" => \/ e.at = "acquired" /\ f.cur = e.cur /\ f.old = e.old
                         \/ \E t \in f.old : t.nonce = f.cur.nonce

Vanishes(e) == ~IsResumed(e) /\ execs' = execs \ {e}

GoesOn(e) == Vanishes(e) \/ \E f : Moves(e, f)

\* The state is gone: an end, or on the way to one.
LEMMA EndsErred ==
    ASSUME NEW e, Shape(e), Update(e, Over(e, "erred"))
    PROVE  GoesOn(e)
  <1>1. e \in ExecStates /\ e.orig \in Origs /\ "erred" \in Places
    BY DEF Shape, ExecStates, Places
  <1>2. PICK f : f = Over(e, "erred")
    OBVIOUS
  <1>3. Fields(f, e.orig, e.orig, {}, "erred")
    BY <1>1, <1>2, OverFields
  <1>4. Shape(f)
    BY <1>3 DEF Shape, Fields
  <1>5. Moves(e, f)
    BY <1>2, <1>3, <1>4 DEF Moves, Fields, Update
  <1> QED BY <1>5 DEF GoesOn

LEMMA ErrorReturned ==
    ASSUME NEW e, Shape(e), e.at \notin {"erred", "failed", "mined"}, ReturnsError(e)
    PROVE  GoesOn(e)
  <1>1. CASE e.old = {}
    BY <1>1 DEF Shape, ReturnsError, GoesOn, Vanishes
  <1>2. CASE e.old # {}
    BY <1>2, EndsErred DEF ReturnsError
  <1> QED BY <1>1, <1>2

LEMMA MinedSeen ==
    ASSUME NEW e, Shape(e), NEW t \in Txs, t.pay = e.orig.pay, SeenMined(e, t),
           status \in [Txs -> Statuses]
    PROVE  GoesOn(e)
  <1>1. CASE ~Succeeded(t)
    BY <1>1, EndsErred DEF SeenMined
  <1>2. CASE Succeeded(t) /\ ~IsResumed(e)
    BY <1>2 DEF SeenMined, Returns, GoesOn, Vanishes
  <1>3. CASE Succeeded(t) /\ IsResumed(e)
    <2>1. e \in ExecStates /\ "mined" \in Places
      BY DEF Shape, Places
    <2>2. PICK f : f = [Over(e, "mined") EXCEPT !.cur = t]
      OBVIOUS
    <2>3. Fields(f, e.orig, t, {}, "mined")
      BY <2>1, <2>2, OverFields
    <2>4. execs' = (execs \ {e}) \union {f}
      BY <1>3, <2>2 DEF SeenMined, Returns
    <2>5. UseTxStore => status'[t] = "mined"
      BY <1>3, OutcomeStatus, StoredStatus DEF SeenMined, Statuses
    <2>6. Shape(f)
      BY <1>3, <2>3, Numbers DEF Shape, Fields, IsResumed
    <2>7. Moves(e, f)
      BY <1>3, <2>3, <2>4, <2>5, <2>6 DEF Moves, Fields
    <2> QED BY <2>7 DEF GoesOn
  <1> QED BY <1>1, <1>2, <1>3

\* A new place, with the same transactions.
LEMMA PlaceChanged ==
    ASSUME NEW e, Shape(e), NEW place \in Places, GoTo(e, place),
           \/ place = "built" /\ e.at = "acquired"
           \/ place = "watch" /\ e.at = "sent"
           \/ place = "build" /\ e.at = "gap"
    PROVE  GoesOn(e)
  <1>1. PICK f : f = [e EXCEPT !.at = place]
    OBVIOUS
  <1>2. e \in ExecStates /\ e.cur \in Drafts /\ e.old \in SUBSET Txs
    BY DEF Shape, ExecStates
  <1>3. Fields(f, e.orig, e.cur, e.old, place)
    BY <1>1, <1>2, Rebuilt
  <1>4. Shape(f)
    BY <1>3 DEF Shape, Fields, IsResumed
  <1>5. Moves(e, f)
    BY <1>1, <1>3, <1>4 DEF Moves, Fields, GoTo, Update
  <1> QED BY <1>5 DEF GoesOn

\* The nonce is given up, the transactions are not.
LEMMA NonceRenounced ==
    ASSUME NEW e, Shape(e), e.at = "built", NEW place \in {"gap", "build"},
           Update(e, [Renounced(Signed(e)) EXCEPT !.at = place])
    PROVE  GoesOn(e)
  <1>1. e \in ExecStates /\ e.cur \in Txs /\ place \in Places
    BY DraftOfTx DEF Shape, ExecStates, Places
  <1>2. PICK s : s = Signed(e)
    OBVIOUS
  <1>3. Fields(s, e.orig, e.cur, e.old \union {e.cur}, "built")
    BY <1>1, <1>2, SignedFields
  <1>4. s \in ExecStates
    BY <1>3 DEF Fields
  <1>5. PICK f : f = [Renounced(s) EXCEPT !.at = place]
    OBVIOUS
  <1>6. PICK d \in Drafts : /\ d.pay = s.cur.pay
                            /\ Fields([Renounced(s) EXCEPT !.at = place], s.orig, d, s.old, place)
    BY <1>1, <1>4, RenouncedFields
  <1>7. Fields(f, e.orig, d, e.old \union {e.cur}, place) /\ d.pay = e.orig.pay
    BY <1>3, <1>5, <1>6 DEF Fields, Shape
  <1>8. Shape(f)
    BY <1>7 DEF Shape, Fields, IsResumed
  <1>9. Moves(e, f)
    BY <1>2, <1>5, <1>7, <1>8 DEF Moves, Fields, Update
  <1> QED BY <1>9 DEF GoesOn

\* A bump keeps the nonce, which the execution has signed for.
LEMMA BumpMoves ==
    ASSUME NEW e, Shape(e), NEW s, Shape(s), s.orig = e.orig, Update(e, Bumped(s)),
           s.cur.nonce \in Nonces, \E t \in s.old : t.nonce = s.cur.nonce
    PROVE  GoesOn(e)
  <1>1. s \in ExecStates
    BY DEF Shape
  <1>2. PICK f : f = Bumped(s)
    OBVIOUS
  <1>3. CASE \E d \in Drafts : /\ d.pay = s.cur.pay /\ d.nonce = s.cur.nonce
                               /\ Fields(f, s.orig, d, s.old, "built")
    <2>1. PICK d \in Drafts : /\ d.pay = s.cur.pay /\ d.nonce = s.cur.nonce
                              /\ Fields(f, s.orig, d, s.old, "built")
      BY <1>3
    <2>2. Shape(f)
      BY <2>1 DEF Shape, Fields, IsResumed
    <2>3. Moves(e, f)
      BY <1>2, <2>1, <2>2 DEF Moves, Fields, Update
    <2> QED BY <2>3 DEF GoesOn
  <1>4. CASE Fields(f, s.orig, s.orig, {}, "erred")
    <2>1. Shape(f)
      BY <1>4 DEF Shape, Fields
    <2>2. Moves(e, f)
      BY <1>2, <1>4, <2>1 DEF Moves, Fields, Update
    <2> QED BY <2>2 DEF GoesOn
  <1> QED BY <1>1, <1>2, <1>3, <1>4, BumpedFields

Ends(e) == MonitorReturnsError(e) \/ MonitorReturns(e)

LEMMA ExecMoves ==
    ASSUME Typed, NEW e \in execs, ExecStep(e)
    PROVE  Ends(e) \/ (GoesOn(e) /\ rec' = rec)
  <1>0. Shape(e) /\ e \in ExecStates /\ status \in [Txs -> Statuses]
    BY DEF Typed, Shape
  <1>1. CASE Acquire(e)
    <2>1. PICK n \in Nonces : Update(e, [e EXCEPT !.cur.nonce = n, !.at = "acquired"])
      BY <1>1 DEF Acquire
    <2>2. PICK f : f = [e EXCEPT !.cur.nonce = n, !.at = "acquired"]
      OBVIOUS
    <2>3. PICK d \in Drafts : /\ d.pay = e.cur.pay /\ d.nonce = n
                              /\ Fields(f, e.orig, d, e.old, "acquired")
      BY <1>0, <2>2, AcquiredFields
    <2>4. Shape(f)
      BY <1>0, <1>1, <2>3 DEF Shape, Fields, IsResumed, Acquire
    <2>5. Moves(e, f)
      BY <1>1, <2>1, <2>2, <2>3, <2>4 DEF Moves, Fields, Update, Acquire
    <2> QED BY <1>1, <2>5 DEF GoesOn, Acquire
  <1>2. CASE AcquireFails(e)
    BY <1>0, <1>2, ErrorReturned DEF AcquireFails
  <1>3. CASE SaveNonce(e)
    BY <1>0, <1>3, PlaceChanged DEF SaveNonce, Places
  <1>4. CASE GiveUp(e)
    BY <1>0, <1>4, ErrorReturned DEF GiveUp
  <1>5. CASE Broadcast(e)
    <2>1. e.cur \in Txs /\ e.at = "built"
      BY <1>0, <1>5, DraftOfTx DEF Broadcast, Shape, ExecStates
    <2>2. PICK f : f = [Signed(e) EXCEPT !.at = "sent"]
      OBVIOUS
    <2>3. Fields(f, e.orig, e.cur, e.old \union {e.cur}, "sent")
      BY <1>0, <2>1, <2>2, SignedFields
    <2>4. Shape(f)
      BY <1>0, <2>1, <2>3 DEF Shape, Fields, IsResumed
    <2>5. Moves(e, f)
      BY <1>5, <2>2, <2>3, <2>4 DEF Moves, Fields, Update, Broadcast
    <2> QED BY <1>5, <2>5 DEF GoesOn, Broadcast
  <1>6. CASE Register(e)
    BY <1>0, <1>6, PlaceChanged DEF Register, Places
  <1>7. CASE RefusedLow(e)
    <2>1. e.at = "built" /\ e.cur \in Txs
      BY <1>0, <1>7, DraftOfTx DEF RefusedLow, Shape, ExecStates
    <2>2. rec' = rec
      BY <1>7 DEF RefusedLow
    <2>3. CASE \E t \in Signed(e).old \intersect Landed : SeenMined(e, t)
      <3>0. Signed(e).old = e.old \union {e.cur}
        BY <1>0, <2>1, SignedFields DEF Fields
      <3>1. PICK t \in e.old \union {e.cur} : SeenMined(e, t)
        BY <2>3, <3>0
      <3>2. t \in Txs /\ t.pay = e.orig.pay
        BY <1>0, <2>1 DEF Shape, ExecStates
      <3> QED BY <1>0, <2>2, <3>1, <3>2, MinedSeen
    <2>4. CASE Update(e, [Renounced(Signed(e)) EXCEPT !.at = "gap"])
      BY <1>0, <2>1, <2>2, <2>4, NonceRenounced
    <2>5. CASE Update(e, Over(e, "erred"))
      BY <1>0, <2>2, <2>5, EndsErred
    <2> QED BY <1>7, <2>3, <2>4, <2>5 DEF RefusedLow
  <1>8. CASE RefusedUnderpriced(e)
    <2>1. e.at = "built" /\ e.cur \in Txs /\ rec' = rec
      BY <1>0, <1>8, DraftOfTx DEF RefusedUnderpriced, Shape, ExecStates
    <2>2. PICK s : s = Signed(e)
      OBVIOUS
    <2>3. Fields(s, e.orig, e.cur, e.old \union {e.cur}, "built")
      BY <1>0, <2>1, <2>2, SignedFields
    <2>4. CASE Update(e, Bumped(s))
      <3>1. Shape(s)
        BY <1>0, <2>1, <2>3 DEF Shape, Fields, IsResumed
      <3>2. s.orig = e.orig /\ s.cur.nonce \in Nonces /\ \E t \in s.old : t.nonce = s.cur.nonce
        BY <1>0, <2>1, <2>3, Numbers DEF Fields
      <3> QED BY <1>0, <2>1, <2>4, <3>1, <3>2, BumpMoves
    <2>5. CASE Update(e, [Renounced(s) EXCEPT !.at = "build"])
      BY <1>0, <2>1, <2>2, <2>5, NonceRenounced
    <2> QED BY <1>8, <2>2, <2>4, <2>5 DEF RefusedUnderpriced
  <1>9. CASE RefusedGap(e)
    BY <1>0, <1>9, NonceRenounced DEF RefusedGap
  <1>10. CASE Bump(e)
    <2>1. e.at = "watch" /\ rec' = rec /\ Update(e, Bumped(e))
      BY <1>10 DEF Bump, NeedsBump
    <2>2. e.cur.nonce \in Nonces /\ \E t \in e.old : t.nonce = e.cur.nonce
      BY <1>0, <2>1 DEF Shape
    <2> QED BY <1>0, <2>1, <2>2, BumpMoves
  <1>11. CASE SeesMined(e)
    <2>1. e.at = "watch" /\ rec' = rec /\ SeenMined(e, e.cur)
      BY <1>11 DEF SeesMined
    <2>2. e.cur \in Txs /\ e.cur.pay = e.orig.pay
      BY <1>0, <2>1 DEF Shape, ExecStates
    <2> QED BY <1>0, <2>1, <2>2, MinedSeen
  <1>12. CASE Fails(e)
    BY <1>0, <1>12, ErrorReturned DEF Fails
  <1>13. CASE Resync(e)
    <2>1. e.at \in {"gap", "erred"} /\ rec' = rec
      BY <1>13 DEF Resync
    <2>2. CASE e.at = "gap"
      BY <1>0, <1>13, <2>1, <2>2, PlaceChanged DEF Resync, Places
    <2>3. CASE e.at = "erred" /\ ~IsResumed(e)
      BY <1>13, <2>1, <2>3 DEF Resync, Returns, GoesOn, Vanishes
    <2>4. CASE e.at = "erred" /\ IsResumed(e)
      <3>1. PICK f : f = Over(e, "failed")
        OBVIOUS
      <3>2. Fields(f, e.orig, e.orig, {}, "failed")
        BY <1>0, <3>1, OverFields DEF Places
      <3>3. execs' = (execs \ {e}) \union {f}
        BY <1>13, <2>4, <3>1 DEF Resync, Returns
      <3>4. Shape(f)
        BY <2>4, <3>2 DEF Shape, Fields, IsResumed
      <3>5. Moves(e, f)
        BY <3>2, <3>3, <3>4 DEF Moves, Fields
      <3> QED BY <2>1, <3>5 DEF GoesOn
    <2> QED BY <2>1, <2>2, <2>3, <2>4
  <1> QED BY <1>1, <1>2, <1>3, <1>4, <1>5, <1>6, <1>7, <1>8, <1>9, <1>10, <1>11, <1>12, <1>13
          DEF ExecStep, Ends

-----------------------------------------------------------------------------
(* The chain grows by the transaction mined, each at the place of its nonce. *)

LEMMA Succession ==
    ASSUME Typed, Mine
    PROVE  \E t \in pool, ok \in BOOLEAN :
               /\ t.nonce = Mined
               /\ pool' = {u \in pool : u.nonce # Mined}
               /\ chain' \in Seq(Mining) /\ Len(chain') = Len(chain) + 1
               /\ \A i \in 1 .. Len(chain) : chain'[i] = chain[i]
               /\ chain'[Len(chain) + 1] = [tx |-> t, ok |-> ok]
               /\ faults' \in 0 .. MaxFaults
  <1>1. PICK t \in PoolAt(Mined), ok \in BOOLEAN :
                 /\ IF ok THEN NoFault ELSE Fault("execution")
                 /\ chain' = Append(chain, [tx |-> t, ok |-> ok])
    BY DEF Mine
  <1>2. t \in pool /\ t.nonce = Mined /\ pool' = {u \in pool : u.nonce # Mined}
    BY <1>1 DEF Mine, PoolAt
  <1>3. [tx |-> t, ok |-> ok] \in Mining /\ chain \in Seq(Mining)
    BY <1>2 DEF Mining, Typed
  <1>4. /\ chain' \in Seq(Mining) /\ Len(chain') = Len(chain) + 1
        /\ \A i \in 1 .. Len(chain) : chain'[i] = chain[i]
        /\ chain'[Len(chain) + 1] = [tx |-> t, ok |-> ok]
    BY <1>1, <1>3, AppendProperties
  <1>5. faults' \in 0 .. MaxFaults
    BY <1>1, Counted DEF Typed
  <1> QED BY <1>2, <1>4, <1>5

LEMMA ChainMoves ==
    ASSUME Typed, [Next]_vars
    PROVE  \/ chain' = chain
           \/ Mine
  BY DEF Next, vars, netVars, RecoverStep, ExecStep, Begin, Acquire, AcquireFails, SaveNonce, GiveUp,
         Broadcast, NodeAccepts, Register, RefusedLow, RefusedUnderpriced, RefusedGap, Bump, SeesMined,
         Fails, Resync, MonitorReturnsError, MonitorReturns, Release, Crash, Evict, ReconcileNothing,
         ReadChain, Reconcile, ListAllPending, ProcessUnread, ProcessFinal, ProcessDropped,
         ProcessPending, Spawn, RecoverReturn

\* A transaction that executed did, and one that did not never will.
LEMMA SucceededKept ==
    ASSUME Typed, [Next]_vars
    PROVE  /\ \A u : Succeeded(u) => Succeeded(u)'
           /\ \A u \in Landed : u \in Landed' /\ (Succeeded(u)' => Succeeded(u))
  <1>0. /\ DOMAIN chain = 1 .. Len(chain) /\ Len(chain) \in Nat
        /\ \A i \in DOMAIN chain : i \in Int
    <2>1. chain \in Seq(Mining)
      BY DEF Typed
    <2> QED BY <2>1
  <1>1. CASE chain' = chain
    BY <1>1 DEF Succeeded, Landed
  <1>2. CASE Mine
    <2>1. PICK t \in pool, ok \in BOOLEAN :
               /\ t.nonce = Mined
               /\ chain' \in Seq(Mining) /\ Len(chain') = Len(chain) + 1
               /\ \A i \in 1 .. Len(chain) : chain'[i] = chain[i]
               /\ chain'[Len(chain) + 1] = [tx |-> t, ok |-> ok]
      BY <1>2, Succession
    <2>2. DOMAIN chain' = 1 .. (Len(chain) + 1)
      BY <2>1
    <2>3. \A u : Succeeded(u) => Succeeded(u)'
      <3> SUFFICES ASSUME NEW u, Succeeded(u) PROVE Succeeded(u)'
        OBVIOUS
      <3>1. PICK i \in DOMAIN chain : chain[i] = [tx |-> u, ok |-> TRUE]
        BY DEF Succeeded
      <3>2. i \in 1 .. Len(chain) /\ i \in DOMAIN chain'
        BY <1>0, <2>2
      <3>3. chain'[i] = [tx |-> u, ok |-> TRUE]
        BY <2>1, <3>1, <3>2
      <3> QED BY <3>2, <3>3, Zenon DEF Succeeded
    <2>4. ASSUME NEW u \in Landed PROVE u \in Landed' /\ (Succeeded(u)' => Succeeded(u))
      <3>1. PICK i \in DOMAIN chain : u = chain[i].tx
        BY <2>4 DEF Landed
      <3>2. i \in 1 .. Len(chain) /\ i \in DOMAIN chain' /\ chain'[i].tx = u
        BY <1>0, <2>1, <2>2, <3>1
      <3>3. u \in Landed'
        BY <3>2, Zenon DEF Landed
      <3>4. u.nonce = i - 1
        BY <3>1, <3>2 DEF Typed
      <3>5. ASSUME Succeeded(u)' PROVE Succeeded(u)
        <4>1. PICK j \in DOMAIN chain' : chain'[j] = [tx |-> u, ok |-> TRUE]
          BY <3>5 DEF Succeeded
        <4>2. CASE j \in 1 .. Len(chain)
          <5>1. j \in DOMAIN chain /\ chain[j] = [tx |-> u, ok |-> TRUE]
            BY <1>0, <2>1, <4>1, <4>2
          <5> QED BY <5>1, Zenon DEF Succeeded
        <4>3. CASE j = Len(chain) + 1
          <5>1. [tx |-> t, ok |-> ok].tx = [tx |-> u, ok |-> TRUE].tx
            BY <2>1, <4>1, <4>3
          <5>2. t = u
            BY <5>1
          <5>3. u.nonce = Len(chain)
            BY <2>1, <5>2 DEF Mined
          <5> QED BY <1>0, <3>2, <3>4, <5>3
        <4> QED BY <1>0, <2>2, <4>1, <4>2, <4>3
      <3> QED BY <3>3, <3>5
    <2> QED BY <2>3, <2>4
  <1> QED BY <1>1, <1>2, ChainMoves

-----------------------------------------------------------------------------
(* The semaphore counts the resumed executions; each has a transaction of  *)
(* its own, and a new one a payment of its own.                            *)

OneExecEach ==
    /\ \A a, b \in execs : a.orig = b.orig => a = b
    /\ \A e \in execs : ~IsResumed(e) => asked[e.orig.pay] = "begun"
    /\ \A e \in execs : e.orig \notin rec.todo \union rec.next
    /\ rec.at \in {"reconcile", "apply", "list"} => execs = {}
    /\ rec.at \in {"reconcile", "apply", "list", "done"} => rec.todo = {}
    /\ rec.at = "spawn" => \E t \in Txs : rec.next = {t} /\ t \notin rec.todo
    /\ rec.at # "spawn" => rec.next = {}

Slots ==
    /\ IsFiniteSet(Monitors)
    /\ rec.slots = Cardinality(Monitors) /\ rec.slots <= MaxMonitors
    /\ OneExecEach

\* What a step leaves in rec.
RecBecomes(place, todo, next, errors, slots) ==
    /\ rec' \in RecStates
    /\ rec'.at = place /\ rec'.todo = todo /\ rec'.next = next
    /\ rec'.errors = errors /\ rec'.slots = slots

LEMMA ReconcileRec ==
    ASSUME rec \in RecStates, faults \in 0 .. MaxFaults
    PROVE  /\ ReconcileNothing => RecBecomes("list", rec.todo, rec.next, rec.errors, rec.slots)
           /\ ReadChain => RecBecomes("apply", rec.todo, rec.next, rec.errors, rec.slots)
           /\ Reconcile => RecBecomes("list", rec.todo, rec.next, rec.errors, rec.slots)
  <1>1. ReconcileNothing => RecBecomes("list", rec.todo, rec.next, rec.errors, rec.slots)
    BY DEF RecStates, ReconcileNothing, RecBecomes
  <1>2. ASSUME ReadChain PROVE RecBecomes("apply", rec.todo, rec.next, rec.errors, rec.slots)
    <2>1. PICK c \in Counts : ReadCounts(c) /\ rec' = [rec EXCEPT !.at = "apply", !.remote = c]
      BY <1>2 DEF ReadChain
    <2>2. c \in Replies
      BY <2>1, CountsRead
    <2> QED BY <2>1, <2>2 DEF RecStates, RecBecomes
  <1>3. Reconcile => RecBecomes("list", rec.todo, rec.next, rec.errors, rec.slots)
    BY Numbers DEF RecStates, Reconcile, RecBecomes
  <1> QED BY <1>1, <1>2, <1>3

LEMMA ProcessRec ==
    ASSUME rec \in RecStates, NEW t \in Txs
    PROVE  /\ ProcessUnread(t) => RecBecomes(rec.at, rec.todo \ {t}, rec.next, rec.errors \union {t}, rec.slots)
           /\ ProcessFinal(t) \/ ProcessDropped(t) =>
                  RecBecomes(rec.at, rec.todo \ {t}, rec.next, rec.errors, rec.slots)
           /\ ProcessPending(t) => RecBecomes("spawn", rec.todo \ {t}, {t}, rec.errors, rec.slots)
  <1>1. /\ rec.todo \ {t} \in SUBSET Txs /\ rec.errors \union {t} \in SUBSET Txs /\ {t} \in SUBSET Txs
        /\ rec.slots \in Nat
    BY DEF RecStates
  <1>2. Processed(t) \in RecStates
    BY <1>1 DEF RecStates, Processed
  <1>3. /\ Processed(t).at = rec.at /\ Processed(t).todo = rec.todo \ {t} /\ Processed(t).next = rec.next
        /\ Processed(t).errors = rec.errors /\ Processed(t).slots = rec.slots
    BY DEF RecStates, Processed
  <1>4. ProcessUnread(t) => RecBecomes(rec.at, rec.todo \ {t}, rec.next, rec.errors \union {t}, rec.slots)
    BY <1>1, <1>2, <1>3 DEF RecStates, ProcessUnread, RecBecomes
  <1>5. ProcessFinal(t) \/ ProcessDropped(t) =>
            RecBecomes(rec.at, rec.todo \ {t}, rec.next, rec.errors, rec.slots)
    BY <1>2, <1>3 DEF ProcessFinal, ProcessDropped, RecBecomes
  <1>6. ProcessPending(t) => RecBecomes("spawn", rec.todo \ {t}, {t}, rec.errors, rec.slots)
    BY <1>1, <1>2, <1>3 DEF RecStates, ProcessPending, RecBecomes
  <1> QED BY <1>4, <1>5, <1>6

LEMMA SpawnedRec ==
    ASSUME NEW x \in RecStates, NEW next \in SUBSET Txs, NEW k \in Nat
    PROVE  [x EXCEPT !.at = "process", !.next = next, !.slots = k] \in RecStates
  BY DEF RecStates

LEMMA RunRec ==
    ASSUME rec \in RecStates
    PROVE  /\ ListAllPending =>
                  RecBecomes("process", {t \in Txs : status[t] = "broadcasted"}, rec.next, rec.errors, rec.slots)
           /\ Spawn => RecBecomes("process", rec.todo, {}, rec.errors, rec.slots + 1)
           /\ RecoverReturn => RecBecomes("done", rec.todo, rec.next, rec.errors, rec.slots)
           /\ Crash => RecBecomes("reconcile", {}, {}, {}, 0)
  <1> DEFINE pending == {t \in Txs : status[t] = "broadcasted"}
  <1>1. pending \in SUBSET Txs
    OBVIOUS
  <1>2. ListAllPending => RecBecomes("process", pending, rec.next, rec.errors, rec.slots)
    <2>1. ListAllPending => rec' = [rec EXCEPT !.at = "process", !.todo = pending]
      BY DEF ListAllPending
    <2> HIDE DEF pending
    <2> QED BY <1>1, <2>1 DEF RecStates, RecBecomes
  <1>3. Spawn => RecBecomes("process", rec.todo, {}, rec.errors, rec.slots + 1)
    <2>1. Spawn => rec' = [rec EXCEPT !.at = "process", !.next = {}, !.slots = @ + 1]
      BY DEF Spawn
    <2>2. {} \in SUBSET Txs /\ rec.slots \in Nat /\ rec.slots + 1 \in Nat
      BY DEF RecStates
    <2>3. [rec EXCEPT !.at = "process", !.next = {}, !.slots = rec.slots + 1] \in RecStates
      BY <2>2, SpawnedRec
    <2>4. Spawn => /\ rec'.at = "process" /\ rec'.todo = rec.todo /\ rec'.next = {}
                   /\ rec'.errors = rec.errors /\ rec'.slots = rec.slots + 1
      BY <2>1, <2>2 DEF RecStates
    <2>5. Spawn => rec' \in RecStates
      BY <2>1, <2>3
    <2> QED BY <2>4, <2>5 DEF RecBecomes
  <1>4. RecoverReturn => RecBecomes("done", rec.todo, rec.next, rec.errors, rec.slots)
    BY DEF RecStates, RecoverReturn, RecBecomes
  <1>5. Crash => RecBecomes("reconcile", {}, {}, {}, 0)
    BY Numbers DEF RecStates, Crash, Recovered, RecBecomes
  <1> QED BY <1>2, <1>3, <1>4, <1>5

\* A slot is given back when a resumed execution is gone.
LEMMA ReleaseRec ==
    ASSUME Typed, Slots, NEW e \in execs, Ends(e)
    PROVE  /\ RecBecomes(rec.at, rec.todo, rec.next, rec.errors, rec.slots - 1)
           /\ execs' = execs \ {e} /\ e \in Monitors
           /\ e.at \in {"failed", "mined"}
  <1>1. Release(e) /\ e.at \in {"failed", "mined"}
    BY DEF Ends, MonitorReturnsError, MonitorReturns
  <1>2. e \in Monitors
    BY <1>1 DEF Typed, Shape, Monitors
  <1>3. rec \in RecStates /\ rec.slots \in Nat
    BY DEF Typed, RecStates
  <1>4. rec.slots > 0
    <2>1. Cardinality(Monitors) # 0
      BY <1>2, FS_EmptySet DEF Slots
    <2> QED BY <1>3, <2>1 DEF Slots
  <1>5. RecBecomes(rec.at, rec.todo, rec.next, rec.errors, rec.slots - 1)
    BY <1>1, <1>3, <1>4 DEF RecStates, Release, RecBecomes
  <1> QED BY <1>1, <1>2, <1>5 DEF Release

-----------------------------------------------------------------------------
LEMMA TypedInit == Init => Typed
  <1> SUFFICES ASSUME Init PROVE Typed
    OBVIOUS
  <1>1. Recovered \in RecStates
    BY Numbers DEF Recovered, RecStates
  <1>2. status \in [Txs -> Statuses] /\ rec \in RecStates
        /\ asked \in [Payments -> {"not yet", "begun", "lost"}]
    BY <1>1 DEF Init, Statuses
  <1>6. chain = <<>> /\ crashes = 0 /\ faults = 0
    BY DEF Init
  <1>3. chain \in Seq(Mining) /\ Len(chain) = 0
    BY <1>6
  <1>4. \A i \in 1 .. Len(chain) : chain[i].tx.nonce = i - 1
    BY <1>3
  <1>5. Len(chain) <= MaxNonce + 1 /\ crashes \in 0 .. MaxCrashes /\ faults \in 0 .. MaxFaults
    BY <1>6, <1>3, RecoveryAssumption
  <1> QED BY <1>2, <1>3, <1>4, <1>5 DEF Init, Typed, TrackerInit

LEMMA TrackerTyped ==
    ASSUME stored \in {None} \union Nonces, claimed \subseteq Nonces,
           NEW m \in 0 .. (MaxNonce + 1), NEW r \in 0 .. (MaxNonce + 1), NEW n \in Nonces
    PROVE  /\ AcquireNonce(m, r, Known, n) => stored' \in {None} \union Nonces /\ claimed' \subseteq Nonces
           /\ AbnormalNonceState(m, r, Known) => stored' = stored /\ claimed' \subseteq Nonces
           /\ SetPendingNonce(n) => stored' \in {None} \union Nonces /\ claimed' = claimed
           /\ ReleaseNonce(n) => stored' \in {None} \union Nonces /\ claimed' \subseteq Nonces
           /\ ResyncFromRemote(m, r) => stored' \in {None} \union Nonces /\ claimed' \subseteq Nonces
  <1>0. /\ m \in Nat /\ r \in Nat /\ n \in Nat /\ claimed \subseteq Nat
        /\ stored \in Nat \union {None} /\ stored \in Int
    BY Numbers, RecoveryAssumption
  <1>1. ASSUME AcquireNonce(m, r, Known, n)
        PROVE  stored' \in {None} \union Nonces /\ claimed' \subseteq Nonces
    <2>1. (stored' = stored \/ stored' = n) /\ claimed' \subseteq claimed \union {n}
      BY <1>0, <1>1, AcquiredNonce
    <2> QED BY <2>1
  <1>2. AbnormalNonceState(m, r, Known) => stored' = stored /\ claimed' \subseteq Nonces
    BY DEF AbnormalNonceState, Cleaned
  <1>3. SetPendingNonce(n) => stored' \in {None} \union Nonces /\ claimed' = claimed
    BY <1>0, RegisteredNonce
  <1>4. ReleaseNonce(n) => stored' \in {None} \union Nonces /\ claimed' \subseteq Nonces
    BY <1>0, ReleasedNonce, Numbers
  <1>5. ResyncFromRemote(m, r) => stored' \in {None} \union Nonces /\ claimed' \subseteq Nonces
    <2>1. Larger(m, r) \in 0 .. (MaxNonce + 1)
      BY DEF Larger
    <2> QED BY <2>1, Numbers DEF ResyncFromRemote
  <1> QED BY <1>1, <1>2, <1>3, <1>4, <1>5

LEMMA ExecsShaped ==
    ASSUME Typed, NEW e \in execs, Ends(e) \/ GoesOn(e)
    PROVE  \A f \in execs' : Shape(f)
  <1>1. CASE Ends(e)
    BY <1>1 DEF Typed, Ends, MonitorReturnsError, MonitorReturns, Release
  <1>2. CASE Vanishes(e)
    BY <1>2 DEF Typed, Vanishes
  <1>3. CASE \E f : Moves(e, f)
    BY <1>3 DEF Typed, Moves
  <1> QED BY <1>1, <1>2, <1>3 DEF GoesOn

LEMMA TypedExec ==
    ASSUME Typed, Slots, NEW e \in execs, ExecStep(e)
    PROVE  Typed'
  <1> USE Numbers
  <1>0. /\ Shape(e) /\ e \in ExecStates /\ status \in [Txs -> Statuses] /\ faults \in 0 .. MaxFaults
        /\ stored \in {None} \union Nonces /\ claimed \subseteq Nonces
    BY DEF Typed, Shape
  <1>1. \A f \in execs' : Shape(f)
    BY ExecMoves, ExecsShaped
  <1>2. rec' \in RecStates
    <2>1. CASE Ends(e)
      BY <2>1, ReleaseRec DEF RecBecomes
    <2>2. CASE rec' = rec
      BY <2>2 DEF Typed
    <2> QED BY <2>1, <2>2, ExecMoves
  <1>3. e.at \in {"acquired", "built", "sent", "watch", "mined"} => e.cur \in Txs /\ e.cur.nonce \in Nonces
    BY <1>0, DraftOfTx DEF Shape, ExecStates
  <1>4. CASE Acquire(e)
    <2>1. PICK c \in Counts, n \in Nonces :
               /\ ReadCounts(c) /\ AcquireNonce(c.mined, c.pending, Known, n)
               /\ reserved' = reserved \union {n}
      BY <1>4 DEF Acquire
    <2>2. /\ c.mined \in 0 .. (MaxNonce + 1) /\ c.pending \in 0 .. (MaxNonce + 1)
          /\ faults' \in 0 .. MaxFaults
      BY <1>0, <2>1, CountsRead
    <2>3. stored' \in {None} \union Nonces /\ claimed' \subseteq Nonces
      BY <1>0, <2>1, <2>2, TrackerTyped
    <2> QED BY <1>1, <1>2, <1>4, <2>1, <2>2, <2>3 DEF Acquire, Typed, netVars
  <1>5. CASE AcquireFails(e)
    <2>1. CASE \E c \in Counts : ReadCounts(c) /\ AbnormalNonceState(c.mined, c.pending, Known)
      <3>1. PICK c \in Counts : ReadCounts(c) /\ AbnormalNonceState(c.mined, c.pending, Known)
        BY <2>1
      <3>2. /\ c.mined \in 0 .. (MaxNonce + 1) /\ c.pending \in 0 .. (MaxNonce + 1)
            /\ faults' \in 0 .. MaxFaults
        BY <1>0, <3>1, CountsRead
      <3>3. stored' = stored /\ claimed' \subseteq Nonces
        BY <1>0, <3>1, <3>2, TrackerTyped
      <3> QED BY <1>1, <1>2, <1>5, <3>2, <3>3 DEF AcquireFails, Typed, netVars, storeVars
    <2>2. CASE (NoFault \/ Fault("reader")) /\ UNCHANGED trackerVars
      <3>1. faults' \in 0 .. MaxFaults
        BY <1>0, <2>2, Counted
      <3> QED BY <1>1, <1>2, <1>5, <2>2, <3>1 DEF AcquireFails, Typed, netVars, storeVars, trackerVars
    <2> QED BY <1>5, <2>1, <2>2 DEF AcquireFails
  <1>6. CASE SaveNonce(e)
    <2>1. saved' \in Nonces
      BY <1>3, <1>6 DEF SaveNonce
    <2> QED BY <1>1, <1>2, <1>6, <2>1 DEF SaveNonce, Typed, netVars, trackerVars, boundVars
  <1>7. CASE GiveUp(e)
    <2>1. ReleaseNonce(e.cur.nonce) /\ e.cur.nonce \in Nonces /\ faults' \in 0 .. MaxFaults
      BY <1>0, <1>3, <1>7, Counted DEF GiveUp
    <2>2. stored' \in {None} \union Nonces /\ claimed' \subseteq Nonces
      <3>1. 0 \in 0 .. (MaxNonce + 1)
        BY RecoveryAssumption
      <3> QED BY <1>0, <2>1, <3>1, TrackerTyped
    <2>3. taken' \subseteq Nonces /\ reserved' \subseteq Nonces
      BY <1>7 DEF GiveUp, Typed
    <2> QED BY <1>1, <1>2, <1>7, <2>1, <2>2, <2>3 DEF GiveUp, Typed, netVars
  <1>8. CASE Broadcast(e)
    <2>1. chain' = chain /\ pool' \subseteq Txs /\ faults' \in 0 .. MaxFaults
      BY <1>0, <1>3, <1>8, Accepted DEF Broadcast, Typed
    <2> QED BY <1>1, <1>2, <1>8, <2>1 DEF Broadcast, Typed, trackerVars, storeVars
  <1>9. CASE Register(e)
    <2>1. SetPendingNonce(e.cur.nonce) /\ e.cur.nonce \in Nonces /\ e.cur \in Txs
      BY <1>3, <1>9 DEF Register
    <2>2. stored' \in {None} \union Nonces /\ claimed' \subseteq Nonces
      <3>1. 0 \in 0 .. (MaxNonce + 1)
        BY RecoveryAssumption
      <3> QED BY <1>0, <2>1, <3>1, TrackerTyped
    <2>3. status' \in [Txs -> Statuses]
      BY <1>0, <1>9, <2>1, StoredStatus DEF Register, Statuses
    <2> QED BY <1>1, <1>2, <1>9, <2>2, <2>3 DEF Register, Typed, netVars, boundVars
  <1>10. CASE RefusedLow(e) \/ SeesMined(e)
    <2>1. status' \in [Txs -> Statuses]
      <3>1. CASE status' = status
        BY <1>0, <3>1
      <3>2. CASE \E t \in Txs : SeenMined(e, t)
        <4>1. PICK t \in Txs : status' = Store(t, Outcome(t))
          BY <3>2 DEF SeenMined
        <4>2. Outcome(t) \in Statuses
          BY OutcomeStatus DEF Statuses
        <4> QED BY <1>0, <4>1, <4>2, StoredStatus
      <3>3. Signed(e).old \subseteq Txs \/ SeesMined(e)
        <4>1. RefusedLow(e) => e.cur \in Txs
          BY <1>3 DEF RefusedLow
        <4>2. RefusedLow(e) => Signed(e).old \in SUBSET Txs
          BY <1>0, <4>1, SignedFields DEF Fields, ExecStates
        <4> QED BY <1>10, <4>2
      <3>4. RefusedLow(e) => (\E t \in Signed(e).old : SeenMined(e, t)) \/ status' = status
        BY DEF RefusedLow
      <3>5. SeesMined(e) => \E t \in Txs : SeenMined(e, t)
        BY <1>3 DEF SeesMined
      <3> QED BY <1>10, <3>1, <3>2, <3>3, <3>4, <3>5
    <2>2. faults' \in 0 .. MaxFaults
      BY <1>0, <1>10, Counted DEF RefusedLow, SeesMined, boundVars
    <2> QED BY <1>1, <1>2, <1>10, <2>1, <2>2 DEF RefusedLow, SeesMined, Typed, trackerVars, netVars, boundVars
  <1>11. CASE RefusedUnderpriced(e) \/ RefusedGap(e) \/ Bump(e)
    BY <1>1, <1>2, <1>11
       DEF RefusedUnderpriced, RefusedGap, Bump, Typed, trackerVars, netVars, storeVars, boundVars
  <1>12. CASE Fails(e)
    <2>1. faults' \in 0 .. MaxFaults
      BY <1>0, <1>12, Counted DEF Fails
    <2> QED BY <1>1, <1>2, <1>12, <2>1 DEF Fails, Typed, trackerVars, netVars, storeVars
  <1>13. CASE Resync(e)
    <2>1. CASE \E c \in Counts : ReadCounts(c) /\ ResyncFromRemote(c.mined, c.pending) /\ taken' = {}
      <3>1. PICK c \in Counts : ReadCounts(c) /\ ResyncFromRemote(c.mined, c.pending) /\ taken' = {}
        BY <2>1
      <3>2. /\ c.mined \in 0 .. (MaxNonce + 1) /\ c.pending \in 0 .. (MaxNonce + 1)
            /\ faults' \in 0 .. MaxFaults
        BY <1>0, <3>1, CountsRead
      <3>3. stored' \in {None} \union Nonces /\ claimed' \subseteq Nonces
        BY <1>0, <3>1, <3>2, TrackerTyped
      <3> QED BY <1>1, <1>2, <1>13, <3>1, <3>2, <3>3 DEF Resync, Typed, netVars, storeVars
    <2>2. CASE Fault("reader") /\ UNCHANGED <<trackerVars, taken>>
      <3>1. faults' \in 0 .. MaxFaults
        BY <1>0, <2>2, Counted
      <3> QED BY <1>1, <1>2, <1>13, <2>2, <3>1 DEF Resync, Typed, netVars, storeVars, trackerVars
    <2> QED BY <1>13, <2>1, <2>2 DEF Resync
  <1>14. CASE Ends(e)
    <2>1. status' \in [Txs -> Statuses]
      <3>1. CASE MonitorReturnsError(e)
        <4>1. e.orig \in Txs
          BY <1>0, <3>1, DraftOfTx DEF MonitorReturnsError, Shape, ExecStates, IsResumed
        <4> QED BY <1>0, <3>1, <4>1, StoredStatus DEF MonitorReturnsError, Statuses
      <3>2. CASE MonitorReturns(e)
        <4>1. e.orig \in Txs
          BY <1>0, <3>2, DraftOfTx DEF MonitorReturns, Shape, ExecStates, IsResumed
        <4>2. PICK s : s = Store(e.orig, "replaced")
          OBVIOUS
        <4>3. s \in [Txs -> Statuses] /\ [s EXCEPT ![e.cur] = "mined"] \in [Txs -> Statuses]
          BY <1>0, <4>1, <4>2, StoredStatus DEF Statuses
        <4> QED BY <1>0, <3>2, <4>2, <4>3 DEF MonitorReturns
      <3> QED BY <1>14, <3>1, <3>2 DEF Ends
    <2> QED BY <1>1, <1>2, <1>14, <2>1
            DEF Ends, MonitorReturnsError, MonitorReturns, Release, Typed, trackerVars, netVars, boundVars
  <1> QED BY <1>4, <1>5, <1>6, <1>7, <1>8, <1>9, <1>10, <1>11, <1>12, <1>13, <1>14
          DEF ExecStep, Ends

\* A new execution, and one of a transaction found pending.
Started(p) == [orig |-> Unsent(p), cur |-> Unsent(p), old |-> {}, at |-> "build"]

LEMMA StartShaped ==
    /\ \A p \in Payments : /\ Shape(Started(p)) /\ ~IsResumed(Started(p))
                           /\ Started(p).orig = Unsent(p) /\ Started(p).at = "build"
    /\ \A t \in Txs : /\ Shape(Watch(t)) /\ IsResumed(Watch(t))
                      /\ Watch(t).orig = t /\ Watch(t).at = "watch"
  <1>1. \A p \in Payments : Started(p) \in ExecStates
    BY DraftOfTx DEF Started, ExecStates, Places
  <1>2. \A t \in Txs : Watch(t) \in ExecStates
    BY DraftOfTx DEF Watch, ExecStates, Places
  <1>3. ASSUME NEW p \in Payments
        PROVE  /\ Shape(Started(p)) /\ ~IsResumed(Started(p))
               /\ Started(p).orig = Unsent(p) /\ Started(p).at = "build"
    BY <1>1, DraftOfTx DEF Started, Shape, IsResumed
  <1>4. ASSUME NEW t \in Txs
        PROVE  /\ Shape(Watch(t)) /\ IsResumed(Watch(t)) /\ Watch(t).orig = t /\ Watch(t).at = "watch"
    BY <1>2, DraftOfTx DEF Watch, Shape, IsResumed
  <1> QED BY <1>3, <1>4

LEMMA TypedRecover ==
    ASSUME Typed, RecoverStep
    PROVE  Typed'
  <1> USE Numbers
  <1>0. /\ rec \in RecStates /\ faults \in 0 .. MaxFaults /\ saved \in {None} \union Nonces
        /\ stored \in {None} \union Nonces /\ claimed \subseteq Nonces
    BY DEF Typed
  <1>1. CASE ReconcileNothing
    <2>1. rec' \in RecStates
      BY <1>0, <1>1, ReconcileRec DEF RecBecomes
    <2>2. faults' \in 0 .. MaxFaults
      BY <1>0, <1>1, Counted DEF ReconcileNothing
    <2> QED BY <1>1, <2>1, <2>2 DEF ReconcileNothing, Typed, trackerVars, netVars, storeVars
  <1>2. CASE ReadChain
    <2>1. rec' \in RecStates
      BY <1>0, <1>2, ReconcileRec DEF RecBecomes
    <2>2. faults' \in 0 .. MaxFaults
      BY <1>0, <1>2, CountsRead DEF ReadChain
    <2> QED BY <1>2, <2>1, <2>2 DEF ReadChain, Typed, trackerVars, netVars, storeVars
  <1>3. CASE Reconcile
    <2>1. rec' \in RecStates
      BY <1>0, <1>3, ReconcileRec DEF RecBecomes
    <2>2. Reconciled(rec.remote) \in 0 .. (MaxNonce + 1)
      BY <1>0, RecoveryAssumption DEF RecStates, Reconciled, Larger, Nonces
    <2>3. stored' \in {None} \union Nonces /\ claimed' \subseteq Nonces
      <3>1. CASE Reconciled(rec.remote) > 0
        <4>1. SetPendingNonce(Reconciled(rec.remote) - 1) /\ Reconciled(rec.remote) - 1 \in Nonces
          BY <1>3, <2>2, <3>1 DEF Reconcile
        <4>2. 0 \in 0 .. (MaxNonce + 1)
          BY RecoveryAssumption
        <4> QED BY <1>0, <4>1, <4>2, TrackerTyped
      <3>2. CASE ~(Reconciled(rec.remote) > 0)
        BY <1>0, <1>3, <3>2 DEF Reconcile, trackerVars
      <3> QED BY <3>1, <3>2
    <2>4. reserved' \subseteq Nonces
      BY <1>3 DEF Reconcile, Typed
    <2>5. taken' \subseteq Nonces
      <3>1. 0 .. (saved - 1) \subseteq Nonces
        BY <1>0, RecoveryAssumption DEF Nonces
      <3> QED BY <1>3, <3>1 DEF Reconcile
    <2> QED BY <1>3, <2>1, <2>3, <2>4, <2>5 DEF Reconcile, Typed, netVars, boundVars
  <1>4. CASE ListAllPending \/ Spawn \/ RecoverReturn
    <2>1. rec' \in RecStates
      BY <1>0, <1>4, RunRec DEF RecBecomes
    <2>2. \A e \in execs' : Shape(e)
      <3>1. CASE Spawn
        <4>1. \A t \in rec.next : Shape(Watch(t))
          BY <1>0, StartShaped DEF RecStates
        <4> QED BY <3>1, <4>1 DEF Spawn, Typed
      <3>2. CASE ListAllPending \/ RecoverReturn
        BY <3>2 DEF ListAllPending, RecoverReturn, Typed
      <3> QED BY <1>4, <3>1, <3>2
    <2> QED BY <1>4, <2>1, <2>2
            DEF ListAllPending, Spawn, RecoverReturn, Typed, trackerVars, netVars, storeVars, boundVars
  <1>5. ASSUME NEW t \in Txs, ProcessUnread(t) \/ ProcessPending(t) PROVE Typed'
    <2>1. rec' \in RecStates
      BY <1>0, <1>5, ProcessRec DEF RecBecomes
    <2>2. faults' \in 0 .. MaxFaults
      BY <1>0, <1>5, Counted DEF ProcessUnread, ProcessPending, boundVars
    <2> QED BY <1>5, <2>1, <2>2
            DEF ProcessUnread, ProcessPending, Typed, trackerVars, netVars, storeVars, boundVars
  <1>6. ASSUME NEW t \in Txs, ProcessFinal(t) \/ ProcessDropped(t) PROVE Typed'
    <2>1. rec' \in RecStates
      BY <1>0, <1>6, ProcessRec DEF RecBecomes
    <2>2. faults' \in 0 .. MaxFaults
      BY <1>0, <1>6, Counted DEF ProcessFinal, ProcessDropped, boundVars
    <2>3. status' \in [Txs -> Statuses]
      <3>1. PICK s \in Statuses : status' = Store(t, s)
        BY <1>6, OutcomeStatus DEF ProcessFinal, ProcessDropped, Statuses
      <3> QED BY <3>1, StoredStatus DEF Typed
    <2> QED BY <1>6, <2>1, <2>2, <2>3
            DEF ProcessFinal, ProcessDropped, Typed, trackerVars, netVars, boundVars
  <1>7. rec.todo \subseteq Txs
    BY <1>0 DEF RecStates
  <1> QED BY <1>1, <1>2, <1>3, <1>4, <1>5, <1>6, <1>7 DEF RecoverStep

LEMMA TypedStep == Typed /\ Slots /\ [Next]_vars => Typed'
  <1> SUFFICES ASSUME Typed, Slots, [Next]_vars PROVE Typed'
    OBVIOUS
  <1>0. /\ chain \in Seq(Mining) /\ Len(chain) <= MaxNonce + 1 /\ pool \subseteq Txs
        /\ \A i \in 1 .. Len(chain) : chain[i].tx.nonce = i - 1
        /\ crashes \in 0 .. MaxCrashes
    BY DEF Typed
  <1>6. Len(chain) \in Nat
    BY <1>0
  <1>1. CASE Crash
    <2>1. rec' \in RecStates
      BY <1>1, RunRec DEF Typed, RecBecomes
    <2>2. asked' \in [Payments -> {"not yet", "begun", "lost"}]
      BY <1>1 DEF Crash, Typed
    <2>3. crashes' \in 0 .. MaxCrashes
      BY <1>0, <1>1, RecoveryAssumption DEF Crash
    <2> QED BY <1>1, <2>1, <2>2, <2>3 DEF Crash, Typed, netVars, storeVars
  <1>2. CASE Mine
    <2>1. PICK t \in pool, ok \in BOOLEAN :
               /\ t.nonce = Mined
               /\ pool' = {u \in pool : u.nonce # Mined}
               /\ chain' \in Seq(Mining) /\ Len(chain') = Len(chain) + 1
               /\ \A i \in 1 .. Len(chain) : chain'[i] = chain[i]
               /\ chain'[Len(chain) + 1] = [tx |-> t, ok |-> ok]
               /\ faults' \in 0 .. MaxFaults
      BY <1>2, Succession
    <2>2. Len(chain) <= MaxNonce
      BY <1>0, <2>1, Numbers, RecoveryAssumption DEF Mined, Nonces
    <2>3. ASSUME NEW i \in 1 .. Len(chain') PROVE chain'[i].tx.nonce = i - 1
      <3>1. CASE i \in 1 .. Len(chain)
        <4>1. chain[i].tx.nonce = i - 1
          BY <1>0, <3>1
        <4> QED BY <2>1, <3>1, <4>1
      <3>2. CASE i = Len(chain) + 1
        <4>1. [tx |-> t, ok |-> ok].tx = t
          OBVIOUS
        <4> QED BY <1>6, <2>1, <3>2, <4>1 DEF Mined
      <3> QED BY <1>6, <2>1, <3>1, <3>2
    <2>4. Len(chain') <= MaxNonce + 1 /\ pool' \subseteq Txs
      BY <1>0, <1>6, <2>1, <2>2, RecoveryAssumption
    <2> QED BY <1>2, <2>1, <2>3, <2>4 DEF Mine, Typed, trackerVars, storeVars
  <1>3. CASE Evict
    <2>1. pool' \subseteq pool /\ faults' \in 0 .. MaxFaults
      BY <1>3, Counted DEF Evict, Typed
    <2> QED BY <1>3, <2>1 DEF Evict, Typed, trackerVars, storeVars
  <1>4. ASSUME NEW p \in Payments, Begin(p) PROVE Typed'
    <2>1. execs' = execs \union {Started(p)} /\ Shape(Started(p))
      BY <1>4, StartShaped DEF Begin, Started
    <2>2. asked' \in [Payments -> {"not yet", "begun", "lost"}]
      BY <1>4 DEF Begin, Typed
    <2> QED BY <1>4, <2>1, <2>2 DEF Begin, Typed, trackerVars, netVars, storeVars, boundVars
  <1>5. CASE UNCHANGED vars
    BY <1>5 DEF vars, trackerVars, netVars, storeVars, boundVars, Typed
  <1> QED BY <1>1, <1>2, <1>3, <1>4, <1>5, TypedExec, TypedRecover DEF Next

-----------------------------------------------------------------------------
LEMMA SlotsInit == Init => Slots
  <1> SUFFICES ASSUME Init PROVE Slots
    OBVIOUS
  <1>1. Monitors = {} /\ execs = {} /\ rec = Recovered
    BY DEF Init, Monitors
  <1>2. OneExecEach
    BY <1>1 DEF Recovered, OneExecEach
  <1> QED BY <1>1, <1>2, FS_EmptySet, RecoveryAssumption DEF Recovered, Slots

LEMMA SlotsExec ==
    ASSUME Typed, Slots, NEW e \in execs, ExecStep(e)
    PROVE  Slots'
  <1> DEFINE others == Monitors \ {e}
  <1>0. /\ IsFiniteSet(Monitors) /\ Cardinality(Monitors) \in Nat
        /\ asked' = asked
    <2>1. asked' = asked
      BY DEF ExecStep, Acquire, AcquireFails, SaveNonce, GiveUp, Broadcast, Register, RefusedLow,
             RefusedUnderpriced, RefusedGap, Bump, SeesMined, Fails, Resync, MonitorReturnsError,
             MonitorReturns, Release
    <2> QED BY <2>1, FS_CardinalityType DEF Slots
  <1>1. e \in Monitors => /\ IsFiniteSet(others)
                          /\ Cardinality(others) = Cardinality(Monitors) - 1
    BY <1>0, FS_RemoveElement
  <1>2. CASE Ends(e)
    <2>1. /\ RecBecomes(rec.at, rec.todo, rec.next, rec.errors, rec.slots - 1)
          /\ execs' = execs \ {e} /\ e \in Monitors
      BY <1>2, ReleaseRec
    <2>2. Monitors' = others
      BY <2>1 DEF Monitors, IsResumed
    <2>3. OneExecEach'
      BY <1>0, <2>1 DEF RecBecomes, Slots, OneExecEach, IsResumed
    <2>4. rec'.slots = Cardinality(Monitors') /\ rec'.slots <= MaxMonitors
      BY <1>0, <1>1, <2>1, <2>2, RecoveryAssumption DEF RecBecomes, Slots
    <2> QED BY <1>1, <2>1, <2>2, <2>3, <2>4 DEF Slots
  <1>3. CASE Vanishes(e) /\ rec' = rec
    <2>1. Monitors' = Monitors
      BY <1>3 DEF Vanishes, Monitors, IsResumed
    <2>2. OneExecEach'
      BY <1>0, <1>3 DEF Vanishes, Slots, OneExecEach, IsResumed
    <2> QED BY <1>3, <2>1, <2>2 DEF Slots
  <1>4. CASE (\E f : Moves(e, f)) /\ rec' = rec
    <2>1. PICK f : Moves(e, f)
      BY <1>4
    <2>2. execs' = (execs \ {e}) \union {f} /\ f.orig = e.orig
      BY <2>1 DEF Moves
    <2>3. OneExecEach'
      BY <1>0, <1>4, <2>2 DEF Slots, OneExecEach, IsResumed
    <2>4. IsFiniteSet(Monitors') /\ Cardinality(Monitors') = Cardinality(Monitors)
      <3>1. CASE IsResumed(e)
        <4>1. Monitors' = others \union {f} /\ e \in Monitors
          BY <2>2, <3>1 DEF Monitors, IsResumed
        <4>2. f \notin others
          BY <2>2 DEF Slots, OneExecEach, Monitors
        <4> HIDE DEF others
        <4>3. IsFiniteSet(others) /\ Cardinality(others) = Cardinality(Monitors) - 1
          BY <1>1, <4>1
        <4>4. IsFiniteSet(others \union {f}) /\ Cardinality(others \union {f}) = Cardinality(others) + 1
          BY <4>2, <4>3, FS_AddElement
        <4>5. Cardinality(others \union {f}) = Cardinality(Monitors)
          BY <1>0, <4>3, <4>4
        <4> QED BY <4>1, <4>4, <4>5
      <3>2. CASE ~IsResumed(e)
        <4>1. Monitors' = Monitors
          BY <2>2, <3>2 DEF Monitors, IsResumed
        <4> QED BY <1>0, <4>1
      <3> QED BY <3>1, <3>2
    <2> QED BY <1>4, <2>3, <2>4 DEF Slots
  <1> QED BY <1>2, <1>3, <1>4, ExecMoves DEF GoesOn

LEMMA SlotsRecover ==
    ASSUME Typed, Slots, RecoverStep
    PROVE  Slots'
  <1>0. rec \in RecStates /\ faults \in 0 .. MaxFaults /\ rec.todo \subseteq Txs /\ asked' = asked
    <2>1. asked' = asked
      BY DEF RecoverStep, ReconcileNothing, ReadChain, Reconcile, ListAllPending, ProcessUnread,
             ProcessFinal, ProcessDropped, ProcessPending, Spawn, RecoverReturn
    <2> QED BY <2>1 DEF Typed, RecStates
  <1>1. CASE ReconcileNothing \/ ReadChain \/ Reconcile
    <2>1. /\ \E place \in {"list", "apply"} :
                 RecBecomes(place, rec.todo, rec.next, rec.errors, rec.slots)
          /\ rec.at \in {"reconcile", "apply"} /\ execs' = execs
      BY <1>0, <1>1, ReconcileRec DEF ReconcileNothing, ReadChain, Reconcile
    <2> QED BY <1>0, <2>1 DEF RecBecomes, Slots, OneExecEach, Monitors, IsResumed
  <1>2. CASE ListAllPending
    <2>1. \E todo \in SUBSET Txs : RecBecomes("process", todo, rec.next, rec.errors, rec.slots)
      BY <1>0, <1>2, RunRec
    <2>2. rec.at = "list" /\ execs' = execs /\ execs = {}
      BY <1>2 DEF ListAllPending, Slots, OneExecEach
    <2> QED BY <2>1, <2>2 DEF RecBecomes, Slots, OneExecEach, Monitors
  <1>3. ASSUME NEW t \in Txs, ProcessUnread(t) \/ ProcessFinal(t) \/ ProcessDropped(t)
        PROVE  Slots'
    <2>1. \E errors \in SUBSET Txs :
              RecBecomes(rec.at, rec.todo \ {t}, rec.next, errors, rec.slots)
      BY <1>0, <1>3, ProcessRec DEF RecStates
    <2>2. rec.at = "process" /\ execs' = execs
      BY <1>3 DEF ProcessUnread, ProcessFinal, ProcessDropped
    <2> QED BY <1>0, <2>1, <2>2 DEF RecBecomes, Slots, OneExecEach, Monitors, IsResumed
  <1>4. ASSUME NEW t \in rec.todo, ProcessPending(t) PROVE Slots'
    <2>1. RecBecomes("spawn", rec.todo \ {t}, {t}, rec.errors, rec.slots)
      BY <1>0, <1>4, ProcessRec
    <2>2. rec.at = "process" /\ t \in Txs /\ execs' = execs
      BY <1>0, <1>4 DEF ProcessPending
    <2> QED BY <1>0, <2>1, <2>2 DEF RecBecomes, Slots, OneExecEach, Monitors, IsResumed
  <1>5. CASE Spawn
    <2>1. RecBecomes("process", rec.todo, {}, rec.errors, rec.slots + 1)
      BY <1>0, <1>5, RunRec
    <2>2. PICK t \in Txs : rec.next = {t} /\ t \notin rec.todo
      BY <1>5 DEF Spawn, Slots, OneExecEach
    <2>3. execs' = execs \union {Watch(t)} /\ rec.slots < MaxMonitors
      BY <1>5, <2>2 DEF Spawn
    <2>4. Watch(t).orig = t /\ IsResumed(Watch(t)) /\ Watch(t) \notin execs
      BY <2>2, StartShaped DEF Slots, OneExecEach
    <2>5. Monitors' = Monitors \union {Watch(t)} /\ Watch(t) \notin Monitors
      BY <2>3, <2>4 DEF Monitors, IsResumed
    <2>6. IsFiniteSet(Monitors') /\ Cardinality(Monitors') = Cardinality(Monitors) + 1
      BY <2>5, FS_AddElement DEF Slots
    <2>7. OneExecEach'
      BY <1>0, <2>1, <2>2, <2>3, <2>4 DEF RecBecomes, Slots, OneExecEach, IsResumed
    <2>8. rec'.slots = Cardinality(Monitors') /\ rec'.slots <= MaxMonitors
      BY <1>0, <2>1, <2>3, <2>6, RecoveryAssumption DEF RecBecomes, Slots, RecStates
    <2> QED BY <2>6, <2>7, <2>8 DEF Slots
  <1>6. CASE RecoverReturn
    <2>1. RecBecomes("done", rec.todo, rec.next, rec.errors, rec.slots)
      BY <1>0, <1>6, RunRec
    <2>2. rec.at = "process" /\ rec.todo = {} /\ execs' = execs
      BY <1>6 DEF RecoverReturn
    <2> QED BY <1>0, <2>1, <2>2 DEF RecBecomes, Slots, OneExecEach, Monitors, IsResumed
  <1> QED BY <1>0, <1>1, <1>2, <1>3, <1>4, <1>5, <1>6 DEF RecoverStep

LEMMA SlotsStep == Typed /\ Slots /\ [Next]_vars => Slots'
  <1> SUFFICES ASSUME Typed, Slots, [Next]_vars PROVE Slots'
    OBVIOUS
  <1>1. CASE UNCHANGED <<rec, execs, asked>>
    BY <1>1 DEF Slots, OneExecEach, Monitors, IsResumed
  <1>2. CASE Crash
    <2>1. RecBecomes("reconcile", {}, {}, {}, 0)
      BY <1>2, RunRec DEF Typed
    <2>2. execs' = {} /\ Monitors' = {}
      BY <1>2 DEF Crash, Monitors
    <2> QED BY <2>1, <2>2, FS_EmptySet, RecoveryAssumption DEF RecBecomes, Slots, OneExecEach
  <1>3. ASSUME NEW p \in Payments, Begin(p) PROVE Slots'
    <2>1. /\ execs' = execs \union {Started(p)} /\ ~IsResumed(Started(p))
          /\ Started(p).orig = Unsent(p) /\ Unsent(p).pay = p /\ Unsent(p).nonce = None
      BY <1>3, StartShaped, DraftOfTx DEF Begin, Started
    <2>2. /\ rec' = rec /\ rec.at = "done" /\ asked[p] = "not yet"
          /\ asked' = [asked EXCEPT ![p] = "begun"]
      BY <1>3 DEF Begin
    <2>3. Monitors' = Monitors
      BY <2>1 DEF Monitors, IsResumed
    <2>4. \A e \in execs : e.orig # Unsent(p) /\ (~IsResumed(e) => e.orig.pay # p /\ e.orig.pay \in Payments)
      BY <2>1, <2>2, DraftOfTx DEF Slots, OneExecEach, IsResumed, Typed, Shape, ExecStates
    <2>5. asked'[p] = "begun" /\ \A q \in Payments : q # p => asked'[q] = asked[q]
      BY <2>2 DEF Typed
    <2>6. OneExecEach'
      <3>1. \A a, b \in execs' : a.orig = b.orig => a = b
        BY <2>1, <2>4 DEF Slots, OneExecEach
      <3>2. \A e \in execs' : ~IsResumed(e) => asked'[e.orig.pay] = "begun"
        BY <2>1, <2>4, <2>5 DEF Slots, OneExecEach
      <3> QED BY <2>1, <2>2, <3>1, <3>2 DEF Slots, OneExecEach, IsResumed
    <2> QED BY <2>2, <2>3, <2>6 DEF Slots
  <1> QED BY <1>1, <1>2, <1>3, SlotsExec, SlotsRecover DEF Next, Mine, Evict, vars

-----------------------------------------------------------------------------
(* What becomes of the stored statuses. *)

Marks(e, t) ==
    \/ Register(e) /\ UseTxStore /\ t = e.cur /\ status'[t] = "broadcasted"
    \/ SeenMined(e, t) /\ UseTxStore /\ t \in Landed /\ t.pay = e.orig.pay /\ status'[t] = Outcome(t)
    \/ MonitorReturnsError(e) /\ t = e.orig /\ status'[t] = "dropped"
    \/ MonitorReturns(e) /\ e.cur # e.orig /\ t = e.orig /\ status'[t] = "replaced"
    \/ MonitorReturns(e) /\ t = e.cur /\ status'[t] = "mined"

LEMMA StatusExec ==
    ASSUME Typed, NEW e \in execs, ExecStep(e), NEW t \in Txs
    PROVE  status'[t] = status[t] \/ Marks(e, t)
  <1>0. Shape(e) /\ e \in ExecStates /\ status \in [Txs -> Statuses]
    BY DEF Typed, Shape
  <1>1. e.at \in {"built", "sent", "watch", "mined"} => e.cur \in Txs /\ e.cur.pay = e.orig.pay
    BY <1>0, DraftOfTx DEF Shape, ExecStates
  <1>2. e.at \in {"failed", "mined"} => e.orig \in Txs
    BY <1>0, DraftOfTx DEF Shape, ExecStates, IsResumed
  <1>3. ASSUME NEW u \in Txs, NEW s \in Statuses, status' = Store(u, s)
        PROVE  status'[t] = IF t = u /\ UseTxStore THEN s ELSE status[t]
    BY <1>0, <1>3, StoredStatus
  <1>4. CASE Register(e)
    <2>1. status' = Store(e.cur, "broadcasted") /\ e.cur \in Txs /\ "broadcasted" \in Statuses
      BY <1>1, <1>4 DEF Register, Statuses
    <2> QED BY <1>3, <1>4, <2>1 DEF Marks
  <1>5. ASSUME NEW u \in Txs, u \in Landed, u.pay = e.orig.pay, SeenMined(e, u)
        PROVE  status'[t] = status[t] \/ Marks(e, t)
    <2>1. status' = Store(u, Outcome(u)) /\ Outcome(u) \in Statuses
      BY <1>5, OutcomeStatus DEF SeenMined, Statuses
    <2> QED BY <1>3, <1>5, <2>1 DEF Marks
  <1>6. CASE RefusedLow(e)
    <2>1. e.cur \in Txs /\ e.cur.pay = e.orig.pay
      BY <1>1, <1>6 DEF RefusedLow
    <2>2. Signed(e).old = e.old \union {e.cur}
      BY <1>0, <2>1, SignedFields DEF Fields
    <2>3. status' = status \/ \E u \in (e.old \union {e.cur}) \intersect Landed : SeenMined(e, u)
      BY <1>6, <2>2 DEF RefusedLow
    <2>4. \A u \in e.old \union {e.cur} : u \in Txs /\ u.pay = e.orig.pay
      BY <1>0, <2>1 DEF Shape, ExecStates
    <2> QED BY <1>5, <2>3, <2>4
  <1>7. CASE SeesMined(e)
    BY <1>1, <1>5, <1>7 DEF SeesMined
  <1>8. CASE MonitorReturnsError(e)
    <2>1. status' = Store(e.orig, "dropped") /\ e.orig \in Txs /\ "dropped" \in Statuses
      BY <1>2, <1>8 DEF MonitorReturnsError, Statuses
    <2> QED BY <1>3, <1>8, <2>1 DEF Marks
  <1>9. CASE MonitorReturns(e)
    <2>1. CASE e.cur = e.orig
      BY <1>9, <2>1 DEF MonitorReturns
    <2>2. CASE e.cur # e.orig
      <3>1. PICK s : s = Store(e.orig, "replaced")
        OBVIOUS
      <3>2. s \in [Txs -> Statuses] /\ e.orig \in Txs /\ e.cur \in Txs
        BY <1>0, <1>1, <1>2, <1>9, <3>1, StoredStatus DEF MonitorReturns, Statuses
      <3>3. s[t] = IF t = e.orig /\ UseTxStore THEN "replaced" ELSE status[t]
        BY <1>0, <3>1, <3>2, StoredStatus DEF Statuses
      <3>4. status' = [s EXCEPT ![e.cur] = "mined"]
        BY <1>9, <2>2, <3>1 DEF MonitorReturns
      <3>5. status'[t] = IF t = e.cur THEN "mined" ELSE s[t]
        BY <3>2, <3>4
      <3> QED BY <1>9, <2>2, <3>3, <3>5 DEF Marks
    <2> QED BY <2>1, <2>2
  <1>10. CASE Acquire(e) \/ AcquireFails(e) \/ SaveNonce(e) \/ GiveUp(e) \/ Broadcast(e)
    BY <1>10 DEF Acquire, AcquireFails, SaveNonce, GiveUp, Broadcast, storeVars
  <1>11. CASE RefusedUnderpriced(e) \/ RefusedGap(e) \/ Bump(e) \/ Fails(e) \/ Resync(e)
    BY <1>11 DEF RefusedUnderpriced, RefusedGap, Bump, Fails, Resync, storeVars
  <1> QED BY <1>4, <1>6, <1>7, <1>8, <1>9, <1>10, <1>11 DEF ExecStep

LEMMA StatusRecover ==
    ASSUME Typed, RecoverStep, NEW t \in Txs
    PROVE  \/ status'[t] = status[t]
           \/ t \in rec.todo /\ ProcessFinal(t) /\ UseTxStore /\ t \in Landed /\ status'[t] = Outcome(t)
           \/ t \in rec.todo /\ ProcessDropped(t) /\ UseTxStore /\ status'[t] = "dropped"
  <1>0. rec.todo \subseteq Txs /\ status \in [Txs -> Statuses]
    BY DEF Typed, RecStates
  <1>1. ASSUME NEW u \in rec.todo, ProcessFinal(u)
        PROVE  \/ status'[t] = status[t]
               \/ t = u /\ UseTxStore /\ t \in Landed /\ status'[t] = Outcome(t)
    <2>1. Outcome(u) \in Statuses
      BY OutcomeStatus DEF Statuses
    <2> QED BY <1>0, <1>1, <2>1, StoredStatus DEF ProcessFinal
  <1>2. ASSUME NEW u \in rec.todo, ProcessDropped(u)
        PROVE  status'[t] = status[t] \/ (t = u /\ UseTxStore /\ status'[t] = "dropped")
    BY <1>0, <1>2, StoredStatus DEF ProcessDropped, Statuses
  <1>3. \/ status' = status
        \/ \E u \in rec.todo : ProcessFinal(u) \/ ProcessDropped(u)
    BY DEF RecoverStep, ReconcileNothing, ReadChain, Reconcile, ListAllPending, ProcessUnread,
           ProcessPending, Spawn, RecoverReturn, storeVars
  <1> QED BY <1>1, <1>2, <1>3

LEMMA StatusOther ==
    ASSUME [Next]_vars, ~RecoverStep, \A e \in execs : ~ExecStep(e)
    PROVE  status' = status
  BY DEF Next, Begin, Crash, Mine, Evict, storeVars, vars

\* What is recorded stays recorded.
LEMMA KnownKept ==
    ASSUME Typed, [Next]_vars
    PROVE  Known \subseteq Known'
  <1>1. \A t \in Txs : status[t] # "none" => status'[t] # "none"
    <2> SUFFICES ASSUME NEW t \in Txs, status[t] # "none" PROVE status'[t] # "none"
      OBVIOUS
    <2>1. ASSUME NEW e \in execs, ExecStep(e) PROVE status'[t] # "none"
      <3>1. status'[t] = status[t] \/ Marks(e, t)
        BY <2>1, StatusExec
      <3> QED BY <3>1, OutcomeStatus DEF Marks
    <2>2. CASE RecoverStep
      BY <2>2, StatusRecover, OutcomeStatus
    <2> QED BY <2>1, <2>2, StatusOther
  <1> QED BY <1>1 DEF Known

-----------------------------------------------------------------------------
(* A status is what happened to the transaction. *)

Truthful ==
    /\ FinalStatusTruthful
    /\ \A e \in execs : e.at = "mined" => Succeeded(e.cur)

LEMMA TruthfulInit == Init => Truthful
  BY DEF Init, Truthful, FinalStatusTruthful

LEMMA EndsTruthful ==
    ASSUME Typed, Truthful, [Next]_vars, NEW f \in execs', f.at = "mined"
    PROVE  Succeeded(f.cur)'
  <1>1. f \in execs \/ (\E e \in execs : ExecStep(e) /\ Moves(e, f))
    <2>1. ASSUME NEW e \in execs, ExecStep(e), f \notin execs PROVE Moves(e, f)
      <3>1. CASE Ends(e)
        BY <2>1, <3>1 DEF Ends, MonitorReturnsError, MonitorReturns, Release
      <3>2. CASE Vanishes(e)
        BY <2>1, <3>2 DEF Vanishes
      <3>3. CASE \E g : Moves(e, g)
        BY <2>1, <3>3 DEF Moves
      <3> QED BY <2>1, <3>1, <3>2, <3>3, ExecMoves DEF GoesOn
    <2>2. CASE RecoverStep
      <3>1. CASE Spawn
        <4>1. rec.next \subseteq Txs
          BY DEF Typed, RecStates
        <4> QED BY <3>1, <4>1, StartShaped DEF Spawn
      <3>2. CASE execs' = execs
        BY <3>2
      <3> QED BY <2>2, <3>1, <3>2 DEF RecoverStep, ReconcileNothing, ReadChain, Reconcile,
                 ListAllPending, ProcessUnread, ProcessFinal, ProcessDropped, ProcessPending, RecoverReturn
    <2>3. ASSUME NEW p \in Payments, Begin(p) PROVE f \in execs
      <3>1. execs' = execs \union {Started(p)} /\ Started(p).at = "build"
        BY <2>3, StartShaped DEF Begin, Started
      <3> QED BY <3>1
    <2>4. CASE Crash
      BY <2>4 DEF Crash
    <2> QED BY <2>1, <2>2, <2>3, <2>4 DEF Next, Mine, Evict, vars
  <1>2. CASE f \in execs
    BY <1>2, SucceededKept DEF Truthful
  <1>3. ASSUME NEW e \in execs, Moves(e, f) PROVE Succeeded(f.cur)'
    <2>1. Succeeded(f.cur)
      BY <1>3 DEF Moves
    <2> QED BY <2>1, SucceededKept
  <1> QED BY <1>1, <1>2, <1>3

LEMMA TruthfulStep == Typed /\ Truthful /\ [Next]_vars => Truthful'
  <1> SUFFICES ASSUME Typed, Truthful, [Next]_vars PROVE Truthful'
    OBVIOUS
  <1>1. ASSUME NEW t \in Txs
        PROVE  \/ status'[t] = status[t]
               \/ status'[t] \in {"broadcasted", "dropped"}
               \/ t \in Landed /\ status'[t] = Outcome(t)
               \/ status'[t] = "mined" /\ Succeeded(t)
               \/ status'[t] = "replaced" /\ \E u \in Txs \ {t} : u.pay = t.pay /\ Succeeded(u)
    <2>1. ASSUME NEW e \in execs, ExecStep(e), Marks(e, t)
          PROVE  \/ status'[t] \in {"broadcasted", "dropped"}
                 \/ t \in Landed /\ status'[t] = Outcome(t)
                 \/ status'[t] = "mined" /\ Succeeded(t)
                 \/ status'[t] = "replaced" /\ \E u \in Txs \ {t} : u.pay = t.pay /\ Succeeded(u)
      <3>1. MonitorReturns(e) => e.cur \in Txs /\ e.cur.pay = e.orig.pay /\ Succeeded(e.cur)
        BY DraftOfTx DEF MonitorReturns, Typed, Shape, ExecStates, Truthful
      <3> QED BY <2>1, <3>1 DEF Marks
    <2>2. CASE RecoverStep
      BY <2>2, StatusRecover
    <2> QED BY <2>1, <2>2, StatusExec, StatusOther
  <1>2. FinalStatusTruthful'
    <2> SUFFICES ASSUME NEW t \in Txs
                 PROVE  /\ status'[t] = "mined" => Succeeded(t)'
                        /\ status'[t] = "reverted" => t \in Landed' /\ ~Succeeded(t)'
                        /\ status'[t] = "replaced" => \E u \in Txs \ {t} : u.pay = t.pay /\ Succeeded(u)'
      BY DEF FinalStatusTruthful
    <2>1. /\ status[t] = "mined" => Succeeded(t)
          /\ status[t] = "reverted" => t \in Landed /\ ~Succeeded(t)
          /\ status[t] = "replaced" => \E u \in Txs \ {t} : u.pay = t.pay /\ Succeeded(u)
      BY DEF Truthful, FinalStatusTruthful
    <2>2. ASSUME status'[t] = "mined" PROVE Succeeded(t)'
      BY <1>1, <2>1, <2>2, OutcomeStatus, SucceededKept
    <2>3. ASSUME status'[t] = "reverted" PROVE t \in Landed' /\ ~Succeeded(t)'
      BY <1>1, <2>1, <2>3, OutcomeStatus, SucceededKept
    <2>4. ASSUME status'[t] = "replaced" PROVE \E u \in Txs \ {t} : u.pay = t.pay /\ Succeeded(u)'
      <3>1. \E u \in Txs \ {t} : u.pay = t.pay /\ Succeeded(u)
        BY <1>1, <2>1, <2>4, OutcomeStatus
      <3> QED BY <3>1, SucceededKept
    <2> QED BY <2>2, <2>3, <2>4
  <1>3. \A f \in execs' : f.at = "mined" => Succeeded(f.cur)'
    BY EndsTruthful
  <1> QED BY <1>2, <1>3 DEF Truthful

-----------------------------------------------------------------------------
(* Nothing recorded as pending is forgotten.  A payment is tended when the *)
(* process began it, or has stored how it ended, or an execution resumed   *)
(* for it still has that to do.                                            *)

Tended(p) ==
    \/ EndStored(p)
    \/ asked[p] = "begun"
    \/ \E e \in execs : IsResumed(e) /\ e.orig.pay = p /\ e.at # "mined"

Covered(t) == Tended(t.pay) \/ t \in rec.errors \union rec.todo \union rec.next

Looked == rec.at \in {"process", "spawn"} \/ (rec.at = "done" /\ crashes > 0)

NothingMissed ==
    /\ \A t \in Txs : status[t] = "broadcasted" => UseTxStore
    /\ \A t \in rec.todo : status[t] # "dropped"
    /\ Looked => \A t \in pool : status[t] = "broadcasted" => Covered(t)

LEMMA ExecKeepsOthers ==
    ASSUME Typed, NEW e \in execs, ExecStep(e)
    PROVE  execs \ {e} \subseteq execs' /\ asked' = asked /\ crashes' = crashes
  <1>1. asked' = asked
    BY DEF ExecStep, Acquire, AcquireFails, SaveNonce, GiveUp, Broadcast, Register, RefusedLow,
           RefusedUnderpriced, RefusedGap, Bump, SeesMined, Fails, Resync, MonitorReturnsError,
           MonitorReturns, Release
  <1>2. crashes' = crashes
    BY DEF ExecStep, Acquire, AcquireFails, SaveNonce, GiveUp, Broadcast, Register, RefusedLow,
           RefusedUnderpriced, RefusedGap, Bump, SeesMined, Fails, Resync, MonitorReturnsError,
           MonitorReturns, Release, boundVars
  <1>3. Ends(e) => execs' = execs \ {e}
    BY DEF Ends, MonitorReturnsError, MonitorReturns, Release
  <1> QED BY <1>1, <1>2, <1>3, ExecMoves DEF GoesOn, Vanishes, Moves

\* A step that leaves the execution running leaves its payment tended.
LEMMA ActorTends ==
    ASSUME Typed, Slots, NEW e \in execs, ExecStep(e),
           NEW f \in execs', f.orig = e.orig, f.at # "mined"
    PROVE  Tended(e.orig.pay)'
  <1>1. CASE IsResumed(e)
    <2>1. IsResumed(f)' /\ f.orig.pay = e.orig.pay
      BY <1>1 DEF IsResumed
    <2> QED BY <2>1 DEF Tended, IsResumed
  <1>2. CASE ~IsResumed(e)
    <2>1. asked[e.orig.pay] = "begun" /\ asked' = asked
      BY <1>2, ExecKeepsOthers DEF Slots, OneExecEach
    <2> QED BY <2>1 DEF Tended
  <1> QED BY <1>1, <1>2

LEMMA SignedTends ==
    ASSUME Typed, Slots, NEW e \in execs, Broadcast(e) \/ Register(e)
    PROVE  Tended(e.orig.pay)' /\ e.cur \in Txs /\ e.cur.pay = e.orig.pay
  <1>0. Shape(e) /\ e \in ExecStates /\ e.cur \in Drafts /\ e.old \in SUBSET Txs
    BY DEF Typed, Shape, ExecStates
  <1>1. e.cur \in Txs /\ e.cur.pay = e.orig.pay
    BY <1>0, DraftOfTx DEF Shape, Broadcast, Register
  <1>2. \E f \in execs' : f.orig = e.orig /\ f.at # "mined"
    <2>1. CASE Broadcast(e)
      <3>1. [Signed(e) EXCEPT !.at = "sent"].orig = e.orig /\ [Signed(e) EXCEPT !.at = "sent"].at = "sent"
        BY <1>0, <1>1, SignedFields DEF Fields
      <3> QED BY <2>1, <3>1 DEF Broadcast, Update
    <2>2. CASE Register(e)
      <3>1. [e EXCEPT !.at = "watch"].orig = e.orig /\ [e EXCEPT !.at = "watch"].at = "watch"
        BY <1>0 DEF ExecStates
      <3> QED BY <2>2, <3>1 DEF Register, GoTo, Update
    <2> QED BY <2>1, <2>2
  <1>3. ExecStep(e)
    BY DEF ExecStep
  <1> QED BY <1>1, <1>2, <1>3, ActorTends

LEMMA EndStoredExec ==
    ASSUME Typed, Slots, NEW e \in execs, ExecStep(e), NEW p \in Payments, EndStored(p)
    PROVE  Tended(p)'
  <1>0. Shape(e) /\ e \in ExecStates
    BY DEF Typed, Shape
  <1>1. PICK t \in Txs : t.pay = p /\ status[t] \in {"dropped", "mined"}
    BY DEF EndStored
  <1>2. CASE status'[t] \in {"dropped", "mined"}
    BY <1>1, <1>2 DEF Tended, EndStored
  <1>3. CASE Register(e) /\ t = e.cur
    BY <1>1, <1>3, SignedTends
  <1>4. CASE SeenMined(e, t) /\ t.pay = e.orig.pay /\ ~Succeeded(t)
    <2>1. execs' = (execs \ {e}) \union {Over(e, "erred")}
      BY <1>4 DEF SeenMined, Update
    <2>2. Over(e, "erred").orig = e.orig /\ Over(e, "erred").at = "erred"
      BY <1>0, OverFields DEF Fields, Places
    <2>3. Over(e, "erred") \in execs'
      BY <2>1
    <2> QED BY <1>1, <1>4, <2>2, <2>3, ActorTends
  <1>5. CASE MonitorReturns(e) /\ e.cur # e.orig /\ t = e.orig
    <2>1. e.cur \in Txs /\ e.cur.pay = p
      BY <1>0, <1>1, <1>5, DraftOfTx DEF MonitorReturns, Shape, ExecStates
    <2>2. status'[e.cur] = "mined"
      <3>1. PICK s : s = Store(e.orig, "replaced")
        OBVIOUS
      <3>2. s \in [Txs -> Statuses]
        BY <1>1, <1>5, <3>1, StoredStatus DEF Typed, Statuses
      <3>3. status' = [s EXCEPT ![e.cur] = "mined"]
        BY <1>5, <3>1 DEF MonitorReturns
      <3> QED BY <2>1, <3>2, <3>3
    <2> QED BY <2>1, <2>2 DEF Tended, EndStored
  <1>6. status'[t] = status[t] \/ Marks(e, t)
    BY StatusExec
  <1> QED BY <1>1, <1>2, <1>3, <1>4, <1>5, <1>6, OutcomeStatus DEF Marks

LEMMA TendedExec ==
    ASSUME Typed, Slots, UseTxStore, NEW e \in execs, ExecStep(e), NEW p \in Payments, Tended(p)
    PROVE  Tended(p)'
  <1>0. Shape(e) /\ e \in ExecStates
    BY DEF Typed, Shape
  <1>1. CASE EndStored(p)
    BY <1>1, EndStoredExec
  <1>2. CASE asked[p] = "begun"
    BY <1>2, ExecKeepsOthers DEF Tended
  <1>3. ASSUME NEW r \in execs, IsResumed(r), r.orig.pay = p, r.at # "mined" PROVE Tended(p)'
    <2>1. CASE r # e
      <3>1. r \in execs' /\ IsResumed(r)'
        BY <1>3, <2>1, ExecKeepsOthers DEF IsResumed
      <3> QED BY <1>3, <3>1 DEF Tended
    <2>2. CASE r = e /\ Ends(e)
      <3>1. MonitorReturnsError(e) /\ e.orig \in Txs
        BY <1>0, <1>3, <2>2, DraftOfTx DEF Ends, MonitorReturns, Shape, ExecStates, IsResumed
      <3>2. status'[e.orig] = "dropped"
        BY <3>1, StoredStatus DEF MonitorReturnsError, Statuses, Typed
      <3> QED BY <1>3, <2>2, <3>1, <3>2 DEF Tended, EndStored
    <2>3. CASE r = e /\ \E f : Moves(e, f)
      <3>1. PICK f : Moves(e, f)
        BY <2>3
      <3>2. f \in execs' /\ f.orig = e.orig /\ Shape(f)
        BY <3>1 DEF Moves
      <3>3. CASE f.at # "mined"
        BY <1>3, <2>3, <3>2, <3>3, ActorTends
      <3>4. CASE f.at = "mined"
        <4>1. status'[f.cur] = "mined" /\ f.cur \in Txs /\ f.cur.pay = p
          BY <1>3, <2>3, <3>1, <3>2, <3>4, DraftOfTx DEF Moves, Shape, ExecStates
        <4> QED BY <4>1 DEF Tended, EndStored
      <3> QED BY <3>3, <3>4
    <2> QED BY <1>3, <2>1, <2>2, <2>3, ExecMoves DEF GoesOn, Vanishes
  <1> QED BY <1>1, <1>2, <1>3 DEF Tended

LEMMA TendedRecover ==
    ASSUME Typed, Truthful, NothingMissed, RecoverStep, NEW p \in Payments, Tended(p)
    PROVE  Tended(p)'
  <1>1. execs \subseteq execs' /\ asked' = asked
    BY DEF RecoverStep, ReconcileNothing, ReadChain, Reconcile, ListAllPending, ProcessUnread,
           ProcessFinal, ProcessDropped, ProcessPending, Spawn, RecoverReturn
  <1>2. CASE EndStored(p)
    <2>1. PICK t \in Txs : t.pay = p /\ status[t] \in {"dropped", "mined"}
      BY <1>2 DEF EndStored
    <2>2. status'[t] \in {"dropped", "mined"}
      <3>1. status[t] = "mined" => Outcome(t) = "mined"
        BY OutcomeStatus DEF Truthful, FinalStatusTruthful
      <3> QED BY <2>1, <3>1, StatusRecover DEF NothingMissed
    <2> QED BY <2>1, <2>2 DEF Tended, EndStored
  <1>3. CASE asked[p] = "begun"
    BY <1>1, <1>3 DEF Tended
  <1>4. CASE \E e \in execs : IsResumed(e) /\ e.orig.pay = p /\ e.at # "mined"
    BY <1>1, <1>4 DEF Tended, IsResumed
  <1> QED BY <1>2, <1>3, <1>4 DEF Tended

LEMMA TendedKept ==
    ASSUME Typed, Slots, Truthful, NothingMissed, UseTxStore, [Next]_vars, ~Crash,
           NEW p \in Payments, Tended(p)
    PROVE  Tended(p)'
  <1>1. CASE \E q \in Payments : Begin(q)
    <2>1. PICK q \in Payments : Begin(q)
      BY <1>1
    <2>2. execs \subseteq execs' /\ status' = status /\ (asked[p] = "begun" => asked'[p] = "begun")
      BY <2>1 DEF Begin, Typed, storeVars
    <2> QED BY <2>2 DEF Tended, EndStored, IsResumed
  <1>2. CASE UNCHANGED <<execs, status, asked>>
    BY <1>2 DEF Tended, EndStored, IsResumed
  <1> QED BY <1>1, <1>2, TendedExec, TendedRecover DEF Next, Mine, Evict, storeVars, vars

LEMMA NothingMissedInit == Init => NothingMissed
  <1> SUFFICES ASSUME Init PROVE NothingMissed
    OBVIOUS
  <1>1. rec.todo = {} /\ pool = {} /\ \A t \in Txs : status[t] = "none"
    BY DEF Init, Recovered
  <1> QED BY <1>1 DEF NothingMissed

\* A transaction joins a pool, and is recorded as pending, by an execution alone.
LEMMA JoinsPool ==
    ASSUME Typed, [Next]_vars, NEW t \in pool', t \notin pool
    PROVE  \E e \in execs : Broadcast(e) /\ t = e.cur
  <1>1. ASSUME NEW e \in execs, ExecStep(e) PROVE Broadcast(e)
    BY <1>1 DEF ExecStep, Acquire, AcquireFails, SaveNonce, GiveUp, Register, RefusedLow,
           RefusedUnderpriced, RefusedGap, Bump, SeesMined, Fails, Resync, MonitorReturnsError,
           MonitorReturns, Release, netVars
  <1>2. ASSUME NEW e \in execs, Broadcast(e) PROVE t = e.cur
    <2>1. e.cur \in Txs
      BY <1>2, DraftOfTx DEF Broadcast, Typed, Shape, ExecStates
    <2> QED BY <1>2, <2>1, Accepted DEF Broadcast, Typed
  <1>3. ~RecoverStep
    BY DEF RecoverStep, ReconcileNothing, ReadChain, Reconcile, ListAllPending, ProcessUnread,
           ProcessFinal, ProcessDropped, ProcessPending, Spawn, RecoverReturn, netVars
  <1>4. ~Mine /\ ~Evict /\ ~Crash /\ (\A p \in Payments : ~Begin(p)) /\ ~UNCHANGED vars
    BY DEF Mine, Evict, Crash, Begin, PoolAt, netVars, vars
  <1> QED BY <1>1, <1>2, <1>3, <1>4 DEF Next

LEMMA BecomesPending ==
    ASSUME Typed, [Next]_vars, NEW t \in Txs, status'[t] = "broadcasted", status[t] # "broadcasted"
    PROVE  UseTxStore /\ \E e \in execs : Register(e) /\ t = e.cur
  <1>1. ASSUME NEW e \in execs, ExecStep(e) PROVE UseTxStore /\ Register(e) /\ t = e.cur
    <2>1. Marks(e, t)
      BY <1>1, StatusExec
    <2> QED BY <2>1, OutcomeStatus DEF Marks
  <1>2. ~RecoverStep
    BY StatusRecover, OutcomeStatus
  <1> QED BY <1>1, <1>2, StatusOther

\* What leaves the lists of Recover is reported, or no longer pending, or resumed.
LEMMA ListedCovered ==
    ASSUME Typed, Slots, RecoverStep, UseTxStore, NEW t \in Txs, status'[t] = "broadcasted",
           t \in rec.errors \union rec.todo \union rec.next
    PROVE  Tended(t.pay)' \/ t \in rec'.errors \union rec'.todo \union rec'.next
  <1>0. /\ rec \in RecStates /\ faults \in 0 .. MaxFaults /\ status \in [Txs -> Statuses]
        /\ rec.todo \subseteq Txs
    BY DEF Typed, RecStates
  <1>1. CASE ReconcileNothing \/ ReadChain \/ Reconcile \/ RecoverReturn
    BY <1>0, <1>1, ReconcileRec, RunRec DEF RecBecomes
  <1>2. CASE ListAllPending
    <2>1. status' = status
      BY <1>2 DEF ListAllPending, storeVars
    <2> QED BY <1>0, <1>2, <2>1, RunRec DEF RecBecomes
  <1>3. ASSUME NEW u \in rec.todo, ProcessUnread(u) \/ ProcessPending(u)
        PROVE  t \in rec'.errors \union rec'.todo \union rec'.next
    <2>1. u \in Txs
      BY <1>0
    <2>2. CASE ProcessUnread(u)
      BY <1>0, <2>1, <2>2, ProcessRec DEF RecBecomes
    <2>3. CASE ProcessPending(u)
      <3>1. /\ rec'.errors = rec.errors /\ rec'.todo = rec.todo \ {u} /\ rec'.next = {u}
            /\ rec.at = "process"
        BY <1>0, <2>1, <2>3, ProcessRec DEF RecBecomes, ProcessPending
      <3>2. rec.next = {}
        BY <3>1 DEF Slots, OneExecEach
      <3> QED BY <3>1, <3>2
    <2> QED BY <1>3, <2>2, <2>3
  <1>4. ASSUME NEW u \in rec.todo, ProcessFinal(u) \/ ProcessDropped(u)
        PROVE  t \in rec'.errors \union rec'.todo \union rec'.next
    <2>1. u \in Txs
      BY <1>0
    <2>2. RecBecomes(rec.at, rec.todo \ {u}, rec.next, rec.errors, rec.slots)
      BY <1>0, <1>4, <2>1, ProcessRec
    <2>3. status'[u] # "broadcasted"
      <3>1. \E s \in Statuses \ {"broadcasted"} : status' = Store(u, s)
        BY <1>4, OutcomeStatus DEF ProcessFinal, ProcessDropped, Statuses
      <3> QED BY <1>0, <2>1, <3>1, StoredStatus
    <2> QED BY <2>2, <2>3 DEF RecBecomes
  <1>5. CASE Spawn
    <2>1. RecBecomes("process", rec.todo, {}, rec.errors, rec.slots + 1)
      BY <1>0, <1>5, RunRec
    <2>2. t \in rec.next => Tended(t.pay)'
      <3> SUFFICES ASSUME t \in rec.next PROVE Tended(t.pay)'
        OBVIOUS
      <3>1. /\ Watch(t) \in execs' /\ Watch(t).orig = t /\ Watch(t).at = "watch"
            /\ IsResumed(Watch(t))
        BY <1>5, StartShaped DEF Spawn
      <3>2. IsResumed(Watch(t))'
        BY <3>1 DEF IsResumed, Watch
      <3> QED BY <3>1, <3>2 DEF Tended, Watch, IsResumed
    <2> QED BY <2>1, <2>2 DEF RecBecomes
  <1> QED BY <1>1, <1>2, <1>3, <1>4, <1>5 DEF RecoverStep

LEMMA RecOther ==
    ASSUME Typed, Slots, [Next]_vars, ~RecoverStep, ~Crash
    PROVE  /\ rec'.at = rec.at /\ rec'.todo = rec.todo /\ rec'.next = rec.next
           /\ rec'.errors = rec.errors /\ crashes' = crashes
  <1>1. ASSUME NEW e \in execs, ExecStep(e)
        PROVE  /\ rec'.at = rec.at /\ rec'.todo = rec.todo /\ rec'.next = rec.next
               /\ rec'.errors = rec.errors /\ crashes' = crashes
    <2>1. CASE Ends(e)
      BY <1>1, <2>1, ReleaseRec, ExecKeepsOthers DEF RecBecomes
    <2>2. CASE rec' = rec
      BY <1>1, <2>2, ExecKeepsOthers
    <2> QED BY <1>1, <2>1, <2>2, ExecMoves
  <1> QED BY <1>1 DEF Next, Begin, Mine, Evict, boundVars, vars

LEMMA NothingMissedStep ==
    Typed /\ Slots /\ Truthful /\ NothingMissed /\ [Next]_vars => NothingMissed'
  <1> SUFFICES ASSUME Typed, Slots, Truthful, NothingMissed, [Next]_vars PROVE NothingMissed'
    OBVIOUS
  <1>0. rec \in RecStates /\ faults \in 0 .. MaxFaults /\ pool \subseteq Txs /\ rec.todo \subseteq Txs
    BY DEF Typed, RecStates
  <1>5. pool' \subseteq Txs
    BY TypedStep DEF Typed
  <1>1. \A t \in Txs : status'[t] = "broadcasted" => UseTxStore
    BY BecomesPending DEF NothingMissed
  <1>2. CASE Crash
    <2>1. RecBecomes("reconcile", {}, {}, {}, 0)
      BY <1>0, <1>2, RunRec
    <2> QED BY <1>1, <2>1 DEF RecBecomes, NothingMissed, Looked
  <1>3. CASE ListAllPending
    <2>1. /\ rec'.todo = {t \in Txs : status[t] = "broadcasted"}
          /\ status' = status /\ pool' = pool
      BY <1>0, <1>3, RunRec DEF RecBecomes, ListAllPending, storeVars, netVars
    <2> QED BY <1>0, <1>1, <2>1 DEF NothingMissed, Covered
  <1>4. CASE ~Crash /\ ~ListAllPending
    <2>1. ASSUME NEW t \in rec'.todo PROVE status'[t] # "dropped"
      <3>1. CASE RecoverStep
        <4>1. rec'.todo \subseteq rec.todo
          BY <1>0, <1>4, <3>1, ReconcileRec, RunRec, ProcessRec DEF RecoverStep, RecBecomes
        <4>2. t \in Txs /\ t \in rec.todo
          BY <1>0, <2>1, <4>1
        <4>3. ~ProcessDropped(t)
          BY <1>0, <2>1, <4>2, ProcessRec DEF RecBecomes
        <4> QED BY <3>1, <4>2, <4>3, StatusRecover, OutcomeStatus DEF NothingMissed
      <3>2. CASE ~RecoverStep
        <4>1. t \in rec.todo /\ t \in Txs /\ status[t] # "dropped"
          BY <1>0, <1>4, <2>1, <3>2, RecOther DEF NothingMissed
        <4>2. ASSUME NEW e \in execs, ExecStep(e) PROVE status'[t] # "dropped"
          <5>1. t # e.orig
            BY <4>1 DEF Slots, OneExecEach
          <5>2. status'[t] = status[t] \/ Marks(e, t)
            BY <4>1, <4>2, StatusExec
          <5> QED BY <4>1, <5>1, <5>2, OutcomeStatus DEF Marks
        <4> QED BY <3>2, <4>1, <4>2, StatusOther
      <3> QED BY <3>1, <3>2
    <2>2. Looked' => Looked
      <3>1. CASE RecoverStep
        <4>1. crashes' = crashes
          BY <3>1 DEF RecoverStep, ReconcileNothing, ReadChain, Reconcile, ListAllPending, ProcessUnread,
                 ProcessFinal, ProcessDropped, ProcessPending, Spawn, RecoverReturn, boundVars
        <4>2. CASE ReconcileNothing \/ ReadChain \/ Reconcile
          BY <1>0, <4>2, ReconcileRec DEF RecBecomes, Looked
        <4>3. rec.at = "process" \/ rec.at = "spawn" \/ ReconcileNothing \/ ReadChain \/ Reconcile
          BY <1>4, <3>1 DEF RecoverStep, ProcessUnread, ProcessFinal, ProcessDropped, ProcessPending,
                 Spawn, RecoverReturn
        <4> QED BY <4>2, <4>3 DEF Looked
      <3>2. CASE ~RecoverStep
        BY <1>4, <3>2, RecOther DEF Looked
      <3> QED BY <3>1, <3>2
    <2>3. ASSUME Looked', NEW t \in pool', status'[t] = "broadcasted" PROVE Covered(t)'
      <3>0. t \in Txs /\ t.pay \in Payments /\ UseTxStore
        BY <1>5, <1>1, <2>3, Numbers
      <3>1. CASE t \notin pool \/ status[t] # "broadcasted"
        <4>1. PICK e \in execs : t = e.cur /\ (Broadcast(e) \/ Register(e))
          BY <2>3, <3>0, <3>1, JoinsPool, BecomesPending
        <4>2. Tended(t.pay)'
          BY <4>1, SignedTends
        <4> QED BY <4>2 DEF Covered
      <3>2. CASE t \in pool /\ status[t] = "broadcasted"
        <4>1. Covered(t)
          BY <2>2, <2>3, <3>2 DEF NothingMissed
        <4>2. CASE Tended(t.pay)
          <5>1. Tended(t.pay)'
            BY <1>4, <3>0, <4>2, TendedKept
          <5> QED BY <5>1 DEF Covered
        <4>3. CASE t \in rec.errors \union rec.todo \union rec.next
          <5>1. CASE RecoverStep
            <6>1. Tended(t.pay)' \/ t \in rec'.errors \union rec'.todo \union rec'.next
              BY <2>3, <3>0, <4>3, <5>1, ListedCovered
            <6> QED BY <6>1 DEF Covered
          <5>2. CASE ~RecoverStep
            BY <1>4, <4>3, <5>2, RecOther DEF Covered
          <5> QED BY <5>1, <5>2
        <4> QED BY <4>1, <4>2, <4>3 DEF Covered
      <3> QED BY <3>1, <3>2
    <2> QED BY <1>1, <2>1, <2>2, <2>3 DEF NothingMissed
  <1> QED BY <1>2, <1>3, <1>4

-----------------------------------------------------------------------------
(* The nonces the reconciled tip keeps.  They are below the tip, so only a *)
(* gap search could give one again, and it skips what the store knows.     *)

SignedFor(e) == \E t \in e.old : t.nonce = e.cur.nonce

FloorOK ==
    /\ \A n \in taken : n <= stored
    /\ UseTxStore => taken \subseteq Known
    /\ \A e \in execs : e.at \in {"acquired", "built"} => e.cur.nonce \notin taken \/ SignedFor(e)

LEMMA FloorInit == Init => FloorOK
  BY DEF Init, FloorOK

LEMMA AcquiredUntaken ==
    ASSUME Typed, FloorOK, NEW e \in execs, Acquire(e)
    PROVE  /\ stored' >= stored
           /\ \A f \in execs' : f \notin execs => f.cur.nonce \notin taken
  <1>0. /\ e \in ExecStates /\ faults \in 0 .. MaxFaults /\ stored \in {None} \union Nonces
        /\ claimed \subseteq Nonces /\ taken \subseteq Nonces
    BY DEF Typed, Shape
  <1>1. PICK c \in Counts, n \in Nonces :
             /\ ReadCounts(c) /\ AcquireNonce(c.mined, c.pending, Known, n)
             /\ Update(e, [e EXCEPT !.cur.nonce = n, !.at = "acquired"])
    BY DEF Acquire
  <1>2. /\ c.mined \in Nat /\ c.pending \in Nat /\ n \in Nat
        /\ stored \in Nat \union {None} /\ claimed \subseteq Nat
    BY <1>0, <1>1, CountsRead, Numbers
  <1>3. /\ stored <= stored' /\ (stored' = stored \/ stored' = n)
        /\ n > stored \/ (UseTxStore /\ n \notin Known)
    BY <1>1, <1>2, AcquiredNonce
  <1>4. n \notin taken
    <2>1. CASE n > stored
      <3>1. stored \in Int /\ n \in Int
        BY <1>2 DEF None
      <3> QED BY <2>1, <3>1 DEF FloorOK
    <2>2. CASE UseTxStore /\ n \notin Known
      BY <2>2 DEF FloorOK
    <2> QED BY <1>3, <2>1, <2>2
  <1>5. PICK f : f = [e EXCEPT !.cur.nonce = n, !.at = "acquired"]
    OBVIOUS
  <1>6. f.cur.nonce = n
    <2>1. PICK d \in Drafts : d.nonce = n /\ Fields(f, e.orig, d, e.old, "acquired")
      BY <1>0, <1>5, AcquiredFields
    <2> QED BY <2>1 DEF Fields
  <1>7. stored' >= stored
    BY <1>2, <1>3 DEF None
  <1> QED BY <1>1, <1>4, <1>5, <1>6, <1>7 DEF Update

LEMMA TipExec ==
    ASSUME Typed, FloorOK, NEW e \in execs, ExecStep(e)
    PROVE  taken' = {} \/ (taken' = taken /\ \A n \in taken : n <= stored')
  <1>9. /\ Shape(e) /\ stored \in {None} \union Nonces /\ taken \subseteq Nonces
        /\ \A n \in taken : n <= stored
    BY DEF Typed, FloorOK
  <1>0. /\ Shape(e) /\ stored \in {None} \union Nonces /\ taken \subseteq Nonces
        /\ stored \in Int /\ \A n \in taken : n \in Int /\ n <= stored
    <2>1. stored \in Int /\ \A n \in taken : n \in Int
      BY <1>9, Numbers
    <2> QED BY <1>9, <2>1
  <1>1. CASE stored' = stored /\ taken' = taken
    BY <1>0, <1>1
  <1>2. CASE Acquire(e)
    <2>1. stored' >= stored /\ taken' = taken
      BY <1>2, AcquiredUntaken DEF Acquire
    <2>2. stored' \in Int
      <3>1. stored' \in {None} \union Nonces
        <4>1. PICK c \in Counts, n \in Nonces : ReadCounts(c) /\ AcquireNonce(c.mined, c.pending, Known, n)
          BY <1>2 DEF Acquire
        <4> QED BY <1>0, <4>1, CountsRead, TrackerTyped DEF Typed
      <3> QED BY <3>1, Numbers
    <2> QED BY <1>0, <2>1, <2>2
  <1>3. CASE Register(e)
    <2>1. e.cur.nonce \in Nat /\ taken' = taken /\ SetPendingNonce(e.cur.nonce)
      BY <1>0, <1>3, Numbers DEF Register, Shape
    <2>2. stored' >= stored /\ stored' \in Int
      BY <1>0, <2>1, RegisteredNonce
    <2> QED BY <1>0, <2>1, <2>2
  <1>4. CASE GiveUp(e)
    <2>1. CASE SignedFor(e)
      BY <1>4, <2>1 DEF GiveUp, SignedFor
    <2>2. CASE ~SignedFor(e)
      <3>1. taken' = taken /\ e.cur.nonce \notin taken
        BY <1>4, <2>2 DEF GiveUp, FloorOK, SignedFor
      <3>2. e.cur.nonce \in Nat /\ ReleaseNonce(e.cur.nonce)
        BY <1>0, <1>4, Numbers DEF GiveUp, Shape
      <3>3. stored' = stored \/ (stored = e.cur.nonce /\ stored' = e.cur.nonce - 1)
        BY <1>0, <3>2, ReleasedNonce
      <3>4. ASSUME NEW n \in taken PROVE n <= stored'
        <4>1. n # e.cur.nonce /\ n \in Int /\ n <= stored
          BY <1>0, <3>1
        <4> QED BY <1>0, <3>2, <3>3, <4>1
      <3> QED BY <3>1, <3>4
    <2> QED BY <2>1, <2>2
  <1>5. CASE AcquireFails(e)
    BY <1>1, <1>5 DEF AcquireFails, AbnormalNonceState, trackerVars
  <1>6. CASE Resync(e)
    BY <1>1, <1>6 DEF Resync, trackerVars
  <1>7. CASE SaveNonce(e) \/ Broadcast(e) \/ RefusedLow(e) \/ RefusedUnderpriced(e) \/ RefusedGap(e)
    BY <1>1, <1>7 DEF SaveNonce, Broadcast, RefusedLow, RefusedUnderpriced, RefusedGap, trackerVars
  <1>8. CASE Bump(e) \/ SeesMined(e) \/ Fails(e) \/ Ends(e)
    BY <1>1, <1>8 DEF Bump, SeesMined, Fails, Ends, MonitorReturnsError, MonitorReturns, Release, trackerVars
  <1> QED BY <1>2, <1>3, <1>4, <1>5, <1>6, <1>7, <1>8 DEF ExecStep, Ends

\* An execution of the next state ran before, or is what the step made of one.
LEMMA NextExec ==
    ASSUME Typed, NEW e \in execs, ExecStep(e), NEW f \in execs', f \notin execs
    PROVE  Moves(e, f)
  <1>1. ~Ends(e) /\ ~Vanishes(e)
    BY DEF Ends, MonitorReturnsError, MonitorReturns, Release, Vanishes
  <1>2. PICK g : Moves(e, g)
    BY <1>1, ExecMoves DEF GoesOn
  <1>3. f = g
    BY <1>2 DEF Moves
  <1> QED BY <1>2, <1>3

LEMMA FloorExec ==
    ASSUME Typed, FloorOK, NEW e \in execs, ExecStep(e)
    PROVE  FloorOK'
  <1>1. CASE taken' = {}
    BY <1>1 DEF FloorOK
  <1>2. CASE taken' = taken /\ \A n \in taken : n <= stored'
    <2>1. UseTxStore => taken \subseteq Known'
      <3>1. [Next]_vars
        BY DEF Next
      <3> QED BY <3>1, KnownKept DEF FloorOK
    <2>2. ASSUME NEW f \in execs', f.at \in {"acquired", "built"}
          PROVE  f.cur.nonce \notin taken \/ SignedFor(f)
      <3>1. CASE f \in execs
        BY <2>2, <3>1 DEF FloorOK
      <3>2. CASE f \notin execs /\ f.at = "acquired"
        <4>1. Acquire(e)
          BY <3>2, NextExec DEF Moves
        <4> QED BY <3>2, <4>1, AcquiredUntaken
      <3>3. CASE f \notin execs /\ f.at = "built"
        <4>1. \/ e.at = "acquired" /\ f.cur = e.cur /\ f.old = e.old
              \/ SignedFor(f)
          BY <3>3, NextExec DEF Moves, SignedFor
        <4> QED BY <4>1 DEF FloorOK, SignedFor
      <3> QED BY <2>2, <3>1, <3>2, <3>3
    <2>3. \A f \in execs' : f.at \in {"acquired", "built"} => f.cur.nonce \notin taken' \/ SignedFor(f)'
      BY <1>2, <2>2 DEF SignedFor
    <2> QED BY <1>2, <2>1, <2>3 DEF FloorOK
  <1> QED BY <1>1, <1>2, TipExec

LEMMA FloorReconcile ==
    ASSUME Typed, Slots, FloorOK, Reconcile
    PROVE  FloorOK'
  <1>5. /\ rec \in RecStates /\ saved \in {None} \union Nonces /\ stored \in {None} \union Nonces
        /\ rec.remote \in Replies
    BY DEF Typed, RecStates
  <1>0. stored \in Int /\ saved \in Int
    BY <1>5, NonceOrNone
  <1>1. execs' = {}
    BY DEF Reconcile, Slots, OneExecEach
  <1>2. /\ taken' = {n \in 0 .. (saved - 1) : UseTxStore => n \in Known}
        /\ Known' = Known
    BY DEF Reconcile, Known
  <1>3. Reconciled(rec.remote) \in Int /\ Reconciled(rec.remote) >= saved /\ Reconciled(rec.remote) >= 0
    <2>1. rec.remote.mined \in Int /\ rec.remote.pending \in Int
      BY <1>5, Numbers
    <2> QED BY <1>0, <2>1 DEF Reconciled, Larger
  <1>4. \A n \in 0 .. (saved - 1) : n <= stored'
    <2>1. CASE Reconciled(rec.remote) > 0
      <3>1. SetPendingNonce(Reconciled(rec.remote) - 1) /\ Reconciled(rec.remote) - 1 \in Nat
        BY <1>3, <2>1 DEF Reconcile
      <3>2. stored' \in Int /\ stored' >= Reconciled(rec.remote) - 1
        BY <1>0, <3>1, RegisteredNonce
      <3> QED BY <1>0, <1>3, <3>2
    <2>2. CASE ~(Reconciled(rec.remote) > 0)
      <3>1. saved <= 0
        BY <1>0, <1>3, <2>2
      <3> QED BY <1>0, <3>1
    <2> QED BY <2>1, <2>2
  <1> QED BY <1>1, <1>2, <1>4 DEF FloorOK

LEMMA FloorStep == Typed /\ Slots /\ FloorOK /\ [Next]_vars => FloorOK'
  <1> SUFFICES ASSUME Typed, Slots, FloorOK, [Next]_vars PROVE FloorOK'
    OBVIOUS
  <1>1. CASE Crash
    BY <1>1 DEF Crash, FloorOK
  <1>2. CASE UNCHANGED <<taken, stored>> /\ (\A f \in execs' : f \in execs \/ f.at \in {"build", "watch"})
    <2>1. UseTxStore => taken \subseteq Known'
      BY KnownKept DEF FloorOK
    <2>2. \A f \in execs' : f.at \in {"acquired", "built"} => f.cur.nonce \notin taken \/ SignedFor(f)
      BY <1>2 DEF FloorOK
    <2>3. \A f : SignedFor(f)' <=> SignedFor(f)
      BY DEF SignedFor
    <2> QED BY <1>2, <2>1, <2>2, <2>3 DEF FloorOK
  <1>3. ASSUME NEW p \in Payments, Begin(p) PROVE FloorOK'
    <2>1. execs' = execs \union {Started(p)} /\ Started(p).at = "build"
      BY <1>3, StartShaped DEF Begin, Started
    <2> QED BY <1>2, <1>3, <2>1 DEF Begin, trackerVars
  <1>4. CASE RecoverStep /\ ~Reconcile
    <2>1. CASE Spawn
      <3>1. rec.next \subseteq Txs
        BY DEF Typed, RecStates
      <3> QED BY <1>2, <2>1, <3>1, StartShaped DEF Spawn, trackerVars
    <2>2. CASE ~Spawn
      <3>1. UNCHANGED <<taken, stored, execs>>
        BY <1>4, <2>2 DEF RecoverStep, ReconcileNothing, ReadChain, ListAllPending, ProcessUnread,
               ProcessFinal, ProcessDropped, ProcessPending, RecoverReturn, trackerVars
      <3> QED BY <1>2, <3>1
    <2> QED BY <2>1, <2>2
  <1>5. CASE Mine \/ Evict \/ UNCHANGED vars
    BY <1>2, <1>5 DEF Mine, Evict, vars, trackerVars
  <1> QED BY <1>1, <1>3, <1>4, <1>5, FloorExec, FloorReconcile DEF Next

-----------------------------------------------------------------------------
(***************************************************************************)
(* The inductive invariant, and the theorems.                              *)
(***************************************************************************)
Inv == Typed /\ Slots /\ Truthful /\ NothingMissed /\ FloorOK

LEMMA Invariance == Spec => []Inv
  <1>1. Init => Inv
    BY TypedInit, SlotsInit, TruthfulInit, NothingMissedInit, FloorInit DEF Inv
  <1>2. Inv /\ [Next]_vars => Inv'
    BY TypedStep, SlotsStep, TruthfulStep, NothingMissedStep, FloorStep DEF Inv
  <1> QED BY <1>1, <1>2, PTL DEF Spec

\* recovery.go:26-258, every variable has its type, and the semaphore counts the
\* resumed executions that run and never more than MaxConcurrentMonitors, although
\* the goroutines give their slots back while Recover still takes some.
THEOREM TypeCorrect == Spec => []TypeOK
  <1>1. Inv => TypeOK
    <2> SUFFICES ASSUME Inv PROVE TypeOK
      OBVIOUS
    <2>1. \A e \in execs :
              /\ e.orig \in Origs
              /\ e.cur \in [nonce : {None} \union Nonces, pay : {e.orig.pay}, bump : 0 .. MaxBump]
              /\ e.old \subseteq {t \in Txs : t.pay = e.orig.pay}
              /\ e.at \in Places
      BY DEF Inv, Typed, Shape, ExecStates, Drafts
    <2>2. /\ stored \in {None} \union Nonces /\ claimed \subseteq Nonces
          /\ chain \in Seq([tx : Txs, ok : BOOLEAN]) /\ Len(chain) <= MaxNonce + 1
          /\ pool \subseteq Txs /\ saved \in {None} \union Nonces /\ reserved \subseteq Nonces
          /\ status \in [Txs -> Statuses]
          /\ asked \in [Payments -> {"not yet", "begun", "lost"}]
          /\ taken \subseteq Nonces /\ crashes \in 0 .. MaxCrashes /\ faults \in 0 .. MaxFaults
      BY DEF Inv, Typed, Mining
    <2>3. /\ rec.at \in {"reconcile", "apply", "list", "process", "spawn", "done"}
          /\ rec.remote \in Replies /\ rec.todo \subseteq Txs /\ rec.next \subseteq Txs
          /\ rec.errors \subseteq Txs
          /\ rec.slots = Cardinality(Monitors) /\ rec.slots <= MaxMonitors
      BY DEF Inv, Typed, RecStates, Slots
    <2> QED BY <2>1, <2>2, <2>3 DEF TypeOK
  <1> QED BY <1>1, Invariance, PTL

\* persistence.go:16-29, the TxStore never says of a transaction that it was
\* mined, reverted or replaced when that is not what happened to it, for every
\* number of crashes, bumps, moves to another nonce and concurrent executions.
THEOREM StatusIsTruthful == Spec => []FinalStatusTruthful
  <1>1. Inv => FinalStatusTruthful
    BY DEF Inv, Truthful
  <1> QED BY <1>1, Invariance, PTL

\* recovery.go:26-29, when Recover has returned, every transaction recorded as
\* pending that a node holds is that of a running execution, or reported, or of a
\* payment the process began since or stored an end of.
THEOREM NothingIsLeftBehind == Spec => []NothingLeftBehind
  <1>1. Inv => NothingLeftBehind
    <2> SUFFICES ASSUME Inv, rec.at = "done", crashes > 0,
                        NEW t \in pool, status[t] = "broadcasted"
                 PROVE  \/ \E e \in execs : e.orig.pay = t.pay
                        \/ t \in rec.errors
                        \/ asked[t.pay] = "begun"
                        \/ EndStored(t.pay)
      BY DEF NothingLeftBehind
    <2>1. Covered(t)
      BY DEF Inv, NothingMissed, Looked
    <2>2. rec.todo \union rec.next = {}
      BY DEF Inv, Slots, OneExecEach
    <2> QED BY <2>1, <2>2 DEF Covered, Tended
  <1> QED BY <1>1, Invariance, PTL

\* recovery.go:90-100, after a restart no execution, new or resumed, is given a
\* nonce of a transaction the store knew below the persisted nonce, although the
\* nodes lag, gaps are filled and released nonces move the tip back, as long as no
\* resync has replaced the tip by what a node said and nobody gave back a nonce he
\* had signed for.
THEOREM TipStaysAboveFloor == Spec => FloorHolds
  <1> DEFINE Given ==
        \A e \in execs : e.at = "build" =>
           \A f \in execs' : f.orig = e.orig /\ f.at = "acquired" => f.cur.nonce \notin taken
  <1>1. Inv /\ [Next]_vars => [Given]_vars
    <2> SUFFICES ASSUME Inv, [Next]_vars, NEW e \in execs, e.at = "build",
                        NEW f \in execs', f.orig = e.orig, f.at = "acquired"
                 PROVE  f.cur.nonce \notin taken
      OBVIOUS
    <2>1. f \notin execs
      BY DEF Inv, Slots, OneExecEach
    <2>2. ASSUME NEW x \in execs, ExecStep(x) PROVE f.cur.nonce \notin taken
      <3>1. Acquire(x)
        BY <2>1, <2>2, NextExec DEF Inv, Moves
      <3> QED BY <2>1, <2>2, <3>1, AcquiredUntaken DEF Inv
    <2>3. ~RecoverStep
      <3>1. rec.next \subseteq Txs
        BY DEF Inv, Typed, RecStates
      <3>2. ~Spawn
        BY <2>1, <3>1, StartShaped DEF Spawn
      <3> QED BY <2>1, <3>2 DEF RecoverStep, ReconcileNothing, ReadChain, Reconcile, ListAllPending,
                 ProcessUnread, ProcessFinal, ProcessDropped, ProcessPending, RecoverReturn
    <2>4. \A p \in Payments : ~Begin(p)
      BY <2>1, StartShaped DEF Begin, Started
    <2> QED BY <2>1, <2>2, <2>3, <2>4 DEF Next, Crash, Mine, Evict, vars
  <1>2. Spec => [][Given]_vars
    <2> HIDE DEF Given
    <2> QED BY <1>1, Invariance, PTL DEF Spec
  <1> QED BY <1>2 DEF FloorHolds
=============================================================================
