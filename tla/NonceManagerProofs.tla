------------------------- MODULE NonceManagerProofs -------------------------
(***************************************************************************)
(* What the nonce tracker guarantees its callers, for every number of      *)
(* goroutines and of nonces, every reply of the nodes and every            *)
(* configuration.                                                          *)
(***************************************************************************)
EXTENDS NonceManager, NonceTrackerProofs

-----------------------------------------------------------------------------
(* The step a proof starts from: Next, one disjunct per action. *)

LEMMA NoncesAreNaturals ==
    /\ Nonces \subseteq Nat /\ Nonces \subseteq Replies /\ Replies \subseteq Nat
    /\ \A n \in Nonces : n + 1 \in Replies /\ n - 1 \in {None} \union Nonces
    /\ None \notin Nonces
    /\ NoReplies \in [mined : Replies, pending : Replies]
  BY BoundsAssumption DEF Nonces, Replies, NoReplies, None

LEMMA NonceTypes ==
    TypeOK => stored \in Int /\ \A p \in Procs : held[p] \in Int
  <1>1. Nonces \subseteq Int /\ None \in Int
    BY BoundsAssumption DEF Nonces, None
  <1> QED BY <1>1 DEF TypeOK

LEMMA TypeInit == Init => TypeOK
  BY NoncesAreNaturals, BoundsAssumption
  DEF Init, TypeOK, TrackerInit, Nonces, Replies, Phases, None

LEMMA TypeStep == TypeOK /\ [Next]_vars => TypeOK'
  <1> SUFFICES ASSUME TypeOK, [Next]_vars PROVE TypeOK'
    OBVIOUS
  <1> USE NoncesAreNaturals
  <1>1. CASE Mine
    BY <1>1 DEF Mine, TypeOK, trackerVars, clientVars
  <1>2. CASE \E n \in Nonces : Evict(n)
    BY <1>2 DEF Evict, TypeOK, trackerVars, clientVars
  <1>3. ASSUME NEW p \in Procs, ReadRemote(p) PROVE TypeOK'
    <2>1. remote' \in [Procs -> [mined : Replies, pending : Replies]]
      <3>1. PICK m \in MinedReplies, n \in PendingReplies :
                remote' = [remote EXCEPT ![p] = [mined |-> m, pending |-> n]]
        BY <1>3 DEF ReadRemote
      <3>2. m \in Replies /\ n \in Replies
        BY BoundsAssumption DEF MinedReplies, PendingReplies, TypeOK, Replies
      <3> QED BY <3>1, <3>2 DEF TypeOK
    <2> QED BY <1>3, <2>1
            DEF ReadRemote, TypeOK, Phases, trackerVars, chainVars
  <1>4. ASSUME NEW p \in Procs, Acquire(p) PROVE TypeOK'
    <2>1. PICK n \in Nonces, unreadable \in Unreadable :
              /\ AcquireNonce(remote[p].mined, remote[p].pending,
                              recorded \union unreadable, n)
              /\ held' = [held EXCEPT ![p] = n]
      BY <1>4 DEF Acquire
    <2>2. /\ remote[p].mined \in Nat /\ remote[p].pending \in Nat
          /\ stored \in Nat \union {None} /\ claimed \subseteq Nat /\ n \in Nat
      BY DEF TypeOK
    <2>3. /\ stored' = stored \/ stored' = n
          /\ claimed' \subseteq claimed \union {n}
      BY <2>1, <2>2, AcquiredNonce
    <2>4. stored' \in {None} \union Nonces /\ claimed' \subseteq Nonces
      BY <2>3 DEF TypeOK
    <2> QED BY <1>4, <2>1, <2>4
            DEF Acquire, TypeOK, Phases, chainVars
  <1>5. ASSUME NEW p \in Procs, AcquireFails(p) PROVE TypeOK'
    <2>1. claimed' \subseteq claimed /\ stored' = stored
      BY <1>5 DEF AcquireFails, AbnormalNonceState, Cleaned
    <2> QED BY <1>5, <2>1
            DEF AcquireFails, TypeOK, Phases, chainVars
  <1>6. ASSUME NEW p \in Procs, BroadcastAccepted(p) PROVE TypeOK'
    BY <1>6 DEF BroadcastAccepted, NodeAccepts, TypeOK, Phases, trackerVars
  <1>7. ASSUME NEW p \in Procs, BroadcastReplyLost(p) PROVE TypeOK'
    BY <1>7 DEF BroadcastReplyLost, NodeAccepts, TypeOK, Phases, trackerVars,
                clientVars
  <1>8. ASSUME NEW p \in Procs, RegisterNonce(p) PROVE TypeOK'
    <2>1. held[p] \in Nonces
      BY <1>8 DEF RegisterNonce, TypeOK
    <2> QED BY <1>8, <2>1 DEF RegisterNonce, SetPendingNonce, RaisedTo, Larger,
                              TypeOK, Phases, chainVars
  <1>9. ASSUME NEW p \in Procs, PersistTx(p) PROVE TypeOK'
    <2>1. held[p] \in Nonces
      BY <1>9 DEF PersistTx, TypeOK
    <2> QED BY <1>9, <2>1 DEF PersistTx, TypeOK, Phases, trackerVars, chainVars
  <1>10. ASSUME NEW p \in Procs, Release(p) PROVE TypeOK'
    <2>1. held[p] \in Nonces
      BY <1>10 DEF Release, TypeOK
    <2> QED BY <1>10, <2>1 DEF Release, ReleaseNonce, TypeOK, Phases, chainVars
  <1>11. ASSUME NEW p \in Procs, Abandon(p) PROVE TypeOK'
    <2>1. held[p] \in Nonces
      BY <1>11 DEF Abandon, TypeOK
    <2> QED BY <1>11, <2>1 DEF Abandon, TypeOK, Phases, trackerVars, chainVars
  <1>12. CASE UNCHANGED vars
    BY <1>12 DEF vars, TypeOK
  <1> QED BY <1>1, <1>2, <1>3, <1>4, <1>5, <1>6, <1>7, <1>8, <1>9, <1>10,
             <1>11, <1>12 DEF Next, Client

\* The variables keep their types, and a goroutine holds a nonce exactly
\* between BuildTx's return and the end of its use.
THEOREM TypeCorrect == Spec => []TypeOK
  BY TypeInit, TypeStep, PTL DEF Spec

-----------------------------------------------------------------------------
(***************************************************************************)
(* Exclusive reservation.  UniqueFreeHolder is not inductive: a gap search *)
(* could hand out a held nonce if its claim had been dropped, and a        *)
(* release could move the tip below a held nonce.  It needs that a node    *)
(* only counts transactions it accepted (so the claims a search drops are  *)
(* of accepted nonces) and that a held nonce without a transaction is      *)
(* claimed and not above the tip.                                          *)
(***************************************************************************)
CountsAreOfAccepted ==
    /\ pool \subseteq accepted
    /\ \A n \in Nonces : n < mined => n \in accepted
    /\ \A p \in Procs : \A n \in Nonces :
           n < remote[p].pending => n \in accepted

FreeHeldIsReserved ==
    \A p \in Procs : held[p] \in Nonces \ accepted =>
        held[p] \in claimed /\ held[p] <= stored

ReservationInv ==
    TypeOK /\ CountsAreOfAccepted /\ FreeHeldIsReserved /\ UniqueFreeHolder

LEMMA ReservationInit == Init => ReservationInv
  <1> SUFFICES ASSUME Init PROVE ReservationInv
    OBVIOUS
  <1>1. TypeOK
    BY TypeInit
  <1>2. CountsAreOfAccepted
    BY BoundsAssumption DEF Init, CountsAreOfAccepted, NoReplies, Nonces
  <1>3. FreeHeldIsReserved /\ UniqueFreeHolder
    BY NoncesAreNaturals DEF Init, FreeHeldIsReserved, UniqueFreeHolder
  <1> QED BY <1>1, <1>2, <1>3 DEF ReservationInv

\* A step that hands out no nonce, publishes no less and forgets neither a
\* claim nor the tip of a holder that stays keeps the reservations.
LEMMA ReservationKept ==
    ASSUME ReservationInv, TypeOK', accepted \subseteq accepted',
           \A p \in Procs : held'[p] = held[p] \/ held'[p] = None,
           \A p \in Procs : held'[p] \in Nonces \ accepted' =>
               /\ held[p] \in claimed => held[p] \in claimed'
               /\ held[p] <= stored => held[p] <= stored'
    PROVE  FreeHeldIsReserved' /\ UniqueFreeHolder'
  <1> USE NoncesAreNaturals
  <1>1. FreeHeldIsReserved'
    BY DEF ReservationInv, FreeHeldIsReserved, TypeOK
  <1>2. UniqueFreeHolder'
    BY DEF ReservationInv, UniqueFreeHolder, TypeOK
  <1> QED BY <1>1, <1>2

LEMMA CountsStep ==
    ReservationInv /\ [Next]_vars => CountsAreOfAccepted'
  <1> SUFFICES ASSUME ReservationInv, [Next]_vars PROVE CountsAreOfAccepted'
    OBVIOUS
  <1> USE NoncesAreNaturals DEF ReservationInv
  <1>1. CASE Mine
    BY <1>1 DEF Mine, CountsAreOfAccepted, clientVars, TypeOK
  <1>2. CASE \E n \in Nonces : Evict(n)
    BY <1>2 DEF Evict, CountsAreOfAccepted, clientVars
  <1>3. ASSUME NEW p \in Procs, ReadRemote(p) PROVE CountsAreOfAccepted'
    <2>1. PICK m \in MinedReplies, r \in PendingReplies :
              remote' = [remote EXCEPT ![p] = [mined |-> m, pending |-> r]]
      BY <1>3 DEF ReadRemote
    <2>2. \A n \in Nonces : n < r => n \in accepted
      BY DEF PendingReplies, CountsAreOfAccepted, TypeOK
    <2> QED BY <1>3, <2>1, <2>2
            DEF ReadRemote, CountsAreOfAccepted, chainVars, TypeOK
  <1>4. ASSUME NEW p \in Procs, Acquire(p) \/ AcquireFails(p)
        PROVE  CountsAreOfAccepted'
    <2>1. /\ pool' = pool /\ accepted' = accepted /\ mined' = mined
          /\ remote' = [remote EXCEPT ![p] = NoReplies]
      BY <1>4 DEF Acquire, AcquireFails, chainVars
    <2>2. ASSUME NEW q \in Procs PROVE remote'[q] \in {remote[q], NoReplies}
      BY <2>1 DEF TypeOK
    <2>3. \A n \in Nonces : ~(n < NoReplies.pending)
      BY DEF NoReplies
    <2> QED BY <2>1, <2>2, <2>3 DEF CountsAreOfAccepted
  <1>5. ASSUME NEW p \in Procs, BroadcastAccepted(p) \/ BroadcastReplyLost(p)
        PROVE  CountsAreOfAccepted'
    BY <1>5 DEF BroadcastAccepted, BroadcastReplyLost, NodeAccepts,
                CountsAreOfAccepted, clientVars
  <1>6. ASSUME NEW p \in Procs,
               RegisterNonce(p) \/ PersistTx(p) \/ Release(p) \/ Abandon(p)
        PROVE  CountsAreOfAccepted'
    BY <1>6 DEF RegisterNonce, PersistTx, Release, Abandon, CountsAreOfAccepted,
                chainVars
  <1>7. CASE UNCHANGED vars
    BY <1>7 DEF vars, CountsAreOfAccepted
  <1> QED BY <1>1, <1>2, <1>3, <1>4, <1>5, <1>6, <1>7 DEF Next, Client

LEMMA ReservationStep == ReservationInv /\ [Next]_vars => ReservationInv'
  <1> SUFFICES ASSUME ReservationInv, [Next]_vars PROVE ReservationInv'
    OBVIOUS
  <1> USE NoncesAreNaturals
  <1>a. TypeOK'
    BY TypeStep DEF ReservationInv
  <1>b. CountsAreOfAccepted'
    BY CountsStep
  <1> SUFFICES FreeHeldIsReserved' /\ UniqueFreeHolder'
    BY <1>a, <1>b DEF ReservationInv
  <1>1. CASE Mine \/ \E n \in Nonces : Evict(n)
    BY <1>1, <1>a, ReservationKept DEF Mine, Evict, trackerVars, clientVars
  <1>2. ASSUME NEW p \in Procs, ReadRemote(p)
        PROVE  FreeHeldIsReserved' /\ UniqueFreeHolder'
    BY <1>2, <1>a, ReservationKept DEF ReadRemote, trackerVars, chainVars
  <1>3. ASSUME NEW p \in Procs, Acquire(p)
        PROVE  FreeHeldIsReserved' /\ UniqueFreeHolder'
    <2>1. PICK n \in Nonces, unreadable \in Unreadable :
              /\ AcquireNonce(remote[p].mined, remote[p].pending,
                              recorded \union unreadable, n)
              /\ held' = [held EXCEPT ![p] = n]
      BY <1>3 DEF Acquire
    <2>2. /\ remote[p].mined \in Nat /\ remote[p].pending \in Nat
          /\ stored \in Nat \union {None} /\ claimed \subseteq Nat /\ n \in Nat
      BY DEF ReservationInv, TypeOK
    <2>3. /\ n \in claimed' /\ n <= stored' /\ stored <= stored'
          /\ \A k \in claimed : k \in claimed' \/ k < remote[p].pending
          /\ n > stored \/ n \notin claimed
      <3>1. PICK m, r, known : m = remote[p].mined /\ r = remote[p].pending /\ known = recorded \union unreadable
        OBVIOUS
      <3>2. m \in Nat /\ r \in Nat /\ AcquireNonce(m, r, known, n)
        BY <2>1, <2>2, <3>1
      <3>3. n \in claimed' /\ n <= stored' /\ stored <= stored'
        BY <2>2, <3>2, AcquiredNonce
      <3>4. \A k \in claimed : k \in claimed' \/ k < r
        BY <2>2, <3>2, AcquiredNonce
      <3>5. n > stored \/ n \notin claimed
        BY <2>2, <3>2, AcquiredNonce
      <3> QED BY <3>1, <3>3, <3>4, <3>5
    <2>4. accepted' = accepted
      BY <1>3 DEF Acquire, chainVars
    <2>5. \A q \in Procs \ {p} : held'[q] = held[q]
      BY <2>1 DEF ReservationInv, TypeOK
    <2>6. held'[p] = n
      BY <2>1 DEF ReservationInv, TypeOK
    <2>7. \A q \in Procs : held[q] \in Nonces \ accepted => held[q] # n
      BY <2>2, <2>3 DEF ReservationInv, FreeHeldIsReserved
    <2>8. FreeHeldIsReserved'
      <3> SUFFICES ASSUME NEW q \in Procs, held'[q] \in Nonces \ accepted
                   PROVE  held'[q] \in claimed' /\ held'[q] <= stored'
        BY <2>4 DEF FreeHeldIsReserved
      <3>1. CASE q = p
        BY <3>1, <2>3, <2>6
      <3>2. CASE q # p
        <4>1. held[q] \in claimed /\ held[q] <= stored /\ held'[q] = held[q]
          BY <3>2, <2>5 DEF ReservationInv, FreeHeldIsReserved
        <4>2. ~(held[q] < remote[p].pending)
          BY <4>1 DEF ReservationInv, CountsAreOfAccepted
        <4>3. held[q] \in Int /\ stored \in Int /\ stored' \in Int
          <5>1. stored' \in {None} \union Nonces
            BY <1>a DEF TypeOK
          <5>2. Nonces \subseteq Int /\ None \in Int
            BY BoundsAssumption DEF Nonces, None
          <5> QED BY <5>1, <5>2, NonceTypes DEF ReservationInv
        <4>4. held[q] \in claimed'
          BY <4>1, <4>2, <2>3
        <4>5. held[q] <= stored'
          BY <4>1, <4>3, <2>3
        <4> QED BY <4>1, <4>4, <4>5
      <3> QED BY <3>1, <3>2
    <2>9. UniqueFreeHolder'
      BY <2>4, <2>5, <2>6, <2>7 DEF ReservationInv, UniqueFreeHolder, TypeOK
    <2> QED BY <2>8, <2>9
  <1>4. ASSUME NEW p \in Procs, AcquireFails(p)
        PROVE  FreeHeldIsReserved' /\ UniqueFreeHolder'
    <2>1. /\ held' = held /\ accepted' = accepted /\ stored' = stored
          /\ claimed' = Cleaned(remote[p].pending)
      BY <1>4 DEF AcquireFails, AbnormalNonceState, chainVars
    <2>3. remote[p].pending \in Nat /\ claimed \subseteq Nat
      BY DEF ReservationInv, TypeOK
    <2>4. \A k \in claimed : k \in claimed' \/ k < remote[p].pending
      BY <2>1, <2>3 DEF Cleaned
    <2>2. \A q \in Procs : held[q] \in Nonces \ accepted =>
              ~(held[q] < remote[p].pending)
      BY DEF ReservationInv, CountsAreOfAccepted
    <2> QED BY <1>a, <2>1, <2>2, <2>4, ReservationKept
  <1>5. ASSUME NEW p \in Procs, BroadcastAccepted(p) \/ BroadcastReplyLost(p)
        PROVE  FreeHeldIsReserved' /\ UniqueFreeHolder'
    BY <1>5, <1>a, ReservationKept
    DEF BroadcastAccepted, BroadcastReplyLost, NodeAccepts, trackerVars, clientVars
  <1>6. ASSUME NEW p \in Procs, RegisterNonce(p)
        PROVE  FreeHeldIsReserved' /\ UniqueFreeHolder'
    <2>1. held' = held /\ accepted' = accepted /\ claimed' = claimed
      BY <1>6 DEF RegisterNonce, SetPendingNonce, chainVars
    <2>2. ASSUME NEW q \in Procs, held[q] \in Nonces, held[q] <= stored
          PROVE  held[q] <= stored'
      <3>1. stored' = RaisedTo(held[p])
        BY <1>6 DEF RegisterNonce, SetPendingNonce
      <3>2. held[p] \in Int /\ held[q] \in Int /\ stored \in Int
        BY NonceTypes DEF ReservationInv
      <3> QED BY <2>2, <3>1, <3>2 DEF RaisedTo, Larger
    <2> QED BY <1>a, <2>1, <2>2, ReservationKept
  <1>7. ASSUME NEW p \in Procs, PersistTx(p) \/ Abandon(p)
        PROVE  FreeHeldIsReserved' /\ UniqueFreeHolder'
    <2>1. /\ accepted' = accepted /\ claimed' = claimed /\ stored' = stored
          /\ \A q \in Procs : held'[q] = held[q] \/ held'[q] = None
      BY <1>7 DEF PersistTx, Abandon, trackerVars, chainVars, ReservationInv, TypeOK
    <2> QED BY <1>a, <2>1, ReservationKept
  <1>8. ASSUME NEW p \in Procs, Release(p)
        PROVE  FreeHeldIsReserved' /\ UniqueFreeHolder'
    <2>1. /\ accepted' = accepted /\ held[p] \in Nonces /\ held'[p] = None
          /\ claimed' = claimed \ {held[p]}
          /\ stored' = IF stored = held[p] THEN held[p] - 1 ELSE stored
          /\ \A q \in Procs \ {p} : held'[q] = held[q]
      BY <1>8 DEF Release, ReleaseNonce, chainVars, ReservationInv, TypeOK
    <2>2. \A q \in Procs : held'[q] \in Nonces \ accepted' =>
              held[q] # held[p]
      BY <2>1 DEF ReservationInv, UniqueFreeHolder, TypeOK
    <2>3. ASSUME NEW q \in Procs, held'[q] \in Nonces \ accepted'
          PROVE  /\ held[q] \in claimed => held[q] \in claimed'
                 /\ held[q] <= stored => held[q] <= stored'
      <3>1. q # p /\ held[q] = held'[q] /\ held[q] # held[p]
        BY <2>1, <2>2, <2>3
      <3>2. held[q] \in Int /\ held[p] \in Int /\ stored \in Int
        BY NonceTypes DEF ReservationInv
      <3> QED BY <2>1, <3>1, <3>2
    <2>4. \A q \in Procs : held'[q] = held[q] \/ held'[q] = None
      BY <2>1
    <2> QED BY <1>a, <2>1, <2>3, <2>4, ReservationKept
  <1>9. CASE UNCHANGED vars
    BY <1>9, <1>a, ReservationKept DEF vars
  <1> QED BY <1>1, <1>2, <1>3, <1>4, <1>5, <1>6, <1>7, <1>8, <1>9
          DEF Next, Client

\* manager_nonce.go:23-26: however the goroutines interleave and whatever the
\* nodes answer, a nonce without a transaction is reserved for one goroutine.
THEOREM ExclusiveReservation == Spec => []UniqueFreeHolder
  <1>1. ReservationInv => UniqueFreeHolder
    BY DEF ReservationInv
  <1> QED BY <1>1, ReservationInit, ReservationStep, PTL DEF Spec

-----------------------------------------------------------------------------
(***************************************************************************)
(* No leaked claim: on top of the property itself, a goroutine that goes   *)
(* on after its node replied holds an accepted nonce.                      *)
(***************************************************************************)
SentIsAccepted ==
    \A p \in Procs : phase[p] \in {"sent", "registered"} => held[p] \in accepted

ClaimInv == TypeOK /\ SentIsAccepted /\ NoLeakedClaim

LEMMA ClaimInit == Init => ClaimInv
  BY TypeInit DEF Init, TrackerInit, ClaimInv, SentIsAccepted, NoLeakedClaim

LEMMA ClaimStep == ClaimInv /\ [Next]_vars => ClaimInv'
  <1> SUFFICES ASSUME ClaimInv, [Next]_vars PROVE ClaimInv'
    OBVIOUS
  <1> USE DEF ClaimInv
  <1>a. TypeOK'
    BY TypeStep
  <1> SUFFICES SentIsAccepted' /\ NoLeakedClaim'
    BY <1>a
  <1>1. CASE Mine \/ \E n \in Nonces : Evict(n)
    BY <1>1 DEF Mine, Evict, trackerVars, clientVars, SentIsAccepted, NoLeakedClaim
  <1>2. ASSUME NEW p \in Procs, ReadRemote(p)
        PROVE  SentIsAccepted' /\ NoLeakedClaim'
    BY <1>2 DEF ReadRemote, trackerVars, chainVars, SentIsAccepted, NoLeakedClaim,
                TypeOK
  <1>3. ASSUME NEW p \in Procs, Acquire(p)
        PROVE  SentIsAccepted' /\ NoLeakedClaim'
    <2>1. PICK n \in Nonces, unreadable \in Unreadable :
              /\ AcquireNonce(remote[p].mined, remote[p].pending,
                              recorded \union unreadable, n)
              /\ held' = [held EXCEPT ![p] = n]
      BY <1>3 DEF Acquire
    <2>2. /\ remote[p].mined \in Nat /\ remote[p].pending \in Nat
          /\ stored \in Nat \union {None} /\ claimed \subseteq Nat /\ n \in Nat
      BY NoncesAreNaturals DEF TypeOK
    <2>3. claimed' \subseteq claimed \union {n}
      BY <2>1, <2>2, AcquiredNonce
    <2>4. /\ accepted' = accepted /\ abandoned' = abandoned
          /\ phase' = [phase EXCEPT ![p] = "built"] /\ phase[p] = "ready"
      BY <1>3 DEF Acquire, chainVars
    <2>5. held'[p] = n /\ held[p] = None
      BY <2>1, <2>4 DEF TypeOK
    <2>6. \A q \in Procs \ {p} : held'[q] = held[q] /\ phase'[q] = phase[q]
      BY <2>1, <2>4 DEF TypeOK
    <2>7. SentIsAccepted'
      BY <2>4, <2>6 DEF SentIsAccepted, TypeOK
    <2>8. NoLeakedClaim'
      <3> SUFFICES ASSUME NEW k \in claimed'
                   PROVE  \/ k \in accepted' \/ k \in abandoned'
                          \/ \E q \in Procs : held'[q] = k
        BY DEF NoLeakedClaim
      <3>1. CASE k = n
        BY <3>1, <2>5
      <3>2. CASE k \in claimed /\ k # None
        BY <3>2, <2>4, <2>5, <2>6 DEF NoLeakedClaim
      <3> QED BY <2>3, <3>1, <3>2, NoncesAreNaturals DEF TypeOK
    <2> QED BY <2>7, <2>8
  <1>4. ASSUME NEW p \in Procs, AcquireFails(p)
        PROVE  SentIsAccepted' /\ NoLeakedClaim'
    BY <1>4 DEF AcquireFails, AbnormalNonceState, Cleaned, chainVars,
                SentIsAccepted, NoLeakedClaim, TypeOK
  <1>5. ASSUME NEW p \in Procs, BroadcastAccepted(p)
        PROVE  SentIsAccepted' /\ NoLeakedClaim'
    BY <1>5 DEF BroadcastAccepted, NodeAccepts, trackerVars, SentIsAccepted,
                NoLeakedClaim, TypeOK
  <1>6. ASSUME NEW p \in Procs, BroadcastReplyLost(p)
        PROVE  SentIsAccepted' /\ NoLeakedClaim'
    BY <1>6 DEF BroadcastReplyLost, NodeAccepts, trackerVars, clientVars,
                SentIsAccepted, NoLeakedClaim
  <1>7. ASSUME NEW p \in Procs, RegisterNonce(p)
        PROVE  SentIsAccepted' /\ NoLeakedClaim'
    BY <1>7 DEF RegisterNonce, SetPendingNonce, chainVars, SentIsAccepted,
                NoLeakedClaim, TypeOK
  <1>8. ASSUME NEW p \in Procs, PersistTx(p) \/ Release(p) \/ Abandon(p)
        PROVE  SentIsAccepted' /\ NoLeakedClaim'
    <2>1. /\ accepted' = accepted /\ abandoned \subseteq abandoned'
          /\ held' = [held EXCEPT ![p] = None]
          /\ phase' = [phase EXCEPT ![p] = "idle"]
      BY <1>8 DEF PersistTx, Release, Abandon, chainVars
    <2>2. /\ claimed' \subseteq claimed
          /\ held[p] \in accepted' \/ held[p] \in abandoned' \/ held[p] \notin claimed'
      BY <1>8, <2>1 DEF PersistTx, Release, ReleaseNonce, Abandon, trackerVars,
                        SentIsAccepted
    <2>3. \A q \in Procs \ {p} : held'[q] = held[q] /\ phase'[q] = phase[q]
      BY <2>1 DEF TypeOK
    <2>4. SentIsAccepted'
      BY <2>1, <2>3 DEF SentIsAccepted, TypeOK
    <2>5. NoLeakedClaim'
      BY <2>1, <2>2, <2>3 DEF NoLeakedClaim
    <2> QED BY <2>4, <2>5
  <1>9. CASE UNCHANGED vars
    BY <1>9 DEF vars, SentIsAccepted, NoLeakedClaim
  <1> QED BY <1>1, <1>2, <1>3, <1>4, <1>5, <1>6, <1>7, <1>8, <1>9
          DEF Next, Client

\* tracker.go:23-29: every claim is of a nonce somebody works on, that was
\* broadcast, or whose transaction the caller threw away.
THEOREM ClaimsAreAccountedFor == Spec => []NoLeakedClaim
  <1>1. ClaimInv => NoLeakedClaim
    BY DEF ClaimInv
  <1> QED BY <1>1, ClaimInit, ClaimStep, PTL DEF Spec

-----------------------------------------------------------------------------
(***************************************************************************)
(* Without a TxStore no gap is ever filled, so a fresh nonce is above the  *)
(* tip and the tip never falls below a held one.                           *)
(***************************************************************************)
HeldBelowTip == \A p \in Procs : held[p] <= stored

HolderInv == TypeOK /\ HeldBelowTip /\ UniqueHolder

LEMMA HolderInit == Init => HolderInv
  BY TypeInit DEF Init, TrackerInit, HolderInv, HeldBelowTip, UniqueHolder, None

\* A step that hands out no nonce and keeps the tip.
LEMMA HoldersKept ==
    ASSUME HolderInv, TypeOK', stored <= stored',
           \A p \in Procs : held'[p] = held[p] \/ held'[p] = None
    PROVE  HolderInv'
  <1>1. stored' \in Int /\ stored \in Int /\ stored' >= None
    BY NonceTypes, NoncesAreNaturals, BoundsAssumption
    DEF HolderInv, TypeOK, Nonces, None
  <1>2. HeldBelowTip'
    BY <1>1, NonceTypes DEF HolderInv, HeldBelowTip
  <1>3. UniqueHolder'
    BY DEF HolderInv, UniqueHolder
  <1> QED BY <1>2, <1>3 DEF HolderInv

LEMMA HolderStep ==
    ASSUME ~UseTxStore, HolderInv, [Next]_vars PROVE HolderInv'
  <1>a. TypeOK'
    BY TypeStep DEF HolderInv
  <1>b. stored \in Int /\ \A p \in Procs : held[p] \in Int
    BY NonceTypes DEF HolderInv
  <1>1. CASE stored' = stored /\ held' = held
    BY <1>1, <1>a, <1>b, HoldersKept
  <1>2. ASSUME NEW p \in Procs, Acquire(p) PROVE HolderInv'
    <2>1. PICK n \in Nonces, unreadable \in Unreadable :
              /\ AcquireNonce(remote[p].mined, remote[p].pending,
                              recorded \union unreadable, n)
              /\ held' = [held EXCEPT ![p] = n]
      BY <1>2 DEF Acquire
    <2>2. /\ remote[p].mined \in Nat /\ remote[p].pending \in Nat
          /\ stored \in Nat \union {None} /\ claimed \subseteq Nat /\ n \in Nat
      BY NoncesAreNaturals DEF HolderInv, TypeOK
    <2>3. n > stored /\ n <= stored' /\ stored' \in Int
      BY <2>1, <2>2, AcquiredNonce, <1>a, NoncesAreNaturals, BoundsAssumption
      DEF TypeOK, None, Nonces
    <2>4. held'[p] = n /\ \A q \in Procs \ {p} : held'[q] = held[q]
      BY <2>1 DEF HolderInv, TypeOK
    <2>5. \A q \in Procs : held[q] # n
      BY <1>b, <2>2, <2>3 DEF HolderInv, HeldBelowTip
    <2>6. HeldBelowTip'
      BY <1>b, <2>2, <2>3, <2>4 DEF HolderInv, HeldBelowTip
    <2>7. UniqueHolder'
      BY <2>4, <2>5 DEF HolderInv, UniqueHolder
    <2> QED BY <1>a, <2>6, <2>7 DEF HolderInv
  <1>3. ASSUME NEW p \in Procs, RegisterNonce(p) PROVE HolderInv'
    BY <1>3, <1>a, <1>b, HoldersKept
    DEF RegisterNonce, SetPendingNonce, RaisedTo, Larger
  <1>4. ASSUME NEW p \in Procs, PersistTx(p) \/ Abandon(p) PROVE HolderInv'
    <2>1. stored' = stored /\ held' = [held EXCEPT ![p] = None]
      BY <1>4 DEF PersistTx, Abandon, trackerVars
    <2> QED BY <2>1, <1>a, <1>b, HoldersKept DEF HolderInv, TypeOK
  <1>5. ASSUME NEW p \in Procs, Release(p) PROVE HolderInv'
    <2>1. /\ held' = [held EXCEPT ![p] = None] /\ held[p] \in Nonces
          /\ stored' = IF stored = held[p] THEN held[p] - 1 ELSE stored
      BY <1>5 DEF Release, ReleaseNonce, HolderInv, TypeOK
    <2>2. held'[p] = None /\ \A q \in Procs \ {p} : held'[q] = held[q]
      BY <2>1 DEF HolderInv, TypeOK
    <2>3. \A q \in Procs \ {p} : held[q] # held[p]
      BY <2>1, NoncesAreNaturals DEF HolderInv, UniqueHolder
    <2>4. HeldBelowTip'
      <3> SUFFICES ASSUME NEW q \in Procs PROVE held'[q] <= stored'
        BY DEF HeldBelowTip
      <3>1. CASE q = p
        <4>1. stored' \in {None} \union Nonces
          BY <1>a DEF TypeOK
        <4> QED BY <3>1, <4>1, <2>2, BoundsAssumption DEF Nonces, None
      <3>2. CASE q # p
        BY <3>2, <1>b, <2>1, <2>2, <2>3 DEF HolderInv, HeldBelowTip
      <3> QED BY <3>1, <3>2
    <2>5. UniqueHolder'
      BY <2>2 DEF HolderInv, UniqueHolder
    <2> QED BY <1>a, <2>4, <2>5 DEF HolderInv
  <1> QED BY <1>1, <1>2, <1>3, <1>4, <1>5
          DEF Next, Client, vars, Mine, Evict, ReadRemote, AcquireFails,
              AbnormalNonceState, BroadcastAccepted, BroadcastReplyLost,
              trackerVars, clientVars

\* Without a TxStore even an accepted nonce has one holder, whatever the
\* nodes reply and even when a broadcast's reply is lost.
THEOREM ExclusiveHolder ==
    ASSUME ~UseTxStore PROVE Spec => []UniqueHolder
  <1>1. HolderInv => UniqueHolder
    BY DEF HolderInv
  <1>2. HolderInv /\ [Next]_vars => HolderInv'
    BY HolderStep
  <1> QED BY <1>1, <1>2, HolderInit, PTL DEF Spec

-----------------------------------------------------------------------------
(***************************************************************************)
(* The allocator.  Without a TxStore and without lost replies a nonce is   *)
(* never issued again, because nothing accepted is above the tip and       *)
(* nothing a goroutine still builds with was accepted in this session.     *)
(***************************************************************************)
NeverReissues == ~UseTxStore /\ ~LossyBroadcast

AcceptedBelowTip ==
    \A n \in accepted : n < InitialMined \/ n <= stored

BuiltIsFresh ==
    \A p \in Procs : phase[p] = "built" =>
        held[p] \notin accepted \/ held[p] < InitialMined

FreshInv ==
    /\ HolderInv
    /\ InitialMined <= mined
    /\ AcceptedBelowTip
    /\ BuiltIsFresh

LEMMA FreshInit == Init => FreshInv
  BY HolderInit, BoundsAssumption
  DEF Init, FreshInv, AcceptedBelowTip, BuiltIsFresh

LEMMA FreshStep ==
    ASSUME NeverReissues, FreshInv, [Next]_vars PROVE FreshInv'
  <1>a. HolderInv' /\ TypeOK'
    BY HolderStep DEF NeverReissues, FreshInv, HolderInv
  <1>b. /\ stored \in Int /\ stored' \in Int /\ mined \in Int /\ InitialMined \in Int
        /\ accepted \subseteq Int /\ \A p \in Procs : held[p] \in Int
    <2>1. Nonces \subseteq Int /\ None \in Int /\ Replies \subseteq Int
      BY BoundsAssumption DEF Nonces, Replies, None
    <2>2. stored' \in {None} \union Nonces
      BY <1>a DEF TypeOK
    <2>3. mined \in Replies /\ accepted \subseteq Nonces
      BY DEF FreshInv, HolderInv, TypeOK
    <2>4. InitialMined \in Int
      BY BoundsAssumption
    <2> QED BY <2>1, <2>2, <2>3, <2>4, NonceTypes DEF FreshInv, HolderInv
  <1> SUFFICES InitialMined <= mined' /\ AcceptedBelowTip' /\ BuiltIsFresh'
    BY <1>a DEF FreshInv
  <1>1. CASE Mine \/ \E n \in Nonces : Evict(n)
    <2>1. /\ accepted' = accepted /\ stored' = stored /\ held' = held
          /\ phase' = phase /\ mined' \in {mined, mined + 1}
      BY <1>1 DEF Mine, Evict, trackerVars, clientVars
    <2> QED BY <1>b, <2>1 DEF FreshInv, AcceptedBelowTip, BuiltIsFresh
  <1>2. ASSUME NEW p \in Procs, ReadRemote(p) \/ AcquireFails(p)
        PROVE  InitialMined <= mined' /\ AcceptedBelowTip' /\ BuiltIsFresh'
    <2>1. /\ stored' = stored /\ accepted' = accepted /\ mined' = mined
          /\ held' = held
          /\ phase' \in {[phase EXCEPT ![p] = "ready"], [phase EXCEPT ![p] = "idle"]}
      BY <1>2 DEF ReadRemote, AcquireFails, AbnormalNonceState, trackerVars,
                  chainVars
    <2>2. \A q \in Procs : phase'[q] = "built" => phase[q] = "built"
      BY <2>1 DEF FreshInv, HolderInv, TypeOK
    <2> QED BY <2>1, <2>2 DEF FreshInv, AcceptedBelowTip, BuiltIsFresh
  <1>3. ASSUME NEW p \in Procs, Acquire(p)
        PROVE  InitialMined <= mined' /\ AcceptedBelowTip' /\ BuiltIsFresh'
    <2>1. PICK n \in Nonces, unreadable \in Unreadable :
              /\ AcquireNonce(remote[p].mined, remote[p].pending,
                              recorded \union unreadable, n)
              /\ held' = [held EXCEPT ![p] = n]
      BY <1>3 DEF Acquire
    <2>2. /\ remote[p].mined \in Nat /\ remote[p].pending \in Nat
          /\ stored \in Nat \union {None} /\ claimed \subseteq Nat /\ n \in Nat
      BY NoncesAreNaturals DEF FreshInv, HolderInv, TypeOK
    <2>3. n > stored /\ stored <= stored'
      BY <2>1, <2>2, AcquiredNonce DEF NeverReissues
    <2>4. accepted' = accepted /\ mined' = mined
      BY <1>3 DEF Acquire, chainVars
    <2>5. AcceptedBelowTip'
      BY <1>b, <2>3, <2>4 DEF FreshInv, AcceptedBelowTip
    <2>6. n \notin accepted \/ n < InitialMined
      BY <1>b, <2>2, <2>3 DEF FreshInv, AcceptedBelowTip
    <2>7. /\ held'[p] = n
          /\ \A q \in Procs \ {p} : held'[q] = held[q] /\ phase'[q] = phase[q]
      BY <1>3, <2>1 DEF Acquire, FreshInv, HolderInv, TypeOK
    <2>8. BuiltIsFresh'
      BY <2>4, <2>6, <2>7 DEF FreshInv, BuiltIsFresh
    <2> QED BY <2>4, <2>5, <2>8 DEF FreshInv
  <1>4. ASSUME NEW p \in Procs, BroadcastAccepted(p)
        PROVE  InitialMined <= mined' /\ AcceptedBelowTip' /\ BuiltIsFresh'
    <2>1. /\ accepted' = accepted \union {held[p]} /\ mined' = mined
          /\ stored' = stored /\ held' = held /\ phase[p] = "built"
          /\ phase' = [phase EXCEPT ![p] = "sent"]
      BY <1>4 DEF BroadcastAccepted, NodeAccepts, trackerVars
    <2>2. phase'[p] # "built" /\ \A q \in Procs \ {p} : phase'[q] = phase[q]
      BY <2>1 DEF FreshInv, HolderInv, TypeOK
    <2>3. \A q \in Procs \ {p} : held[q] # held[p]
      BY <2>1 DEF FreshInv, HolderInv, UniqueHolder, TypeOK
    <2> QED BY <2>1, <2>2, <2>3
            DEF FreshInv, HolderInv, HeldBelowTip, AcceptedBelowTip, BuiltIsFresh
  <1>5. ASSUME NEW p \in Procs, RegisterNonce(p)
        PROVE  InitialMined <= mined' /\ AcceptedBelowTip' /\ BuiltIsFresh'
    <2>1. /\ accepted' = accepted /\ mined' = mined /\ held' = held
          /\ phase' = [phase EXCEPT ![p] = "registered"]
      BY <1>5 DEF RegisterNonce, chainVars
    <2>2. stored <= stored'
      BY <1>5, <1>b DEF RegisterNonce, SetPendingNonce, RaisedTo, Larger
    <2>3. \A q \in Procs : phase'[q] = "built" => phase[q] = "built"
      BY <2>1 DEF FreshInv, HolderInv, TypeOK
    <2> QED BY <1>b, <2>1, <2>2, <2>3 DEF FreshInv, AcceptedBelowTip, BuiltIsFresh
  <1>6. ASSUME NEW p \in Procs, PersistTx(p) \/ Abandon(p)
        PROVE  InitialMined <= mined' /\ AcceptedBelowTip' /\ BuiltIsFresh'
    <2>1. /\ accepted' = accepted /\ mined' = mined /\ stored' = stored
          /\ phase' = [phase EXCEPT ![p] = "idle"]
          /\ held' = [held EXCEPT ![p] = None]
      BY <1>6 DEF PersistTx, Abandon, trackerVars, chainVars
    <2>2. \A q \in Procs : phase'[q] = "built" =>
              phase[q] = "built" /\ held'[q] = held[q]
      BY <2>1 DEF FreshInv, HolderInv, TypeOK
    <2> QED BY <2>1, <2>2 DEF FreshInv, AcceptedBelowTip, BuiltIsFresh
  <1>7. ASSUME NEW p \in Procs, Release(p)
        PROVE  InitialMined <= mined' /\ AcceptedBelowTip' /\ BuiltIsFresh'
    <2>1. /\ accepted' = accepted /\ mined' = mined /\ phase[p] = "built"
          /\ stored' = IF stored = held[p] THEN held[p] - 1 ELSE stored
          /\ phase' = [phase EXCEPT ![p] = "idle"]
          /\ held' = [held EXCEPT ![p] = None]
      BY <1>7 DEF Release, ReleaseNonce, chainVars
    <2>2. \A q \in Procs : phase'[q] = "built" =>
              phase[q] = "built" /\ held'[q] = held[q]
      BY <2>1 DEF FreshInv, HolderInv, TypeOK
    <2>3. held[p] \notin accepted \/ held[p] < InitialMined
      BY <2>1 DEF FreshInv, BuiltIsFresh
    <2>4. AcceptedBelowTip'
      BY <1>b, <2>1, <2>3 DEF FreshInv, AcceptedBelowTip
    <2>5. BuiltIsFresh'
      BY <2>1, <2>2 DEF FreshInv, BuiltIsFresh
    <2> QED BY <2>1, <2>4, <2>5 DEF FreshInv
  <1>8. CASE UNCHANGED vars
    BY <1>8 DEF vars, FreshInv, AcceptedBelowTip, BuiltIsFresh
  <1> QED BY <1>1, <1>2, <1>3, <1>4, <1>5, <1>6, <1>7, <1>8
          DEF Next, Client, BroadcastReplyLost, NeverReissues

\* One step of the manager is a step of the allocator, or a stutter.
Reserved == [p \in Procs |-> IF phase[p] = "built" THEN held[p] ELSE None]

LEMMA AllocatorStep ==
    ASSUME ReservationInv, NeverReissues => FreshInv, [Next]_vars
    PROVE  [Allocator!AllocatorNext]_(Allocator!allocatorVars)
  <1> USE DEF Allocator!allocatorVars, Allocator!Nobody, None
  <1>t. TypeOK
    BY DEF ReservationInv
  <1>1. CASE Mine \/ \E n \in Nonces : Evict(n)
    BY <1>1 DEF Mine, Evict, clientVars
  <1>2. ASSUME NEW p \in Procs,
               ReadRemote(p) \/ AcquireFails(p) \/ RegisterNonce(p) \/ PersistTx(p)
        PROVE  UNCHANGED Allocator!allocatorVars
    <2>1. /\ accepted' = accepted /\ phase[p] # "built"
          /\ held' \in {held, [held EXCEPT ![p] = None]}
          /\ \E s \in Phases \ {"built"} : phase' = [phase EXCEPT ![p] = s]
      BY <1>2 DEF ReadRemote, AcquireFails, RegisterNonce, PersistTx, chainVars,
                  Phases
    <2>2. \A q \in Procs : \/ phase'[q] # "built" /\ phase[q] # "built"
                           \/ phase'[q] = phase[q] /\ held'[q] = held[q]
      BY <1>t, <2>1 DEF TypeOK
    <2> QED BY <2>1, <2>2
  <1>3. ASSUME NEW p \in Procs, Acquire(p) PROVE Allocator!Allocate(p)
    <2>1. PICK n \in Nonces, unreadable \in Unreadable :
              /\ AcquireNonce(remote[p].mined, remote[p].pending,
                              recorded \union unreadable, n)
              /\ held' = [held EXCEPT ![p] = n]
      BY <1>3 DEF Acquire
    <2>2. /\ remote[p].mined \in Nat /\ remote[p].pending \in Nat
          /\ stored \in Nat \union {None} /\ claimed \subseteq Nat /\ n \in Nat
      BY <1>t, NoncesAreNaturals DEF TypeOK
    <2>3. n > stored \/ (UseTxStore /\ n \notin claimed)
      BY <2>1, <2>2, AcquiredNonce
    <2>4. /\ accepted' = accepted /\ phase[p] = "ready"
          /\ phase' = [phase EXCEPT ![p] = "built"]
      BY <1>3 DEF Acquire, chainVars
    <2>5. n \in Allocator!Owned => n \in accepted
      <3>1. ASSUME NEW q \in Procs, held[q] = n PROVE n \in accepted
        BY <2>2, <2>3, <3>1 DEF ReservationInv, FreeHeldIsReserved
      <3> QED BY <3>1, <2>2 DEF Allocator!Owned
    <2>6. ~(UseTxStore \/ LossyBroadcast) =>
              n \notin accepted \ (0 .. (InitialMined - 1))
      <3> SUFFICES ASSUME NeverReissues, n \in accepted PROVE n < InitialMined
        BY <2>2, BoundsAssumption DEF NeverReissues
      <3> QED BY <2>2, <2>3 DEF NeverReissues, FreshInv, AcceptedBelowTip
    <2>7. Reserved[p] = None /\ Reserved' = [Reserved EXCEPT ![p] = n]
      BY <1>t, <2>1, <2>4 DEF Reserved, TypeOK
    <2> QED BY <2>4, <2>5, <2>6, <2>7 DEF Allocator!Allocate, Reserved
  <1>4. ASSUME NEW p \in Procs, BroadcastAccepted(p) \/ BroadcastReplyLost(p)
        PROVE  Allocator!Publish(p)
    <2>1. /\ accepted' = accepted \union {held[p]} /\ phase[p] = "built"
          /\ held' = held /\ phase' \in {phase, [phase EXCEPT ![p] = "sent"]}
      BY <1>4 DEF BroadcastAccepted, BroadcastReplyLost, NodeAccepts, clientVars
    <2>2. Reserved[p] = held[p] /\ held[p] # None
      BY <1>t, <2>1 DEF Reserved, TypeOK
    <2>3. Reserved' \in {Reserved, [Reserved EXCEPT ![p] = None]}
      BY <1>t, <2>1 DEF Reserved, TypeOK
    <2> QED BY <2>1, <2>2, <2>3 DEF Allocator!Publish, Reserved
  <1>5. ASSUME NEW p \in Procs, Release(p) \/ Abandon(p)
        PROVE  Allocator!GiveUp(p)
    <2>1. /\ accepted' = accepted /\ phase[p] = "built"
          /\ held' = [held EXCEPT ![p] = None]
          /\ phase' = [phase EXCEPT ![p] = "idle"]
      BY <1>5 DEF Release, Abandon, chainVars
    <2>2. Reserved[p] # None /\ Reserved' = [Reserved EXCEPT ![p] = None]
      BY <1>t, <2>1 DEF Reserved, TypeOK
    <2> QED BY <2>1, <2>2 DEF Allocator!GiveUp, Reserved
  <1>6. CASE UNCHANGED vars
    BY <1>6 DEF vars
  <1> QED BY <1>1, <1>2, <1>3, <1>4, <1>5, <1>6
          DEF Next, Client, Allocator!AllocatorNext

\* manager_nonce.go:23-26: acquireNonce, BroadcastTx and ReleaseNonce together
\* implement the allocator; strictly (no nonce is issued twice after it was
\* used) when no TxStore is configured and no reply is lost.
THEOREM AllocatorImplemented == Spec => ImplementsAllocator
  <1>1. Init => Allocator!AllocatorInit
    BY DEF Init, Allocator!AllocatorInit, Allocator!Nobody, None
  <1>2. Spec => []ReservationInv
    BY ReservationInit, ReservationStep, PTL DEF Spec
  <1>3. Spec => [](NeverReissues => FreshInv)
    <2>1. Init => (NeverReissues => FreshInv)
      BY FreshInit
    <2>2. (NeverReissues => FreshInv) /\ [Next]_vars => (NeverReissues => FreshInv)'
      BY FreshStep DEF NeverReissues
    <2> QED BY <2>1, <2>2, PTL DEF Spec
  <1>4. ReservationInv /\ (NeverReissues => FreshInv) /\ [Next]_vars
            => [Allocator!AllocatorNext]_(Allocator!allocatorVars)
    BY AllocatorStep
  <1> QED BY <1>1, <1>2, <1>3, <1>4, PTL
          DEF Spec, ImplementsAllocator, Allocator!AllocatorSpec
=============================================================================
