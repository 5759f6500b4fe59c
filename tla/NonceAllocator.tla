--------------------------- MODULE NonceAllocator ---------------------------
(***************************************************************************)
(* What acquireNonce promises its callers (manager_nonce.go:23-26): a      *)
(* nonce is reserved for one caller at a time, until the caller gives it   *)
(* back or publishes a transaction with it.                                *)
(***************************************************************************)
EXTENDS Integers

CONSTANTS
    Procs,      \* concurrent callers
    Nonces,     \* the nonces of the wallet
    Before,     \* those consumed before the wallet manager was created
    Reissues    \* TRUE: a published nonce may be handed out again (the node
                \* then rejects, or replaces); FALSE: never

VARIABLES
    owner,      \* owner[p]: the nonce p has reserved and not yet published
    published   \* nonces some node has accepted a transaction for

allocatorVars == <<owner, published>>

Nobody == -1

Owned == {owner[p] : p \in Procs} \ {Nobody}

AllocatorInit ==
    /\ owner = [p \in Procs |-> Nobody]
    /\ published = Before

\* The heart of it: a nonce that no node has seen goes to one caller only.
Allocate(p) ==
    \E n \in Nonces :
        /\ owner[p] = Nobody
        /\ n \in Owned => n \in published
        /\ ~Reissues => n \notin published \ Before
        /\ owner' = [owner EXCEPT ![p] = n]
        /\ UNCHANGED published

GiveUp(p) ==
    /\ owner[p] # Nobody
    /\ owner' = [owner EXCEPT ![p] = Nobody]
    /\ UNCHANGED published

\* The owner learns of the acceptance, or does not (the reply was lost).
Publish(p) ==
    /\ owner[p] # Nobody
    /\ published' = published \union {owner[p]}
    /\ owner' \in {owner, [owner EXCEPT ![p] = Nobody]}

AllocatorNext == \E p \in Procs : Allocate(p) \/ GiveUp(p) \/ Publish(p)

AllocatorSpec == AllocatorInit /\ [][AllocatorNext]_allocatorVars
=============================================================================
