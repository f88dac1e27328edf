--------------------------- MODULE MCProcurement ---------------------------
(* Small instances of Procurement for TLC. *)
EXTENDS ProcurementInvariant, TLC

CONSTANTS
    alice,              \* a user
    o1, o2,             \* orders
    w1, w2,             \* workers
    tronow, tronbid     \* the two providers of the repository

MCUsers   == {alice}
MCOneOwner  == [o \in {o1} |-> alice]
MCTwoOwners == [o \in {o1, o2} |-> alice]
MCOnePrice  == [o \in {o1} |-> 2]
MCTwoPrices == [o \in {o1, o2} |-> IF o = o1 THEN 2 ELSE 1]
MCDeposited == [u \in MCUsers |-> 3]
MCShort     == [u \in MCUsers |-> 2]

(* A product both providers deliver, and one that only TronBid does (a     *)
(* rental time other than 60 minutes).                                     *)
MCBothSupport == [o \in {o1} |-> {tronow, tronbid}]
MCMixedSupport == [o \in {o1, o2} |-> IF o = o1 THEN {tronow, tronbid} ELSE {tronbid}]

MCBothConfigured == {{tronow, tronbid}}
MCReconfigured == {{tronow, tronbid}, {tronow}, {tronbid}}
MCTronowOnly == {{tronow}}

WorkerSymmetry == Permutations({w1, w2})
=============================================================================
