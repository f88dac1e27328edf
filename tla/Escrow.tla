------------------------------- MODULE Escrow -------------------------------
(***************************************************************************)
(* What a rental promises a user, with no worker, lease or upstream call   *)
(* in sight: the price is frozen before anything is bought, taken only     *)
(* when the goods have arrived, and given back only when they cannot.      *)
(***************************************************************************)
CONSTANT Orders

VARIABLES
    escrow,     \* order -> where its price is
    goods       \* order -> what is known to have been bought for it

Init ==
    /\ escrow = [o \in Orders |-> "none"]
    /\ goods = [o \in Orders |-> "none"]

Freeze(o) ==
    /\ escrow[o] = "none"
    /\ escrow' = [escrow EXCEPT ![o] = "held"]
    /\ UNCHANGED goods

(* Buying needs frozen money and nothing bought that may still arrive. *)
Buy(o) ==
    /\ escrow[o] = "held"
    /\ goods[o] = "none"
    /\ goods' = [goods EXCEPT ![o] = "ordered"]
    /\ UNCHANGED escrow

Deliver(o) ==
    /\ goods[o] = "ordered"
    /\ goods' = [goods EXCEPT ![o] = "delivered"]
    /\ UNCHANGED escrow

Fail(o) ==
    /\ goods[o] = "ordered"
    /\ goods' = [goods EXCEPT ![o] = "none"]
    /\ UNCHANGED escrow

Charge(o) ==
    /\ escrow[o] = "held" /\ goods[o] = "delivered"
    /\ escrow' = [escrow EXCEPT ![o] = "captured"]
    /\ UNCHANGED goods

Refund(o) ==
    /\ escrow[o] = "held" /\ goods[o] = "none"
    /\ escrow' = [escrow EXCEPT ![o] = "released"]
    /\ UNCHANGED goods

Next ==
    \E o \in Orders :
        Freeze(o) \/ Buy(o) \/ Deliver(o) \/ Fail(o) \/ Charge(o) \/ Refund(o)

Spec == Init /\ [][Next]_<<escrow, goods>>
=============================================================================
