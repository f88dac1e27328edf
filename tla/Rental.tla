------------------------------- MODULE Rental -------------------------------
(***************************************************************************)
(* The order state machine (services/rental.py): an order freezes its      *)
(* price, is purchased upstream, and ends ACTIVE (charged) or REFUNDED.    *)
(*                                                                         *)
(* An order here is a (user, request_key) pair: reserve_order serialises   *)
(* the user's reservations on the wallet row, so a repeated request finds  *)
(* the existing order and changes nothing.  DRAFT exists only inside the   *)
(* transaction that creates the order and never reaches a committed row.   *)
(* The rest of a transition (lease, retry counter) is written by the       *)
(* worker in the same transaction: the operators below are functions of    *)
(* the order record for Procurement to compose.                            *)
(*                                                                         *)
(* Time is abstracted to what the code compares: next_run_at is NULL, due  *)
(* (in the past) or later; a lease is absent, live or expired.             *)
(***************************************************************************)
EXTENDS Wallet, Sequences

CONSTANTS
    Orders,         \* the rental requests users may make
    Owner,          \* order -> its user
    Price,          \* order -> its price
    Deposited,      \* user -> what was credited before the first order
    None            \* no lease token

ASSUME OrdersAssumption ==
    /\ Owner \in [Orders -> Users]
    /\ Price \in [Orders -> Nat \ {0}]
    /\ Deposited \in [Users -> Nat \ {0}]

VARIABLES
    orders,         \* the orders table
    attempts,       \* order -> its purchase attempts, by sequence
    notes           \* order -> events in the order_notifications table

Statuses     == {"absent", "reserved", "delegating", "active", "refunded"}
WalletStates == {"none", "held", "captured", "released"}
Concluded    == {"failed", "rejected"}
Events       == {"review", "fulfilled", "refunded"}

NoOrder ==
    [status |-> "absent", wallet_state |-> "none", retry_count |-> 0,
     next_run_at |-> "none", lease_until |-> "none", lease_token |-> None]

ReservedOrder ==
    [status |-> "reserved", wallet_state |-> "held", retry_count |-> 0,
     next_run_at |-> "due", lease_until |-> "none", lease_token |-> None]

AllowedTransitions ==
    [absent     |-> {"reserved"},
     reserved   |-> {"delegating", "refunded"},
     delegating |-> {"active", "refunded"},
     active     |-> {},
     refunded   |-> {}]

CanBecome(order, status) == status \in AllowedTransitions[order.status]

(* release_order's query for an attempt with no definite failure. *)
Uncertain(o) == \E k \in 1..Len(attempts[o]) : attempts[o][k].state \notin Concluded

Notify(o, event) == notes' = [notes EXCEPT ![o] = @ \cup {event}]

-----------------------------------------------------------------------------
(* begin_purchase: the intent to buy is recorded before any request. *)
CanBegin(order) ==
    /\ order.wallet_state = "held"
    /\ order.status = "delegating" \/ CanBecome(order, "delegating")

Begun(order) == [order EXCEPT !.status = "delegating"]

(* complete_purchase: the frozen price is taken. *)
CompletePurchase(o) ==
    /\ orders[o].wallet_state = "held"
    /\ CanBecome(orders[o], "active")
    /\ Capture(Owner[o], o, Price[o])
    /\ Notify(o, "fulfilled")

(* Fault: the order row keeps its wallet_state. *)
CompletedHeld(order) == [order EXCEPT !.status = "active"]

Completed(order) == [order EXCEPT !.status = "active", !.wallet_state = "captured"]

(* release_order: the frozen price goes back, only when no attempt of the  *)
(* order can still deliver.                                                *)
ReleaseOrder(o) ==
    /\ orders[o].wallet_state = "held"
    /\ ~Uncertain(o)
    /\ CanBecome(orders[o], "refunded")
    /\ Release(Owner[o], o, Price[o])
    /\ Notify(o, "refunded")

Released(order) ==
    [order EXCEPT !.status = "refunded", !.wallet_state = "released",
                  !.next_run_at = "none"]

-----------------------------------------------------------------------------
(* Every user starts with what the deposit service credited. *)
RentalInit ==
    /\ wallets = [u \in Users |-> [available |-> Deposited[u], frozen |-> 0]]
    /\ entries = {Entry(Key("credit", u), u, Deposited[u], 0) : u \in Users}
    /\ orders = [o \in Orders |-> NoOrder]
    /\ attempts = [o \in Orders |-> <<>>]
    /\ notes = [o \in Orders |-> {}]

(* reserve_order: one transaction creates the order and freezes its price; *)
(* with too little available it raises and nothing is stored.              *)
Reserve(o) ==
    /\ orders[o] = NoOrder
    /\ Hold(Owner[o], o, Price[o])
    /\ orders' = [orders EXCEPT ![o] = ReservedOrder]
    /\ UNCHANGED <<attempts, notes>>

(* cancel_order: the user may cancel until the purchase begins; the lease  *)
(* of a worker that already picked the order is left as it is.             *)
Cancel(o) ==
    /\ orders[o].status = "reserved"
    /\ ReleaseOrder(o)
    /\ orders' = [orders EXCEPT ![o] = Released(@)]
    /\ UNCHANGED attempts
=============================================================================
