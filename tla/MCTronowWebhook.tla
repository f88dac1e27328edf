-------------------------- MODULE MCTronowWebhook --------------------------
(* Small instances of TronowWebhook for TLC. *)
EXTENDS TronowWebhook

CONSTANTS
    o1,             \* orders
    d1, d2,         \* deliveries
    h1, h2          \* requests

MCOneOrder == [d \in {d1, d2} |-> o1]
=============================================================================
