----------------------------- MODULE MCDeposits -----------------------------
(* Small instances of Deposits for TLC. *)
EXTENDS Deposits

CONSTANTS
    alice, bob,         \* users
    d1, d2,             \* their deposits
    r1,                 \* a status command
    t1, t2              \* block transactions

MCPayers  == [d \in {d1, d2} |-> IF d = d1 THEN alice ELSE bob]
MCAmounts == [d \in {d1, d2} |-> 2]
=============================================================================
