---------------------------- MODULE MCReadCache ----------------------------
(* Small instances of ReadCache for TLC. *)
EXTENDS ReadCache

CONSTANTS
    p1, p2,             \* processes
    r1, r2,             \* readers
    b1                  \* a buyer

MCApart == [r \in {r1, r2} |-> IF r = r1 THEN p1 ELSE p2]
=============================================================================
