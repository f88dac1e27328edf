--------------------------- MODULE MCRequestGate ---------------------------
(* Small instances of RequestGate for TLC. *)
EXTENDS RequestGate, TLC

CONSTANTS
    p1, p2,             \* processes
    r1, r2, r3          \* requests

MCApart == [r \in {r1, r2, r3} |-> IF r = r1 THEN p1 ELSE p2]
=============================================================================
