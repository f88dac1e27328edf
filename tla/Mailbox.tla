------------------------------ MODULE Mailbox ------------------------------
(***************************************************************************)
(* What the outbox promises the buyer of an order, with no sender, lease   *)
(* or retry in sight: the messages about the order are read for the first  *)
(* time in the order in which they were written, none is skipped, and each *)
(* is read in the end.  A message may come again; that is not seen here.   *)
(***************************************************************************)
EXTENDS Sequences, Naturals

CONSTANTS
    Orders,
    Messages    \* what may be written about an order

VARIABLES
    posted,     \* order -> its messages as they were written
    read        \* order -> its messages as they were first read

Init ==
    /\ posted = [o \in Orders |-> <<>>]
    /\ read = [o \in Orders |-> <<>>]

Post(o) ==
    /\ \E message \in Messages : posted' = [posted EXCEPT ![o] = Append(@, message)]
    /\ UNCHANGED read

Read(o) ==
    /\ Len(read[o]) < Len(posted[o])
    /\ read' = [read EXCEPT ![o] = Append(@, posted[o][Len(@) + 1])]
    /\ UNCHANGED posted

Next == \E o \in Orders : Post(o) \/ Read(o)

Spec ==
    /\ Init /\ [][Next]_<<posted, read>>
    /\ \A o \in Orders : WF_<<posted, read>>(Read(o))
=============================================================================
