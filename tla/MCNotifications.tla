-------------------------- MODULE MCNotifications --------------------------
(* Small instances of Notifications for TLC. *)
EXTENDS Notifications

CONSTANTS
    o1,         \* an order
    s1, s2      \* senders

MCOneStory == [o \in {o1} |-> Events]
=============================================================================
