\* One order and two senders that fail, crash and lose their leases:
\* everything arrives, in order.
SPECIFICATION FairSpec
CONSTANTS
    o1 = o1
    s1 = s1
    s2 = s2
    None = None
    Orders = {o1}
    Story <- MCOneStory
    Senders = {s1, s2}
INVARIANTS
    ReadInOrder
PROPERTIES
    LateSendersWriteNothing
    ImplementsMailbox
    EverythingIsSent
\* When every event has been sent the senders find nothing.
CHECK_DEADLOCK FALSE
