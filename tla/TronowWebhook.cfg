\* Two deliveries for one order, one of them without our number, and two
\* requests that are handled side by side.
SPECIFICATION FairSpec
CONSTANTS
    o1 = o1
    d1 = d1
    d2 = d2
    h1 = h1
    h2 = h2
    None = None
    Orders = {o1}
    Deliveries = {d1, d2}
    OrderOf <- MCOneOrder
    Named = {d2}
    Requests = {h1, h2}
INVARIANTS
    AcknowledgedIsWoken
PROPERTIES
    CommittedTogether
    DeliveriesArePolled
\* When everything is acknowledged and settled, nothing happens.
CHECK_DEADLOCK FALSE
