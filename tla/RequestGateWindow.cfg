\* TronowGate: two processes, three requests, limits that shrink and grow.
SPECIFICATION Spec
CONSTANTS
    p1 = p1
    p2 = p2
    r1 = r1
    r2 = r2
    r3 = r3
    Requests = {r1, r2, r3}
    Processes = {p1, p2}
    ProcessOf <- MCApart
    Creations = {r2, r3}
    Rolling = TRUE
    Second = 2
    RequestGap = 1
    OrderGap = 1
    RequestLimit = 2
    OrderLimit = 1
    Slots = 1
    Limits = {0, 1, 3}
    Pauses = {1, 3}
    LastArrival = 5
    MaxClock = 5
    Prompt = FALSE
INVARIANTS
    WindowHeld
    PausesHeld
\* Every request passes once, and the clock stops.
CHECK_DEADLOCK FALSE
