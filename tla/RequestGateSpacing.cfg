\* UpstreamGate: one tick between requests, two between orders, with
\* fairness.
SPECIFICATION FairSpec
CONSTANTS
    p1 = p1
    p2 = p2
    r1 = r1
    r2 = r2
    r3 = r3
    Requests = {r1, r2, r3}
    Processes = {p1, p2}
    ProcessOf <- MCApart
    Creations = {r2, r3}
    Rolling = FALSE
    Second = 2
    RequestGap = 1
    OrderGap = 2
    RequestLimit = 2
    OrderLimit = 1
    Slots = 1
    Limits = {0}
    Pauses = {1, 3}
    LastArrival = 3
    MaxClock = 9
    Prompt = TRUE
INVARIANTS
    SpacingHeld
    SlotsBalanced
PROPERTIES
    GateMovesOn
\* Every request passes once, and the clock stops.
CHECK_DEADLOCK FALSE
