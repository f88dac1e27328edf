\* Two deposits of two users, a status command that runs beside them, and
\* callbacks that may name the other deposit's payment; the gateway repeats
\* the true callback until it is acknowledged.
SPECIFICATION FairSpec
CONSTANTS
    alice = alice
    bob = bob
    d1 = d1
    d2 = d2
    r1 = r1
    t1 = t1
    t2 = t2
    None = None
    Users = {alice, bob}
    Intents = {d1, d2}
    Payer <- MCPayers
    Amount <- MCAmounts
    Actuals = {2, 3}
    Txids = {t1, t2}
    Readers = {r1}
    Foreign = TRUE
INVARIANTS
    CreditedExactlyOnce
    AcknowledgedIsDecided
PROPERTIES
    DecisionsStand
    PaymentsAreDecided
