\* Two orders of one user compete for a balance that does not cover both:
\* the ledger against the orders.
SPECIFICATION Spec
CONSTANTS
    alice = alice
    o1 = o1
    o2 = o2
    w1 = w1
    w2 = w2
    tronow = tronow
    tronbid = tronbid
    None = None
    Users <- MCUsers
    Orders = {o1, o2}
    Owner <- MCTwoOwners
    Price <- MCTwoPrices
    Deposited <- MCShort
    Workers = {w1}
    Providers = {tronow, tronbid}
    Lookup = {tronow}
    Supports <- MCMixedSupport
    Configurations <- MCBothConfigured
    MaxSubmitAttempts = 1
    QuoteRetryLimit = 1
    MaxAttempts = 2
INVARIANTS
    LedgerMatchesOrders
    LedgerBalances
\* Once every order is settled the system rests.
CHECK_DEADLOCK FALSE
