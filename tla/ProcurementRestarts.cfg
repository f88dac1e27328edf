\* The process restarts with other providers configured.
SPECIFICATION Spec
CONSTANTS
    alice = alice
    o1 = o1
    o2 = o2
    w1 = w1
    w2 = w2
    tronow = tronow
    tronbid = tronbid
    None = None
    Users <- MCUsers
    Orders = {o1}
    Owner <- MCOneOwner
    Price <- MCOnePrice
    Deposited <- MCDeposited
    Workers = {w1}
    Providers = {tronow, tronbid}
    Lookup = {tronow}
    Supports <- MCBothSupport
    Configurations <- MCReconfigured
    MaxSubmitAttempts = 2
    QuoteRetryLimit = 2
    MaxAttempts = 2
INVARIANTS
    AtMostOneLivePurchase
\* Once every order is settled the system rests.
CHECK_DEADLOCK FALSE
