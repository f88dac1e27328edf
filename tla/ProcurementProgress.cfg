\* One provider, two workers: held orders get an answer and deliveries are
\* charged although leases are lost, workers crash and calls fail.
SPECIFICATION FairSpec
CONSTANTS
    alice = alice
    o1 = o1
    o2 = o2
    w1 = w1
    w2 = w2
    tronow = tronow
    tronbid = tronbid
    None = None
    Users <- MCUsers
    Orders = {o1}
    Owner <- MCOneOwner
    Price <- MCOnePrice
    Deposited <- MCDeposited
    Workers = {w1, w2}
    Providers = {tronow, tronbid}
    Lookup = {tronow}
    Supports <- MCBothSupport
    Configurations <- MCTronowOnly
    MaxSubmitAttempts = 1
    QuoteRetryLimit = 1
    MaxAttempts = 1
PROPERTIES
    HeldOrdersGetAnAnswer
    DeliveriesAreCharged
\* Once every order is settled the system rests.
CHECK_DEADLOCK FALSE
