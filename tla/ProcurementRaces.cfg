\* One order, two workers, both providers: every race between a worker and
\* the one that takes over its order, alone and against the abstract escrow.
SPECIFICATION Spec
CONSTANTS
    alice = alice
    o1 = o1
    o2 = o2
    w1 = w1
    w2 = w2
    tronow = tronow
    tronbid = tronbid
    None = None
    Users <- MCUsers
    Orders = {o1}
    Owner <- MCOneOwner
    Price <- MCOnePrice
    Deposited <- MCDeposited
    Workers = {w1, w2}
    Providers = {tronow, tronbid}
    Lookup = {tronow}
    Supports <- MCBothSupport
    Configurations <- MCBothConfigured
    MaxSubmitAttempts = 2
    QuoteRetryLimit = 1
    MaxAttempts = 2
SYMMETRY WorkerSymmetry
INVARIANTS
    TypeOK
    NoRefundWhileUpstreamMayDeliver
    AtMostOneLivePurchase
    ChargedOnlyForDelivery
    PostsWithinBudget
    HeldOrdersStayScheduled
    EachProviderTriedOnce
    UserIsTold
PROPERTIES
    OnlyLeaseHolderWrites
    SettledOrdersStaySilent
    ImplementsEscrow
\* Once every order is settled the system rests.
CHECK_DEADLOCK FALSE
