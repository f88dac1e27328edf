\* Two processes that share the row, a reader in each, and a purchase.
SPECIFICATION FairSpec
CONSTANTS
    p1 = p1
    p2 = p2
    r1 = r1
    r2 = r2
    b1 = b1
    None = None
    Processes = {p1, p2}
    Readers = {r1, r2}
    ProcessOf <- MCApart
    Buyers = {b1}
    MaxVersion = 2
INVARIANTS
    CacheIsCurrent
    ReadsAreCurrent
PROPERTIES
    ReadersAreAnswered
