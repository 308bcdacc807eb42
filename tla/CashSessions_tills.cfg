CONSTANTS
    w1 = w1
    w2 = w2
    ana = ana
    low = low
    high = high
    NotCounted = NotCounted
    Workers = {w1, w2}
    Users = {ana}
    Amounts = {low, high}
    RequestsOf <- MCRequests
    InitStores = 2
    PoolSize = 2
    MaxRequests = 4
SPECIFICATION FairSpec
INVARIANTS
    IInv
    OneOpenPerUser
    LateEntriesWereInFlight
    LastStoreStays
PROPERTIES
    CountIsFinal
    OpensWhereUsable
    EveryRequestAnswered
