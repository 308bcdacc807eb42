CONSTANTS
    w1 = w1
    w2 = w2
    ana = ana
    maria = maria
    k1 = k1
    NoKey = NoKey
    NoCustomer = NoCustomer
    Workers = {w1, w2}
    Customers = {maria}
    Sellers = {ana}
    Keys = {k1}
    Programs <- MCPrograms
    InitialPoints <- MCPoints
    InputsOf <- OneCard
    MaxRequests = 3
SPECIFICATION Spec
INVARIANT ChargedOnce
