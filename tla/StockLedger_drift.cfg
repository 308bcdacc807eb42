CONSTANTS
    w1 = w1
    w2 = w2
    a = a
    b = b
    Workers = {w1, w2}
    Products = {a, b}
    RequestsOf <- Shared
    MaxTx = 5
SPECIFICATION Spec
INVARIANT KeptInSync
