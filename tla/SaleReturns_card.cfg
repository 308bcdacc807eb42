CONSTANTS
    w1 = w1
    w2 = w2
    x = x
    y = y
    Workers = {w1}
    Items = {x, y}
    Sales <- MCSales
    Returns <- CardReturns
    MaxRequests = 4
SPECIFICATION Spec
INVARIANT CardRefundsCovered
CHECK_DEADLOCK FALSE
