CONSTANTS
    w1 = w1
    w2 = w2
    x = x
    y = y
    Workers = {w1, w2}
    Items = {x, y}
    Sales <- MCSales
    Returns <- MCReturns
    MaxRequests = 4
SPECIFICATION Spec
INVARIANTS
    IInv
    ReturnedWithinSold
    RefundWithinRounding
    CanceledWhenAllReturned
    LiveNoteIsFlagged
CHECK_DEADLOCK FALSE
