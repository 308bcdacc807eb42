CONSTANTS
    f1 = f1
    f2 = f2
    Flushes = {f1, f2}
    Till = Till
    MaxSales = 2
    MaxFaults = 2
SPECIFICATION Spec
INVARIANT AttentionMeansRejected
