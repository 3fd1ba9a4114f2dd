SPECIFICATION Worker
CONSTANTS
    MaxChanges = 3
    Cluster = 4
    PerCluster = 2
    LongName = 3
    Headroom = 5
    MaxCount = 5
    MaxDepth = 3
    MaxBytes = 12
    Sizes = {0, 1, 4, 5}
    Free <- MCFree
INVARIANTS EligibleIsThePlans SufficientFits
CHECK_DEADLOCK FALSE
