SPECIFICATION MCSpec
CONSTANTS
    c1 = c1
    c2 = c2
    n1 = n1
    n2 = n2
    i1 = i1
    Commands <- MCCommands
    Timed <- MCTimed
    Transactions <- MCTransactions
    Requests <- MCRequests
    MaxThreads = 2
INVARIANTS
    NothingOutlivesRun
    OneAtATime
    StatusAccounts
    IdleMeansQuiet
PROPERTIES
    WorkerSpared
    SessionReturns
