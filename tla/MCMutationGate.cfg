SPECIFICATION MCSpec
CONSTANTS
    t1 = t1
    t2 = t2
    Tables <- MCTables
    MaxSeq = 2
    MaxOut = 1
INVARIANTS
    ApprovedTarget
    RefusalIsClean
    VerdictSound
PROPERTIES
    KilledOnlyByTimer
    HelperTerminates
    EngineReclaimed
