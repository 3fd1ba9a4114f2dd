SPECIFICATION FairSpec
CONSTANTS MaxTries = 3
INVARIANTS
    StrayFormatsBounded
    SuccessInstalled
PROPERTIES
    KeepsPromise
    InstallEnds
