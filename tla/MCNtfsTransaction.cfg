\* Two interferences by others in every place.
SPECIFICATION FairSpec
CONSTANTS MaxUpsets = 2
INVARIANTS
    StaleWritesNothing
    SurvivesPowerLoss
    HonestVerdict
    SuccessIsComplete
PROPERTIES
    KeepsPromise
    TransactionEnds
\* Nothing happens any more once a verdict is out or the power is gone.
CHECK_DEADLOCK FALSE
