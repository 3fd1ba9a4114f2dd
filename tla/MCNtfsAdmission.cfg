SPECIFICATION EvidenceSpec
CONSTANTS
    Size = 4
    Target = 3
    Slack = 1
    Tools = {"old", "new"}
    Qualified = {"new"}
    MaxChanges = 1
    MaxStrays = 1
INVARIANTS OneVolume ResizesTheConfirmed
CHECK_DEADLOCK FALSE
