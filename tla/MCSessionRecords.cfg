SPECIFICATION Spec
CONSTANTS
    NStages = 2
    MaxEvents = 10
    JournalBytes = 13
    MaxStack = 2
    MaxNotes = 1
INVARIANTS
    RecordsAgree
    ReportHonest
CHECK_DEADLOCK FALSE
