SPECIFICATION StoreSpec
CONSTANTS
    Session = {s1, s2, s3, s4}
    None = None
    MaxSessions = 3
    SessionBytes = 2
    SummaryBytes = 1
    StoreBytes = 8
SYMMETRY Symmetry
INVARIANTS QuotaKept LiveReserved
CHECK_DEADLOCK FALSE
