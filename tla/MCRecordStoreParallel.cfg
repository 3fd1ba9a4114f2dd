SPECIFICATION StoreSpec
CONSTANTS
    Session = {s1, s2, s3}
    None = None
    MaxSessions = 3
    SessionBytes = 2
    SummaryBytes = 2
    StoreBytes = 11
SYMMETRY Symmetry
INVARIANT WithinQuota
CHECK_DEADLOCK FALSE
