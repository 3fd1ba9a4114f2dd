\* Every kind of plan; five mounts at a time hold the protected EFI
\* layout (root, stage, base, vendor) and one foreign mount.
SPECIFICATION LiveSpec
CONSTANTS
    Plans <- AllPlans
    MaxIds = 5
    MaxTrouble = 2
INVARIANTS
    CleanupTruthful
    EspShielded
    NtfsNeverFallsBack
PROPERTIES
    OnlyOwnedUnmounted
    CallsEnd
\* The engine stops after cleanup, or before anything when /mnt is in use.
CHECK_DEADLOCK FALSE
