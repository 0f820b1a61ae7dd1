SPECIFICATION FairSpec
CONSTANTS
    NumFrames = 6
    NumSlots = 1
    MaxRef = 1
    Depths = {2}
    Limits = {0}
    MaxFaults = 0
    Headers <- InTurn
    DetachHeld = TRUE
    None = None
INVARIANTS
    DriverWaitsForWork
CHECK_DEADLOCK FALSE
