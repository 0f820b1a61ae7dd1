SPECIFICATION FairSpec
CONSTANTS
    NumFrames = 5
    NumSlots = 1
    MaxRef = 1
    Depths = {1, 2}
    Limits = {0, 1}
    MaxFaults = 1
    Headers <- Menu
    DetachHeld = TRUE
    None = None
ACTION_CONSTRAINTS
    Bounds
INVARIANTS
    TypeOK
    NoInternalError
    BytesAreThoseStored
    DeliveredInOrder
    EarliestFailureIsReported
PROPERTIES
    DriveReturns
CHECK_DEADLOCK FALSE
