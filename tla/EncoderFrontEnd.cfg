SPECIFICATION Spec
CONSTANTS
    NumSlots = 8
    MaxGop = 32
    None = None
    FrameBits = 2
    MaxFrameBits = 4
    FirstPass <- MCFirstPass
    PlanCap = 64
    Under = 3
    Over = 4
    MaxInt = 15
    Settings <- MCSettings
    Backlog = 1
    OrderHintBits = 8
    ShowBits = 1
INVARIANTS
    TypeOK
    UnitsShowFramesInOrder
    CodedAsDecoded
    PlanFollowsTheInput
    SpendingIsCharged
CHECK_DEADLOCK FALSE
