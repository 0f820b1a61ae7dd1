SPECIFICATION Spec
CONSTANTS
    d1 = d1
    Workers = {w1, w2}
    Drivers = {d1}
    Publishers = {}
    NumFrames = 3
    NumRows = 2
    Lag = 1
    Depth = 2
    Owner <- SoleDriver
    Needs <- Chain
    Failing = {1}
    Abandon = FALSE
SYMMETRY WorkerSymmetry
CHECK_DEADLOCK FALSE
INVARIANTS
    TypeOK
    OneRowAtATime
    RowsRunAfterTheirInputs
    ReusedSlotIsUnreachable
    NoWakeupIsLost
PROPERTIES
    ImplementsRowPipeline
