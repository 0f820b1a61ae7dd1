SPECIFICATION FairSpec
CONSTANTS
    d1 = d1
    Workers = {w1, w2}
    Drivers = {d1}
    Publishers = {}
    NumFrames = 1
    NumRows = 1
    Lag = 1
    Depth = 1
    Owner <- SoleDriver
    Needs <- Chain
    Failing = {}
    Abandon = FALSE
PROPERTY FinishedFramesLeave
CHECK_DEADLOCK FALSE
