SPECIFICATION FairSpec
CONSTANTS
    d1 = d1
    Workers = {w1}
    Drivers = {d1}
    Publishers = {e1}
    NumFrames = 2
    NumRows = 2
    Lag = 1
    Depth = 1
    Owner <- SoleDriver
    Needs <- Chain
    Failing = {1}
    Abandon = TRUE
PROPERTIES
    NothingWaitsForever
CHECK_DEADLOCK FALSE
