SPECIFICATION FairSpec
CONSTANTS
    NumFrames = 3
    Workers = {w1, w2}
    Depth = 2
    Ref <- Chained
    Rows = 1
    Cols = 1
    BatchUnits = 4
    Stripes = 2
    Reach = 0
    Faulty <- ParseMayFail
PROPERTY ReserveReturns
CHECK_DEADLOCK FALSE
