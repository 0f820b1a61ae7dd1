SPECIFICATION FairSpec
CONSTANTS
    Height = 9
    NumStripes = 3
    Ends <- MCEnds
    Scale = 2
    Targets = 3
    Margin = 1
    NumLinks = 3
    Sealed <- MCSealed
    Final <- MCFinal
    Deblocks = TRUE
    MayFail = TRUE
    Readers = {"far"}
    Need <- MCNeed
INVARIANTS
    TypeOK
    ReadersSeeFilteredRows
    RowsHaveOneOwner
PROPERTIES
    FrameSettles
CHECK_DEADLOCK FALSE
