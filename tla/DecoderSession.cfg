SPECIFICATION FairSpec
CONSTANTS
    Capacity = 2
    MaxInput = 4
    Shown <- Reordered
    MayFail = TRUE
    MayPanic = TRUE
INVARIANTS
    TypeOK
    UnitsInOrder
    PicturesInOrder
    NoneAsksForData
    DrainedGivesEverything
PROPERTIES
    CallsReturn
