SPECIFICATION Spec
CONSTANTS
    Rows = 3
    Cols = 3
    MaxThreads = 3
INVARIANTS
    TypeOK
    EdgesAreThereOnce
    SearchReadsItsPlace
    WrittenInRasterOrder
    TileIsWholeOrFails
