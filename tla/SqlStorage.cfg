SPECIFICATION MCSpec
CONSTANTS
    MaxLeafCells = 3
    MaxInternalCells = 3
    Value = {a, b}
    Inserted = {a}
    PageTableLike = {b}
    Gone = gone
    MaxStatements = 3
    MaxCrashes = 3
    MaxRows = 2
    Schema <- Columns
    Contents <- TableRows
    Question <- Typeable
    Typed <- Line
CONSTRAINT Explored
INVARIANTS  TreeConsistent TypedIsAnswered
CHECK_DEADLOCK FALSE
