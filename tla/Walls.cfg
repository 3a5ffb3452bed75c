SPECIFICATION WallFairSpec
CONSTANTS
    Ids = {b1}
    MaxWalls = 3
    MaxFaults = 2
INVARIANT WallTypeOK
INVARIANT PersistInv
PROPERTY RowsOnlyAdvance
PROPERTY FirstIsRecorded
