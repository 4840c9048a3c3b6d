SPECIFICATION Spec
CONSTANTS
    Times = {1, 2, 3, 4}
    Vals = {1, 2}
    MaxRecs = 4
    MaxBatch = 3
    BlockRecs = 2
    Nothing = Nothing
    Torn = Torn
CHECK_DEADLOCK FALSE
INVARIANTS DecisionIsRight
