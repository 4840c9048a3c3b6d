SPECIFICATION RetrySpec
CONSTANTS
    Procs = {p1, p2}
    Readers = {p2}
    Times = {1, 2, 3, 4}
    Vals = {1}
    MaxRecs = 4
    BlockRecs = 2
    Nothing = Nothing
    Torn = Torn
    Blank = Blank
    Offered <- SteadyFeed
    MaxCrashes = 3
    Faults = {}
INVARIANTS AckedSurvive HandleIsCurrent HonestCrashIsNotRefused CommittedVerifies
PROPERTIES MonthIsCompleted
