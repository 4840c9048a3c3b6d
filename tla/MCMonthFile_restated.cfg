SPECIFICATION Spec
CONSTANTS
    Procs = {p1, p2}
    Readers = {p1, p2}
    Times = {1, 2, 3}
    Vals = {1, 2}
    MaxRecs = 3
    BlockRecs = 2
    Nothing = Nothing
    Torn = Torn
    Blank = Blank
    Offered <- RestatedFeed
    MaxCrashes = 2
    Faults = {"torn_slot"}
PROPERTIES LogSpec
