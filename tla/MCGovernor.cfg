SPECIFICATION Spec
CONSTANTS
    Spans = {"second", "day"}
    Longest = 5
    Len <- MCLen
    Ceiling <- MCCeiling
    MaxCeiling = 4
    SuccessesPerStep = 2
    BackoffSteps = 2
    MaxTime = 7
    MaxSkew = 2
INVARIANTS NeverOverCeiling RefusalIsObeyed WaitIsExact
PROPERTIES WaitSuffices RiseIsEarned
