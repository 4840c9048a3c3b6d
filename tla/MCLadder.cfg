SPECIFICATION LadderSpec
CONSTANTS
    Spans = {"second", "day"}
    Longest = 6
    Len <- MCLen
    Ceiling <- MCCeiling
    MaxCeiling = 2
    SuccessesPerStep = 2
    BackoffSteps = 2
    ThrottleAttempts = 6
    ServerErrorAttempts = 5
    MaxAdmissionWaits = 3
    Blip = 1
    Pause = 4
    Slack = 1
INVARIANTS EveryRequestIsPaid RateRefusalIsFelt DownIsMeasured OneWaitIsEnough
