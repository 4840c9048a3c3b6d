CONSTANTS
  NFeeds = 2
  LastMonth = 2
  Instruments = 2
  MaxAttempts = 2
  DryRounds = 2
  Rereads = 1
  StallRetries = 1
  StoreProbes = 1
  DownAt = 2
  MaxTroubled = 2
  MaxEvents = 1
SPECIFICATION FairSpec
INVARIANTS OnePullPerFeed OneRoundPerPress DeadTokenIsReread
PROPERTIES DeadFeedRests BackOnlyWhenIdle LadderEnds
CHECK_DEADLOCK FALSE
