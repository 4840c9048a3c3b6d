CONSTANTS
  NFeeds = 1
  LastMonth = 1
  Instruments = 1
  MaxAttempts = 2
  DryRounds = 2
  Rereads = 1
  StallRetries = 1
  StoreProbes = 1
  DownAt = 2
  MaxTroubled = 0
  MaxEvents = 0
SPECIFICATION Spec
INVARIANT IdleIsComplete
CHECK_DEADLOCK FALSE
