CONSTANTS
  Keep = 3
  MaxLines = 1
  Times = {1, 2}
  Queries <- MCQueries
  MaxEvents = 4
  MaxFiles = 5
  MaxKills = 1
  MaxFaults = 1
SPECIFICATION Spec
INVARIANTS NoEventTwice PageIsWhole SinceIsComplete WrittenIsReadable
PROPERTIES OldestGoesFirst
CHECK_DEADLOCK FALSE
