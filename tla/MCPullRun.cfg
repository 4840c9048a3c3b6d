CONSTANTS
  p1 = p1
  dhan = dhan
  groww = groww
  Runs = {p1}
  Feeds = {dhan, groww}
  Legs <- MCLegs
  MaxPasses = 4
  CleanEmptyPasses = 2
  MaxPanics = 1
SPECIFICATION FairSpec
INVARIANTS IdleIsObserved LegsAddUp
PROPERTIES CleanLegsRest LadderHolds RunEnds
CHECK_DEADLOCK FALSE
