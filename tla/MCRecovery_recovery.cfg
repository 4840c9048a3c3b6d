CONSTANTS
  d1 = d1
  first = first
  successor = successor
  NoPlan = NoPlan
  Days = {d1}
  Plans = {first, successor}
  Windows <- MCWindows
  Pred <- MCPred
  Limit = 2
  MaxFaults = 1
  MaxLosses = 1
SPECIFICATION Spec
INVARIANTS SlotIsHeldByRun StopIsPrompt
PROPERTIES KeepsBudget FinishedIsSettled RecordedStopHolds
