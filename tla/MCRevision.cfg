CONSTANTS
  p1 = p1
  p2 = p2
  Processes = {p1, p2}
  SourceTimes <- MCTimes
  Offers <- MCOffers
  MaxCalls = 4
  MaxFails = 2
  MaxLosses = 2
SPECIFICATION Spec
SYMMETRY Symmetry
INVARIANTS PublishedSurvives OrdinalIsImmutable
CHECK_DEADLOCK FALSE
