SPECIFICATION Spec
CONSTANTS
  d1 = d1 d2 = d2 d3 = d3
  Nobody = Nobody
  Loads = {d1, d2, d3}
  Ways <- AnyWay
  MaxNumber = 1
  Pieces = 2
  MaxTouches = 2
  Overlap = FALSE
SYMMETRY Symmetric
INVARIANTS FinalsWhole PartsOwned OwnNames
PROPERTIES NothingReplaced
CHECK_DEADLOCK FALSE
