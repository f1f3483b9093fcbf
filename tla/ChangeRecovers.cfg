SPECIFICATION FairSpec
CONSTANTS
  i1 = i1 i2 = i2 k1 = k1 k2 = k2 k3 = k3 w1 = w1 w2 = w2 a1 = a1 a2 = a2
  NoKey = NoKey
  Items = {i1}
  Keys = {k1, k2}
  Words = {w1}
  Admins = {a1, a2}
  OverlapChanges = TRUE
  OverlapRecovery = FALSE
  PartialRelease = FALSE
  Offered = {"set-up", "fresh-start", "words", "migrate", "rotate"}
  LateItems = {i1}
  Recoveries = {"finish", "undo"}
  MaxFaults = 1
INVARIANTS OneChange
PROPERTIES Recovers
CHECK_DEADLOCK FALSE
