SPECIFICATION CommandSpec
CONSTANTS
  i1 = i1 i2 = i2 k1 = k1 k2 = k2 k3 = k3 w1 = w1 w2 = w2 a1 = a1 a2 = a2
  NoKey = NoKey
  Items = {i1, i2}
  Keys = {k1, k2, k3}
  Words = {w1, w2}
  Admins = {a1}
  Devices = {a1, a2}
  OverlapChanges = FALSE
  OverlapRecovery = FALSE
  PartialRelease = TRUE
  Offered = {"set-up", "fresh-start", "words", "migrate", "rotate"}
  LateItems = {i2}
  Recoveries = {"finish", "undo"}
  MaxFaults = 2
SYMMETRY Alike
INVARIANTS TypeOK NothingLost UnlockedOpens UnlockedSealed KeysLast
CHECK_DEADLOCK FALSE
