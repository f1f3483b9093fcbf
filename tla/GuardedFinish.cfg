SPECIFICATION Spec
CONSTANTS
  i1 = i1 i2 = i2 i3 = i3 k1 = k1 k2 = k2 k3 = k3 w1 = w1 a1 = a1 c1 = c1 c2 = c2
  NoKey = NoKey
  Items = {i1, i2, i3}
  Keys = {k1, k2}
  Words = {w1}
  Admins = {a1}
  Clients = {c1, c2}
  Sends <- OneSender
  Deletes = {i1}
  Stoppable = {c1, c2}
  OverlapChanges = FALSE
  OverlapRecovery = FALSE
  PartialRelease = FALSE
  Offered = {"set-up", "fresh-start", "words", "migrate", "rotate"}
  LateItems = {}
  Recoveries = {"finish"}
  MaxFaults = 1
INVARIANTS NothingLost UnlockedOpens
CHECK_DEADLOCK FALSE
