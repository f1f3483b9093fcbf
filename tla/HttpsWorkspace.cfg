SPECIFICATION FairSpec
CONSTANTS
  d1 = d1 d2 = d2 w1 = w1
  NoSession = NoSession
  NoReq = NoReq
  Contents = {1}
  Admins = {d1, d2}
  Writers = {w1}
  MaxKey = 2
  MaxPuts = 1
  Deletes = {1}
  MaxEvents = 2
INVARIANTS NothingLost OneKey HeaderOpens CopiesWhole
PROPERTIES RewriteEnds
CHECK_DEADLOCK FALSE
