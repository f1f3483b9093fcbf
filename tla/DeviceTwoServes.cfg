SPECIFICATION Spec
CONSTANTS
  p1 = p1 p2 = p2 p3 = p3 q1 = q1 c1 = c1
  NoRule = NoRule NoCache = NoCache NoKey = NoKey NoFile = NoFile Nobody = Nobody
  Items = {1}
  Serves = {p1, p2, p3}
  Cmds = {c1}
  Callers = {q1}
  MaxTime = 1
  MaxKey = 0
  MaxEvents = 0
  Keep = 0
  OlderThan = 0
  MaxFiles = 2
  MaxAsks = 0
  Straggles = TRUE
INVARIANTS OneServe
CHECK_DEADLOCK FALSE
