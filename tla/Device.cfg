SPECIFICATION Spec
CONSTANTS
  p1 = p1 p2 = p2 p3 = p3 q1 = q1 c1 = c1
  NoRule = NoRule NoCache = NoCache NoKey = NoKey NoFile = NoFile Nobody = Nobody
  Items = {1, 2}
  Serves = {p1, p2}
  Cmds = {c1}
  Callers = {q1}
  MaxTime = 2
  MaxKey = 1
  MaxEvents = 2
  Keep = 1
  OlderThan = 0
  MaxFiles = 2
  MaxAsks = 1
  Straggles = FALSE
INVARIANTS OneServe AnswersTrue NothingHidden NoGhosts
SYMMETRY DeviceSymmetry
CHECK_DEADLOCK FALSE
