SPECIFICATION FairSpec
CONSTANTS
  t1 = t1 NoJob = NoJob
  Paths = {1, 2}
  Texts = {t1}
  MaxVersion = 2
  QueueDepth = 1
  MaxDelay = 2
  MaxEvents = 5
INVARIANTS RemovedIsStored
PROPERTIES SendsAll Stops
CHECK_DEADLOCK FALSE
