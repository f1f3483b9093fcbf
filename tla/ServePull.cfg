SPECIFICATION FairPullSpec
CONSTANTS
  t1 = t1 t2 = t2 m1 = m1
  Nothing = Nothing
  Texts = {t1}
  Images = {m1}
  Links = {t1}
  Blank = {}
  SendImages = TRUE
  WriteDepth = 1
  QueueDepth = 1
  Ids = {1, 2, 3}
  Content <- TextAndImage
  Foreign = {1, 2, 3}
  Files = {2}
  InParts = {2, 3}
  LastKey = 1
  MaxEvents = 2
INVARIANTS NoEcho AppliedOnce 
PROPERTIES NeverBack CatchesUp
CHECK_DEADLOCK FALSE
