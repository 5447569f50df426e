CONSTANTS
  Pxid = {u1, u2}
  NoPxid = NoPxid
  Worker = {w1}
  Room = 1
  OutRoom = 1
  MaxReq = 3
  MaxGen = 1
  MaxKill = 0
  MaxLogoff = 0
  Polling = TRUE
  Outcomes = {"tell","reply"}
  Moods = {"silent"}
SPECIFICATION FairSpec
INVARIANT HaltsInCircle
PROPERTIES Answered SilentClientDropped
CHECK_DEADLOCK FALSE
