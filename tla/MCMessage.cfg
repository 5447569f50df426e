CONSTANTS
  Pxid = {u1, u2}
  NoPxid = NoPxid
  Worker = {w1}
  Room = 1
  OutRoom = 1
  MaxReq = 2
  MaxGen = 2
  MaxKill = 1
  MaxLogoff = 1
  Polling = FALSE
  Outcomes = {"reply", "list", "tell", "fail", "nosuch"}
  Moods = {"left"}
SPECIFICATION Spec
SYMMETRY Interchangeable
INVARIANTS RepliesToAsker SessionKeepsId
PROPERTY CallsPromise
CHECK_DEADLOCK FALSE
