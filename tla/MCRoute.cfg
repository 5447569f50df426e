CONSTANTS
  Caller = {c1, c2}
  Self = Self
  NoName = NoName
  Worker = {w1}
  MaxSlot = 2
  MaxReq = 3
  MaxRun = 2
  MaxBreak = 1
  MaxKill = 2
  Impatient = TRUE
SPECIFICATION FairSpec
INVARIANTS RepeatOnlyAfterBreak NeverToEarlier
PROPERTIES RouteComesBack
CHECK_DEADLOCK FALSE
