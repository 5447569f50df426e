CONSTANTS
  Proc = {1, 2, 3, 4, 5, 6}
  InOrder = TRUE
  NServer = 1
  NTps = 1
  MaxStarts = 2
  MaxFaults = 2
  NoProc = NoProc
SPECIFICATION FairSpec
INVARIANT OneInstance
PROPERTIES NameLostOnlyToOrphan
  ServersUp
  CrewComplete
  OrphansEnd
CHECK_DEADLOCK FALSE
