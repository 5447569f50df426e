CONSTANTS
  NHost = 2
  Gen = {g1, g2}
  NoGen = NoGen
  MaxDown = 2
  MaxFaults = 2
  Faults = {"parent", "kid", "fork"}
SPECIFICATION FairSpec
INVARIANTS TypeOK NameKept
PROPERTY EveryRouteConnected
CHECK_DEADLOCK FALSE
