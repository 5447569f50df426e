CONSTANTS
  Kinds = {"session", "router", "client"}
  HeadLen = 2
  MaxBody = 2
  MaxMsg = 3
SPECIFICATION FairSpec
INVARIANT Intact
PROPERTY EndsAtEof
CHECK_DEADLOCK FALSE
