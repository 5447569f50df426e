CONSTANTS
  a1 = a1  a2 = a2
  t1 = t1  t2 = t2
  c1 = c1  c2 = c2
  MaxDevn = 2
  MaxSca = 1
  NTrd = 2
  Agent = {a1, a2}
  Thread = {t1, t2}
  Client = {c1, c2}
  Mortal = {a1}
  CreateFails = TRUE
  MaxRestart = 1
  NoAgent = NoAgent
  NoThread = NoThread
  NoClient = NoClient
  Stale = Stale
SPECIFICATION RFairSpec
ACTION_CONSTRAINT InOrder
INVARIANTS
  OneGeneration
  CleanStart
PROPERTIES
  QueuedResolved
  
  OrphansGone
CHECK_DEADLOCK FALSE
