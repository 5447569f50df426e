CONSTANTS
  a1 = a1  a2 = a2
  t1 = t1  t2 = t2  t3 = t3
  c1 = c1  c2 = c2  c3 = c3
  MaxDevn = 2
  MaxSca = 2
  NTrd = 2
  Agent = {a1, a2}
  Thread = {t1, t2, t3}
  Client = {c1, c2, c3}
  Mortal = {}
  CreateFails = FALSE
  NoAgent = NoAgent
  NoThread = NoThread
  NoClient = NoClient
  Stale = Stale
SPECIFICATION Spec
SYMMETRY Interchangeable
INVARIANTS
  UsedSlotHasProcess
CHECK_DEADLOCK FALSE
