CONSTANTS
  Pxid = {u1, u2}
  NoPxid = NoPxid
  Worker = {w1, w2}
  MaxRoom = 3
  NoWorker = NoWorker
  Killed = Killed
SPECIFICATION Spec
SYMMETRY Interchangeable
INVARIANT RoomsDisjoint
PROPERTIES DeleteKeepsOthers TalkSentOrRefused
CHECK_DEADLOCK FALSE
