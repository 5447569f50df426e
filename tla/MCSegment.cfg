CONSTANTS
  k1 = k1  k2 = k2
  g1 = g1
  MaxStart = 3
  Kid = {k1, k2}
  Prog = {g1}
  MaxFault = 2
  NoProc = NoProc
SPECIFICATION FairSpec
INVARIANTS OneRuler KeyLeadsToRuler SegmentPerGeneration
PROPERTIES SegmentsFreed
CHECK_DEADLOCK FALSE
