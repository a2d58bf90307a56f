SPECIFICATION Spec
CONSTANTS
  None = None
  e1 = e1 e2 = e2 zap = zap h1 = h1 h2 = h2 w1 = w1 w2 = w2
  Ids = {1, 2, 3}
  Imports = {1, 2}
  Targets <- MCTargets
  Hashes = {h1, h2}
  Uids = {}
  Requests <- MCRequests
  ChunkSize = 1
  algorithm <- MCAlgorithm
  Retroactive = TRUE
  Workers = {w1, w2}
  MaxDecisions = 2
INVARIANTS
  PresentStays
  AbsentIsClosed
  HistoryHolds
SYMMETRY MCSymmetry
CHECK_DEADLOCK FALSE
