SPECIFICATION RepairedSpec
CONSTANTS
  None = None
  t1 = t1 e1 = e1 h1 = h1 title = title zap = zap
  Ids <- MC_Ids
  Tests = {t1}
  engagement <- MC_engagement
  algorithm <- MC_algorithm
  test_type <- MC_test_type
  InEngagement = {}
  Attrs <- MC_one
  CascadeDelete = FALSE
  MaxDupes = None
  MaxPerRun = 1
  CloseAsDuplicate = FALSE
  StalePages = FALSE
  CopyAcross = FALSE
  Workers = {w1, w2}
  Command = command
  MaxCrashes = 1
  MaxDepth = 50
INVARIANTS
  WorkersTypeOK
  SomeoneIsOriginal
PROPERTIES
  RepairSettles
  RepairKeepsTogether
  Heals
CHECK_DEADLOCK FALSE
