SPECIFICATION ScanSpec
CONSTANTS
  None = None
  t1 = t1 t2 = t2 t3 = t3 e1 = e1 e2 = e2 e3 = e3
  h1 = h1 u1 = u1 x = x y = y title = title zap = zap sast = sast
  Ids <- MC_Ids3
  Tests = {t1, t2, t3}
  engagement <- MC_engagement
  algorithm <- MC_mixed
  test_type <- MC_test_type
  InEngagement <- MC_InEngagement
  Attrs <- MC_mix
  CascadeDelete = FALSE
  MaxDupes = 1
  MaxPerRun = 1
  CloseAsDuplicate = FALSE
  StalePages = FALSE
  CopyAcross = FALSE
INVARIANTS
  Deduplicated
PROPERTIES
  QueueDrains
CHECK_DEADLOCK FALSE
