SPECIFICATION BeatSpec
CONSTANTS
  None = None
  t1 = t1 t2 = t2 t3 = t3 e1 = e1 e2 = e2 e3 = e3
  h1 = h1 u1 = u1 x = x y = y title = title zap = zap sast = sast
  Ids <- MC_Ids3
  Tests = {t1, t2, t3}
  engagement <- MC_engagement
  algorithm <- MC_hash_code
  test_type <- MC_test_type
  InEngagement <- MC_InEngagement
  Attrs <- MC_one
  CascadeDelete = FALSE
  MaxDupes = 0
  MaxPerRun = 1
  CloseAsDuplicate = FALSE
  StalePages = FALSE
  CopyAcross = FALSE
INVARIANTS
  NoTransitiveDuplicates
  ScopeRespected
PROPERTIES
  ClusterSurvives
  OpenFindingNotHidden
  ClusterMovesTogether
  ImplementsPartition
  ExcessRemoved
CHECK_DEADLOCK FALSE
