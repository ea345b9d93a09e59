SPECIFICATION MCSpec
CONSTANTS
  t1 = t1
  t2 = t2
  k1 = k1
  k2 = k2
  v1 = v1
  v2 = v2
  m1 = m1
  m2 = m2
  Thread = {t1, t2}
  Key = {k1, k2}
  Vector = {v1, v2}
  Metadata = {m1, m2}
  Blank = Blank
  Requested <- Mixed
  MaxCalls = 4
  MaxCrashes = 1
  Scenes <- MCScenes
  FAILURES_BEFORE_FAILOVER = 2
SYMMETRY ThreadSymmetry
INVARIANTS
  OutcomeStands
  ReadsBack
  StoredStands
  RemovedStands
  FencedOut
  FailoverKeepsWrites
CHECK_DEADLOCK FALSE
