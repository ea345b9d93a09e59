SPECIFICATION Spec
CONSTANTS
  Thread = {t1, t2}
  Id = {i1, i2}
  NoEntry = NoEntry
  MaxLayer = 1
  CountLimit = 8
  MaxCalls = 2
  MaxDeletes = 0
  MaxCrashes = 0
SYMMETRY Alike
INVARIANTS
  InsertIsThreadSafe
CHECK_DEADLOCK FALSE
