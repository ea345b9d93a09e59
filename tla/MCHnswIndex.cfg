SPECIFICATION Spec
CONSTANTS
  Thread = {t1, t2}
  Id = {i1, i2, i3}
  NoEntry = NoEntry
  MaxLayer = 1
  CountLimit = 8
  MaxCalls = 4
  MaxDeletes = 1
  MaxCrashes = 1
SYMMETRY Alike
ACTION_CONSTRAINT CrashCases
INVARIANTS
  InsertedIsFound
  EntryOwnsTopLayer
  CountIsLive
  UnreachableIsUnfound
CHECK_DEADLOCK FALSE
