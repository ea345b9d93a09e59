SPECIFICATION FairSpec
CONSTANTS
  c1 = c1
  c2 = c2
  s1 = s1
  s2 = s2
  r1 = r1
  r2 = r2
  Coordinator = {c1, c2}
  Shard = {s1, s2}
  Replica = {r1, r2}
  InitialShards = {s1}
  InitialPrimary = r1
  AddedPrimaries <- FirstOnly
  Requested <- OneMoves
  CompactionThreshold = 1
  ReAdd = FALSE
  MaxCommands = 2
  MaxRequests = 1
  MaxFree = 2
  MaxRestarts = 1
VIEW LiveState
PROPERTIES
  CatchesUp
CHECK_DEADLOCK FALSE
