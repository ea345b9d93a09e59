SPECIFICATION Spec
CONSTANTS
  n1 = n1
  n2 = n2
  n3 = n3
  Node = {n1, n2, n3}
  None = None
  Command <- DistinctCommands
  Proposals <- Distinct
  NoCommand = NoCommand
  Campaigners <- ThenOthers
  MaxTerm = 4
  MaxIndex = 1
  MaxRpcs = 2
  MaxCrashes = 1
  CompactionThreshold = 9
  StaleAppends = FALSE
  CompactMidSend = FALSE
VIEW LiveState
SYMMETRY FollowerSymmetry
ACTION_CONSTRAINT ElectionCases
INVARIANTS
  LeaderCompleteness
  ElectionSafety
PROPERTIES
  VotesAreStable
CHECK_DEADLOCK FALSE
