SPECIFICATION Spec
CONSTANTS
  n1 = n1
  n2 = n2
  n3 = n3
  Node = {n1, n2, n3}
  None = None
  Command <- DistinctCommands
  Proposals <- Distinct
  NoCommand = NoCommand
  Campaigners <- OnlyN1
  MaxTerm = 2
  MaxIndex = 2
  MaxRpcs = 2
  MaxCrashes = 2
  CompactionThreshold = 1
  StaleAppends = FALSE
  CompactMidSend = FALSE
VIEW LiveState
SYMMETRY FollowerSymmetry
ACTION_CONSTRAINT SnapshotCases
INVARIANTS
  StateMachineSafety
  AppliedIndexed
CHECK_DEADLOCK FALSE
