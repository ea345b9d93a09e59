SPECIFICATION Spec
CONSTANTS
  n1 = n1
  n2 = n2
  n3 = n3
  Node = {n1, n2, n3}
  None = None
  Command <- DistinctCommands
  Proposals <- Distinct
  NoCommand = NoCommand
  Campaigners <- Alternating
  MaxTerm = 2
  MaxIndex = 2
  MaxRpcs = 2
  MaxCrashes = 0
  CompactionThreshold = 9
  StaleAppends = TRUE
  CompactMidSend = FALSE
VIEW LiveState
INVARIANTS
  AppliedWithinLog
CHECK_DEADLOCK FALSE
