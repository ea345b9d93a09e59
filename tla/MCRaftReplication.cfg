SPECIFICATION Spec
CONSTANTS
  n1 = n1
  n2 = n2
  n3 = n3
  Node = {n1, n2, n3}
  None = None
  Command <- DistinctCommands
  Proposals <- OneOverwrites
  NoCommand = NoCommand
  Campaigners <- Alternating
  MaxTerm = 2
  MaxIndex = 2
  MaxRpcs = 2
  MaxCrashes = 0
  CompactionThreshold = 9
  StaleAppends = FALSE
  CompactMidSend = FALSE
VIEW LiveState
INVARIANTS
  TypeOK
  StateMachineSafety
  AppliedWithinLog
  LogMatching
CHECK_DEADLOCK FALSE
