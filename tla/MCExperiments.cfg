CONSTANTS
  Plans <- MCPlans
  Query <- MCQuery
  K = 1
SPECIFICATION FairSpec
VIEW View
CHECK_DEADLOCK FALSE
INVARIANTS
  IntendedIsScored
  ListedIsHeld
  GateMeansIndexed
  QuietAfterChaos
  ResultsAreWhole
  NoFalseAlarm
  RecoveryIsTrue
  DissociationIsReal
  RankTestsAgree
  KillsAreRecorded
  HealingIsReal
PROPERTIES
  RunEnds
