CONSTANTS
  Probe = {p1}
  Local = local
  Value = {x, y}
  NoValue = none
  Consensus <- MCConsensus
  FirstMode = "external"
  SuccessThreshold = 2
  FailureThreshold = 1
  MaxReports = 2
  MaxRounds = 3
  MaxEvents = 1
SPECIFICATION Spec
CHECK_DEADLOCK FALSE
SYMMETRY Alike
INVARIANTS
  StreaksAreRounds
  PoolIsTold
PROPERTY PromotionIsVerified
