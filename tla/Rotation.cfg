CONSTANTS
  i1 = i1
  i2 = i2
  j1 = j1
  j2 = j2
  None = None
  Incident = {i1, i2}
  Job = {j1, j2}
  Steps = 2
  MaxAttempts = 2
  MaxRecoveries = 1
  MaxRevision = 5
  MaxChanges = 1
  MaxRows = 2
  MaxSegments = 2
SPECIFICATION BoundedSpec
INVARIANTS StepTakesEffectOnce BudgetAccounts OpenCallsArePinned PlanOwnsInstance
PROPERTIES TerminalIsFinal
SYMMETRY RotationSymmetry
CHECK_DEADLOCK FALSE
