SPECIFICATION Spec
CONSTANTS
  Old = old
  New = {a, b}
  Nothing = nothing
  Kinds <- MCKinds
  MaxTries = 2
  MaxOutside = 1
INVARIANTS OneAllocation
PROPERTIES SettledIsOver RestartFollows PlansEnd
CHECK_DEADLOCK FALSE
