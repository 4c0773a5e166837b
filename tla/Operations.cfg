CONSTANTS
  w1 = w1
  w2 = w2
  b1 = b1
  r1 = r1
  r2 = r2
  None = None
  Worker = {w1, w2}
  Request = {r1}
  Binding = {b1}
  StepCount = 2
  BindingOf <- OneBinding
  Plans <- AllPlans
  MaxFaults = 2
SPECIFICATION FairSpec
INVARIANTS WritesAreWanted CreatedOnce SucceededIsMade BindingFollowsSteps
PROPERTIES OperationEnds
CHECK_DEADLOCK FALSE
