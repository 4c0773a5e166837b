CONSTANTS
  Worker = {w1, w2}
  Checker = {c1}
  NoWorker = none
  Rotation = rotation
  NoHolder = free
  MaxOps = 2
  MaxEvents = 2
SPECIFICATION Spec
CHECK_DEADLOCK FALSE
INVARIANTS
  DispatchedIsAlone
PROPERTIES
  WritesAreNotRepeated
  OperationsEnd
