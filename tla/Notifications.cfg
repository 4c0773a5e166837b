CONSTANTS
  c1 = c1
  c2 = c2
  p1 = p1
  p2 = p2
  First = c1
  Channel = {c1, c2}
  Pool = {p1, p2}
  PoolsOf <- MCPoolsOf
  MaxTries = 2
  FanoutTries = 2
  Overlap = FALSE
  MaxLive = 1
  MaxEvents = 2
SPECIFICATION NotifySpec
INVARIANTS DuplicateHasCause
PROPERTIES DeliveriesEnd EventsAreTold
CHECK_DEADLOCK FALSE
