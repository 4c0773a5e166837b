CONSTANTS
  s1 = s1
  s2 = s2
  c1 = c1
  c2 = c2
  Dynamic = Dynamic
  Nothing = Nothing
  Slot = {s1}
  Scanner = {c1, c2}
  Capacity = 3
  MaxAttempts = 1
  MaxReleases = 1
  MaxDispatch = 1
  MaxCalls = 2
  MaxBatches = 1
  MaxEdits = 1
  MaxOutside = 1
SPECIFICATION InventorySpec
INVARIANTS WindowHolds AttachIsPaid CandidateIsKept InstalledIsCandidate
PROPERTIES SwapsEnd ScansConverge
CHECK_DEADLOCK FALSE
