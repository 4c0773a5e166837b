\* Two calls, every timer.
CONSTANTS
  Session = {s1, s2}
  NoSession = NoSession
  LeaseTime = 5
  WaitTimeout = 3
  PollInterval = 1
  RefreshInterval = 2
  CommandTimeout = 1
  CleanupTimeout = 1
SPECIFICATION LeaseSpec
SYMMETRY CallSymmetry
INVARIANT MutualExclusion
PROPERTY OnlyHolderReleases
