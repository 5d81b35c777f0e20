SPECIFICATION FairSpec
CONSTANTS
  NumSlaves = 2
  Attempts = 2
  ErrPeriod = 2
  ErrMax = 1
  MaxFaults = 2
INVARIANT NoCheckDuringInit
PROPERTIES QuietMeansOperational Recovers
