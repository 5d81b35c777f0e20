SPECIFICATION FairSpec
CONSTANTS
  Commands = {0, 3}
  Sessions <- MCSessions
  Limit = 2
  DeadTime = 2
  MaxRun = 2
  MaxReset = 1
  MaxRestart = 1
INVARIANT GaitInStep
PROPERTIES NeverBackToOldRun VelocityArrives TargetCatchesUp
