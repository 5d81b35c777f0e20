SPECIFICATION FairSpec
CONSTANT NumJoints = 2
INVARIANTS StopIsObeyed SplitIsOrdered SolutionAwaited SolveNeedsLoad
PROPERTIES ImplementsSupervisor
  StopsReachMotors LoadGetsSolution JoinReturns
