SPECIFICATION Spec
CONSTANTS
  TransitionStance = 1
  Horizon = 11
  FirstTimes = {0, 7}
  MpcSteps = {3}
  TrotOffset = 2
  StanceTemplate <- MCStance
  TrotTemplate <- MCTrot
  DefaultTemplate <- MCDefault
  InitialSchedule <- MCInitial
  Speeds = {0, 5, 70}
  VelWindow = 2
  MaxTime = 18
  MaxRestarts = 1
INVARIANTS SchedulesWellFormed HorizonCovered SwingsFullLength
  GaitTakesEffect
PROPERTY PlanKept
CHECK_DEADLOCK FALSE
