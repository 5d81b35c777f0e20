SPECIFICATION Spec
CONSTANTS
  TransitionStance = 2
  Horizon = 7
  TrotOffset = 2
  StanceTemplate <- MCStance
  TrotTemplate <- MCTrot
  DefaultTemplate <- MCDefault
  InitialSchedule <- MCInitial
  MaxLag = 1
  MaxTime = 8
INVARIANTS SwingsSeenWhole FootholdsJoin LegLogicAgrees
PROPERTIES PlanAroundNow StepOffFixed
CHECK_DEADLOCK FALSE
