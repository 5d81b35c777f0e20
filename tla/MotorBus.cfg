SPECIFICATION Spec
CONSTANTS
  SlaveCount = 3
  MotorsPerLeg = 2
  GapAfter = 1
  MaxCycle = 2
INVARIANTS AngleIsOwn AngleBringsSpeed CompleteIsFresh CommandsTogether
