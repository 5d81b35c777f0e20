SPECIFICATION PortFairSpec
CONSTANTS
  MaxBuf = 4
  Window = 1
  MaxSends = 2
INVARIANTS OneRequestPerIndex AnswerIsOwn
PROPERTY CycleEnds
