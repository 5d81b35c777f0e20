SPECIFICATION SimSpec
CONSTANTS
  Period = 2
  Delay = 5
  MaxTime = 20
  MaxReset = 2
  MaxClock = 7
  MaxRestart = 2
INVARIANTS DelayKept NextIsTaken
PROPERTY NeverOlder
\* Clocks are bounded: at their bounds nothing is left to do.
CHECK_DEADLOCK FALSE
