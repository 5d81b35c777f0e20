SPECIFICATION Spec
CONSTANTS
  NumSlaves = 2
  Capacity = 3
  NumCommands = 5
INVARIANT NothingLost
