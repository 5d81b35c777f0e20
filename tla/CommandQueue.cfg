SPECIFICATION FairSpec
CONSTANTS
  NumSlaves = 2
  Capacity = 3
  NumCommands = 5
INVARIANTS TypedOrder OnceIfRoom
PROPERTY QueuedIsSent
