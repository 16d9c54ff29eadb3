SPECIFICATION Spec
CONSTANTS
  MAX_PROCS = 4
  MAX_QUEUE_LEVELS = 2
  MAX_HISTORY_PROCS = 1
  Program = {"P3", "diningPhil"}
  Junk = {0}
  Command = {"execute", "priority", "pause", "unpause"}
  TypedPid = {1, 2}
INVARIANTS
  QueuedAtItsLevel
PROPERTIES
  PreservesContexts
\* The model ends in the states where the code does what C leaves undefined.
CHECK_DEADLOCK FALSE
