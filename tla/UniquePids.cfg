SPECIFICATION Spec
CONSTANTS
  MAX_PROCS = 4
  MAX_QUEUE_LEVELS = 2
  MAX_HISTORY_PROCS = 1
  Program = {"P3", "P5"}
  Junk = {0}
  Command = {"execute"}
  TypedPid = {}
INVARIANTS
  UniquePids
\* The model ends in the states where the code does what C leaves undefined.
CHECK_DEADLOCK FALSE
