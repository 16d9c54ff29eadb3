SPECIFICATION Spec
CONSTANTS
  MAX_PROCS = 4
  MAX_QUEUE_LEVELS = 2
  MAX_HISTORY_PROCS = 2
  Program = {"P5", "diningPhil"}
  Junk = {0}
  Command = {"execute", "kill", "kill-store"}
  TypedPid = {1, 2, 3}
INVARIANTS
  KTypeOK
  NoInvalidEntry
  QueuedOnce
  HistoryFits
  QueuedAreLive
  ProgramsHaveEntries
  
PROPERTIES
  ProcessesSurvive
  QueuesStayFIFO
\* The model ends in the states where the code does what C leaves undefined.
CHECK_DEADLOCK FALSE
