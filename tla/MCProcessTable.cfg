SPECIFICATION Spec
CONSTANTS
  MAX_PROCS = 4
  MAX_QUEUE_LEVELS = 1
  Program = {"P3"}
  Junk = {0, 77}
  CallPriority = {1}
  CallContext <- MCContext
INVARIANTS
  PTTypeOK
  Capacity
  ProcsCounts
  ConsoleFirst
  SlotBelowPid
PROPERTIES
  EntriesSurvive
