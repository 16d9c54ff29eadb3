SPECIFICATION MLFQSpec
CONSTANTS
  MAX_PROCS = 4
  MAX_QUEUE_LEVELS = 2
  Program = {}
  Junk = {0, 77}
INVARIANTS
  MLFQTypeOK
  LivePrefix
  CountMatches
  TightQueues
PROPERTIES
  ImplementsFeedbackQueues
