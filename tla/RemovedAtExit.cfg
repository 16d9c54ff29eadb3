SPECIFICATION Spec
CONSTANTS
  Process = {1, 2}
  Address = {10, 20}
  Size = {1, 2}
  Recycled <- MCRecycled
INVARIANTS
  RemovedAtExit
