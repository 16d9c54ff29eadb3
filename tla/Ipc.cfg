SPECIFICATION IpcSpec
CONSTANTS
  Process = {1, 2}
  Address = {10, 20, 30}
  Size = {1, 2}
  Recycled <- MCRecycled
  RecycledEntry <- MCRecycledEntry
  MaxEntries = 5
INVARIANTS
  ShmTypeOK
  ShmCapacity
  TableMatchesHeap
  WritesFit
  SemTypeOK
  SemCapacity
PROPERTIES
  OnlyOwnersFree
  
\* The model ends in the states where the code does what C leaves undefined.
CHECK_DEADLOCK FALSE
