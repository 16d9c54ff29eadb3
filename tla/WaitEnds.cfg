SPECIFICATION PhilSpec
CONSTANTS
  Process = {1, 2, 3}
  Address = {10, 20}
  philosophers = 2
  RecycledEntry <- MCRecycledEntry
  MaxEntries = 16
PROPERTIES
  WaitEnds
\* In the end all philosophers may spin.
CHECK_DEADLOCK FALSE
