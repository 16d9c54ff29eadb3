SPECIFICATION Spec
CONSTANTS
  block_num = 2
  block_len = 2
  DISK_RETRY = 3
  Radix = 2
  WordLength = 2
  Request <- MCRequest
INVARIANTS
  DiskTypeOK
  LineInSync
PROPERTIES
  ImplementsBlockDevice
  CallsReturn
\* The driver waits for ever for a server that has died.
CHECK_DEADLOCK FALSE
