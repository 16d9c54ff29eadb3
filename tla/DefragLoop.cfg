SPECIFICATION Spec
CONSTANTS
  MaxSize = 5
  Word = {0, 1, 2, 3}
INVARIANTS
  LoopComputesCompact
  PrefixFinal
CHECK_DEADLOCK FALSE
