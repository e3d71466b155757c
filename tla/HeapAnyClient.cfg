SPECIFICATION Spec
CONSTANTS
  HeapBase = 3
  MaxAddr = 11
  Limits = {9, 11}
  BLOCK = 3
  HugeNw = 12
  Sizes = {1, 2, 20}
  Foreign = {1}
INVARIANT NoOverlap
CHECK_DEADLOCK FALSE
