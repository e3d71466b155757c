SPECIFICATION CautiousSpec
CONSTANTS
  HeapBase = 3
  MaxAddr = 12
  Limits = {10, 12}
  BLOCK = 3
  HugeNw = 12
  Sizes = {1, 2, 20}
  Foreign = {1}
INVARIANT ReallocKeepsContents
CHECK_DEADLOCK FALSE
