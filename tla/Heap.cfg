SPECIFICATION FairSpec
CONSTANTS
  HeapBase = 4
  MaxAddr = 12
  Limits = {9,12}
  BLOCK = 3
  HugeNw = 12
  Sizes = {1, 2, 3, 20}
  Foreign = {1}
INVARIANTS
  TypeOK
  NoOverlap
  ContentsKept
  RingOK
  SearchPtrOnRing
  NullMeansNoRoom
  ReallocKeepsContentsElsewhere
PROPERTIES
  CallEnds
  ImplementsAllocator
CHECK_DEADLOCK FALSE
