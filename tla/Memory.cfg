SPECIFICATION MemorySpec
CONSTANTS
  ZONE_START = 2
  ZONE_SIZE = 7
  INFO_PAGES = 1
  MAX_ORDER = 4
  Requests <- MCRequests
  USER_START = 2
  USER_END = 9
  MAX_MEMORY_AREAS = 5
  StackPages = 1
  FilePages <- MCFilePages
  MmapPages <- MCMmapPages
  Frames <- MCFrames
  ADDRESS_PAGES = 1048576
  f1 = f1
  f2 = f2
  f3 = f3
  f4 = f4
  f5 = f5
SYMMETRY FrameSymmetry
INVARIANTS BlocksDisjoint NoPageLost FullyMerged AreasDisjoint FramesOwnedOnce
\* A program whose page fault cannot be served is halted for good.
CHECK_DEADLOCK FALSE
