SPECIFICATION LockedSpec
CONSTANTS
  Pids <- MCPids
  Timeouts <- MCTimeouts
  FOREVER = 15
  MaxRecursion = 2
  Messages = {e, d}
  Errors = {e}
  LOG_BUFFER_SIZE = 3
  MaxAccepted = 7
  Caches <- MCCaches
  objects_per_slab <- MCObjects
  NumPages = 2
  LargeOrders <- MCLargeOrders
INVARIANT SlabsAllocated
CHECK_DEADLOCK FALSE
