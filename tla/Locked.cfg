SPECIFICATION LockedSpec
CONSTANTS
  Pids <- MCPids
  Timeouts <- MCTimeouts
  FOREVER = 15
  MaxRecursion = 2
  Messages = {e, d}
  Errors = {e}
  LOG_BUFFER_SIZE = 3
  MaxAccepted = 7
  Caches <- MCCaches
  objects_per_slab <- MCObjects
  NumPages = 2
  LargeOrders <- MCLargeOrders
INVARIANTS MutualExclusion OwnerIffLocked 
PROPERTY TimedLockReturns
INVARIANT NothingLost
PROPERTY ImplementsFifo
INVARIANTS ObjectsOwnedOnce ListsExact
PROPERTY NewSlabOnlyWhenFull
\* The producers of the log buffer stop after MaxAccepted messages, a mutex
\* whose spin lock is lost and a heap whose slabs are overwritten stand still.
CHECK_DEADLOCK FALSE
