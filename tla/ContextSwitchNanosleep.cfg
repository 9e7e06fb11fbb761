SPECIFICATION ContextSpec
CONSTANTS
  i0 = i0
  i1 = i1
  init = init
  NoTask = NoTask
  NCpus = 2
  Tasks <- MCTasks
  Idle <- MCIdle
  HomeCpu <- MCHomeCpu
  DEFAULT_TIME_SLICE = 2
  INT_MIN <- MCIntMin
  INT_MAX = 2
INVARIANT NanosleepReturnsZero
