SPECIFICATION FairSpec
CONSTANTS
  i0 = i0
  i1 = i1
  a = a
  b = b
  d = d
  NoTask = NoTask
  NCpus = 2
  Tasks <- MCTasks
  Idle <- MCIdle
  HomeCpu <- MCHomeCpu
  DEFAULT_TIME_SLICE = 2
  INT_MIN <- MCIntMin
  INT_MAX = 3
INVARIANT QueuedOnce
INVARIANT RunsOnce
INVARIANT ReadyBeforeInterrupts
INVARIANT NoTaskLost
PROPERTY SwitchRequeues
PROPERTY NoStarvation
PROPERTY BootCompletes
