------------------------- MODULE SmpSchedulerProofs -------------------------
(***************************************************************************)
(* Proofs about SmpScheduler for any number of CPUs and tasks and any      *)
(* placement of the boot tasks.  The inductive invariant says which CPU    *)
(* every task belongs to; since a task belongs to one CPU only, that no    *)
(* task is in two places follows from what happens on its own CPU.         *)
(***************************************************************************)
EXTENDS SmpScheduler, QueueLemmas, TLAPS

\* What has happened by the time boot reaches each of its steps.
BootInv ==
  /\ pc[0] \notin ApPc
  /\ \A c \in Cpus \ {0} : pc[c] \notin BootPc
  /\ pc[0] \in {"scheduler_init", "set_idle", "boot_enqueue"} =>
       \A c \in Cpus \ {0} : pc[c] = "off"
  /\ pc[0] \in {"scheduler_init", "set_idle"} =>
       /\ pending = BootTasks
       /\ \A c \in Cpus : runnable_list[c] = <<>>
  /\ pc[0] \in {"scheduler_init", "set_idle"} => current_task[0] = NoTask
  /\ pc[0] = "set_idle" => \A c \in Cpus \ {0} : current_task[c] \in Tasks
  /\ pc[0] \notin {"scheduler_init", "set_idle", "boot_enqueue"} => pending = {}
  /\ pc[0] \notin {"scheduler_init", "set_idle"} => \A c \in Cpus : current_task[c] \in Tasks

\* A CPU locks its own queue only, for one critical section at a time.
LockInv(c) ==
  lock[c] = IF pc[c] \in {"pick_locked", "balance_locked", "enqueue_locked"}
              THEN c ELSE Unlocked

\* The tasks CPU c deals with are its own.
HomeInv(c) ==
  /\ \A t \in OnQueue(c) : Belongs(t, c)
  /\ current_task[c] \in Tasks => Belongs(current_task[c], c)
  /\ pc[c] \in SwitchPc => next[c] \in Tasks /\ Belongs(next[c], c)

\* On its own CPU a task is in one place.
PlaceInv(c) ==
  /\ IsInjective(runnable_list[c])
  /\ current_task[c] \in OnQueue(c) <=> pc[c] = "set_current"
  /\ pc[c] \in SwitchPc => next[c] \notin OnQueue(c)
  /\ pc[c] \in {"enqueue", "enqueue_locked", "set_current"} => next[c] # current_task[c]
  /\ OnQueue(c) \cap pending = {}
  /\ current_task[c] \notin pending

\* Once CPU c has a current task, every task of c is in one of these places.
KeptInv(c) ==
  current_task[c] \in Tasks =>
    \A t \in Tasks : Belongs(t, c) =>
      \/ t \in pending
      \/ current_task[c] = t
      \/ t \in OnQueue(c)
      \/ next[c] = t /\ pc[c] \in SwitchPc

CpuInv(c) ==
  /\ LockInv(c)
  /\ HomeInv(c)
  /\ PlaceInv(c)
  /\ KeptInv(c)
  /\ nr_running[c] = Len(runnable_list[c])

IInv ==
  /\ TypeOK
  /\ BootInv
  /\ \A c \in Cpus : CpuInv(c)

-----------------------------------------------------------------------------
\* A task belongs to one CPU.
LEMMA BelongsOnce ==
  ASSUME NEW t, NEW c \in Cpus, NEW d \in Cpus, Belongs(t, c), Belongs(t, d)
  PROVE  c = d
BY TaskAssumption DEF Belongs, BootTasks, IdleTasks

-----------------------------------------------------------------------------
\* What CPU c's invariant depends on.
View(c) == <<pc[c], runnable_list[c], nr_running[c], lock[c], current_task[c], next[c]>>

\* A step that leaves CPU d's part of the state alone keeps d's invariant.
LEMMA Frame ==
  ASSUME NEW d \in Cpus, CpuInv(d), View(d)' = View(d), pending' = pending
  PROVE  CpuInv(d)'
BY DEF View, CpuInv, LockInv, HomeInv, PlaceInv, KeptInv, OnQueue

\* A step of schedule() on CPU c has to be looked at on CPU c only.
LEMMA LocalStep ==
  ASSUME IInv, NEW c \in Cpus, NEW l \in SchedPc,
         pc[c] \in SchedPc, Goto(c, l), TypeOK',
         \A d \in Cpus \ {c} : View(d)' = View(d),
         pending' = pending,
         current_task'[c] \in Tasks,
         CpuInv(c)'
  PROVE  IInv'
<1>1. \A d \in Cpus : CpuInv(d)'
  <2>1. ASSUME NEW d \in Cpus \ {c} PROVE CpuInv(d)'
    BY <2>1, Frame DEF IInv
  <2>2. QED BY <2>1
<1>2. BootInv'
  <2>1. /\ \A d \in Cpus \ {c} : pc'[d] = pc[d] /\ current_task'[d] = current_task[d]
        /\ pc'[c] = l
        /\ 0 \in Cpus
    BY CpuAssumption DEF View, Goto, IInv, TypeOK, Cpus
  <2>2. pc[0] \notin {"scheduler_init", "set_idle", "boot_enqueue"}
    BY DEF IInv, BootInv, SchedPc
  <2>3. pc'[0] \notin {"scheduler_init", "set_idle", "boot_enqueue"}
    BY <2>1, <2>2 DEF SchedPc
  <2>4. pc'[0] \notin ApPc /\ \A d \in Cpus \ {0} : pc'[d] \notin BootPc
    BY <2>1 DEF IInv, BootInv, SchedPc, ApPc, BootPc
  <2>5. pending' = {} /\ \A d \in Cpus : current_task'[d] \in Tasks
    BY <2>1, <2>2 DEF IInv, BootInv
  <2>6. QED BY <2>3, <2>4, <2>5 DEF BootInv
<1>3. QED BY <1>1, <1>2 DEF IInv

\* The callers of schedule() and the exit handler.
LEMMA EntrySteps ==
  ASSUME IInv, NEW c \in Cpus, TimerInterrupt(c) \/ Nanosleep(c) \/ Exit(c)
  PROVE  IInv'
<1>1. PICK l \in {"run", "pick"} : Goto(c, l)
  BY DEF TimerInterrupt, Nanosleep, Exit, ScheduleEntry, Goto, IInv, TypeOK
<1>2. /\ pc[c] = "run"
      /\ UNCHANGED <<runnable_list, nr_running, lock, current_task, next, pending,
                     cpu_ready_count>>
  BY DEF TimerInterrupt, Nanosleep, Exit
<1>3. current_task[c] \in Tasks
  BY <1>2 DEF IInv, BootInv, BootPc
<1>4. TypeOK'
  <2>1. time_slice' \in [Tasks -> INT_MIN .. INT_MAX]
    <3>1. \A n \in INT_MIN .. INT_MAX : Decrement(n) \in INT_MIN .. INT_MAX
      BY SliceAssumption DEF Decrement
    <3>2. time_slice \in [Tasks -> INT_MIN .. INT_MAX]
      BY DEF IInv, TypeOK
    <3>3. CASE time_slice' = time_slice
      BY <3>2, <3>3
    <3>4. CASE time_slice' = [time_slice EXCEPT ![current_task[c]] = Decrement(@)]
      BY <3>1, <3>2, <3>4
    <3>5. QED
      BY <3>3, <3>4 DEF TimerInterrupt, Nanosleep, Exit, ScheduleEntry
  <2>2. state' \in [Tasks -> {"READY", "SLEEPING", "EXITED"}]
    BY DEF TimerInterrupt, Nanosleep, Exit, IInv, TypeOK
  <2>3. pc' \in [Cpus -> BootPc \cup ApPc \cup SchedPc]
    BY <1>1 DEF Goto, IInv, TypeOK, SchedPc
  <2>4. QED BY <1>2, <2>1, <2>2, <2>3 DEF IInv, TypeOK
<1>5. pc'[c] = l /\ \A d \in Cpus \ {c} : View(d)' = View(d)
  BY <1>1, <1>2 DEF Goto, View, IInv, TypeOK
<1>6. CpuInv(c)'
  BY <1>1, <1>2, <1>5
     DEF IInv, CpuInv, LockInv, HomeInv, PlaceInv, KeptInv, OnQueue, SwitchPc
<1>7. QED
  BY <1>1, <1>2, <1>3, <1>4, <1>5, <1>6, LocalStep DEF SchedPc

\* The steps that take a lock, or find nothing to switch to.
LEMMA LockSteps ==
  ASSUME IInv, NEW c \in Cpus,
         PickLock(c) \/ PickEmpty(c) \/ BalanceLock(c) \/ SwitchSame(c) \/ EnqueueLock(c)
  PROVE  IInv'
<1>1. PICK l \in {"run", "pick_locked", "balance", "balance_locked", "enqueue_locked"} :
        Goto(c, l)
  BY DEF PickLock, PickEmpty, BalanceLock, SwitchSame, EnqueueLock
<1>2. /\ pc[c] \in SchedPc
      /\ UNCHANGED <<runnable_list, nr_running, current_task, next, time_slice, state,
                     pending, cpu_ready_count>>
  BY DEF PickLock, PickEmpty, BalanceLock, SwitchSame, EnqueueLock, SchedPc
<1>3. current_task[c] \in Tasks
  BY <1>2 DEF IInv, BootInv, SchedPc
<1>4. lock' \in [Cpus -> Cpus \cup {Unlocked}] /\ \A d \in Cpus \ {c} : lock'[d] = lock[d]
  <2>1. \/ lock' = lock
        \/ lock' = [lock EXCEPT ![c] = c]
        \/ lock' = [lock EXCEPT ![c] = Unlocked]
    BY DEF PickLock, PickEmpty, BalanceLock, SwitchSame, EnqueueLock, SpinLock, SpinUnlock
  <2>2. lock \in [Cpus -> Cpus \cup {Unlocked}]
    BY DEF IInv, TypeOK
  <2>3. QED BY <2>1, <2>2
<1>5. TypeOK'
  BY <1>1, <1>2, <1>4 DEF Goto, IInv, TypeOK, SchedPc
<1>6. pc'[c] = l /\ \A d \in Cpus \ {c} : View(d)' = View(d)
  BY <1>1, <1>2, <1>4 DEF Goto, View, IInv, TypeOK
<1>7. LockInv(c)'
  <2>1. CASE PickLock(c) \/ BalanceLock(c) \/ EnqueueLock(c)
    BY <2>1 DEF PickLock, BalanceLock, EnqueueLock, SpinLock, LockInv, IInv, TypeOK, Goto
  <2>2. CASE PickEmpty(c) \/ SwitchSame(c)
    BY <2>2 DEF PickEmpty, SwitchSame, SpinUnlock, LockInv, CpuInv, IInv, TypeOK, Goto
  <2>3. QED BY <2>1, <2>2
<1>8. HomeInv(c)' /\ PlaceInv(c)' /\ KeptInv(c)' /\ nr_running'[c] = Len(runnable_list'[c])
  BY <1>1, <1>2, <1>6 DEF PickLock, PickEmpty, BalanceLock, SwitchSame, EnqueueLock, Goto,
         IInv, TypeOK, CpuInv, HomeInv, PlaceInv, KeptInv, OnQueue, SwitchPc
<1>9. QED
  BY <1>1, <1>2, <1>3, <1>5, <1>6, <1>7, <1>8, LocalStep DEF CpuInv, SchedPc

\* Picking: the head of the queue, or the idle task when the queue is empty.
\* In the second case KeptInv says that the idle task is the current one.
LEMMA PickSteps ==
  ASSUME IInv, NEW c \in Cpus, PickHead(c) \/ BalanceResult(c)
  PROVE  IInv'
<1>1. /\ pc[c] \in {"pick_locked", "balance_locked"}
      /\ Goto(c, "switch")
      /\ UNCHANGED <<current_task, time_slice, state, pending, cpu_ready_count>>
      /\ lock' = [lock EXCEPT ![c] = Unlocked]
  BY DEF PickHead, BalanceResult, SpinUnlock
<1>2. current_task[c] \in Tasks /\ pending = {}
  BY <1>1 DEF IInv, BootInv
<1>3. runnable_list[c] \in Seq(Tasks) /\ CpuInv(c)
  BY DEF IInv, TypeOK
<1>4. CASE /\ runnable_list[c] # <<>>
           /\ next' = [next EXCEPT ![c] = Head(runnable_list[c])]
           /\ ListDelHead(c)
  <2> DEFINE q == runnable_list[c]
  <2>1. /\ Head(q) \in Tasks /\ Head(q) \in Range(q)
        /\ Tail(q) \in Seq(Tasks) /\ Len(Tail(q)) = Len(q) - 1
        /\ Range(Tail(q)) = Range(q) \ {Head(q)}
        /\ IsInjective(Tail(q))
    BY <1>3, <1>4, TailFacts DEF CpuInv, PlaceInv
  <2>2. /\ runnable_list' = [runnable_list EXCEPT ![c] = Tail(q)]
        /\ nr_running' = [nr_running EXCEPT ![c] = @ - 1]
    BY <1>4 DEF ListDelHead
  <2>3. TypeOK'
    BY <1>1, <1>4, <2>1, <2>2 DEF IInv, TypeOK, Goto, SchedPc
  <2>4. /\ pc'[c] = "switch" /\ next'[c] = Head(q) /\ lock'[c] = Unlocked
        /\ runnable_list'[c] = Tail(q) /\ nr_running'[c] = nr_running[c] - 1
        /\ \A d \in Cpus \ {c} : View(d)' = View(d)
    BY <1>1, <1>4, <2>2 DEF IInv, TypeOK, Goto, View
  <2>5. LockInv(c)' /\ nr_running'[c] = Len(runnable_list'[c])
    BY <1>3, <2>1, <2>4 DEF LockInv, CpuInv
  <2>6. HomeInv(c)'
    BY <1>1, <1>3, <2>1, <2>4 DEF HomeInv, CpuInv, OnQueue
  <2>7. PlaceInv(c)'
    BY <1>1, <1>2, <1>3, <2>1, <2>4 DEF PlaceInv, CpuInv, OnQueue
  <2>8. KeptInv(c)'
    BY <1>1, <1>2, <1>3, <2>1, <2>4 DEF KeptInv, CpuInv, OnQueue, SwitchPc
  <2>9. QED
    BY <1>1, <1>2, <2>3, <2>4, <2>5, <2>6, <2>7, <2>8, LocalStep DEF CpuInv, SchedPc
<1>5. CASE /\ runnable_list[c] = <<>>
           /\ next' = [next EXCEPT ![c] = Idle[c]]
           /\ UNCHANGED <<runnable_list, nr_running>>
  <2>1. Idle[c] \in Tasks /\ Belongs(Idle[c], c)
    BY TaskAssumption DEF Belongs
  <2>2. current_task[c] = Idle[c]
    BY <1>1, <1>2, <1>3, <1>5, <2>1, EmptyQueue DEF CpuInv, KeptInv, OnQueue, SwitchPc
  <2>3. TypeOK'
    BY <1>1, <1>5, <2>1 DEF IInv, TypeOK, Goto, SchedPc
  <2>4. /\ pc'[c] = "switch" /\ next'[c] = Idle[c] /\ lock'[c] = Unlocked
        /\ \A d \in Cpus \ {c} : View(d)' = View(d)
    BY <1>1, <1>5 DEF IInv, TypeOK, Goto, View
  <2>5. CpuInv(c)'
    BY <1>1, <1>2, <1>3, <1>5, <2>1, <2>2, <2>4
       DEF CpuInv, LockInv, HomeInv, PlaceInv, KeptInv, OnQueue, SwitchPc
  <2>6. QED
    BY <1>1, <1>2, <2>3, <2>4, <2>5, LocalStep DEF SchedPc
<1>6. QED
  BY <1>4, <1>5 DEF PickHead, BalanceResult

\* The switch: a new slice for the outgoing task, its place in the queue, and
\* the new current task.
LEMMA SwitchSteps ==
  ASSUME IInv, NEW c \in Cpus, SwitchAway(c) \/ EnqueueCurrent(c) \/ SetCurrent(c)
  PROVE  IInv'
<1>1. pc[c] \in SchedPc /\ pending' = pending
  BY DEF SwitchAway, EnqueueCurrent, SetCurrent, SchedPc
<1>2. current_task[c] \in Tasks /\ pending = {}
  BY <1>1 DEF IInv, BootInv, SchedPc
<1>3. runnable_list[c] \in Seq(Tasks) /\ CpuInv(c)
  BY DEF IInv, TypeOK
<1>4. CASE SwitchAway(c)
  <2>1. TypeOK'
    BY <1>2, <1>4, SliceAssumption DEF SwitchAway, IInv, TypeOK, Goto, SchedPc
  <2>2. pc'[c] = "enqueue" /\ \A d \in Cpus \ {c} : View(d)' = View(d)
    BY <1>4 DEF SwitchAway, IInv, TypeOK, Goto, View
  <2>3. CpuInv(c)'
    BY <1>3, <1>4, <2>2 DEF SwitchAway, CpuInv, LockInv, HomeInv, PlaceInv, KeptInv,
       OnQueue, SwitchPc
  <2>4. QED
    BY <1>1, <1>2, <1>4, <2>1, <2>2, <2>3, LocalStep DEF SwitchAway, SchedPc
<1>5. CASE EnqueueCurrent(c)
  <2> DEFINE q == runnable_list[c]
             t == current_task[c]
  <2>1. pc[c] = "enqueue_locked" /\ t \notin Range(q) /\ IsInjective(q)
    BY <1>3, <1>5 DEF EnqueueCurrent, CpuInv, PlaceInv, OnQueue
  <2>2. /\ Append(q, t) \in Seq(Tasks) /\ Len(Append(q, t)) = Len(q) + 1
        /\ Range(Append(q, t)) = Range(q) \cup {t}
        /\ IsInjective(Append(q, t))
    BY <1>2, <1>3, <2>1, AppendFacts
  <2>3. TypeOK'
    BY <1>5, <2>2 DEF EnqueueCurrent, ListAddTail, SpinUnlock, IInv, TypeOK, Goto, SchedPc
  <2>4. /\ pc'[c] = "set_current" /\ lock'[c] = Unlocked
        /\ runnable_list'[c] = Append(q, t) /\ nr_running'[c] = nr_running[c] + 1
        /\ UNCHANGED <<current_task, next>>
        /\ \A d \in Cpus \ {c} : View(d)' = View(d)
    BY <1>5 DEF EnqueueCurrent, ListAddTail, SpinUnlock, IInv, TypeOK, Goto, View
  <2>5. LockInv(c)' /\ nr_running'[c] = Len(runnable_list'[c])
    BY <1>3, <2>2, <2>4 DEF LockInv, CpuInv
  <2>6. HomeInv(c)' /\ PlaceInv(c)' /\ KeptInv(c)'
    <3>1. /\ OnQueue(c)' = OnQueue(c) \cup {t}
          /\ current_task'[c] = t /\ next'[c] = next[c] /\ pending' = {}
      BY <1>1, <1>2, <2>2, <2>4 DEF OnQueue
    <3>2. HomeInv(c)'
      BY <1>2, <1>3, <2>1, <2>4, <3>1 DEF HomeInv, CpuInv, SwitchPc
    <3>3. PlaceInv(c)'
      BY <1>3, <2>1, <2>2, <2>4, <3>1 DEF PlaceInv, CpuInv, SwitchPc
    <3>4. KeptInv(c)'
      BY <1>2, <1>3, <2>1, <2>4, <3>1 DEF KeptInv, CpuInv, SwitchPc
    <3>5. QED BY <3>2, <3>3, <3>4
  <2>7. QED
    BY <1>1, <1>2, <1>5, <2>3, <2>4, <2>5, <2>6, LocalStep DEF EnqueueCurrent, CpuInv, SchedPc
<1>6. CASE SetCurrent(c)
  <2>1. pc[c] = "set_current" /\ next[c] \in Tasks
    BY <1>3, <1>6 DEF SetCurrent, CpuInv, HomeInv, SwitchPc
  <2>2. TypeOK'
    BY <1>6, <2>1 DEF SetCurrent, IInv, TypeOK, Goto, SchedPc
  <2>3. /\ pc'[c] = "run" /\ current_task'[c] = next[c]
        /\ UNCHANGED <<runnable_list, nr_running, lock, next>>
        /\ \A d \in Cpus \ {c} : View(d)' = View(d)
    BY <1>6 DEF SetCurrent, IInv, TypeOK, Goto, View
  <2>4. CpuInv(c)'
    BY <1>1, <1>2, <1>3, <2>1, <2>3
       DEF CpuInv, LockInv, HomeInv, PlaceInv, KeptInv, OnQueue, SwitchPc
  <2>5. QED
    BY <1>1, <1>6, <2>1, <2>2, <2>3, <2>4, LocalStep DEF SetCurrent, SchedPc
<1>7. QED BY <1>4, <1>5, <1>6

-----------------------------------------------------------------------------
\* The boot steps that only advance one CPU's program counter.
LEMMA BootPcSteps ==
  ASSUME IInv, NEW c \in Cpus,
         \/ c = 0 /\ (BootEnqueued \/ AllApsStarted \/ BspSti)
         \/ StartAp(c) \/ ApEntry(c) \/ ApSti(c)
  PROVE  IInv'
<1>1. PICK l \in {"start_aps", "wait_aps", "run", "ap_entry", "sti"} : Goto(c, l)
  BY DEF BootEnqueued, AllApsStarted, BspSti, StartAp, ApEntry, ApSti
<1>2. /\ UNCHANGED <<runnable_list, nr_running, lock, current_task, next, time_slice,
                     state, pending>>
      /\ cpu_ready_count' \in Nat
  BY DEF BootEnqueued, AllApsStarted, BspSti, StartAp, ApEntry, ApSti, IInv, TypeOK
<1>3. pc[c] \in BootPc \cup ApPc
  BY DEF BootEnqueued, AllApsStarted, BspSti, StartAp, ApEntry, ApSti, BootPc, ApPc
<1>4. TypeOK'
  BY <1>1, <1>2 DEF Goto, IInv, TypeOK, BootPc, ApPc, SchedPc
<1>5. pc'[c] = l /\ \A d \in Cpus \ {c} : pc'[d] = pc[d] /\ View(d)' = View(d)
  BY <1>1, <1>2 DEF Goto, View, IInv, TypeOK
<1>6. \A d \in Cpus : CpuInv(d)'
  <2>1. CpuInv(c)'
    BY <1>1, <1>2, <1>3, <1>5 DEF IInv, CpuInv, LockInv, HomeInv, PlaceInv, KeptInv, OnQueue,
       SwitchPc, BootPc, ApPc
  <2>2. ASSUME NEW d \in Cpus \ {c} PROVE CpuInv(d)'
    BY <1>2, <1>5, Frame DEF IInv
  <2>3. QED BY <2>1, <2>2
<1>7. BootInv'
  <2>1. 0 \in Cpus
    BY CpuAssumption DEF Cpus
  <2>2. CASE c = 0
    <3>1. /\ pc[0] \in {"boot_enqueue", "start_aps", "wait_aps"}
          /\ pc'[0] \in {"start_aps", "wait_aps", "run"}
          /\ pending = {}
      BY <1>5, <2>2, <2>1 DEF BootEnqueued, AllApsStarted, BspSti, StartAp, ApEntry, ApSti,
         Goto, IInv, TypeOK, BootInv, ApPc
    <3>2. QED
      BY <1>2, <1>5, <2>2, <3>1 DEF IInv, BootInv, ApPc
  <2>3. CASE c # 0
    <3>1. StartAp(c) \/ ApEntry(c) \/ ApSti(c)
      BY <2>3
    <3>2. pc'[0] = pc[0] /\ pc[0] \notin {"scheduler_init", "set_idle", "boot_enqueue"}
      BY <1>5, <2>1, <2>3, <3>1 DEF StartAp, ApEntry, ApSti, IInv, BootInv
    <3>3. pc'[c] \in {"ap_entry", "sti", "run"}
      BY <3>1 DEF StartAp, ApEntry, ApSti, Goto, IInv, TypeOK
    <3>4. QED
      BY <1>2, <1>5, <3>2, <3>3 DEF IInv, BootInv, BootPc
  <2>4. QED BY <2>2, <2>3
<1>8. QED BY <1>4, <1>6, <1>7 DEF IInv

\* Setting up the queues and the current tasks.
LEMMA BootSetupSteps ==
  ASSUME IInv, SchedulerInit \/ SetBootIdle
  PROVE  IInv'
<1>1. /\ 0 \in Cpus
      /\ UNCHANGED <<next, time_slice, state, pending, cpu_ready_count>>
      /\ pending = BootTasks
      /\ \A c \in Cpus : Idle[c] \in Tasks \ BootTasks /\ Belongs(Idle[c], c)
      /\ \A t \in Tasks, c \in Cpus : Belongs(t, c) => t \in BootTasks \/ t = Idle[c]
  BY CpuAssumption, TaskAssumption
     DEF Cpus, SchedulerInit, SetBootIdle, Belongs, BootTasks, IdleTasks, IInv, BootInv
<1>2. CASE SchedulerInit
  <2>1. TypeOK'
    BY <1>1, <1>2, EmptyQueue DEF SchedulerInit, IInv, TypeOK, Goto, BootPc
  <2>2. /\ pc'[0] = "set_idle" /\ current_task'[0] = NoTask
        /\ \A c \in Cpus \ {0} : pc'[c] = "off" /\ current_task'[c] = Idle[c]
        /\ \A c \in Cpus : runnable_list'[c] = <<>> /\ nr_running'[c] = 0 /\ lock'[c] = Unlocked
    BY <1>1, <1>2 DEF SchedulerInit, IInv, TypeOK, BootInv, Goto
  <2>3. BootInv'
    BY <1>1, <2>2 DEF BootInv, BootPc, ApPc
  <2>4. ASSUME NEW c \in Cpus PROVE CpuInv(c)'
    BY <1>1, <2>2, EmptyQueue, TaskAssumption
       DEF CpuInv, LockInv, HomeInv, PlaceInv, KeptInv, OnQueue, SwitchPc, BootTasks
  <2>5. QED BY <2>1, <2>3, <2>4 DEF IInv
<1>3. CASE SetBootIdle
  <2>1. TypeOK'
    BY <1>1, <1>3 DEF SetBootIdle, IInv, TypeOK, Goto, BootPc
  <2>2. /\ pc'[0] = "boot_enqueue" /\ current_task'[0] = Idle[0]
        /\ \A c \in Cpus \ {0} : pc'[c] = "off" /\ current_task'[c] = current_task[c]
        /\ \A c \in Cpus : runnable_list[c] = <<>>
        /\ \A c \in Cpus \ {0} : View(c)' = View(c)
        /\ UNCHANGED <<runnable_list, nr_running, lock>>
    BY <1>1, <1>3 DEF SetBootIdle, IInv, TypeOK, BootInv, Goto, View
  <2>3. BootInv'
    BY <1>1, <1>3, <2>2 DEF SetBootIdle, IInv, BootInv, BootPc, ApPc
  <2>4. CpuInv(0)'
    BY <1>1, <1>3, <2>2, EmptyQueue
       DEF SetBootIdle, IInv, CpuInv, LockInv, HomeInv, PlaceInv, KeptInv, OnQueue, SwitchPc
  <2>5. ASSUME NEW c \in Cpus \ {0} PROVE CpuInv(c)'
    BY <1>1, <2>2, Frame DEF IInv
  <2>6. QED BY <2>1, <2>3, <2>4, <2>5 DEF IInv
<1>4. QED BY <1>2, <1>3

\* enqueue_task(t, HomeCpu[t]) during boot.
LEMMA BootEnqueueStep ==
  ASSUME IInv, NEW t \in Tasks, BootEnqueue(t)
  PROVE  IInv'
<1> DEFINE h == HomeCpu[t]
           q == runnable_list[h]
<1>1. /\ t \in pending /\ t \in BootTasks
      /\ h \in Cpus /\ Belongs(t, h)
      /\ pc[0] = "boot_enqueue"
      /\ pending' = pending \ {t}
      /\ UNCHANGED <<pc, lock, current_task, next, time_slice, state, cpu_ready_count>>
  BY TaskAssumption DEF BootEnqueue, IInv, TypeOK, Belongs
<1>2. t \notin Range(q) /\ IsInjective(q) /\ q \in Seq(Tasks) /\ nr_running[h] = Len(q)
  BY <1>1 DEF IInv, TypeOK, CpuInv, PlaceInv, OnQueue
<1>3. /\ Append(q, t) \in Seq(Tasks) /\ Len(Append(q, t)) = Len(q) + 1
      /\ Range(Append(q, t)) = Range(q) \cup {t}
      /\ IsInjective(Append(q, t))
  BY <1>2, AppendFacts
<1>4. /\ runnable_list' = [runnable_list EXCEPT ![h] = Append(q, t)]
      /\ nr_running' = [nr_running EXCEPT ![h] = @ + 1]
  BY DEF BootEnqueue, ListAddTail
<1>5. TypeOK'
  BY <1>1, <1>3, <1>4 DEF IInv, TypeOK
<1>6. BootInv'
  BY <1>1 DEF IInv, BootInv, ApPc
<1>7. ASSUME NEW c \in Cpus PROVE CpuInv(c)'
  <2>1. pc[c] \notin SchedPc /\ CpuInv(c)
    BY <1>1, <1>7 DEF IInv, BootInv, SchedPc
  <2>2. CASE c = h
    <3>1. /\ runnable_list'[c] = Append(q, t)
          /\ nr_running'[c] = nr_running[h] + 1
      BY <1>1, <1>4, <2>2 DEF IInv, TypeOK
    <3>2. LockInv(c)' /\ HomeInv(c)' /\ nr_running'[c] = Len(runnable_list'[c])
      BY <1>1, <1>2, <1>3, <2>1, <2>2, <3>1 DEF CpuInv, LockInv, HomeInv, OnQueue
    <3>3. PlaceInv(c)' /\ KeptInv(c)'
      BY <1>1, <1>2, <1>3, <2>1, <2>2, <3>1
         DEF CpuInv, PlaceInv, KeptInv, OnQueue, SwitchPc, SchedPc
    <3>4. QED BY <3>2, <3>3 DEF CpuInv
  <2>3. CASE c # h
    <3>1. runnable_list'[c] = runnable_list[c] /\ nr_running'[c] = nr_running[c]
      BY <1>4, <2>3 DEF IInv, TypeOK
    <3>2. ~Belongs(t, c)
      BY <1>1, <2>3, BelongsOnce
    <3>3. QED
      BY <1>1, <2>1, <3>1, <3>2
         DEF CpuInv, LockInv, HomeInv, PlaceInv, KeptInv, OnQueue
  <2>4. QED BY <2>2, <2>3
<1>8. QED BY <1>5, <1>6, <1>7 DEF IInv

-----------------------------------------------------------------------------
\* Before the first boot step nothing is queued and nothing runs.
LEMMA InitIInv == Init => IInv
<1> SUFFICES ASSUME Init PROVE IInv
  OBVIOUS
<1>1. 0 \in Cpus
  BY CpuAssumption DEF Cpus
<1>2. TypeOK
  BY SliceAssumption, EmptyQueue DEF Init, TypeOK, BootPc, ApPc, Cpus
<1>3. BootInv
  BY <1>1 DEF Init, BootInv, BootPc, ApPc
<1>4. ASSUME NEW c \in Cpus PROVE CpuInv(c)
  BY TaskAssumption, EmptyQueue
     DEF Init, CpuInv, LockInv, HomeInv, PlaceInv, KeptInv, OnQueue, SwitchPc, BootTasks
<1>5. QED BY <1>2, <1>3, <1>4 DEF IInv

\* Every step of boot, schedule() and the system calls keeps the invariant.
LEMMA NextIInv == IInv /\ [Next]_vars => IInv'
<1> SUFFICES ASSUME IInv, [Next]_vars PROVE IInv'
  OBVIOUS
<1>1. CASE Boot
  <2>1. 0 \in Cpus
    BY CpuAssumption DEF Cpus
  <2>2. CASE SchedulerInit \/ SetBootIdle
    BY <2>2, BootSetupSteps
  <2>3. CASE BootEnqueued \/ AllApsStarted \/ BspSti
    BY <2>1, <2>3, BootPcSteps
  <2>4. CASE \E t \in Tasks : BootEnqueue(t)
    BY <2>4, BootEnqueueStep
  <2>5. CASE \E c \in Cpus : StartAp(c)
    BY <2>5, BootPcSteps
  <2>6. QED BY <1>1, <2>2, <2>3, <2>4, <2>5 DEF Boot
<1>2. ASSUME NEW c \in Cpus, ScheduleStep(c) PROVE IInv'
  BY <1>2, BootPcSteps, LockSteps, PickSteps, SwitchSteps DEF ScheduleStep
<1>3. ASSUME NEW c \in Cpus, TimerInterrupt(c) \/ Syscall(c) PROVE IInv'
  BY <1>3, EntrySteps DEF Syscall
<1>4. CASE UNCHANGED vars
  <2>1. TypeOK' /\ BootInv'
    BY <1>4 DEF vars, IInv, TypeOK, BootInv
  <2>2. ASSUME NEW c \in Cpus PROVE CpuInv(c)'
    BY <1>4, Frame DEF vars, View, IInv
  <2>3. QED BY <2>1, <2>2 DEF IInv
<1>5. QED BY <1>1, <1>2, <1>3, <1>4 DEF Next

\* IInv holds in every reachable state.
THEOREM Invariance == Spec => []IInv
BY InitIInv, NextIInv, PTL DEF Spec

\* Every variable keeps its type, for any number of CPUs and tasks.
THEOREM TypeCorrect == Spec => []TypeOK
<1>1. IInv => TypeOK
  BY DEF IInv
<1>2. QED BY <1>1, Invariance, PTL

\* Two CPUs never have the same current task.
LEMMA CurrentDistinct ==
  ASSUME IInv, NEW c \in Cpus, NEW d \in Cpus, c # d, current_task[c] \in Tasks
  PROVE  current_task[c] # current_task[d]
BY BelongsOnce DEF IInv, CpuInv, HomeInv

\* No task executes on two CPUs or while it is queued.
THEOREM RunsOnceHolds == Spec => []RunsOnce
<1>1. IInv => RunsOnce
  <2> SUFFICES ASSUME IInv, NEW c \in Cpus, pc[c] = "run", NEW d \in Cpus
               PROVE  /\ current_task[c] \notin OnQueue(d)
                      /\ d # c => current_task[d] # current_task[c]
    BY DEF RunsOnce, Running
  <2>1. current_task[c] \in Tasks /\ Belongs(current_task[c], c)
    BY DEF IInv, BootInv, BootPc, CpuInv, HomeInv
  <2>2. CASE c = d
    BY <2>2 DEF IInv, CpuInv, PlaceInv
  <2>3. CASE c # d
    BY <2>1, <2>3, BelongsOnce, CurrentDistinct DEF IInv, CpuInv, HomeInv
  <2>4. QED BY <2>2, <2>3
<1>2. QED BY <1>1, Invariance, PTL

\* No task is linked into the run queues twice.
THEOREM QueuedOnceHolds == Spec => []QueuedOnce
<1>1. IInv => QueuedOnce
  BY BelongsOnce DEF IInv, CpuInv, HomeInv, PlaceInv, QueuedOnce
<1>2. QED BY <1>1, Invariance, PTL

\* nr_running always counts its list.
THEOREM NrRunningHolds == Spec => []NrRunningExact
<1>1. IInv => NrRunningExact
  BY DEF IInv, CpuInv, NrRunningExact
<1>2. QED BY <1>1, Invariance, PTL

\* No CPU takes an interrupt before boot has set it up.
THEOREM BootOrderHolds == Spec => []ReadyBeforeInterrupts
<1>1. IInv => ReadyBeforeInterrupts
  BY DEF IInv, BootInv, BootPc, SchedPc, ReadyBeforeInterrupts
<1>2. QED BY <1>1, Invariance, PTL

\* The scheduler loses no task, and no task changes its CPU.
THEOREM NoTaskLostHolds == Spec => []NoTaskLost
<1>1. IInv => NoTaskLost
  BY DEF IInv, BootInv, BootPc, SchedPc, CpuInv, KeptInv, NoTaskLost
<1>2. QED BY <1>1, Invariance, PTL

-----------------------------------------------------------------------------
\* What schedule() has prepared by the time it calls set_current_task.
SwitchInv ==
  \A c \in Cpus :
    /\ pc[c] \in {"enqueue", "enqueue_locked", "set_current"} =>
         time_slice[current_task[c]] = DEFAULT_TIME_SLICE
    /\ pc[c] = "set_current" =>
         /\ runnable_list[c] # <<>>
         /\ runnable_list[c][Len(runnable_list[c])] = current_task[c]
    /\ pc[0] = "scheduler_init" => current_task[c] = NoTask

\* Boot steps switch no task.
LEMMA BootSwitchInv == IInv /\ SwitchInv /\ Boot => SwitchInv'
<1> SUFFICES ASSUME IInv, SwitchInv, Boot, NEW c \in Cpus
             PROVE  /\ pc'[c] \notin {"enqueue", "enqueue_locked", "set_current"}
                       \/ (/\ pc'[c] = pc[c] /\ time_slice' = time_slice
                           /\ runnable_list' = runnable_list
                           /\ current_task' = current_task)
                    /\ pc'[0] # "scheduler_init"
  BY DEF SwitchInv
<1>1. 0 \in Cpus
  BY CpuAssumption DEF Cpus
<1>2. CASE SchedulerInit \/ SetBootIdle \/ \E t \in Tasks : BootEnqueue(t)
  BY <1>1, <1>2
     DEF SchedulerInit, SetBootIdle, BootEnqueue, Goto, IInv, TypeOK, BootInv
<1>3. CASE BootEnqueued \/ AllApsStarted \/ BspSti \/ \E d \in Cpus : StartAp(d)
  BY <1>1, <1>3
     DEF BootEnqueued, AllApsStarted, BspSti, StartAp, Goto, IInv, TypeOK
<1>4. QED BY <1>2, <1>3 DEF Boot

\* A step of CPU c, which may change the slice of c's current task only.
LEMMA LocalSwitchInv ==
  ASSUME IInv, SwitchInv, NEW c \in Cpus, NEW l \in SchedPc \cup ApPc, Goto(c, l),
         pc[c] \in SchedPc \cup {"ap_entry", "sti"},
         \A d \in Cpus \ {c} : runnable_list'[d] = runnable_list[d]
                               /\ current_task'[d] = current_task[d],
         time_slice' = time_slice
           \/ \E n : time_slice' = [time_slice EXCEPT ![current_task[c]] = n],
         l \in {"enqueue", "enqueue_locked", "set_current"} =>
           time_slice'[current_task'[c]] = DEFAULT_TIME_SLICE,
         l = "set_current" =>
           /\ runnable_list'[c] # <<>>
           /\ runnable_list'[c][Len(runnable_list'[c])] = current_task'[c]
  PROVE  SwitchInv'
<1>1. /\ pc[0] \notin {"scheduler_init", "set_idle"}
      /\ \A d \in Cpus : current_task[d] \in Tasks
  BY DEF IInv, BootInv, SchedPc
<1>2. /\ pc'[c] = l /\ \A d \in Cpus \ {c} : pc'[d] = pc[d]
      /\ 0 \in Cpus
  BY CpuAssumption DEF Goto, IInv, TypeOK, Cpus
<1>3. pc'[0] # "scheduler_init"
  BY <1>1, <1>2 DEF SchedPc, ApPc
<1>4. ASSUME NEW d \in Cpus \ {c}
      PROVE  time_slice'[current_task[d]] = time_slice[current_task[d]]
  BY <1>1, CurrentDistinct DEF IInv, TypeOK
<1>5. QED
  BY <1>2, <1>3, <1>4 DEF SwitchInv

\* The steps of CPU c: between the switch and set_current_task the outgoing
\* task has its new slice, then its place at the tail.
LEMMA CpuSwitchInv ==
  ASSUME IInv, SwitchInv, NEW c \in Cpus, TimerInterrupt(c) \/ ScheduleStep(c) \/ Syscall(c)
  PROVE  SwitchInv'
<1>1. CASE TimerInterrupt(c) \/ Syscall(c)
  <2>1. PICK l \in {"run", "pick"} : Goto(c, l)
    BY <1>1 DEF TimerInterrupt, Syscall, Nanosleep, Exit, ScheduleEntry, Goto, IInv, TypeOK
  <2>2. /\ pc[c] = "run" /\ UNCHANGED <<runnable_list, current_task>>
        /\ \/ time_slice' = time_slice
           \/ \E n : time_slice' = [time_slice EXCEPT ![current_task[c]] = n]
    BY <1>1 DEF TimerInterrupt, Syscall, Nanosleep, Exit, ScheduleEntry
  <2>3. QED BY <2>1, <2>2, LocalSwitchInv DEF SchedPc
<1>2. CASE ApEntry(c) \/ ApSti(c) \/ PickLock(c) \/ PickEmpty(c) \/ BalanceLock(c) \/ SwitchSame(c)
  <2>1. PICK l \in {"sti", "run", "pick_locked", "balance", "balance_locked"} : Goto(c, l)
    BY <1>2 DEF ApEntry, ApSti, PickLock, PickEmpty, BalanceLock, SwitchSame
  <2>2. /\ pc[c] \in SchedPc \cup {"ap_entry", "sti"}
        /\ UNCHANGED <<runnable_list, current_task, time_slice>>
    BY <1>2 DEF ApEntry, ApSti, PickLock, PickEmpty, BalanceLock, SwitchSame, SchedPc
  <2>3. QED BY <2>1, <2>2, LocalSwitchInv DEF SchedPc, ApPc
<1>3. CASE PickHead(c) \/ BalanceResult(c)
  <2>1. /\ pc[c] \in SchedPc /\ Goto(c, "switch") /\ UNCHANGED <<current_task, time_slice>>
        /\ \A d \in Cpus \ {c} : runnable_list'[d] = runnable_list[d]
    BY <1>3 DEF PickHead, BalanceResult, ListDelHead, SchedPc, IInv, TypeOK
  <2>2. QED BY <2>1, LocalSwitchInv DEF SchedPc
<1>4. CASE SwitchAway(c)
  <2>1. /\ pc[c] \in SchedPc /\ Goto(c, "enqueue")
        /\ UNCHANGED <<runnable_list, current_task>>
        /\ time_slice' = [time_slice EXCEPT ![current_task[c]] = DEFAULT_TIME_SLICE]
        /\ current_task[c] \in Tasks
    BY <1>4 DEF SwitchAway, SchedPc, IInv, BootInv
  <2>2. time_slice'[current_task'[c]] = DEFAULT_TIME_SLICE
    BY <2>1 DEF IInv, TypeOK
  <2>3. QED BY <2>1, <2>2, LocalSwitchInv DEF SchedPc
<1>5. CASE EnqueueLock(c)
  <2>1. /\ pc[c] = "enqueue" /\ Goto(c, "enqueue_locked")
        /\ UNCHANGED <<runnable_list, current_task, time_slice>>
    BY <1>5 DEF EnqueueLock
  <2>2. QED BY <2>1, LocalSwitchInv DEF SchedPc, SwitchInv
<1>6. CASE EnqueueCurrent(c)
  <2>1. /\ pc[c] = "enqueue_locked" /\ Goto(c, "set_current")
        /\ UNCHANGED <<current_task, time_slice>>
        /\ runnable_list' = [runnable_list EXCEPT ![c] = Append(@, current_task[c])]
        /\ current_task[c] \in Tasks
    BY <1>6 DEF EnqueueCurrent, ListAddTail, IInv, BootInv
  <2>2. /\ runnable_list[c] \in Seq(Tasks)
        /\ runnable_list'[c] = Append(runnable_list[c], current_task[c])
        /\ \A d \in Cpus \ {c} : runnable_list'[d] = runnable_list[d]
    BY <2>1 DEF IInv, TypeOK
  <2>3. /\ runnable_list'[c] # <<>>
        /\ runnable_list'[c][Len(runnable_list'[c])] = current_task'[c]
    BY <2>1, <2>2, AppendProperties
  <2>4. QED BY <2>1, <2>2, <2>3, LocalSwitchInv DEF SchedPc, SwitchInv
<1>7. CASE SetCurrent(c)
  <2>1. /\ pc[c] \in SchedPc /\ Goto(c, "run") /\ UNCHANGED <<runnable_list, time_slice>>
        /\ \A d \in Cpus \ {c} : current_task'[d] = current_task[d]
    BY <1>7 DEF SetCurrent, SchedPc, IInv, TypeOK
  <2>2. QED BY <2>1, LocalSwitchInv DEF SchedPc
<1>8. QED
  BY <1>1, <1>2, <1>3, <1>4, <1>5, <1>6, <1>7 DEF ScheduleStep

\* A CPU gives up a task only onto the tail of its own queue with a new slice.
THEOREM SwitchRequeuesHolds == Spec => SwitchRequeues
<1>1. Init => SwitchInv
  BY DEF Init, SwitchInv
<1>2. IInv /\ SwitchInv /\ [Next]_vars => SwitchInv'
  <2>1. IInv /\ SwitchInv /\ Next => SwitchInv'
    BY BootSwitchInv, CpuSwitchInv DEF Next
  <2>2. SwitchInv /\ UNCHANGED vars => SwitchInv'
    BY DEF SwitchInv, vars
  <2>3. QED BY <2>1, <2>2
<1>3. ASSUME IInv, SwitchInv, [Next]_vars, NEW c \in Cpus,
             current_task[c] # NoTask, current_task'[c] # current_task[c]
      PROVE  /\ runnable_list'[c] # <<>>
             /\ runnable_list'[c][Len(runnable_list'[c])] = current_task[c]
             /\ time_slice'[current_task[c]] = DEFAULT_TIME_SLICE
  <2>1. SetCurrent(c)
    <3>1. ~UNCHANGED vars
      BY <1>3 DEF vars
    <3>2. ~Boot
      <4>1. 0 \in Cpus
        BY CpuAssumption DEF Cpus
      <4>2. ~SchedulerInit
        BY <1>3 DEF SchedulerInit, SwitchInv
      <4>3. ~SetBootIdle
        BY <1>3, <4>1 DEF SetBootIdle, IInv, TypeOK, BootInv
      <4>4. QED
        BY <1>3, <4>2, <4>3
           DEF Boot, BootEnqueued, AllApsStarted, BspSti, BootEnqueue, StartAp
    <3>3. ASSUME NEW d \in Cpus, ~SetCurrent(d)
          PROVE  ~(TimerInterrupt(d) \/ ScheduleStep(d) \/ Syscall(d))
      BY <1>3, <3>3 DEF TimerInterrupt, Syscall, Nanosleep, Exit, ScheduleStep, ApEntry, ApSti,
         PickLock, PickHead, PickEmpty, BalanceLock, BalanceResult, SwitchSame, SwitchAway,
         EnqueueLock, EnqueueCurrent
    <3>4. PICK d \in Cpus : SetCurrent(d)
      BY <1>3, <3>1, <3>2, <3>3 DEF Next
    <3>5. QED BY <1>3, <3>4 DEF SetCurrent, IInv, TypeOK
  <2>2. QED BY <1>3, <2>1 DEF SetCurrent, SwitchInv
<1>4. IInv /\ SwitchInv /\ [Next]_vars =>
        [\A c \in Cpus :
           current_task[c] # NoTask /\ current_task'[c] # current_task[c] =>
             /\ runnable_list'[c] # <<>>
             /\ runnable_list'[c][Len(runnable_list'[c])] = current_task[c]
             /\ time_slice'[current_task[c]] = DEFAULT_TIME_SLICE]_vars
  BY <1>3
<1>5. QED BY <1>1, <1>2, <1>4, Invariance, PTL DEF Spec, SwitchRequeues

=============================================================================
