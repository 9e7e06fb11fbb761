---------------------------- MODULE SmpScheduler ----------------------------
(***************************************************************************)
(* The SMP scheduler: per-CPU run queues (kernel/smp/smp_scheduler.cpp),   *)
(* ProcessManager::schedule and the calls that reach it                    *)
(* (kernel/process/process.cpp, kernel/core/main.cpp), and the boot        *)
(* sequence that fills the queues and starts the application processors    *)
(* (kernel/core/main.cpp, arch/x86/smp.cpp).                               *)
(*                                                                         *)
(* Every call of schedule() is made with interrupts disabled on the        *)
(* calling CPU, so a CPU is either in task context (pc = "run") or at one  *)
(* point of schedule().  The steps of different CPUs interleave freely; a  *)
(* critical section protected by a run queue's spin lock is two steps,     *)
(* one that takes the lock and one that does the work and releases it.     *)
(*                                                                         *)
(* kernel_main enqueues one task, init, on CPU 1.  BootTasks and HomeCpu   *)
(* generalise that call to any number of tasks on any CPUs.                *)
(***************************************************************************)
EXTENDS Integers, Sequences, Functions

CONSTANTS
  NCpus,              \* arch::apic_get_cpu_count()
  Tasks,              \* every Task object
  Idle,               \* Idle[c] is the task create_idle_task makes for CPU c
  HomeCpu,            \* HomeCpu[t] is the cpu_id boot passes to enqueue_task(t, cpu_id)
  DEFAULT_TIME_SLICE,
  INT_MIN, INT_MAX,   \* the range of int32_t Task::time_slice
  NoTask              \* a null Task pointer

Cpus == 0 .. NCpus - 1
IdleTasks == {Idle[c] : c \in Cpus}
BootTasks == Tasks \ IdleTasks

ASSUME CpuAssumption == NCpus \in Nat \ {0}
ASSUME TaskAssumption ==
  /\ Idle \in [Cpus -> Tasks]
  /\ \A c, d \in Cpus : Idle[c] = Idle[d] => c = d
  /\ HomeCpu \in [BootTasks -> Cpus]
  /\ NoTask \notin Tasks
ASSUME SliceAssumption ==
  /\ INT_MIN \in Int /\ INT_MAX \in Int
  /\ INT_MIN < 0
  /\ DEFAULT_TIME_SLICE \in 1 .. INT_MAX

VARIABLES
  pc,             \* pc[c]: where CPU c is in boot or in schedule()
  runnable_list,  \* runnable_list[c]: the tasks on CPU c's run queue, head first
  nr_running,     \* nr_running[c]: the counter kept beside the list
  lock,           \* lock[c]: the CPU that holds the spin lock of c's queue, or NCpus
  current_task,   \* current_task[c], NoTask before boot sets it
  next,           \* next[c]: the local variable of schedule() on CPU c
  time_slice,     \* time_slice[t]
  state,          \* state[t]: Task::state
  pending,        \* the boot tasks kernel_main has still to enqueue
  cpu_ready_count

vars == <<pc, runnable_list, nr_running, lock, current_task, next,
          time_slice, state, pending, cpu_ready_count>>

Unlocked == NCpus

BootPc == {"scheduler_init", "set_idle", "boot_enqueue", "start_aps", "wait_aps"}
ApPc == {"off", "ap_entry", "sti"}
SchedPc == {"run", "pick", "pick_locked", "balance", "balance_locked",
            "switch", "enqueue", "enqueue_locked", "set_current"}
\* next[c] has been picked and is not yet current.
SwitchPc == {"switch", "enqueue", "enqueue_locked", "set_current"}

TypeOK ==
  /\ pc \in [Cpus -> BootPc \cup ApPc \cup SchedPc]
  /\ runnable_list \in [Cpus -> Seq(Tasks)]
  /\ nr_running \in [Cpus -> Int]
  /\ lock \in [Cpus -> Cpus \cup {Unlocked}]
  /\ current_task \in [Cpus -> Tasks \cup {NoTask}]
  /\ next \in [Cpus -> Tasks \cup {NoTask}]
  /\ time_slice \in [Tasks -> INT_MIN .. INT_MAX]
  /\ state \in [Tasks -> {"READY", "SLEEPING", "EXITED"}]
  /\ pending \subseteq BootTasks
  /\ cpu_ready_count \in Nat

\* kernel_task has made every task READY with a full slice; no CPU but the
\* boot processor (CPU 0) has started.
Init ==
  /\ pc = [c \in Cpus |-> IF c = 0 THEN "scheduler_init" ELSE "off"]
  /\ runnable_list = [c \in Cpus |-> <<>>]
  /\ nr_running = [c \in Cpus |-> 0]
  /\ lock = [c \in Cpus |-> Unlocked]
  /\ current_task = [c \in Cpus |-> NoTask]
  /\ next = [c \in Cpus |-> NoTask]
  /\ time_slice = [t \in Tasks |-> DEFAULT_TIME_SLICE]
  /\ state = [t \in Tasks |-> "READY"]
  /\ pending = BootTasks
  /\ cpu_ready_count = 0

Goto(c, label) == pc' = [pc EXCEPT ![c] = label]

(***************************************************************************)
(* spin_lock and the end of a critical section on CPU q's run queue.       *)
(***************************************************************************)
SpinLock(c, q) ==
  /\ lock[q] = Unlocked
  /\ lock' = [lock EXCEPT ![q] = c]

SpinUnlock(q) == lock' = [lock EXCEPT ![q] = Unlocked]

\* Mutant: list_add in place of list_add_tail.
ListAddHead(q, t) ==
  /\ runnable_list' = [runnable_list EXCEPT ![q] = <<t>> \o @]
  /\ nr_running' = [nr_running EXCEPT ![q] = @ + 1]

ListAddTail(q, t) ==
  /\ runnable_list' = [runnable_list EXCEPT ![q] = Append(@, t)]
  /\ nr_running' = [nr_running EXCEPT ![q] = @ + 1]

\* Mutant: the picked task stays linked.
ListPeekHead(q) == UNCHANGED <<runnable_list, nr_running>>

ListDelHead(q) ==
  /\ runnable_list' = [runnable_list EXCEPT ![q] = Tail(@)]
  /\ nr_running' = [nr_running EXCEPT ![q] = @ - 1]

-----------------------------------------------------------------------------
(***************************************************************************)
(* Boot.                                                                   *)
(***************************************************************************)

\* SMP_Scheduler::init: empty queues, and an idle task for every CPU but 0.
SchedulerInit ==
  /\ pc[0] = "scheduler_init"
  /\ runnable_list' = [c \in Cpus |-> <<>>]
  /\ nr_running' = [c \in Cpus |-> 0]
  /\ lock' = [c \in Cpus |-> Unlocked]
  /\ current_task' = [c \in Cpus |-> IF c = 0 THEN current_task[0] ELSE Idle[c]]
  /\ Goto(0, "set_idle")
  /\ UNCHANGED <<next, time_slice, state, pending, cpu_ready_count>>

\* kernel_main: set_idle_task(idle_task); set_current_task(idle_task) on CPU 0.
SetBootIdle ==
  /\ pc[0] = "set_idle"
  /\ current_task' = [current_task EXCEPT ![0] = Idle[0]]
  /\ Goto(0, "boot_enqueue")
  /\ UNCHANGED <<runnable_list, nr_running, lock, next, time_slice, state,
                 pending, cpu_ready_count>>

\* kernel_main: enqueue_task(t, HomeCpu[t]).  No other CPU has started, so the
\* lock is free and the call is one step.
BootEnqueue(t) ==
  /\ pc[0] = "boot_enqueue"
  /\ t \in pending
  /\ lock[HomeCpu[t]] = Unlocked
  /\ ListAddTail(HomeCpu[t], t)
  /\ pending' = pending \ {t}
  /\ UNCHANGED <<pc, lock, current_task, next, time_slice, state, cpu_ready_count>>

\* Mutant: the APs are started before the boot tasks are enqueued.
BootEnqueuedEarly ==
  /\ pc[0] = "boot_enqueue"
  /\ Goto(0, "start_aps")
  /\ UNCHANGED <<runnable_list, nr_running, lock, current_task, next, time_slice,
                 state, pending, cpu_ready_count>>

BootEnqueued ==
  /\ pc[0] = "boot_enqueue"
  /\ pending = {}
  /\ Goto(0, "start_aps")
  /\ UNCHANGED <<runnable_list, nr_running, lock, current_task, next, time_slice,
                 state, pending, cpu_ready_count>>

\* smp_init: INIT-SIPI-SIPI to the application processors in ascending order.
StartAp(c) ==
  /\ pc[0] = "start_aps"
  /\ c # 0 /\ pc[c] = "off"
  /\ \A d \in 1 .. c - 1 : pc[d] # "off"
  /\ Goto(c, "ap_entry")
  /\ UNCHANGED <<runnable_list, nr_running, lock, current_task, next, time_slice,
                 state, pending, cpu_ready_count>>

AllApsStarted ==
  /\ pc[0] = "start_aps"
  /\ \A c \in Cpus : pc[c] # "off"
  /\ Goto(0, "wait_aps")
  /\ UNCHANGED <<runnable_list, nr_running, lock, current_task, next, time_slice,
                 state, pending, cpu_ready_count>>

\* ap_entry: the AP adopts its current task and announces itself; sti follows.
ApEntry(c) ==
  /\ pc[c] = "ap_entry"
  /\ cpu_ready_count' = cpu_ready_count + 1
  /\ Goto(c, "sti")
  /\ UNCHANGED <<runnable_list, nr_running, lock, current_task, next, time_slice,
                 state, pending>>

ApSti(c) ==
  /\ pc[c] = "sti"
  /\ Goto(c, "run")
  /\ UNCHANGED <<runnable_list, nr_running, lock, current_task, next, time_slice,
                 state, pending, cpu_ready_count>>

\* Mutant: the boot processor counts itself among those it waits for.
BspStiOffByOne ==
  /\ pc[0] = "wait_aps"
  /\ cpu_ready_count >= NCpus
  /\ Goto(0, "run")
  /\ UNCHANGED <<runnable_list, nr_running, lock, current_task, next, time_slice,
                 state, pending, cpu_ready_count>>

\* smp_init returns once every AP is ready; kernel_main enables interrupts.
BspSti ==
  /\ pc[0] = "wait_aps"
  /\ cpu_ready_count >= NCpus - 1
  /\ Goto(0, "run")
  /\ UNCHANGED <<runnable_list, nr_running, lock, current_task, next, time_slice,
                 state, pending, cpu_ready_count>>

-----------------------------------------------------------------------------
(***************************************************************************)
(* schedule() and its callers.                                             *)
(***************************************************************************)

\* Mutant: a slice that is not charged.
DecrementNot(n) == n

\* --time_slice on an int32_t.
Decrement(n) == IF n = INT_MIN THEN INT_MAX ELSE n - 1

\* schedule() up to its first return: the slice is charged, and a task with
\* some slice left keeps the CPU.
ScheduleEntry(c) ==
  /\ time_slice' = [time_slice EXCEPT ![current_task[c]] = Decrement(@)]
  /\ Goto(c, IF Decrement(time_slice[current_task[c]]) > 0 THEN "run" ELSE "pick")

\* The handlers of IRQ_TIMER and APIC_TIMER_VECTOR.
TimerInterrupt(c) ==
  /\ pc[c] = "run"
  /\ ScheduleEntry(c)
  /\ UNCHANGED <<runnable_list, nr_running, lock, current_task, next, state,
                 pending, cpu_ready_count>>

\* nanosleepHandler, sleep_current_process.  Idle tasks make no system calls.
Nanosleep(c) ==
  /\ pc[c] = "run"
  /\ current_task[c] \in BootTasks
  /\ state' = [state EXCEPT ![current_task[c]] = "SLEEPING"]
  /\ ScheduleEntry(c)
  /\ UNCHANGED <<runnable_list, nr_running, lock, current_task, next, pending,
                 cpu_ready_count>>

\* exitHandler; the body of Scheduler::schedule, which it calls, is empty.
Exit(c) ==
  /\ pc[c] = "run"
  /\ current_task[c] \in BootTasks
  /\ state' = [state EXCEPT ![current_task[c]] = "EXITED"]
  /\ UNCHANGED <<pc, runnable_list, nr_running, lock, current_task, next,
                 time_slice, pending, cpu_ready_count>>

\* pick_next_task: take the lock of the local queue.
PickLock(c) ==
  /\ pc[c] = "pick"
  /\ SpinLock(c, c)
  /\ Goto(c, "pick_locked")
  /\ UNCHANGED <<runnable_list, nr_running, current_task, next, time_slice, state,
                 pending, cpu_ready_count>>

\* pick_next_task: take the head of the local queue.
PickHead(c) ==
  /\ pc[c] = "pick_locked"
  /\ runnable_list[c] # <<>>
  /\ next' = [next EXCEPT ![c] = Head(runnable_list[c])]
  /\ ListDelHead(c)
  /\ SpinUnlock(c)
  /\ Goto(c, "switch")
  /\ UNCHANGED <<current_task, time_slice, state, pending, cpu_ready_count>>

\* pick_next_task: the queue is empty, drop the lock and call load_balance.
PickEmpty(c) ==
  /\ pc[c] = "pick_locked"
  /\ runnable_list[c] = <<>>
  /\ SpinUnlock(c)
  /\ Goto(c, "balance")
  /\ UNCHANGED <<runnable_list, nr_running, current_task, next, time_slice, state,
                 pending, cpu_ready_count>>

\* load_balance locks the same, local queue again.
BalanceLock(c) ==
  /\ pc[c] = "balance"
  /\ SpinLock(c, c)
  /\ Goto(c, "balance_locked")
  /\ UNCHANGED <<runnable_list, nr_running, current_task, next, time_slice, state,
                 pending, cpu_ready_count>>

\* Mutant: one idle task for all CPUs, the last one created.
BalanceResultLastIdle(c) ==
  /\ pc[c] = "balance_locked"
  /\ IF runnable_list[c] # <<>>
       THEN /\ next' = [next EXCEPT ![c] = Head(runnable_list[c])]
            /\ ListDelHead(c)
       ELSE /\ next' = [next EXCEPT ![c] = Idle[NCpus - 1]]
            /\ UNCHANGED <<runnable_list, nr_running>>
  /\ SpinUnlock(c)
  /\ Goto(c, "switch")
  /\ UNCHANGED <<current_task, time_slice, state, pending, cpu_ready_count>>

\* load_balance: a task queued meanwhile, else this CPU's idle task.
BalanceResult(c) ==
  /\ pc[c] = "balance_locked"
  /\ IF runnable_list[c] # <<>>
       THEN /\ next' = [next EXCEPT ![c] = Head(runnable_list[c])]
            /\ ListDelHead(c)
       ELSE /\ next' = [next EXCEPT ![c] = Idle[c]]
            /\ UNCHANGED <<runnable_list, nr_running>>
  /\ SpinUnlock(c)
  /\ Goto(c, "switch")
  /\ UNCHANGED <<current_task, time_slice, state, pending, cpu_ready_count>>

\* schedule(): nothing else to run; time_slice is left as it is.
SwitchSame(c) ==
  /\ pc[c] = "switch"
  /\ next[c] = current_task[c]
  /\ Goto(c, "run")
  /\ UNCHANGED <<runnable_list, nr_running, lock, current_task, next, time_slice,
                 state, pending, cpu_ready_count>>

\* Mutant: the outgoing task is not enqueued.
SwitchNoEnqueue(c) ==
  /\ pc[c] = "switch"
  /\ next[c] # current_task[c]
  /\ time_slice' = [time_slice EXCEPT ![current_task[c]] = DEFAULT_TIME_SLICE]
  /\ Goto(c, "set_current")
  /\ UNCHANGED <<runnable_list, nr_running, lock, current_task, next, state,
                 pending, cpu_ready_count>>

\* schedule(): the outgoing task gets a new slice.
SwitchAway(c) ==
  /\ pc[c] = "switch"
  /\ next[c] # current_task[c]
  /\ time_slice' = [time_slice EXCEPT ![current_task[c]] = DEFAULT_TIME_SLICE]
  /\ Goto(c, "enqueue")
  /\ UNCHANGED <<runnable_list, nr_running, lock, current_task, next, state,
                 pending, cpu_ready_count>>

\* enqueue_task(current): on the local queue.
EnqueueLock(c) ==
  /\ pc[c] = "enqueue"
  /\ SpinLock(c, c)
  /\ Goto(c, "enqueue_locked")
  /\ UNCHANGED <<runnable_list, nr_running, current_task, next, time_slice, state,
                 pending, cpu_ready_count>>

EnqueueCurrent(c) ==
  /\ pc[c] = "enqueue_locked"
  /\ ListAddTail(c, current_task[c])
  /\ SpinUnlock(c)
  /\ Goto(c, "set_current")
  /\ UNCHANGED <<current_task, next, time_slice, state, pending, cpu_ready_count>>

\* set_current_task(next) and the return to task context.
SetCurrent(c) ==
  /\ pc[c] = "set_current"
  /\ current_task' = [current_task EXCEPT ![c] = next[c]]
  /\ Goto(c, "run")
  /\ UNCHANGED <<runnable_list, nr_running, lock, next, time_slice, state, pending,
                 cpu_ready_count>>

-----------------------------------------------------------------------------
Boot ==
  \/ SchedulerInit \/ SetBootIdle \/ BootEnqueued \/ AllApsStarted \/ BspSti
  \/ \E t \in Tasks : BootEnqueue(t)
  \/ \E c \in Cpus : StartAp(c)

ScheduleStep(c) ==
  \/ ApEntry(c) \/ ApSti(c)
  \/ PickLock(c) \/ PickHead(c) \/ PickEmpty(c)
  \/ BalanceLock(c) \/ BalanceResult(c)
  \/ SwitchSame(c) \/ SwitchAway(c)
  \/ EnqueueLock(c) \/ EnqueueCurrent(c) \/ SetCurrent(c)

Syscall(c) == Nanosleep(c) \/ Exit(c)

Next ==
  \/ Boot
  \/ \E c \in Cpus : TimerInterrupt(c) \/ ScheduleStep(c) \/ Syscall(c)

Spec == Init /\ [][Next]_vars

\* The code before sti runs to completion, the local APIC timers are periodic,
\* and schedule() runs with interrupts disabled; system calls are not promised.
Fairness ==
  /\ WF_vars(Boot)
  /\ \A c \in Cpus : WF_vars(TimerInterrupt(c)) /\ WF_vars(ScheduleStep(c))

FairSpec == Spec /\ Fairness
-----------------------------------------------------------------------------
(***************************************************************************)
(* Properties.                                                             *)
(***************************************************************************)

OnQueue(c) == Range(runnable_list[c])

\* t is the idle task of CPU c, or boot enqueued it there.
Belongs(t, c) == t = Idle[c] \/ (t \in BootTasks /\ HomeCpu[t] = c)

\* CPU c executes the code of its current task.
Running(c) == pc[c] = "run"

\* No task executes on two CPUs, and none executes while it is on a run queue
\* (where another schedule() could pick it): pick_next_task removes what it
\* returns, and schedule() enqueues the outgoing task only after next is known
\* to differ from it.
RunsOnce ==
  \A c \in Cpus : Running(c) =>
    /\ \A d \in Cpus : current_task[c] \notin OnQueue(d)
    /\ \A d \in Cpus \ {c} : current_task[d] # current_task[c]

\* No task is linked into the run queues twice: every Task has a single
\* list_head, so a second list_add_tail would corrupt both lists.
QueuedOnce ==
  /\ \A c \in Cpus : IsInjective(runnable_list[c])
  /\ \A c, d \in Cpus : c # d => OnQueue(c) \cap OnQueue(d) = {}

\* nr_running, which find_busiest_cpu compares, counts the list it stands for.
NrRunningExact == \A c \in Cpus : nr_running[c] = Len(runnable_list[c])

\* Every task that boot has placed stays with its CPU: it is that CPU's
\* current task, on that CPU's queue, or the one schedule() is switching to.
\* In particular the idle task that load_balance falls back on when the queue
\* is empty is the task that is already running, never a second copy.
NoTaskLost ==
  \A c \in Cpus : pc[c] \in SchedPc =>
    \A t \in Tasks : Belongs(t, c) =>
      \/ current_task[c] = t
      \/ t \in OnQueue(c)
      \/ next[c] = t /\ pc[c] \in SwitchPc

\* Boot order: no CPU takes an interrupt before its current task is set and
\* every boot task is queued (schedule() dereferences current without a check
\* once pick_next_task has returned a task).
ReadyBeforeInterrupts ==
  \A c \in Cpus : pc[c] \in SchedPc => current_task[c] \in Tasks /\ pending = {}

\* A CPU changes its current task only after putting the old one, with a fresh
\* slice, at the tail of its own queue.
SwitchRequeues ==
  [][\A c \in Cpus :
       current_task[c] # NoTask /\ current_task'[c] # current_task[c] =>
         /\ runnable_list'[c] # <<>>
         /\ runnable_list'[c][Len(runnable_list'[c])] = current_task[c]
         /\ time_slice'[current_task[c]] = DEFAULT_TIME_SLICE]_vars

\* Round robin: with periodic timer interrupts a boot task that has not called
\* exit gets the CPU again and again, also while other tasks on its queue sleep
\* or have exited, which schedule() does not look at.  It rests on system calls
\* that return: they run with interrupts off.
NoStarvation ==
  \A t \in BootTasks :
    []<>(state[t] = "EXITED" \/ \E c \in Cpus : Running(c) /\ current_task[c] = t)

\* The smp_init handshake completes: every CPU reaches sti.
BootCompletes == \A c \in Cpus : <>Running(c)

=============================================================================
