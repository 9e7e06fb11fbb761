---------------------------- MODULE ContextSwitch ----------------------------
(***************************************************************************)
(* The interrupt and system-call paths around the scheduler: the entry     *)
(* code of arch/x86/interrupt.asm, save_context and restore_context        *)
(* (kernel/process/process.cpp) and the system-call dispatch               *)
(* (kernel/core/syscall.cpp).  It composes SmpScheduler, whose steps run   *)
(* between the save and the restore.                                       *)
(*                                                                         *)
(* A register image is abstracted to the registers that differ in how they *)
(* travel: gp, everything that save_context and restore_context copy;      *)
(* eax, which a system call overwrites with its result; and ebx, its       *)
(* argument.  The stack pointer, which restore_context does not bring      *)
(* back, is left out.  Task code moves through the values 0 and 1.  own is *)
(* a history variable: the gp each task would see if it ran alone.         *)
(***************************************************************************)
EXTENDS SmpScheduler

VARIABLES
  mode,            \* mode[c]: "task", or a point of the entry code
  cpu_regs,        \* cpu_regs[c]: gp, eax and ebx of CPU c
  regs,            \* regs[t]: Task::regs
  loaded,          \* loaded[c]: the task whose esp0 and cr3 CPU c has loaded
  syscall_number, arg1,  \* the globals of interrupt.asm
  pushed,          \* pushed[c]: number and argument pushed for handleSyscall
  ret,             \* ret[c]: the handler's return value
  own              \* own[t]: history, what task t expects in gp

cvars == <<mode, cpu_regs, regs, loaded, syscall_number, arg1, pushed, ret, own>>
allvars == <<vars, cvars>>

\* Calls by their number; "getpid" answers with the current task, "other"
\* stands for the handlers that compute from their argument.
Calls == {"getpid", "other", "nanosleep", "exit"}
Args == {0, 1}

\* Contents of a register or a global: a plain value, a call's number, a
\* call's argument, or the answer of a handler.
Value(n) == <<"value", n>>
Number(n) == <<"number", n>>
Arg(a) == <<"arg", a>>
Pid(t) == <<"pid", t>>
Answer(a) == <<"answer", a>>

Image(gp, eax, ebx) == [gp |-> gp, eax |-> eax, ebx |-> ebx]

ContextInit ==
  /\ Init
  /\ mode = [c \in Cpus |-> "task"]
  /\ cpu_regs = [c \in Cpus |-> Image(<<Idle[c], 0>>, Value(0), Value(0))]
  /\ regs = [t \in Tasks |-> Image(<<t, 0>>, Value(0), Value(0))]
  /\ loaded = [c \in Cpus |-> NoTask]
  /\ syscall_number = Value(0)
  /\ arg1 = Value(0)
  /\ pushed = [c \in Cpus |-> <<Value(0), Value(0)>>]
  /\ ret = [c \in Cpus |-> Value(0)]
  /\ own = [t \in Tasks |-> <<t, 0>>]

InTask(c) == mode[c] = "task" /\ Running(c)
Enter(c, m) == mode' = [mode EXCEPT ![c] = m]

\* Task code between two interrupts.  The idle loops of ap_entry and
\* kernel_main execute hlt and leave the registers alone.
Compute(c) ==
  \E n \in {0, 1} :
    LET t == current_task[c] IN
      /\ InTask(c)
      /\ t \in BootTasks
      /\ cpu_regs' = [cpu_regs EXCEPT ![c] = Image(<<t, n>>, Value(n), Value(n))]
      /\ own' = [own EXCEPT ![t] = <<t, n>>]
      /\ UNCHANGED <<vars, mode, regs, loaded, syscall_number, arg1, pushed, ret>>

\* save_context: into the current task, from the interrupt stack.
SaveContext(c) == regs' = [regs EXCEPT ![current_task[c]] = cpu_regs[c]]

\* restore_context: from the task that is current now; eax is the value the
\* entry code leaves in the register afterwards.
RestoreContext(c, eax) ==
  /\ cpu_regs' = [cpu_regs EXCEPT ![c] = [regs[current_task[c]] EXCEPT !.eax = eax]]
  /\ loaded' = [loaded EXCEPT ![c] = current_task[c]]

\* Mutant: registers are saved only when the slice is used up.
TimerEnterLazySave(c) ==
  /\ InTask(c)
  /\ TimerInterrupt(c)
  /\ IF pc'[c] = "pick" THEN UNCHANGED regs ELSE SaveContext(c)
  /\ Enter(c, "irq")
  /\ UNCHANGED <<cpu_regs, loaded, syscall_number, arg1, pushed, ret, own>>

\* idtentry for the timer vectors: save, call the handler ...
TimerEnter(c) ==
  /\ InTask(c)
  /\ TimerInterrupt(c)
  /\ SaveContext(c)
  /\ Enter(c, "irq")
  /\ UNCHANGED <<cpu_regs, loaded, syscall_number, arg1, pushed, ret, own>>

\* ... restore, iretd.
TimerReturn(c) ==
  /\ mode[c] = "irq" /\ Running(c)
  /\ RestoreContext(c, regs[current_task[c]].eax)
  /\ Enter(c, "task")
  /\ UNCHANGED <<vars, regs, syscall_number, arg1, pushed, ret, own>>

\* User code puts the number and the argument into registers; int 0x80, cli.
Int80(c, n, a) ==
  /\ InTask(c)
  /\ current_task[c] \in BootTasks
  /\ cpu_regs' = [cpu_regs EXCEPT ![c].eax = Number(n), ![c].ebx = Arg(a)]
  /\ Enter(c, "sys_number")
  /\ UNCHANGED <<vars, regs, loaded, syscall_number, arg1, pushed, ret, own>>

\* syscall_interrupt: mov [syscall_number], eax; mov [arg1], ebx.  The globals
\* are shared by the CPUs, so every access is a step.
StoreNumber(c) ==
  /\ mode[c] = "sys_number"
  /\ syscall_number' = cpu_regs[c].eax
  /\ Enter(c, "sys_arg")
  /\ UNCHANGED <<vars, cpu_regs, regs, loaded, arg1, pushed, ret, own>>

StoreArg(c) ==
  /\ mode[c] = "sys_arg"
  /\ arg1' = cpu_regs[c].ebx
  /\ Enter(c, "sys_save")
  /\ UNCHANGED <<vars, cpu_regs, regs, loaded, syscall_number, pushed, ret, own>>

SyscallSave(c) ==
  /\ mode[c] = "sys_save"
  /\ SaveContext(c)
  /\ Enter(c, "sys_push_arg")
  /\ UNCHANGED <<vars, cpu_regs, loaded, syscall_number, arg1, pushed, ret, own>>

\* The parameters of handleSyscall are read back from the globals, the number
\* last.
PushArg(c) ==
  /\ mode[c] = "sys_push_arg"
  /\ pushed' = [pushed EXCEPT ![c][2] = arg1]
  /\ Enter(c, "sys_push_number")
  /\ UNCHANGED <<vars, cpu_regs, regs, loaded, syscall_number, arg1, ret, own>>

PushNumber(c) ==
  /\ mode[c] = "sys_push_number"
  /\ pushed' = [pushed EXCEPT ![c][1] = syscall_number]
  /\ Enter(c, "sys_handle")
  /\ UNCHANGED <<vars, cpu_regs, regs, loaded, syscall_number, arg1, ret, own>>

\* handleSyscall: dispatch on its parameters.  nanosleep runs schedule().
HandleSyscall(c) ==
  /\ mode[c] = "sys_handle"
  /\ \/ /\ pushed[c][1] = Number("getpid")
        /\ ret' = [ret EXCEPT ![c] = Pid(current_task[c])]
        /\ UNCHANGED vars
     \/ /\ pushed[c][1] = Number("other")
        /\ ret' = [ret EXCEPT ![c] = Answer(pushed[c][2])]
        /\ UNCHANGED vars
     \/ /\ pushed[c][1] = Number("nanosleep")
        /\ ret' = [ret EXCEPT ![c] = Value(0)]
        /\ Nanosleep(c)
     \/ /\ pushed[c][1] = Number("exit")
        /\ ret' = [ret EXCEPT ![c] = Value(0)]
        /\ Exit(c)
  /\ Enter(c, "sys_call")
  /\ UNCHANGED <<cpu_regs, regs, loaded, syscall_number, arg1, pushed, own>>

\* mov [arg1], eax
SyscallResult(c) ==
  /\ mode[c] = "sys_call" /\ Running(c)
  /\ arg1' = ret[c]
  /\ Enter(c, "sys_ret")
  /\ UNCHANGED <<vars, cpu_regs, regs, loaded, syscall_number, pushed, ret, own>>

\* restore_context; mov eax, [arg1]; iretd
SyscallReturn(c) ==
  /\ mode[c] = "sys_ret"
  /\ RestoreContext(c, arg1)
  /\ Enter(c, "task")
  /\ UNCHANGED <<vars, regs, syscall_number, arg1, pushed, ret, own>>

\* The steps of SmpScheduler that run inside a handler or before sti.
SchedulerStep ==
  /\ \/ Boot
     \/ \E c \in Cpus : ScheduleStep(c)
  /\ UNCHANGED cvars

ContextNext ==
  \/ SchedulerStep
  \/ \E c \in Cpus :
       \/ Compute(c) \/ TimerEnter(c) \/ TimerReturn(c)
       \/ \E n \in Calls, a \in Args : Int80(c, n, a)
       \/ StoreNumber(c) \/ StoreArg(c) \/ SyscallSave(c) \/ PushArg(c) \/ PushNumber(c)
       \/ HandleSyscall(c) \/ SyscallResult(c) \/ SyscallReturn(c)

ContextSpec == ContextInit /\ [][ContextNext]_allvars

-----------------------------------------------------------------------------
\* Interrupts are transparent: whenever a CPU executes a task, the registers
\* that save_context and restore_context carry are the ones the task left
\* there, whatever ran in between, and a task that boot has placed runs with
\* its own kernel stack in the TSS and its own page directory.
RegistersPreserved ==
  \A c \in Cpus : InTask(c) /\ current_task[c] \in Tasks =>
    /\ cpu_regs[c].gp = own[current_task[c]]
    /\ current_task[c] \in BootTasks => loaded[c] = current_task[c]

\* nanosleepHandler: "return 0; // success".  A task that called nanosleep
\* continues with 0 in eax.
NanosleepReturnsZero ==
  \A c \in Cpus :
    InTask(c) /\ current_task[c] \in BootTasks =>
      cpu_regs[c].eax # Number("nanosleep")

\* exitHandler: "切换到其他进程" (switch to another process) after it has set
\* EXITED.  A task that has exited does not come back from the system call.
ExitedNeverRuns ==
  \A c \in Cpus :
    InTask(c) /\ current_task[c] \in Tasks => state[current_task[c]] # "EXITED"

=============================================================================
