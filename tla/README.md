# A TLA+ model of the wandos kernel

wandos is a small 32-bit x86 kernel in C++. It boots two CPUs, runs one user
task (init, a shell) and has an SMP scheduler, a buddy page allocator, a slab
heap, demand paging, a virtual file system with an initramfs, an ext2 driver
behind a page cache, and a keyboard and text console. This directory holds TLA+
modules that model it, TLC configurations that check them on small instances, and
proofs that TLAPS checks for every value of the constants.

All paths below are relative to `src/`. `PROJECT.json` maps every definition
that models code to its lines.

| Module | Models | Checked by | Proved in |
|---|---|---|---|
| `SmpScheduler` | run queues, `schedule()`, sleep, exit, boot and AP start | `SmpScheduler.cfg` | `SmpSchedulerProofs` |
| `ContextSwitch` | interrupt and system-call entry around the scheduler | `ContextSwitch.cfg`, `ContextSwitchNanosleep.cfg`, `ContextSwitchExit.cfg` | |
| `Mutex` | `kernel::Mutex` | `Locked.cfg` | `MutexProofs` |
| `LogBuffer`, `BoundedFifo` | the log ring buffer and the queue it implements | `Locked.cfg` | `LogBufferProofs` |
| `BuddyAllocator` | page allocation through KernelMemory, Zone and buddy system | `Memory.cfg` | `BuddyProofs` |
| `SlabAllocator` | `kmalloc` and `kfree` | `Locked.cfg`, `HeapExhausted.cfg` | |
| `UserMemory` | areas and page table of init, execve, mmap, page faults | `Memory.cfg`, `MmapZero.cfg` | `UserMemoryProofs` |
| `Files`, `NameSpace` | descriptors, VFS, MemFS, and the tree of names they implement | `Files.cfg` | |
| `PageCache`, `Ext2` | the block device, the page cache and the reading side of ext2 | `Ext2.cfg` | |
| `Console`, `Keyboard`, `Terminal` | the text console, the scan-code machine, and the shell between them | `Terminal.cfg` | `ConsoleProofs` |
| `Formatter`, `ElfLoader`, `Algorithms` | formatted output, hex dump and ELF loader as functions | `Algorithms.cfg` | |

`QueueLemmas` holds facts about sequences without duplicates that three proof
modules share. Each `MC…` module gives the constants small values. `MCLocked` and
`MCMemory` put specifications side by side that share no state: the initial state
chooses which of them a behaviour is about. A definition whose comment begins with "Mutant:" is a plausible wrong
version of the definition after it. It is used to see that a property really
fails when the code is wrong, and no specification refers to it.

## 1. Inventory

For each part: its state, its operations, whom it interacts with, what makes it
hard, and what would make it correct.

### Scheduler and boot (`kernel/smp/smp_scheduler.cpp`, `kernel/process/process.cpp`, `kernel/core/main.cpp`, `arch/x86/smp.cpp`)

- State: per CPU a run queue (list, `nr_running`, spin lock), a current task and
  an idle task; per task a time slice and a state; the count of ready APs.
- Operations: `init`, `enqueue_task`, `pick_next_task`, `load_balance`,
  `schedule`, `sleep_current_process`, `exitHandler`; `smp_init` and `ap_entry`.
- Interaction: timer interrupts and the nanosleep call enter `schedule()`, the
  entry code saves and restores registers around it.
- Hard: one `schedule()` takes the queue's lock up to three times, and between
  them the outgoing and the incoming task are on no list; the boot code
  sets up queues and current tasks with no other protection than its order.
- Correct: no task is lost, queued twice or run twice; queues are complete
  before interrupts are enabled; every task gets the CPU again.

### Interrupt and system-call entry (`arch/x86/interrupt.asm`, `kernel/core/syscall.cpp`)

- State: the CPU's registers, the images in `Task::regs`, the TSS and cr3, and
  the globals `syscall_number`, `arg1` … that all CPUs share.
- Operations: save, dispatch, `save_context`, `restore_context`, `iretd`.
- Hard: the handler may have changed the current task between save and restore;
  arguments and results travel through globals; esp is not switched.
- Correct: a task resumes with its own registers and address space, a call returns
  its result to its caller, and exit does not return.

### Mutex (`lib/mutex.cpp`)

- State: state, owner, recursion count, wait list, internal spin lock.
- Operations: `lock(timeout)`, `tryLock`, `unlock`, `LockGuard`.
- Hard: `lock()` drops the spin lock to sleep, so anything may have happened
  when it wakes; waiters leave the list through `unlock()` or by themselves.
- Correct: one owner; only sleeping tasks wait; a wait with a timeout ends.

### Log buffer (`lib/log_buffer.cpp`)

- State: ring of slots, head, tail, the consumer's current message.
- Operations: `enqueue` by any CPU, `dequeue` and output by one consumer.
- Hard: full and empty around the wrap; a message outside ring and output.
- Correct: a bounded first-in first-out queue that loses nothing it accepted.

### Page allocator (`kernel/memory/buddy_allocator.cpp`, `zone.cpp`, `kernel_memory.cpp`)

- State: free lists per order, the zone's `nr_free_pages`, the PageInfo array.
- Operations: `alloc_pages`, `free_pages`, with split and merge loops.
- Hard: buddies are computed from absolute addresses while the region is not
  aligned; the size of the region is no power of two, and the first block is.
- Correct: blocks are disjoint, no page disappears, free buddies are merged.

### Kernel heap (`kernel/memory/slab_allocator.cpp`)

- State: per cache three singly linked lists of slabs, per slab a freelist and
  two counters.
- Operations: `kmalloc` and `kfree`, small and large.
- Hard: the list a slab is on is inferred from its counters and from the list
  heads; unlinking walks the list; pages run out.
- Correct: no object is handed out twice; a slab is on the list its use says.

### User address space (`kernel/memory/user_memory.cpp`, `kernel/core/kernel.cpp`, `kernel/core/syscall.cpp`)

- State: an array of areas, `total_vm`, page table entries, page frames.
- Operations: `allocUserStack`, `sys_execve` (which init repeats on failure),
  `mmap`, `page_fault_handler`.
- Hard: first fit over an array that is assumed to be sorted, unsigned gaps,
  roll-back of a failed execve, entries that are reserved but not present, faults
  on pages outside every area.
- Correct: areas are disjoint, each frame has one use, nothing leaks.

### Files (`kernel/fs/vfs.cpp`, `kernel/fs/memfs.cpp`, descriptors in `include/kernel/process.h`)

- State: mount points, a tree of inodes (first child, sibling and parent
  pointers, data buffer with size and capacity), the descriptor table.
- Operations: open, close, read, write, seek, mkdir, unlink, rmdir.
- Hard: descriptors keep offsets while files change through other descriptors;
  removal patches a linked list; buffers grow by reallocation.
- Correct: to its users it is a tree of names in which a call changes only what
  its path names.

### Ext2, page cache and block device (`drivers/ext2.cpp`, `kernel/fs/SimplePageCache.cpp`, `drivers/block_device.cpp`)

- State: the volume, the pages in the hash list, the open descriptors with their
  positions, the position of a listing.
- Operations: mount, open and stat with their walk over the path, seek, read
  through direct and indirect blocks, `iterate` behind getdents, `get_page`.
- Hard: on-disk structures are cast, not parsed; one cache is shared by data and
  pointer blocks; a listing is cut wherever the caller's buffer ends; a device
  may be shorter than its volume.
- Correct: a read returns the words of the file its path names, a listing lists
  each entry once.

### Terminal (`drivers/keyboard.cpp`, `lib/console.cpp`, `rootfs/init.cpp`)

- State: the scan codes in the controller, the shift flag and the code before,
  the shell's line, the cells and the cursor of the screen.
- Operations: `scancode_to_ascii`, `ConsoleDevice::read` and `write`, `putchar`
  and `scroll`, the shell's line editor, `parse_cmd`, `execute_command`.
- Hard: the shell polls while keys go down and up; the driver's state depends on
  every code before; the cursor wraps and scrolls in one step.
- Correct: the lines that run are the lines that were typed; the screen shows the
  end of what was written.

### Formatter, hex dump and ELF loader (`lib/debug.cpp`, `kernel/process/elf_loader.cpp`, `kernel/process/elf_loader_reloc.cpp`)

- No state; inputs are formats with arguments, byte sequences, and files.
- Hard: small buffers, widths and precisions in every combination; the order in
  which segments, dynamic table and relocation sections are worked through.
- Correct: a text is cut and never overrun, a number reads back as its value, an
  accepted file gives the memory that the ABI says.

### Parts without a module

Kernel virtual memory, paging and copy-on-write, process identifiers, the system
call table, string functions and serial port, descriptor tables and interrupt
controllers, boot assembly: see "Not modelled".

## 2. The modules and the code

**SmpScheduler.** `pc[c]` says where CPU c is: in a boot step, at a point of
`schedule()`, or in task context (`"run"`). A critical section under a run
queue's spin lock is two actions, taking the lock and working until release, so
that the other CPUs interleave everywhere they can. `TimerInterrupt` is the
decrement of the signed `time_slice` with its early return; `Pick…`, `Balance…`,
`Switch…`, `Enqueue…` and `SetCurrent` are the rest of `schedule()` in the order
of the code. `Nanosleep` and `Exit` are the two system calls that touch the
scheduler. `SchedulerInit` to `BspSti` are `kernel_main` and `smp_init`, with
`ApEntry` and `ApSti` for the application processors. `kernel_main` enqueues one
task; `BootTasks` and `HomeCpu` generalise the call to any tasks on any CPUs.

**ContextSwitch** composes `SmpScheduler` with the entry code: `TimerEnter` saves
registers and enters the scheduler's `TimerInterrupt`, and `TimerReturn` restores
whatever task is current by then. The system-call path, `Int80` to `SyscallReturn`,
has one step for each access to the globals that the CPUs share. Registers are
abstracted by how they travel: `gp` (saved and restored), `eax` (a call's number,
then its result) and `ebx` (its argument). The stack pointer is not modelled. The
history variable `own` records what each task would see if it ran alone.

**Mutex.** Each region that `lock()` or `unlock()` executes under the internal
spin lock is an action; the sleep between two rounds of `lock()` is the state
`"asleep"`. `wakeNextWaiter` follows `Task::next`, which nothing sets: the model
leaves open whether it returns (`stuck`). The history variable `holds` counts the
successful locks that a task has not undone.

**LogBuffer** is the ring with head and tail modulo the size. `BoundedFifo` is what
it promises; the mapping reads the slots from head to tail.

**BuddyAllocator.** One operation is in progress at a time (nothing in the kernel
calls the allocator concurrently after boot), but each iteration of the split and
merge loops is an action, so that the invariants hold in the middle as well. The
free lists are sequences in list order, because the code takes the head. The
initial block is as large as `get_block_order` makes it, larger than the zone, and
`FreeIgnored` is the return of a block that ends above the zone: `Zone::freePages`
drops it, and the history variable `forgotten` keeps account of it.

**SlabAllocator** keeps heads and next pointers as the code does, since the code
unlinks by walking. `kmalloc` and `kfree` hold one global lock throughout and are
one action for each way they can go. The page allocator is a set of pages; when it
is empty `create_slab` goes on with physical page 0 (`PageForSlab`). When page 0 is
made a slab for the second time (`remade`), freelists run through memory in use, and
the model stops.

**UserMemory.** Page numbers stand for addresses, and a difference of addresses is
taken modulo the address space as the unsigned subtraction does. `ExecAllocate`,
`ExecFail` and `ExecEnter` are the three exits of one attempt of `sys_execve`; the
file may be empty, and an mmap may have length 0. `PageFault` serves any page of the
user range that is not present, in an area or not, while the program runs or
`load_elf` copies; `PageFaultPanic` is the fault it cannot serve. Three histories
name what the code loses sight of: `zeroed` (an mmap of length 0 was served), `stray`
(frames of pages outside every area) and `lost` (frames whose entry was overwritten).

**Files.** An inode is a record; its child list is the sequence the sibling
pointers form, and its buffer `data` is as long as `capacity`, with `Uninit` where
`write` has grown into fresh memory. Paths are sequences of slashes and names,
which `FindFs` and `FindInode` take apart as the code does. unlink and rmdir free
an inode whether or not it is open; the descriptors left behind are `stale`, and
what a call does with one, in freed memory, is not followed. `NameSpace` is the
promise: a set of entries with paths, types and contents.

**PageCache** and **Ext2.** The cache is a value, a chain of nodes per bucket, and
`GetPage` is a function from cache to cache. Words of 4 bytes, the size of a block
pointer, are the unit. `Ext2` has one action for each system call that reaches the
driver; init is the only task that makes them. `ReadLoop`, `SearchDir`, `Walk`,
`IterateBlock` and `IterateFrom` are the loops of `read`, `open` and `iterate`. A
search tests no result of `read_block`: where a block cannot be read it goes on with
what its buffer held, one of `FreshBuffers`. A lookup that never returns is the state `stuck`. The volume carries a second
account of itself (`tree`, `content`, `listing`), written down independently of
the driver's way of reading it, against which the properties compare.

**Console**, **Keyboard** and **Terminal.** `Putchar`, `Scroll` and `Clear` are
functions on screens; `Ascii` and `After` are the result and the new state of
`scancode_to_ascii`. `Terminal` composes them: `Press` and `Release` are the
typist, whose codes wait in `fifo`, each with the character that the driver's tables
hold for the key when it goes down; `ReadNothing`, `Erase`, `Insert` and `RunLine` are the turns of
the shell's loop. `heard` and `text` are histories, and `Edit` and `Words` say what
the lines should be.

**Formatter**, **ElfLoader** and **Algorithms.** `format_string_v`, `hexdump` and
`load_elf` are functions with the names of the code. Digits are taken off a number
as the code takes them; a memory is a function from addresses to words of
`WordBits` bits, and the tables of a file lie at its offsets. `Algorithms` calls them with every input of a bounded set and
compares the results with definitions that go the other way (reading a number
back) or come from outside (the relocation formulas of the ABI).

## 3. What the runs check

| Run | Property | What it says |
|---|---|---|
| `scheduler` | `RunsOnce`, `QueuedOnce` | no task executes twice at a time, executes while queued, or is linked twice |
| | `NoTaskLost` | every task is current, queued, or being switched to on its own CPU |
| | `ReadyBeforeInterrupts` | a CPU takes interrupts only when boot has set it up |
| | `SwitchRequeues` | a task is given up only onto the tail of its queue, with a fresh slice |
| | `NoStarvation`, `BootCompletes` | every task that has not called exit runs again and again; every CPU leaves boot |
| `context_switch` | `RegistersPreserved` | a task resumes with its own registers, and with its own stack in the TSS and page directory |
| `locked` | `MutualExclusion`, `OwnerIffLocked` | a task that holds the mutex is its one owner, and owner and state agree |
| | `WaitersAsleep`, `TimedLockReturns` | only sleeping tasks wait, each once; a `lock()` with a timeout returns unless an `unlock()` is lost in its walk |
| | `NothingLost`, `ImplementsFifo` | output, consumer and ring together are what was accepted, in order; the ring implements `BoundedFifo` |
| | `ObjectsOwnedOnce` | an object is held by a caller or once on its freelist, and the counters agree, until page 0 is made a slab twice |
| | `ListsExact`, `NewSlabOnlyWhenFull` | the lists hold exactly the slabs they should; a page becomes a slab only when all slabs of the cache are full |
| `memory` | `BlocksDisjoint`, `NoPageLost`, `FullyMerged` | blocks are disjoint, also inside the loops; the only pages lost are those of ignored returns, and the zone's count is right; free buddies are always merged |
| | `AreasDisjoint` | areas do not overlap and `total_vm` counts their pages, until an mmap of length 0 |
| | `FramesOwnedOnce` | a frame is free, mapped once, or lost; without an mmap of length 0 only frames of pages outside every area are lost |
| `files` | `TreeWellFormed`, `NoHoles`, `OffsetInFile` | tree pointers agree, no unwritten byte is readable, a removal strands its own descriptors only and the offsets of the others stay in the file |
| | `ImplementsNameSpace` | the inodes implement `NameSpace` |
| `ext2` | `ReadExact` | a read returns the file's words through direct and indirect blocks and shared pages, also after reads of other files failed |
| | `DescriptorsValid`, `ListingExact` | a descriptor is for the file its path names if the directories on the way can be read, and its position is always inside its file; getdents lists each entry once |
| `terminal` | `LinesAsTyped` | the shell runs the lines that the driver's tables make of the keys, with shift, erasing, words and the full buffer |
| | `ScreenIsTail`, `OnScreen` | the screen is the end of what was written, and the cursor stays on it |
| `algorithms` | `TruncatesText`, `NumbersReadBack` | a small buffer holds a prefix of the text; a number reads back as its value |
| | `DumpReadsBack` | the lines of a hex dump fit their buffer and give the bytes back |
| | `ImageExact` | an accepted file gives the memory the ABI says; a bad header changes nothing; an unknown relocation leaves exactly the relocations before it |

The type invariants of the page allocator, the heap, the address space and the
files are conjuncts of their first property; those of the scheduler, the mutex and
the log buffer are part of what is proved.

Four runs show places where the code does not do what its comment says; TLC finds
the property violated.

- `context_nanosleep` (`NanosleepReturnsZero`): `syscall_interrupt` moves the
  handler's result from the global `arg1` into eax after `restore_context`
  (`arch/x86/interrupt.asm:204`). When nanosleep has switched tasks, the next task
  gets the 0 and the sleeper resumes with the system-call number in eax.
- `context_exit` (`ExitedNeverRuns`): `exitHandler` calls `Scheduler::schedule`, whose
  body is commented out (`kernel/process/exit_handler.cpp:25`). The call returns, and
  the task that has exited goes on and stays on its queue.
- `heap_exhausted` (`SlabsAllocated`): `create_slab` tests the virtual address made of
  the allocator's answer, not the answer (`kernel/memory/slab_allocator.cpp:232`), and
  makes a slab of physical page 0 when there is no page.
- `mmap_zero` (`FirstFitFindsFree`): an area of length 0 starts where the next one
  will, the array is no longer sorted, and an unsigned gap
  (`kernel/memory/user_memory.cpp:68`) lets first fit answer pages that are in use.

Section 6 lists the deviations that have no run.

### Bounds

- `scheduler`: two CPUs, as `apic_get_cpu_count()` returns; three tasks on CPU 1
  and none on CPU 0, so that one queue has a middle and the other is always
  empty. A slice of two ticks on a 3-bit integer covers the early return,
  a used-up slice, and the idle CPU's slice running through zero and past the
  smallest integer.
- `context_switch`: the tasks the kernel really boots, an idle task for each CPU
  and init. More user tasks would share the globals of the entry code.
- `locked`, mutex: three tasks, so one holds and two wait; timeouts 0, 1 and 2 and
  endless waits; both kinds of mutex; recursion to depth two.
- `locked`, log buffer: three slots and seven messages; head and tail pass the end
  twice, and the ring is full at every position.
- `locked`, heap: two caches with three objects and one object per slab share two
  pages, and then page 0, with large blocks of one and two pages, enough for a list
  with a middle.
- `memory`, page allocator: seven pages from page 2 and one page of metadata, so that
  the first page is odd and six pages are rounded up to eight; requests of 1, 2
  and 4 pages. Pages above the zone are handed out and their return is ignored.
- `memory`, address space: seven pages and five frames, files and mmaps of 0, 1 and 2
  pages; the limit on areas, the end of the range, the last frame and page faults on
  each page are all met. Frames are interchangeable in every definition, so the
  symmetry is sound (no liveness is checked). `sys_execve` finds the frames it needs;
  the frames of page tables are not counted.
- `files`: an archive with a directory and an empty file, four inodes, two
  descriptors that can be open on one file, a buffer that grows twice, seeks to and
  beyond the end. The task opens no more files than the descriptor table has places
  (`allocate_fd` does not look, section 6).
- `ext2`: blocks of 16 words, one direct pointer, indirect blocks in which the
  driver uses a quarter of the pointers (256 of 1024 in the code). The first volume
  has a subdirectory, a deleted entry and a file behind an indirect block, on
  devices that end before the super block, the inode table, a directory, the pointer
  block or the last data block. The second has a directory of two blocks, of which a
  short device has one, and a file too large for the single indirect block. The third
  is no ext2 volume. Two buckets, so that chains have several nodes; buffers for one,
  two, three and all entries.
- `terminal`: two rows of five columns with tab stops every two, so that text wraps,
  scrolls and has a tab at the right edge; ten keys, with both shift keys, an arrow
  behind the 0xE0 prefix and the keys whose table entries are wrong; five presses and
  releases, a queue of two codes, a line buffer of four characters and two words. A
  line of more words than `MAX_ARGS` is not reached.
- `algorithms`: 8-bit longs and words, so that the smallest and largest numbers and
  wrapped addresses occur; each directive with every mix of seven flag strings,
  eight forms of width and precision and every conversion, into buffers of 0 to 16
  characters; dumps of 0 to 33 bytes, two full lines and one byte; images of three
  segments in two orders with tables of up to one relocation of every type, dynamic
  tables at the offset that is their address and elsewhere, sections that link to the
  symbol table and to another, at two bases.

Deadlock is checked for the scheduler, the context switch, the files, ext2, the
terminal and the algorithms. It is switched off for `locked` (the producers stop at
`MaxAccepted`, a mutex whose spin lock is lost and a heap whose slabs are overwritten
stand still) and for `memory` (a page fault that cannot be served halts).

## 4. Fairness

`scheduler` and `locked` check liveness. `FairSpec` of the scheduler assumes weak
fairness of

- `Boot`: `kernel_main` runs on the boot processor with interrupts disabled and
  cannot be preempted;
- `TimerInterrupt(c)`: the local APIC timers are periodic, and task context has
  interrupts enabled;
- `ScheduleStep(c)`: `ap_entry` before `sti`, and `schedule()`, which runs with
  interrupts disabled. Its spin lock is the CPU's own queue's, which no other CPU
  takes after boot, so weak fairness is enough.

Nothing is assumed about which system calls are made: a task may call nanosleep or
exit never or all the time. That a call returns is assumed in `NoStarvation`, since
calls run with interrupts disabled.

For the mutex, weak fairness of `Wake(p)` is assumed: `sleep_current_process` ends in
`schedule()`, which keeps the caller on its run queue, so that a sleeper runs again
whether or not anybody wakes it, and then takes the internal spin lock. Nothing is
assumed about `lock` and `unlock` calls, and `wakeNextWaiter` may not return.

No liveness is claimed for the log buffer (nothing schedules its consumer), for ext2 (a lookup may
not return) or for the terminal (the shell polls, and nothing makes anybody type).

## 5. What is proved

All theorems hold for every value of the constants that satisfies the named
assumptions of the module; TLC evaluates those assumptions in the runs.

**SmpSchedulerProofs**: `TypeCorrect`, `RunsOnceHolds`, `QueuedOnceHolds`,
`NoTaskLostHolds`, `NrRunningHolds`, `BootOrderHolds`, `SwitchRequeuesHolds`, for
any number of CPUs and tasks and any placement (`CpuAssumption`,
`TaskAssumption`, `SliceAssumption`). `RunsOnce` is not inductive: that two CPUs
do not run the same task cannot be seen from the two CPUs while one of them is
between two locks. The inductive invariant `IInv` says instead that a task belongs
to one CPU for good and that a CPU deals with its own tasks only (`HomeInv`), in
which place each is at every point of `schedule()` (`PlaceInv`, `KeptInv`), who has
which lock (`LockInv`), and how far boot has come (`BootInv`). Since each task has
one home, what happens on its own CPU settles the question. The property that could
hardly be guessed is in `PlaceInv`: the current task is on its queue exactly at
`set_current`, between `enqueue_task(current)` and `set_current_task(next)`.

**MutexProofs**: `MutualExclusionHolds`, `OwnerIffLockedHolds`,
`WaitersAsleepHolds`, for any tasks, timeouts and depth of recursion (`PidAssumption`, `TimeoutAssumption`, `RecursionAssumption`). The
strengthening is that a normal mutex has a recursion count of at most one, which is
why `unlock()` may release it without looking at the count. The proofs hold
whatever `wakeNextWaiter` does.

**LogBufferProofs**: `Refinement` (the ring implements `BoundedFifo`),
`NothingLostHolds`, `CountExactHolds`, for every size of at least two
(`SizeAssumption`). The inductive invariant adds that the slots from head to tail
are filled. Arithmetic modulo the size is first turned into case distinctions
(`Cnt`, `At`); then the effect of `enqueue` and `dequeue` on the sequence of slots
is a matter of which slot is which.

**ConsoleProofs**: `OnScreenHolds`, for every screen size and tab stop
(`ConsoleAssumption`). A tab may move the cursor far behind the last column; that
one wrap and one scroll bring it back rests on both bounds holding before.

**UserMemoryProofs**: `AreasDisjointHolds` and `FramesOwnedOnceHolds`, for every
user range, limit on areas, set of frames and sets of lengths, 0 included
(`UserAssumption`). `AreasDisjoint` is not inductive, because
first fit is right only for a sorted array and nothing in the code sorts it. What
keeps it sorted, until an mmap of length 0 is served, is in `AreaInv`: the first area
starts at `USER_START`, each one starts where the one before it ends, only the area of
an empty file is empty, and the only area ever freed is the last one, the one that the
failed `sys_execve` has just made (`PhaseInv`). So there never is a gap, and first fit
always answers the end of the last area (`FirstFit`). That no frame is shared does not
rest on the areas (`FrameInv`) and holds after an mmap of length 0 too; `StrayInv` says
that a page mapped above the last area holds a stray frame, so that a new area
overwrites no others. One lemma per action follows from what adding the area (`Push`),
removing it (`Pop`) and changing the entries (`MapFresh`, `Unmap`, `Reserve`,
`Touch`) do.

**BuddyProofs**: `BlocksDisjointHolds`, for every start and size of the zone and
every set of orders (`ZoneAssumption`, `OrderAssumption`, `InitOrderAssumption`, and
`PowerAssumption`, the law of powers of two that the provers do not know). The
buddy's address is computed from the absolute address, in a zone that starts
anywhere, so it cannot be shown that the buddy is the other half of a block that was
split; and it need not be. `get_buddy_address` answers one of the two neighbours, and
a block and its free neighbour of the same order become their union whichever of the
two was the lower one (`Join`). So `IInv` says nothing about alignment: all blocks
lie inside the initial one, they are apart (`Good`), and no list has a block twice.
That last conjunct is what makes unlinking the first match unlink the block
(`RemoveFacts`).

**QueueLemmas**: appending to, putting in front of, taking the head of and deleting from a sequence
without duplicates.

Only model-checked: `NoStarvation`, `BootCompletes` and `TimedLockReturns` (liveness
is out of the prover's reach); `Ext2`, `Terminal` and `Algorithms`, whose loops are recursive
operators (what they compute for every input needs induction over data, which is out
of reach as well); `SlabAllocator`, whose lists are reached by following pointers;
`NoPageLost` and `FullyMerged` of `BuddyAllocator` (one counts the pages of a union
of sets, the other rests on the arithmetic of division by powers of two); and `ContextSwitch` and
`Files`.

## 6. Known deviations without a run

Met while modelling; the models follow the code, or leave the case out where this
is said.

- `wakeNextWaiter` (`lib/mutex.cpp:158`) follows `Task::next`, which nothing links,
  through a null pointer and with the spin lock held, although its comment says that
  it walks the list of processes. `Mutex` leaves open whether it returns.
- `get_block_order` rounds the size of the region up
  (`kernel/memory/buddy_allocator.cpp:37`, "the whole memory region as one block"):
  with 224400 pages the block has 262144. Pages beyond the zone are handed out
  when those below are in use, and never taken back (`kernel/memory/zone.cpp:50`).
  `NoPageLost` counts them as forgotten.
- The timeout of `Mutex::lock` counts sleeps, not time (`lib/mutex.cpp:44`).
- `sleep_current_process` (`kernel/process/process.cpp:512`) calls `schedule()`,
  which returns at once while the slice lasts.
- `Mutex::wouldDeadlock` (`lib/mutex.cpp:217`) looks for the caller on the wait
  list, so that a second `lock()` by the owner of a normal mutex is not noticed.
- `increment_ref_count` (`kernel/memory/buddy_allocator.cpp:210`) indexes
  `page_info` by the absolute page number.
- `kfree` of a large block frees one page (`kernel/memory/slab_allocator.cpp:397`).
  The action `KfreeLarge` does the same.
- `restore_context` does not bring back the stack pointer
  (`kernel/process/process.cpp:390`): two tasks share a stack as long as neither
  pushes anything below the other. The stack pointer is not modelled.
- A page fault on a read maps the page read-only (`kernel/core/kernel.cpp:90`), although
  the entry was made writable so that the handler should know the permissions
  (`kernel/memory/user_memory.cpp:151`); a later write halts (`PageFaultPanic`).
- `page_fault_handler` does not ask whether the page is in an area
  (`kernel/core/kernel.cpp:84`). The frame of a page outside every area is lost when an
  area is put there; `FramesOwnedOnce` names this case.
- `find_fs` compares a prefix without looking for the end of a component
  (`kernel/fs/vfs.cpp:200`); mkdir of a path directly below the root fails, because
  `find_fs` takes away its only slash.
- `allocate_fd` never reuses a number and does not look at the end of the table
  (`kernel/process/process.cpp:126`); the failure paths of `sys_execve` do not close
  the file.
- unlink and rmdir free an inode that descriptors may still refer to
  (`kernel/fs/memfs.cpp:433`). `Files` keeps such descriptors apart (`stale`) and does
  not follow the calls on them.
- The lookup of a name in an ext2 directory goes on for `inode->blocks` blocks, which
  counts sectors (`drivers/ext2.cpp:406`). A missing name sends it to block 0, where
  an entry of length 0 keeps it for ever. `open` prints the inode before it tests the
  pointer (`drivers/ext2.cpp:394`). Both are the state `stuck`.
- The lookup ignores that a directory block could not be read (`drivers/ext2.cpp:408`)
  and searches what its buffer held, so that a path may name another file;
  `DescriptorsValid` requires the directories on the way to be on the device.
- `get_block_id` expects 256 pointers in an indirect block of 4096 bytes, and takes
  the remainder where the quotient is meant (`drivers/ext2.cpp:709`): files end to be
  readable after 268 blocks. `ReadExact` stops there.
- When getdents fills its buffer in a directory of several blocks, only the inner
  loop ends (`drivers/ext2.cpp:662`), so that the rest of the block is skipped.
  `ListingExact` excludes the case. `find` stops after its first call
  (`rootfs/cmds/find.cpp:22`).
- The page of a block that could not be read stays in the cache with what the buffer
  held (`kernel/fs/SimplePageCache.cpp:34`); nothing is evicted (line 26);
  `set_max_pages` loops without making the cache smaller (line 134); `flush` clears
  the dirty flag without writing (line 89).
- ext2 writes bypass the page cache that reads go through (`drivers/ext2.cpp:804`),
  copy blocks of 4096 bytes into buffers of 512, and `write_inode` and `read_inode`
  compute different places (`drivers/ext2.cpp:280`).
- `sys_execve` takes the size of `/init` whatever the path is
  (`kernel/core/syscall.cpp:275`).
- The keyboard table has a tab for W, w for Z, z for the left shift key and N for
  shifted X (`drivers/keyboard.cpp:149`, 124, 128, 172). `LinesAsTyped` is about the
  characters in the tables, not those on the keys. Both shift keys share one flag
  (line 242), and `LinesAsTyped` holds while they are not held together.
- The shell echoes a backspace as `\b`, blank, `\b`, to erase the character
  (`rootfs/init.cpp:99`), but the console shows glyphs for them (`lib/console.cpp:46`).
  `ScreenIsTail` takes `\b` for the glyph that it is to the console.
- `format_integer` takes remainders of the smallest long, which are negative, as
  indices; `format_hex` counts the zeros of a precision twice in the width
  (`lib/debug.cpp:261`); an octal number with `#` is not padded on the left
  (line 316). `NumbersReadBack` names these cases. `%zx` is not known, although
  `tests/format_string_test.cpp` expects it, and the colon of a hex dump's address is
  lost in a buffer of 9 (line 504), although `tests/hexdump_test.cpp:39` expects it;
  `DumpReadsBack` reads the address and the bytes and does not look at that column.
- `process_relocations` ignores the addend of R_386_32 and R_386_PC32
  (`kernel/process/elf_loader_reloc.cpp:29`), and a table that is both dynamic and a
  section is applied twice, which matters at a base other than 0: `Specified` leaves
  these words out. An unknown type is refused when the segments are already copied
  (line 47): `ImageExact` says what is left then. `process_dynamic` uses addresses as
  offsets into the file (line 68), and relocation sections get the last symbol table
  whichever they link to (`kernel/process/elf_loader.cpp:113`): the run has files where
  this matters, and `TablesFound` restricts `ImageExact` to those where it does not.
- The roll-back of `vmalloc` frees order 1 (`kernel/memory/kernel_memory.cpp:217`).

## 7. Not modelled

- Kernel virtual memory (vmalloc, vfree, kmap): no callers, and its region is empty.
- Paging and copy-on-write: `copyMemorySpaceCOW` runs once, at boot, over an empty
  user range; `copyCOWPage` needs a second address space, which `fork`, a stub,
  would make.
- Process identifiers: `PidManager::free` has no callers, so `alloc` counts up.
- The write side of ext2: it is undefined from its first step on (section 6).
- `write_page`, `flush`, `invalidate` and `set_max_pages` of the page cache, the event
  ring of the keyboard, `RamDisk`: no callers.
- The decoding of the cpio headers of the initramfs: `Files` starts from the tree
  that it builds.
- The commands of the shell: in `Terminal` they are what they write; their file
  operations are the calls of `Files` and `Ext2`.
- Descriptor tables, interrupt controllers, serial port and port I/O: hardware
  set-up. The boot assembly is straight-line code up to `kernel_main`.
- String functions: loops over one string without state.

## 8. Running

    tlc -workers 2 -config SmpScheduler.cfg MCSmpScheduler
    tlc -workers 2 -config Locked.cfg MCLocked
    tlc -workers 2 -config Memory.cfg MCMemory
    tlapm SmpSchedulerProofs.tla

and likewise for the other configurations and proof modules.
