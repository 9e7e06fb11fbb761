-------------------------------- MODULE Mutex --------------------------------
(***************************************************************************)
(* kernel::Mutex (lib/mutex.cpp), used by any number of tasks.  Each       *)
(* region that lock() and unlock() execute under the internal spin lock    *)
(* with interrupts disabled is one step.  A task without the mutex calls   *)
(* lock(timeout) or tryLock(), a task calls unlock() whenever it likes     *)
(* (LockGuard ignores the result of lock() and unlocks in any case).       *)
(*                                                                         *)
(* A caller without a current task (early boot) gets false from either     *)
(* operation and changes nothing.                                          *)
(***************************************************************************)
EXTENDS Integers, Sequences, Functions

CONSTANTS
  Pids,          \* the task ids of the callers
  Timeouts,      \* the finite timeouts they pass; 0 is tryLock
  FOREVER,       \* MUTEX_WAIT_FOREVER
  MaxRecursion   \* bound on the depth to which the callers nest lock()

\* Task id 0 is the idle task of CPU 0, which takes no mutex.
ASSUME PidAssumption == Pids \subseteq Nat \ {0}
ASSUME TimeoutAssumption == Timeouts \subseteq Nat /\ FOREVER \in Nat \ Timeouts
ASSUME RecursionAssumption == MaxRecursion \in Nat \ {0}

VARIABLES
  type,        \* "NORMAL" or "RECURSIVE", fixed by the constructor
  state,       \* "UNLOCKED" or "LOCKED"
  owner,
  recursion,
  wait_list,   \* the pids of the WaitNodes, head first
  pc,          \* pc[p]: "out" of lock(), or "asleep" in its loop
  timeout,     \* timeout[p]: the argument of p's lock()
  elapsed,     \* elapsed[p]: the local variable of lock()
  ret,         \* ret[p]: what p's last call returned
  holds,       \* holds[p]: history, p's successful locks not yet undone by unlock
  stuck        \* wakeNextWaiter never came back; it still has the spin lock

vars == <<type, state, owner, recursion, wait_list, pc, timeout, elapsed, ret,
          holds, stuck>>

TypeOK ==
  /\ type \in {"NORMAL", "RECURSIVE"}
  /\ state \in {"UNLOCKED", "LOCKED"}
  /\ owner \in Pids \cup {0}
  /\ recursion \in Nat
  /\ wait_list \in Seq(Pids)
  /\ pc \in [Pids -> {"out", "asleep"}]
  /\ timeout \in [Pids -> Timeouts \cup {FOREVER}]
  /\ elapsed \in [Pids -> Nat]
  /\ ret \in [Pids -> BOOLEAN]
  /\ holds \in [Pids -> Nat]
  /\ stuck \in BOOLEAN

Init ==
  /\ type \in {"NORMAL", "RECURSIVE"}
  /\ state = "UNLOCKED"
  /\ owner = 0
  /\ recursion = 0
  /\ wait_list = <<>>
  /\ pc = [p \in Pids |-> "out"]
  /\ timeout = [p \in Pids |-> FOREVER]
  /\ elapsed = [p \in Pids |-> 0]
  /\ ret = [p \in Pids |-> FALSE]
  /\ holds = [p \in Pids |-> 0]
  /\ stuck = FALSE

\* The spin lock is free and p is not inside a call.
MayCall(p) == ~stuck /\ pc[p] = "out"

Return(p, result) == ret' = [ret EXCEPT ![p] = result]

WouldDeadlock(p) == p \in Range(wait_list)

\* removeWaiter deletes the first node of p.
RemoveWaiter(list, p) ==
  IF p \notin Range(list) THEN list
  ELSE LET i == CHOOSE i \in DOMAIN list :
                  list[i] = p /\ \A j \in 1 .. i - 1 : list[j] # p
       IN  SubSeq(list, 1, i - 1) \o SubSeq(list, i + 1, Len(list))

Take(p) ==
  /\ state' = "LOCKED"
  /\ owner' = p
  /\ recursion' = 1
  /\ holds' = [holds EXCEPT ![p] = @ + 1]
  /\ pc' = [pc EXCEPT ![p] = "out"]
  /\ Return(p, TRUE)

-----------------------------------------------------------------------------
\* lock(): the owner of a recursive mutex takes it again.
LockAgain(p, t) ==
  /\ MayCall(p) /\ ~WouldDeadlock(p)
  /\ type = "RECURSIVE" /\ owner = p
  /\ recursion < MaxRecursion
  /\ recursion' = recursion + 1
  /\ holds' = [holds EXCEPT ![p] = @ + 1]
  /\ Return(p, TRUE)
  /\ UNCHANGED <<type, state, owner, wait_list, pc, timeout, elapsed, stuck>>

\* lock() past the recursion test.
LockEntered(p) ==
  /\ MayCall(p) /\ ~WouldDeadlock(p)
  /\ ~(type = "RECURSIVE" /\ owner = p)

\* Mutant: the test of state is made on a stale copy.
LockFreeStale(p, t) ==
  /\ LockEntered(p)
  /\ Take(p)
  /\ UNCHANGED <<type, wait_list, timeout, elapsed, stuck>>

\* lock() of a free mutex.
LockFree(p, t) ==
  /\ LockEntered(p)
  /\ state = "UNLOCKED"
  /\ Take(p)
  /\ UNCHANGED <<type, wait_list, timeout, elapsed, stuck>>

\* lock() returns false at once: the deadlock check refuses the caller, or
\* this is tryLock() and the mutex is taken.
LockFails(p, t) ==
  /\ MayCall(p)
  /\ ~WouldDeadlock(p) => LockEntered(p) /\ state = "LOCKED" /\ t = 0
  /\ Return(p, FALSE)
  /\ UNCHANGED <<type, state, owner, recursion, wait_list, pc, timeout, elapsed, holds, stuck>>

\* lock() of a mutex that is taken: addWaiter, release the spin lock, sleep.
LockWait(p, t) ==
  /\ LockEntered(p)
  /\ state = "LOCKED" /\ t # 0
  /\ wait_list' = Append(wait_list, p)
  /\ pc' = [pc EXCEPT ![p] = "asleep"]
  /\ timeout' = [timeout EXCEPT ![p] = t]
  /\ elapsed' = [elapsed EXCEPT ![p] = 0]
  /\ UNCHANGED <<type, state, owner, recursion, ret, holds, stuck>>

\* Back from sleep_current_process(1): elapsed++, acquire the spin lock,
\* removeWaiter.  An endless wait never looks at elapsed.
Awake(p) == ~stuck /\ pc[p] = "asleep"
Elapsed(p) == IF timeout[p] = FOREVER THEN elapsed[p] ELSE elapsed[p] + 1

WakeTake(p) ==
  /\ Awake(p)
  /\ state = "UNLOCKED"
  /\ elapsed' = [elapsed EXCEPT ![p] = Elapsed(p)]
  /\ wait_list' = RemoveWaiter(wait_list, p)
  /\ Take(p)
  /\ UNCHANGED <<type, timeout, stuck>>

\* Mutant: a waiter that gives up leaves its node behind.
WakeTimeoutKeepsNode(p) ==
  /\ Awake(p)
  /\ state = "LOCKED" /\ timeout[p] # FOREVER /\ Elapsed(p) >= timeout[p]
  /\ elapsed' = [elapsed EXCEPT ![p] = Elapsed(p)]
  /\ pc' = [pc EXCEPT ![p] = "out"]
  /\ Return(p, FALSE)
  /\ UNCHANGED <<type, state, owner, recursion, wait_list, timeout, holds, stuck>>

WakeTimeout(p) ==
  /\ Awake(p)
  /\ state = "LOCKED" /\ timeout[p] # FOREVER /\ Elapsed(p) >= timeout[p]
  /\ elapsed' = [elapsed EXCEPT ![p] = Elapsed(p)]
  /\ wait_list' = RemoveWaiter(wait_list, p)
  /\ pc' = [pc EXCEPT ![p] = "out"]
  /\ Return(p, FALSE)
  /\ UNCHANGED <<type, state, owner, recursion, timeout, holds, stuck>>

\* Mutant: elapsed starts anew with every sleep.
WakeAgainForgets(p) ==
  /\ Awake(p)
  /\ state = "LOCKED" /\ (timeout[p] = FOREVER \/ 1 < timeout[p])
  /\ elapsed' = [elapsed EXCEPT ![p] = 1]
  /\ wait_list' = Append(RemoveWaiter(wait_list, p), p)
  /\ UNCHANGED <<type, state, owner, recursion, pc, timeout, ret, holds, stuck>>

\* Still taken: the waiter goes to the tail of the list and sleeps again.
WakeAgain(p) ==
  /\ Awake(p)
  /\ state = "LOCKED" /\ (timeout[p] = FOREVER \/ Elapsed(p) < timeout[p])
  /\ elapsed' = [elapsed EXCEPT ![p] = Elapsed(p)]
  /\ wait_list' = Append(RemoveWaiter(wait_list, p), p)
  /\ UNCHANGED <<type, state, owner, recursion, pc, timeout, ret, holds, stuck>>

-----------------------------------------------------------------------------
\* unlock() by a task that does not own the mutex.
UnlockRefused(p) ==
  /\ MayCall(p)
  /\ owner # p
  /\ Return(p, FALSE)
  /\ UNCHANGED <<type, state, owner, recursion, wait_list, pc, timeout, elapsed, holds, stuck>>

\* unlock(): one level of a recursive mutex.
UnlockLevel(p) ==
  /\ MayCall(p)
  /\ owner = p /\ type = "RECURSIVE" /\ recursion > 1
  /\ recursion' = recursion - 1
  /\ holds' = [holds EXCEPT ![p] = @ - 1]
  /\ Return(p, TRUE)
  /\ UNCHANGED <<type, state, owner, wait_list, pc, timeout, elapsed, stuck>>

\* wakeNextWaiter: unlink the first node and look for its task along
\* Task::next, which nothing ever sets.  Unless the caller itself is the
\* waiter the walk dereferences null, and what it then finds in low memory
\* decides whether it ends, without waking anyone.
WakeNextWaiter(p) ==
  IF wait_list = <<>>
    THEN UNCHANGED <<wait_list, stuck>>
    ELSE /\ wait_list' = Tail(wait_list)
         /\ stuck' \in IF Head(wait_list) = p THEN {FALSE} ELSE BOOLEAN

\* Mutant: unlock() leaves the owner set.
UnlockKeepsOwner(p) ==
  /\ MayCall(p)
  /\ owner = p /\ ~(type = "RECURSIVE" /\ recursion > 1)
  /\ state' = "UNLOCKED"
  /\ owner' = owner
  /\ recursion' = 0
  /\ holds' = [holds EXCEPT ![p] = @ - 1]
  /\ WakeNextWaiter(p)
  /\ Return(p, TRUE)
  /\ UNCHANGED <<type, pc, timeout, elapsed>>

\* unlock(): the last level.
UnlockRelease(p) ==
  /\ MayCall(p)
  /\ owner = p /\ ~(type = "RECURSIVE" /\ recursion > 1)
  /\ state' = "UNLOCKED"
  /\ owner' = 0
  /\ recursion' = 0
  /\ holds' = [holds EXCEPT ![p] = @ - 1]
  /\ WakeNextWaiter(p)
  /\ Return(p, TRUE)
  /\ UNCHANGED <<type, pc, timeout, elapsed>>

Lock(p, t) ==
  LockAgain(p, t) \/ LockFree(p, t) \/ LockFails(p, t) \/ LockWait(p, t)
Wake(p) == WakeTake(p) \/ WakeTimeout(p) \/ WakeAgain(p)
Unlock(p) == UnlockRefused(p) \/ UnlockLevel(p) \/ UnlockRelease(p)

Next ==
  \E p \in Pids :
    \/ \E t \in Timeouts \cup {FOREVER} : Lock(p, t)
    \/ Wake(p)
    \/ Unlock(p)

Spec == Init /\ [][Next]_vars

\* sleep_current_process ends in schedule(), which puts the caller on its run
\* queue: it runs again whether or not somebody wakes it.
Fairness == \A p \in Pids : WF_vars(Wake(p))

FairSpec == Spec /\ Fairness

-----------------------------------------------------------------------------
\* Whoever has locked the mutex more often than unlocked it is its one owner,
\* and recursion counts how often.
MutualExclusion ==
  \A p \in Pids : holds[p] > 0 =>
    /\ state = "LOCKED" /\ owner = p /\ recursion = holds[p]
    /\ \A q \in Pids \ {p} : holds[q] = 0

\* getOwner: "the owner's process id, 0 if the lock is not taken"; and a
\* mutex that is taken has an owner who can still release it.
OwnerIffLocked ==
  /\ state = "UNLOCKED" <=> owner = 0
  /\ state = "LOCKED" => holds[owner] > 0

\* A task is on the wait list only while it sleeps in lock(), and once: the
\* deadlock check never refuses a task because of a node it left behind.
WaitersAsleep ==
  /\ IsInjective(wait_list)
  /\ \A p \in Range(wait_list) : pc[p] = "asleep"

\* lock(timeout) returns: a task that waits with a timeout does not stay in the
\* loop, although it is never woken, goes back to sleep at the tail of the wait
\* list and may find the mutex taken each time.  The timeout counts sleeps.  It
\* may wait for ever only when an unlock() is lost in its undefined walk with
\* the spin lock held.
TimedLockReturns ==
  \A p \in Pids :
    pc[p] = "asleep" /\ timeout[p] # FOREVER ~> pc[p] = "out" \/ stuck

=============================================================================
