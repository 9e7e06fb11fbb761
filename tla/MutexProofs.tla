---------------------------- MODULE MutexProofs ----------------------------
(***************************************************************************)
(* Proofs about Mutex for any set of tasks, any timeouts and any depth of  *)
(* recursion, whatever the undefined walk of wakeNextWaiter does.          *)
(***************************************************************************)
EXTENDS Mutex, QueueLemmas, TLAPS

\* The part about who has the mutex.  A normal mutex is taken once only; this
\* is why unlock() may release it without looking at recursion.
OwnerInv ==
  /\ MutualExclusion
  /\ OwnerIffLocked
  /\ type = "NORMAL" => recursion <= 1

IInv == TypeOK /\ OwnerInv /\ WaitersAsleep

-----------------------------------------------------------------------------
\* removeWaiter deletes p from a wait list without duplicates.
LEMMA RemoveWaiterFacts ==
  ASSUME NEW list \in Seq(Pids), NEW p \in Pids, IsInjective(list)
  PROVE  /\ RemoveWaiter(list, p) \in Seq(Pids)
         /\ Range(RemoveWaiter(list, p)) = Range(list) \ {p}
         /\ IsInjective(RemoveWaiter(list, p))
<1>1. CASE p \notin Range(list)
  BY <1>1 DEF RemoveWaiter
<1>2. CASE p \in Range(list)
  <2> DEFINE First(i) == list[i] = p /\ \A j \in 1 .. i - 1 : list[j] # p
             k == CHOOSE i \in DOMAIN list : First(i)
  <2>1. Len(list) \in Nat /\ DOMAIN list = 1 .. Len(list)
    BY LenProperties
  <2>2. PICK i \in DOMAIN list : list[i] = p
    BY <1>2 DEF Range
  <2>3. ASSUME NEW j \in 1 .. i - 1 PROVE list[j] # p
    <3>1. j \in DOMAIN list /\ j # i
      BY <2>1, <2>2
    <3>2. QED BY <2>2, <3>1 DEF IsInjective
  <2>4. First(i)
    BY <2>2, <2>3
  <2>5. k \in DOMAIN list /\ list[k] = p
    BY <2>4
  <2>6. RemoveWaiter(list, p) = SubSeq(list, 1, k - 1) \o SubSeq(list, k + 1, Len(list))
    BY <1>2, Zenon DEF RemoveWaiter
  <2> HIDE DEF k
  <2>7. k \in 1 .. Len(list)
    BY <2>1, <2>5
  <2> DEFINE r == SubSeq(list, 1, k - 1) \o SubSeq(list, k + 1, Len(list))
  <2>8. r \in Seq(Pids) /\ Range(r) = Range(list) \ {list[k]} /\ IsInjective(r)
    BY <2>7, CutFacts, Zenon
  <2> HIDE DEF r
  <2>9. RemoveWaiter(list, p) = r
    BY <2>6 DEF r
  <2>10. QED BY <2>5, <2>8, <2>9, Zenon
<1>3. QED BY <1>1, <1>2

\* What lock() does to the owner when it takes a free mutex.
LEMMA TakeOwner ==
  ASSUME TypeOK, OwnerInv, NEW p \in Pids, state = "UNLOCKED", Take(p), type' = type
  PROVE  OwnerInv'
<1>1. \A q \in Pids : holds[q] = 0
  BY DEF OwnerInv, MutualExclusion, TypeOK
<1>2. /\ state' = "LOCKED" /\ owner' = p /\ recursion' = 1
      /\ \A q \in Pids : holds'[q] = IF q = p THEN 1 ELSE 0
  BY <1>1 DEF Take, TypeOK
<1>3. p # 0
  BY PidAssumption
<1>4. QED BY <1>2, <1>3 DEF OwnerInv, MutualExclusion, OwnerIffLocked

\* What LockAgain and UnlockLevel do: the owner's count moves with recursion.
LEMMA LevelOwner ==
  ASSUME TypeOK, OwnerInv, NEW p \in Pids, owner = p, NEW d \in {-1, 1},
         type = "RECURSIVE", recursion + d > 0,
         recursion' = recursion + d, holds' = [holds EXCEPT ![p] = @ + d],
         UNCHANGED <<type, state, owner>>
  PROVE  OwnerInv'
<1>1. owner \in Pids /\ owner # 0 /\ state = "LOCKED" /\ holds[p] > 0 /\ recursion = holds[p]
  BY PidAssumption DEF OwnerInv, MutualExclusion, OwnerIffLocked, TypeOK
<1>2. \A q \in Pids \ {p} : holds[q] = 0
  BY <1>1 DEF OwnerInv, MutualExclusion
<1>3. \A q \in Pids : holds'[q] = IF q = p THEN recursion + d ELSE 0
  BY <1>1, <1>2 DEF TypeOK
<1>4. QED BY <1>1, <1>3 DEF OwnerInv, MutualExclusion, OwnerIffLocked

-----------------------------------------------------------------------------
\* A new mutex is free, has no waiters and nobody is in lock().
LEMMA InitInv == Init => IInv
<1> SUFFICES ASSUME Init PROVE IInv
  OBVIOUS
<1>1. TypeOK
  <2>1. wait_list \in Seq(Pids)
    BY DEF Init
  <2>2. QED BY <2>1 DEF Init, TypeOK
<1>2. OwnerInv
  BY DEF Init, OwnerInv, MutualExclusion, OwnerIffLocked
<1>3. WaitersAsleep
  BY EmptyQueue DEF Init, WaitersAsleep
<1>4. QED BY <1>1, <1>2, <1>3 DEF IInv

\* lock() and tryLock() up to their first return or sleep.
LEMMA LockInv ==
  ASSUME IInv, NEW p \in Pids, NEW t \in Timeouts \cup {FOREVER}, Lock(p, t)
  PROVE  IInv'
<1> USE DEF IInv
<1>1. CASE LockAgain(p, t)
  <2>1. TypeOK'
    BY <1>1 DEF LockAgain, TypeOK, Return
  <2>2. OwnerInv'
    <3>1. /\ owner = p /\ type = "RECURSIVE"
          /\ recursion' = recursion + 1 /\ recursion + 1 > 0
          /\ holds' = [holds EXCEPT ![p] = @ + 1]
          /\ UNCHANGED <<type, state, owner>>
      BY <1>1 DEF LockAgain, TypeOK
    <3>2. QED BY <3>1, LevelOwner, Zenon
  <2>3. WaitersAsleep'
    BY <1>1 DEF LockAgain, WaitersAsleep
  <2>4. QED BY <2>1, <2>2, <2>3
<1>2. CASE LockFree(p, t)
  <2>1. TypeOK'
    BY <1>2 DEF LockFree, Take, TypeOK, Return
  <2>2. OwnerInv'
    BY <1>2, TakeOwner DEF LockFree
  <2>3. pc' = pc
    BY <1>2 DEF LockFree, LockEntered, MayCall, Take, TypeOK
  <2>4. WaitersAsleep'
    BY <1>2, <2>3 DEF LockFree, WaitersAsleep
  <2>5. QED BY <2>1, <2>2, <2>4
<1>3. CASE LockFails(p, t)
  <2>1. TypeOK'
    BY <1>3 DEF LockFails, TypeOK, Return
  <2>2. OwnerInv' /\ WaitersAsleep'
    BY <1>3 DEF LockFails, OwnerInv, MutualExclusion, OwnerIffLocked, WaitersAsleep
  <2>3. QED BY <2>1, <2>2
<1>4. CASE LockWait(p, t)
  <2>1. /\ wait_list' = Append(wait_list, p)
        /\ pc' = [pc EXCEPT ![p] = "asleep"]
        /\ timeout' = [timeout EXCEPT ![p] = t]
        /\ elapsed' = [elapsed EXCEPT ![p] = 0]
        /\ t # 0
        /\ p \notin Range(wait_list)
        /\ UNCHANGED <<type, state, owner, recursion, ret, holds, stuck>>
    BY <1>4 DEF LockWait, LockEntered, WouldDeadlock
  <2>2. /\ wait_list' \in Seq(Pids)
        /\ Range(wait_list') = Range(wait_list) \cup {p}
        /\ IsInjective(wait_list')
    BY <2>1, AppendFacts DEF TypeOK, WaitersAsleep
  <2>3. TypeOK'
    BY <2>1, <2>2 DEF TypeOK
  <2>4. OwnerInv'
    BY <2>1 DEF OwnerInv, MutualExclusion, OwnerIffLocked
  <2>5. WaitersAsleep'
    BY <2>1, <2>2 DEF WaitersAsleep, TypeOK
  <2>6. QED BY <2>3, <2>4, <2>5
<1>5. QED BY <1>1, <1>2, <1>3, <1>4 DEF Lock

\* A task that comes back from its sleep in lock(): it takes the mutex, gives
\* up or sleeps again.
LEMMA WakeInv ==
  ASSUME IInv, NEW p \in Pids, Wake(p)
  PROVE  IInv'
<1> USE DEF IInv
<1>1. /\ RemoveWaiter(wait_list, p) \in Seq(Pids)
      /\ Range(RemoveWaiter(wait_list, p)) = Range(wait_list) \ {p}
      /\ IsInjective(RemoveWaiter(wait_list, p))
  BY RemoveWaiterFacts DEF TypeOK, WaitersAsleep
<1>2. Elapsed(p) \in Nat
  BY DEF Elapsed, TypeOK
<1>3. CASE WakeTake(p)
  <2>1. /\ state = "UNLOCKED" /\ Take(p)
        /\ elapsed' = [elapsed EXCEPT ![p] = Elapsed(p)]
        /\ wait_list' = RemoveWaiter(wait_list, p)
        /\ UNCHANGED <<type, timeout, stuck>>
    BY <1>3 DEF WakeTake
  <2>2. TypeOK'
    BY <1>1, <1>2, <2>1 DEF Take, TypeOK, Return
  <2>3. OwnerInv'
    BY <2>1, TakeOwner
  <2>4. pc' = [pc EXCEPT ![p] = "out"]
    BY <2>1 DEF Take
  <2>5. WaitersAsleep'
    BY <1>1, <2>1, <2>4 DEF WaitersAsleep, TypeOK
  <2>6. QED BY <2>2, <2>3, <2>5
<1>4. CASE WakeTimeout(p)
  <2>1. /\ elapsed' = [elapsed EXCEPT ![p] = Elapsed(p)]
        /\ wait_list' = RemoveWaiter(wait_list, p)
        /\ pc' = [pc EXCEPT ![p] = "out"]
        /\ ret' = [ret EXCEPT ![p] = FALSE]
        /\ UNCHANGED <<type, state, owner, recursion, timeout, holds, stuck>>
    BY <1>4 DEF WakeTimeout, Return
  <2>2. TypeOK'
    BY <1>1, <1>2, <2>1 DEF TypeOK
  <2>3. OwnerInv'
    BY <2>1 DEF OwnerInv, MutualExclusion, OwnerIffLocked
  <2>4. WaitersAsleep'
    BY <1>1, <2>1 DEF WaitersAsleep, TypeOK
  <2>5. QED BY <2>2, <2>3, <2>4
<1>5. CASE WakeAgain(p)
  <2>1. /\ pc[p] = "asleep"
        /\ timeout[p] = FOREVER \/ Elapsed(p) < timeout[p]
        /\ elapsed' = [elapsed EXCEPT ![p] = Elapsed(p)]
        /\ wait_list' = Append(RemoveWaiter(wait_list, p), p)
        /\ UNCHANGED <<type, state, owner, recursion, pc, timeout, ret, holds, stuck>>
    BY <1>5 DEF WakeAgain, Awake
  <2>2. /\ wait_list' \in Seq(Pids)
        /\ Range(wait_list') = Range(wait_list) \cup {p}
        /\ IsInjective(wait_list')
    BY <1>1, <2>1, AppendFacts
  <2>3. TypeOK'
    BY <1>2, <2>1, <2>2 DEF TypeOK
  <2>4. OwnerInv'
    BY <2>1 DEF OwnerInv, MutualExclusion, OwnerIffLocked
  <2>5. WaitersAsleep'
    BY <2>1, <2>2 DEF WaitersAsleep
  <2>6. QED BY <2>3, <2>4, <2>5
<1>6. QED BY <1>3, <1>4, <1>5 DEF Wake

\* unlock(): refused, one level of recursion, or the release with its wake-up.
LEMMA UnlockInv ==
  ASSUME IInv, NEW p \in Pids, Unlock(p)
  PROVE  IInv'
<1> USE DEF IInv
<1>1. CASE UnlockRefused(p)
  <2>1. TypeOK'
    BY <1>1 DEF UnlockRefused, TypeOK, Return
  <2>2. OwnerInv' /\ WaitersAsleep'
    BY <1>1 DEF UnlockRefused, OwnerInv, MutualExclusion, OwnerIffLocked, WaitersAsleep
  <2>3. QED BY <2>1, <2>2
<1>2. CASE UnlockLevel(p)
  <2>1. /\ recursion \in Nat /\ recursion > 1
        /\ recursion' = recursion - 1
        /\ holds \in [Pids -> Nat]
        /\ holds' = [holds EXCEPT ![p] = @ - 1]
        /\ owner = p /\ type = "RECURSIVE"
        /\ ret' = [ret EXCEPT ![p] = TRUE]
        /\ UNCHANGED <<type, state, owner, wait_list, pc, timeout, elapsed, stuck>>
    BY <1>2 DEF UnlockLevel, TypeOK, Return
  <2>2. holds[p] = recursion
    BY <2>1, PidAssumption DEF OwnerInv, OwnerIffLocked, MutualExclusion, TypeOK
  <2>3. TypeOK'
    BY <2>1, <2>2 DEF TypeOK
  <2>4. OwnerInv'
    <3>1. recursion' = recursion + (-1) /\ recursion + (-1) > 0
      BY <2>1
    <3>2. holds' = [holds EXCEPT ![p] = @ + (-1)]
      BY <2>1
    <3>3. QED BY <2>1, <3>1, <3>2, LevelOwner
  <2>5. WaitersAsleep'
    BY <2>1 DEF WaitersAsleep
  <2>6. QED BY <2>3, <2>4, <2>5
<1>3. CASE UnlockRelease(p)
  <2>1. /\ owner = p /\ ~(type = "RECURSIVE" /\ recursion > 1)
        /\ state' = "UNLOCKED" /\ owner' = 0 /\ recursion' = 0
        /\ holds' = [holds EXCEPT ![p] = @ - 1]
        /\ ret' = [ret EXCEPT ![p] = TRUE]
        /\ WakeNextWaiter(p)
        /\ UNCHANGED <<type, pc, timeout, elapsed>>
    BY <1>3 DEF UnlockRelease, Return
  <2>2. holds[p] = 1 /\ \A q \in Pids \ {p} : holds[q] = 0
    <3>1. /\ owner \in Pids /\ owner # 0 /\ recursion \in Nat
          /\ type \in {"NORMAL", "RECURSIVE"} /\ holds \in [Pids -> Nat]
      BY <2>1, PidAssumption DEF TypeOK
    <3>2. state = "LOCKED" /\ holds[p] > 0 /\ recursion = holds[p]
      BY <2>1, <3>1 DEF OwnerInv, OwnerIffLocked, MutualExclusion, TypeOK
    <3>3. recursion <= 1
      BY <2>1, <3>1 DEF OwnerInv
    <3>4. QED BY <3>1, <3>2, <3>3 DEF OwnerInv, MutualExclusion
  <2>3. holds' \in [Pids -> Nat] /\ \A q \in Pids : holds'[q] = 0
    BY <2>1, <2>2 DEF TypeOK
  <2>4. /\ wait_list' \in Seq(Pids)
        /\ Range(wait_list') \subseteq Range(wait_list)
        /\ IsInjective(wait_list')
        /\ stuck' \in BOOLEAN
    <3>1. wait_list \in Seq(Pids) /\ IsInjective(wait_list) /\ stuck \in BOOLEAN
      BY DEF TypeOK, WaitersAsleep
    <3>2. CASE wait_list = <<>>
      BY <2>1, <3>1, <3>2 DEF WakeNextWaiter
    <3>3. CASE wait_list # <<>>
      <4>1. wait_list' = Tail(wait_list) /\ stuck' \in BOOLEAN
        BY <2>1, <3>3 DEF WakeNextWaiter
      <4>2. QED BY <3>1, <3>3, <4>1, TailFacts
    <3>4. QED BY <3>2, <3>3
  <2>5. TypeOK'
    BY <2>1, <2>3, <2>4 DEF TypeOK
  <2>6. OwnerInv'
    BY <2>1, <2>3 DEF OwnerInv, MutualExclusion, OwnerIffLocked
  <2>7. WaitersAsleep'
    BY <2>1, <2>4 DEF WaitersAsleep
  <2>8. QED BY <2>5, <2>6, <2>7
<1>4. QED BY <1>1, <1>2, <1>3 DEF Unlock

-----------------------------------------------------------------------------
\* The inductive invariant holds in every reachable state.
THEOREM Invariance == Spec => []IInv
<1>1. IInv /\ [Next]_vars => IInv'
  <2> SUFFICES ASSUME IInv, [Next]_vars PROVE IInv'
    OBVIOUS
  <2>1. CASE Next
    BY <2>1, LockInv, WakeInv, UnlockInv DEF Next
  <2>2. CASE UNCHANGED vars
    BY <2>2 DEF vars, IInv, TypeOK, OwnerInv, MutualExclusion, OwnerIffLocked, WaitersAsleep
  <2>3. QED BY <2>1, <2>2
<1>2. QED BY <1>1, InitInv, PTL DEF Spec

\* Whoever has locked the mutex more often than unlocked it is its one owner,
\* through any mixture of lock, tryLock, timed waits and unlock.
THEOREM MutualExclusionHolds == Spec => []MutualExclusion
<1>1. IInv => MutualExclusion
  BY DEF IInv, OwnerInv
<1>2. QED BY <1>1, Invariance, PTL

\* The mutex has an owner exactly while it is taken, and the owner holds it.
THEOREM OwnerIffLockedHolds == Spec => []OwnerIffLocked
<1>1. IInv => OwnerIffLocked
  BY DEF IInv, OwnerInv
<1>2. QED BY <1>1, Invariance, PTL

\* The wait list names tasks asleep in lock(), each once: removeWaiter,
\* wakeNextWaiter and a second addWaiter leave no node behind.
THEOREM WaitersAsleepHolds == Spec => []WaitersAsleep
<1>1. IInv => WaitersAsleep
  BY DEF IInv
<1>2. QED BY <1>1, Invariance, PTL

=============================================================================
