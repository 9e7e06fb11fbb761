------------------------------ MODULE MCLocked ------------------------------
(***************************************************************************)
(* Three structures of the kernel that any task on any CPU uses under the  *)
(* structure's own spin lock: a mutex, the log buffer and the heap.  They  *)
(* share no state, so a behaviour is about one of them, which the initial  *)
(* state chooses; the other two do not move.                               *)
(*                                                                         *)
(* The mutex: three tasks, enough for one to hold it while two wait, with  *)
(* tryLock, timeouts of one and two sleeps and endless waits, both kinds   *)
(* of mutex, and recursion to depth two.                                   *)
(*                                                                         *)
(* The log buffer: three slots and up to seven messages, so that head and  *)
(* tail pass the end of the array twice, and the buffer is full at every   *)
(* position.                                                               *)
(*                                                                         *)
(* The heap: the caches of 1024-byte and of 2048-byte objects, with three  *)
(* objects and one object per slab, share two pages and, when they are     *)
(* used up, page 0: three slabs are enough for a list with a middle.       *)
(***************************************************************************)
EXTENDS Mutex, LogBuffer, SlabAllocator

MCPids == 1 .. 3
MCTimeouts == 0 .. 2

MCCaches == {1024, 2048}
MCObjects == [c \in MCCaches |-> IF c = 1024 THEN 3 ELSE 1]
MCLargeOrders == {0, 1}

VARIABLE part   \* the structure that this behaviour is about

LockedInit ==
  /\ part \in {"mutex", "log buffer", "heap"}
  /\ Init /\ LogInit /\ SlabInit
  /\ part # "mutex" => type = "NORMAL"

LockedNext ==
  \/ part = "mutex" /\ Next /\ UNCHANGED <<part, logVars, slabVars>>
  \/ part = "log buffer" /\ LogNext /\ UNCHANGED <<part, vars, slabVars>>
  \/ part = "heap" /\ SlabNext /\ UNCHANGED <<part, vars, logVars>>

LockedSpec ==
  LockedInit /\ [][LockedNext]_<<part, vars, logVars, slabVars>> /\ Fairness
=============================================================================
