------------------------------ MODULE MCMemory ------------------------------
(***************************************************************************)
(* The page allocator, and the address space of init.  The second takes    *)
(* frames one by one from an allocator that it sees as a set, so the two   *)
(* share no state and a behaviour is about one of them, which the initial  *)
(* state chooses; the other does not move.                                 *)
(*                                                                         *)
(* The page allocator: a zone of 7 pages that starts at page 2.  One page  *)
(* of PageInfo makes memory_start odd, as far from alignment as it can be, *)
(* and leaves 6 pages, which get_block_order rounds up to 8: two pages of  *)
(* the initial block are above the zone, and nr_free_pages, which counts   *)
(* the PageInfo page, allows one of them to be handed out.                 *)
(*                                                                         *)
(* The address space: a user range of seven pages, with room for the stack *)
(* and the file, which may be empty, and two or three more areas; the      *)
(* limit on the number of areas is met, and the frames run out.            *)
(***************************************************************************)
EXTENDS BuddyAllocator, UserMemory, TLC

MCRequests == {0, 1, 2}

CONSTANTS f1, f2, f3, f4, f5

MCFrames == {f1, f2, f3, f4, f5}
FrameSymmetry == Permutations(MCFrames)
MCFilePages == {0, 1, 2}
MCMmapPages == {0, 1, 2}

VARIABLE part   \* what this behaviour is about

MemoryInit == part \in {"page allocator", "address space"} /\ Init /\ UserInit

MemoryNext ==
  \/ part = "page allocator" /\ Next /\ UNCHANGED <<part, userVars>>
  \/ part = "address space" /\ UserNext /\ UNCHANGED <<part, vars>>

MemorySpec == MemoryInit /\ [][MemoryNext]_<<part, vars, userVars>>
=============================================================================
