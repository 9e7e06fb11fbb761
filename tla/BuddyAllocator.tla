--------------------------- MODULE BuddyAllocator ---------------------------
(***************************************************************************)
(* The page allocator of the normal zone: KernelMemory::alloc_pages and    *)
(* free_pages, Zone::allocPages and freePages, and the BuddyAllocator      *)
(* below them.  Addresses are page frame numbers.  Every iteration of the  *)
(* split loop and of the merge loop is a step of its own, so that the      *)
(* properties are looked at in the middle of an operation too.             *)
(*                                                                         *)
(* Nothing locks the zone: its callers are kernel_main during boot and     *)
(* then the one user task, one at a time.  A request that fails returns 0  *)
(* and changes nothing.  The contents of the PageInfo entries steer        *)
(* nothing: only the indices at which the code touches them are kept.      *)
(***************************************************************************)
EXTENDS Integers, Sequences, FiniteSets, Functions

CONSTANTS
  ZONE_START,   \* NORMAL_ZONE_START
  ZONE_SIZE,    \* pages of the zone
  INFO_PAGES,   \* pages the PageInfo array takes at the start of the zone
  MAX_ORDER,
  Requests      \* the orders that callers ask for

ASSUME ZoneAssumption ==
  /\ ZONE_START \in Nat /\ ZONE_SIZE \in Nat /\ INFO_PAGES \in Nat
  /\ INFO_PAGES < ZONE_SIZE
ASSUME OrderAssumption == MAX_ORDER \in Nat /\ Requests \subseteq 0 .. MAX_ORDER
\* The law of exponentiation that the block sizes rest on.
ASSUME PowerAssumption ==
  /\ \A k \in 0 .. MAX_ORDER : 2 ^ k \in Nat \ {0}
  /\ \A k \in 0 .. MAX_ORDER - 1 : 2 ^ (k + 1) = 2 * 2 ^ k

Orders == 0 .. MAX_ORDER
memory_start == ZONE_START + INFO_PAGES
memory_size == ZONE_SIZE - INFO_PAGES
zone_end == ZONE_START + ZONE_SIZE

\* get_block_order: the smallest order with that many pages.
GetBlockOrder(n) ==
  CHOOSE k \in Orders : 2 ^ k >= n /\ \A j \in 0 .. k - 1 : 2 ^ j < n

InitOrder == GetBlockOrder(memory_size)
ASSUME InitOrderAssumption == InitOrder \in Orders

VARIABLES
  free_lists,     \* free_lists[k]: the free blocks of 2^k pages, head first
  nr_free_pages,  \* Zone::nr_free_pages
  pc,             \* "idle", or inside the loop of an operation: "split", "merge"
  block,          \* the loop's block and its current_order
  current_order,
  order,          \* the order requested
  held,           \* history: the blocks <<pfn, order>> handed out
  forgotten       \* history: the blocks whose return Zone::freePages ignored

vars == <<free_lists, nr_free_pages, pc, block, current_order, order, held, forgotten>>

Pages(b) == b[1] .. b[1] + 2 ^ b[2] - 1

\* The pages of the block that init() puts on its free list.
AllPages == Pages(<<memory_start, InitOrder>>)

FreeBlocks == {b \in AllPages \X Orders : b[1] \in Range(free_lists[b[2]])}
InFlight == IF pc = "idle" THEN {} ELSE {<<block, current_order>>}

TypeOK ==
  /\ free_lists \in [Orders -> Seq(AllPages)]
  /\ nr_free_pages \in Nat
  /\ pc \in {"idle", "split", "merge"}
  /\ block \in AllPages
  /\ current_order \in Orders
  /\ order \in Orders
  /\ held \subseteq AllPages \X Orders
  /\ forgotten \subseteq AllPages \X Orders

\* Zone::init and BuddyAllocator::init.
Init ==
  /\ free_lists = [k \in Orders |-> IF k = InitOrder THEN <<memory_start>> ELSE <<>>]
  /\ nr_free_pages = ZONE_SIZE
  /\ pc = "idle"
  /\ block = memory_start
  /\ current_order = 0
  /\ order = 0
  /\ held = {}
  /\ forgotten = {}

-----------------------------------------------------------------------------
\* The operation returns; its locals are gone.
Return ==
  /\ pc' = "idle"
  /\ block' = memory_start
  /\ current_order' = 0
  /\ order' = 0

Push(k, a) == free_lists' = [free_lists EXCEPT ![k] = <<a>> \o @]

\* Mutant: the buddy is the next block, whatever the address.
GetBuddyAddressAbove(a, k) == a + 2 ^ k

\* addr ^ (size * PAGE_SIZE): flipping one bit of the address.
GetBuddyAddress(a, k) == IF (a \div 2 ^ k) % 2 = 0 THEN a + 2 ^ k ELSE a - 2 ^ k

\* alloc_pages down to the removal of the first block that is large enough.
AllocTake(o) ==
  /\ pc = "idle"
  /\ 2 ^ o <= nr_free_pages
  /\ \E c \in o .. MAX_ORDER :
       /\ free_lists[c] # <<>>
       /\ \A j \in o .. c - 1 : free_lists[j] = <<>>
       /\ free_lists' = [free_lists EXCEPT ![c] = Tail(@)]
       /\ block' = Head(free_lists[c])
       /\ current_order' = c
  /\ order' = o
  /\ pc' = "split"
  /\ UNCHANGED <<nr_free_pages, held, forgotten>>

\* Mutant: the buddy is cut off one page too low.
AllocSplitLow ==
  /\ pc = "split" /\ current_order > order
  /\ current_order' = current_order - 1
  /\ Push(current_order - 1, block + 2 ^ (current_order - 1) - 1)
  /\ UNCHANGED <<nr_free_pages, pc, block, order, held, forgotten>>

\* One iteration of the split loop: the upper half goes on its free list.
AllocSplit ==
  /\ pc = "split" /\ current_order > order
  /\ current_order' = current_order - 1
  /\ Push(current_order - 1, block + 2 ^ (current_order - 1))
  /\ UNCHANGED <<nr_free_pages, pc, block, order, held, forgotten>>

\* The rest of allocate_pages and of Zone::allocPages.
AllocDone ==
  /\ pc = "split" /\ current_order = order
  /\ nr_free_pages' = nr_free_pages - 2 ^ order
  /\ held' = held \cup {<<block, order>>}
  /\ Return
  /\ UNCHANGED <<free_lists, forgotten>>

-----------------------------------------------------------------------------
\* free_pages of a block that its owner gives back.
FreePages(p, o) ==
  /\ pc = "idle"
  /\ <<p, o>> \in held
  /\ p + 2 ^ o <= zone_end
  /\ held' = held \ {<<p, o>>}
  /\ pc' = "merge"
  /\ block' = p
  /\ current_order' = o
  /\ order' = o
  /\ UNCHANGED <<free_lists, nr_free_pages, forgotten>>

\* Zone::freePages ignores a block that ends above the zone; a block that
\* starts there goes to high_zone, which was never set up and ignores it too.
FreeIgnored(p, o) ==
  /\ pc = "idle"
  /\ <<p, o>> \in held
  /\ p + 2 ^ o > zone_end
  /\ held' = held \ {<<p, o>>}
  /\ forgotten' = forgotten \cup {<<p, o>>}
  /\ UNCHANGED <<free_lists, nr_free_pages, pc, block, current_order, order>>

\* try_merge_buddy finds the buddy on the list of its order.
BuddyFree ==
  /\ current_order < MAX_ORDER
  /\ GetBuddyAddress(block, current_order) \in Range(free_lists[current_order])

\* The list without its first block at a.
Remove(list, a) ==
  LET i == CHOOSE i \in DOMAIN list : list[i] = a /\ \A j \in 1 .. i - 1 : list[j] # a
  IN  SubSeq(list, 1, i - 1) \o SubSeq(list, i + 1, Len(list))

\* One iteration of the merge loop.
FreeMerge ==
  /\ pc = "merge" /\ BuddyFree
  /\ LET buddy == GetBuddyAddress(block, current_order)
     IN  /\ free_lists' = [free_lists EXCEPT ![current_order] = Remove(@, buddy)]
         /\ block' = IF block < buddy THEN block ELSE buddy
  /\ current_order' = current_order + 1
  /\ UNCHANGED <<nr_free_pages, pc, order, held, forgotten>>

\* Mutant: the merged block goes on the list of the order that was freed.
FreeInsertUnmerged ==
  /\ pc = "merge" /\ ~BuddyFree
  /\ Push(order, block)
  /\ nr_free_pages' = nr_free_pages + 2 ^ order
  /\ Return
  /\ UNCHANGED <<held, forgotten>>

\* The end of free_pages and of Zone::freePages.
FreeInsert ==
  /\ pc = "merge" /\ ~BuddyFree
  /\ Push(current_order, block)
  /\ nr_free_pages' = nr_free_pages + 2 ^ order
  /\ Return
  /\ UNCHANGED <<held, forgotten>>

Next ==
  \/ \E o \in Requests : AllocTake(o)
  \/ AllocSplit
  \/ AllocDone
  \/ \E b \in held : FreePages(b[1], b[2]) \/ FreeIgnored(b[1], b[2])
  \/ FreeMerge
  \/ FreeInsert

Spec == Init /\ [][Next]_vars

-----------------------------------------------------------------------------
\* The blocks that are free, handed out or in the hands of an operation.
Blocks == FreeBlocks \cup held \cup InFlight

\* No page is in two blocks, and no block is on its free list twice: what
\* allocate_pages returns belongs to nobody else, in the middle of a split or
\* of a merge too.
BlocksDisjoint ==
  /\ TypeOK
  /\ \A a, b \in Blocks : a # b => Pages(a) \cap Pages(b) = {}
  /\ \A k \in Orders : IsInjective(free_lists[k])
  /\ FreeBlocks \cap held = {} /\ FreeBlocks \cap InFlight = {} /\ held \cap InFlight = {}

PagesOf(X) == UNION {Pages(b) : b \in X}

\* Splitting and merging lose no page: every page of the initial block, which
\* get_block_order makes larger than the zone, is free, handed out, in the hands
\* of an operation, or in a block whose return was ignored, and only a block
\* that ends above the zone is ever ignored.  Between calls nr_free_pages, which
\* is kept beside the lists, counts the pages of the zone less those handed out
\* and not taken back.
NoPageLost ==
  /\ PagesOf(Blocks \cup forgotten) = AllPages
  /\ PagesOf(Blocks) \cap PagesOf(forgotten) = {}
  /\ \A b \in forgotten : b[1] + 2 ^ b[2] > zone_end
  /\ pc = "idle" =>
       nr_free_pages + Cardinality(PagesOf(held \cup forgotten)) = ZONE_SIZE

\* Merging is complete: no free block's buddy is free too.
FullyMerged ==
  pc = "idle" =>
    \A b \in FreeBlocks : b[2] < MAX_ORDER =>
      GetBuddyAddress(b[1], b[2]) \notin Range(free_lists[b[2]])

=============================================================================
