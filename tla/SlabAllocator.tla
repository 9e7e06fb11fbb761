--------------------------- MODULE SlabAllocator ---------------------------
(***************************************************************************)
(* The kernel heap: SlabAllocator::kmalloc and kfree over SlabCaches,      *)
(* whose slabs are pages on three singly linked lists, and the large       *)
(* requests that go to the page allocator directly.  The lists are kept as *)
(* the code keeps them, a head and the slabs' next pointers, because the   *)
(* code unlinks by walking them.                                           *)
(*                                                                         *)
(* kmalloc and kfree hold slab_global_lock from beginning to end, so each  *)
(* is one action.  The page allocator is a set of free pages; physical     *)
(* page 0, which belongs to the firmware, is not one of them.              *)
(***************************************************************************)
EXTENDS Integers, Sequences, FiniteSets, Functions

CONSTANTS
  Caches,            \* the general caches
  objects_per_slab,  \* objects_per_slab[c]
  NumPages,          \* pages 1 .. NumPages are the page allocator's
  LargeOrders        \* orders of the large requests

ASSUME SlabAssumption ==
  /\ objects_per_slab \in [Caches -> Nat \ {0}]
  /\ NumPages \in Nat
  /\ LargeOrders \subseteq Nat

Nil == -1
PageZero == 0
AllocatorPages == 1 .. NumPages
Pages == AllocatorPages \cup {PageZero}
Objects(c) == 1 .. objects_per_slab[c]
MaxObjects == UNION {Objects(c) : c \in Caches}

VARIABLES
  slabs_full, slabs_partial, slabs_free,   \* heads of the lists of each cache
  next,           \* next[s]: Slab::next
  cache,          \* cache[s]: Slab::cache
  freelist,       \* freelist[s]: the free objects of slab s, first one first
  inuse, free,    \* the counters of the slabs
  free_pages,     \* the page allocator: pages it can hand out
  slabs,          \* history: the pages that were made slabs
  allocated,      \* history: the objects <<slab, object>> that callers hold
  large,          \* history: the large blocks <<page, order>> that callers hold
  remade          \* history: a page that was a slab has been made a slab again

lists == <<slabs_full, slabs_partial, slabs_free, next>>
slabVars == <<slabs_full, slabs_partial, slabs_free, next, cache, freelist, inuse,
              free, free_pages, slabs, allocated, large, remade>>

SlabTypeOK ==
  /\ slabs_full \in [Caches -> Pages \cup {Nil}]
  /\ slabs_partial \in [Caches -> Pages \cup {Nil}]
  /\ slabs_free \in [Caches -> Pages \cup {Nil}]
  /\ next \in [Pages -> Pages \cup {Nil}]
  /\ cache \in [Pages -> Caches]
  /\ \A s \in slabs : Range(freelist[s]) \subseteq Objects(cache[s])
  /\ inuse \in [Pages -> MaxObjects \cup {0}]
  /\ free \in [Pages -> MaxObjects \cup {0}]
  /\ free_pages \subseteq AllocatorPages
  /\ slabs \subseteq Pages
  /\ allocated \subseteq Pages \X MaxObjects
  /\ large \subseteq AllocatorPages \X LargeOrders
  /\ remade \in BOOLEAN

SlabInit ==
  /\ slabs_full = [c \in Caches |-> Nil]
  /\ slabs_partial = [c \in Caches |-> Nil]
  /\ slabs_free = [c \in Caches |-> Nil]
  /\ next = [s \in Pages |-> Nil]
  /\ cache = [s \in Pages |-> CHOOSE c \in Caches : TRUE]
  /\ freelist = [s \in Pages |-> <<>>]
  /\ inuse = [s \in Pages |-> 0]
  /\ free = [s \in Pages |-> 0]
  /\ free_pages = AllocatorPages
  /\ slabs = {}
  /\ allocated = {}
  /\ large = {}
  /\ remade = FALSE

-----------------------------------------------------------------------------
\* The nodes of the list with head h.
Walk(h) == LET w[i \in 0 .. NumPages + 1] ==
                 IF i = 0 THEN h ELSE IF w[i - 1] = Nil THEN Nil ELSE next[w[i - 1]]
           IN  w
ListOf(h) == Range(Walk(h)) \ {Nil}

\* The head and the next pointers when s is unlinked from the list with head h
\* (nothing happens if it is not on it).
HeadWithout(h, s) == IF h = s THEN next[s] ELSE h
NextWithout(h, s) == [q \in Pages |-> IF q \in ListOf(h) /\ next[q] = s THEN next[s] ELSE next[q]]

\* alloc(), once it has a slab s of cache c with this freelist and these
\* counters, and with this head of the free list and these next pointers: take
\* the first object and put s on the list it belongs on.
TakeObject(c, s, list, used, left, freeHead, nxt) ==
  LET becomesFull    == left - 1 = 0
      becomesPartial == left - 1 # 0 /\ s = freeHead
      fromPartial    == s = slabs_partial[c]
  IN  /\ freelist' = [freelist EXCEPT ![s] = Tail(list)]
      /\ inuse' = [inuse EXCEPT ![s] = used + 1]
      /\ free' = [free EXCEPT ![s] = left - 1]
      /\ slabs_partial' = [slabs_partial EXCEPT ![c] =
           CASE becomesFull /\ fromPartial -> nxt[s] [] becomesPartial -> s [] OTHER -> @]
      /\ slabs_free' = [slabs_free EXCEPT ![c] =
           IF (becomesFull /\ ~fromPartial) \/ becomesPartial THEN nxt[s] ELSE freeHead]
      /\ slabs_full' = [slabs_full EXCEPT ![c] = IF becomesFull THEN s ELSE @]
      /\ next' = [nxt EXCEPT ![s] =
           CASE becomesFull -> slabs_full[c] [] becomesPartial -> slabs_partial[c] [] OTHER -> @]
      /\ allocated' = allocated \cup {<<s, Head(list)>>}

\* The slab alloc() takes from, Nil if it has to make one.
UsableSlab(c) == IF slabs_partial[c] # Nil THEN slabs_partial[c] ELSE slabs_free[c]

\* kmalloc of a small object from a slab there is.
KmallocFromSlab(c) ==
  LET s == UsableSlab(c)
  IN  /\ s # Nil
      /\ TakeObject(c, s, freelist[s], inuse[s], free[s], slabs_free[c], next)
      /\ UNCHANGED <<cache, free_pages, slabs, large, remade>>

\* The freelist that create_slab() makes.
NewFreelist(c) == [o \in Objects(c) |-> o]

\* alloc_pages(0, 0) as create_slab() uses it: a free page, or, when there is
\* none, the address 0 for failure.  create_slab() tests the address phys2Virt
\* makes of it, which is not null, and goes on with physical page 0.
PageForSlab == IF free_pages = {} THEN {PageZero} ELSE free_pages

\* Mutant: the free slabs are not looked at before a new one is made.
KmallocNewSlabEager(c) ==
  /\ slabs_partial[c] = Nil
  /\ \E s \in PageForSlab :
       /\ free_pages' = free_pages \ {s}
       /\ slabs' = slabs \cup {s}
       /\ remade' = (s \in slabs)
       /\ cache' = [cache EXCEPT ![s] = c]
       /\ TakeObject(c, s, NewFreelist(c), 0, objects_per_slab[c], s,
                     [next EXCEPT ![s] = slabs_free[c]])
  /\ UNCHANGED large

\* kmalloc of a small object when create_slab() has to be called.
KmallocNewSlab(c) ==
  /\ UsableSlab(c) = Nil
  /\ \E s \in PageForSlab :
       /\ free_pages' = free_pages \ {s}
       /\ slabs' = slabs \cup {s}
       /\ remade' = (s \in slabs)
       /\ cache' = [cache EXCEPT ![s] = c]
       /\ TakeObject(c, s, NewFreelist(c), 0, objects_per_slab[c], s,
                     [next EXCEPT ![s] = Nil])
  /\ UNCHANGED large

\* A block of 2^o pages of the page allocator.
PagesOf(p, o) == p .. p + 2 ^ o - 1

KmallocLarge(o) ==
  \E p \in free_pages :
    /\ PagesOf(p, o) \subseteq free_pages
    /\ free_pages' = free_pages \ PagesOf(p, o)
    /\ large' = large \cup {<<p, o>>}
    /\ UNCHANGED <<lists, cache, freelist, inuse, free, slabs, allocated, remade>>

\* kfree of a large block; the order passed on is 0.
KfreeLarge(p, o) ==
  /\ <<p, o>> \in large
  /\ free_pages' = free_pages \cup PagesOf(p, 0)
  /\ large' = large \ {<<p, o>>}
  /\ UNCHANGED <<lists, cache, freelist, inuse, free, slabs, allocated, remade>>

\* Mutant: the counter of free objects is forgotten.
GiveBackUncounted(s, o) ==
  /\ <<s, o>> \in allocated
  /\ allocated' = allocated \ {<<s, o>>}
  /\ freelist' = [freelist EXCEPT ![s] = <<o>> \o @]
  /\ inuse' = [inuse EXCEPT ![s] = @ - 1]
  /\ UNCHANGED <<cache, free, free_pages, slabs, large, remade>>

\* free(): the object goes to the front of its slab's freelist.
GiveBack(s, o) ==
  /\ <<s, o>> \in allocated
  /\ allocated' = allocated \ {<<s, o>>}
  /\ freelist' = [freelist EXCEPT ![s] = <<o>> \o @]
  /\ inuse' = [inuse EXCEPT ![s] = @ - 1]
  /\ free' = [free EXCEPT ![s] = @ + 1]
  /\ UNCHANGED <<cache, free_pages, slabs, large, remade>>

\* Mutant: the slab becomes free without being unlinked from the partial list.
KfreeLastKeepsPartial(c, s, o) ==
  /\ GiveBack(s, o)
  /\ inuse[s] = 1
  /\ slabs_full' = [slabs_full EXCEPT ![c] = HeadWithout(@, s)]
  /\ slabs_free' = [slabs_free EXCEPT ![c] = s]
  /\ next' = [next EXCEPT ![s] = slabs_free[c]]
  /\ UNCHANGED slabs_partial

\* kfree of the last object in use of its slab: from the head of the full list
\* or from the partial list to the free list.
KfreeLast(c, s, o) ==
  /\ GiveBack(s, o)
  /\ inuse[s] = 1
  /\ IF s = slabs_full[c]
       THEN /\ slabs_full' = [slabs_full EXCEPT ![c] = next[s]]
            /\ next' = [next EXCEPT ![s] = slabs_free[c]]
            /\ UNCHANGED slabs_partial
       ELSE /\ slabs_partial' = [slabs_partial EXCEPT ![c] = HeadWithout(@, s)]
            /\ next' = [NextWithout(slabs_partial[c], s) EXCEPT ![s] = slabs_free[c]]
            /\ UNCHANGED slabs_full
  /\ slabs_free' = [slabs_free EXCEPT ![c] = s]

\* kfree of the first object of a full slab: to the partial list.
KfreeFirst(c, s, o) ==
  /\ GiveBack(s, o)
  /\ inuse[s] > 1 /\ free[s] = 0
  /\ IF s \in ListOf(slabs_full[c])
       THEN /\ slabs_full' = [slabs_full EXCEPT ![c] = HeadWithout(@, s)]
            /\ next' = [NextWithout(slabs_full[c], s) EXCEPT ![s] = slabs_partial[c]]
            /\ slabs_partial' = [slabs_partial EXCEPT ![c] = s]
       ELSE UNCHANGED <<slabs_full, next, slabs_partial>>
  /\ UNCHANGED slabs_free

\* kfree of any other object.
KfreeMiddle(c, s, o) ==
  /\ GiveBack(s, o)
  /\ inuse[s] > 1 /\ free[s] > 0
  /\ UNCHANGED lists

\* Once a slab in use has been made anew its freelist runs through memory that
\* callers write to: the program has no defined behaviour to follow.
SlabNext ==
  /\ ~remade
  /\ \/ \E c \in Caches : KmallocFromSlab(c) \/ KmallocNewSlab(c)
     \/ \E o \in LargeOrders : KmallocLarge(o)
     \/ \E b \in large : KfreeLarge(b[1], b[2])
     \/ \E a \in allocated :
          \/ KfreeLast(cache[a[1]], a[1], a[2])
          \/ KfreeFirst(cache[a[1]], a[1], a[2])
          \/ KfreeMiddle(cache[a[1]], a[1], a[2])

SlabSpec == SlabInit /\ [][SlabNext]_slabVars

-----------------------------------------------------------------------------
SlabsOf(c) == {s \in slabs : cache[s] = c}

\* Every object of a slab is either held by one caller or once on the slab's
\* freelist, and the two counters say how many: kmalloc never returns memory
\* that is in use.  It ends when kmalloc runs out of pages for the second time,
\* makes a slab of page 0 again and hands its objects out anew (see
\* SlabsAllocated), and in no other way.
ObjectsOwnedOnce ==
  /\ SlabTypeOK
  /\ remade => free_pages = {} /\ PageZero \in slabs
  /\ ~remade => \A s \in slabs :
       /\ IsInjective(freelist[s])
       /\ Range(freelist[s]) = {o \in Objects(cache[s]) : <<s, o>> \notin allocated}
       /\ inuse[s] = Cardinality({a \in allocated : a[1] = s})
       /\ free[s] = Len(freelist[s])

\* slabs_partial and slabs_free hold exactly the cache's partly used and its
\* unused slabs, so alloc() finds each of them and takes from no other; with
\* several objects per slab slabs_full holds exactly the full ones, so free()
\* finds there the slab that has to move.  A cache with one object per slab
\* does not keep its full list in order, and does not need it.
ListsExact ==
  ~remade => \A c \in Caches :
    /\ ListOf(slabs_partial[c]) = {s \in SlabsOf(c) : inuse[s] > 0 /\ free[s] > 0}
    /\ ListOf(slabs_free[c]) = {s \in SlabsOf(c) : inuse[s] = 0}
    /\ objects_per_slab[c] > 1 => ListOf(slabs_full[c]) = {s \in SlabsOf(c) : free[s] = 0}

\* A page is turned into a slab only when every slab of the cache is full.
NewSlabOnlyWhenFull ==
  [][\A s \in slabs' \ slabs : \A q \in SlabsOf(cache'[s]) : free[q] = 0]_slabVars

\* create_slab: "如果创建失败则返回nullptr" (returns nullptr when it fails).  Every
\* slab is a page that the page allocator handed out.
SlabsAllocated == slabs \subseteq AllocatorPages

=============================================================================
