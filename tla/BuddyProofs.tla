---------------------------- MODULE BuddyProofs ----------------------------
(***************************************************************************)
(* Blocks never overlap, for every zone, aligned or not, and every mixture *)
(* of orders.                                                              *)
(*                                                                         *)
(* The buddy of a block is computed from its absolute address while the    *)
(* zone starts anywhere, so it is not clear that the buddy is the other    *)
(* half of a block that was split.  It need not be: two blocks of the same *)
(* order whose addresses differ by their size are neighbours, and what     *)
(* they become is their union.  So the invariant needs nothing about       *)
(* alignment, only that blocks lie inside the initial one.                 *)
(***************************************************************************)
EXTENDS BuddyAllocator, QueueLemmas, TLAPS

BlockSet == AllPages \X Orders

\* F, H, I: the free blocks, those handed out, the one an operation works on.
Inside(X) == \A b \in X : b \in BlockSet /\ Pages(b) \subseteq AllPages
Apart(X) == \A a, b \in X : a # b => Pages(a) \cap Pages(b) = {}
Good(F, H, I) ==
  /\ Inside(F \cup H \cup I)
  /\ Apart(F \cup H \cup I)
  /\ F \cap H = {} /\ F \cap I = {} /\ H \cap I = {}

ListInv ==
  /\ free_lists \in [Orders -> Seq(AllPages)]
  /\ \A k \in Orders : IsInjective(free_lists[k])

LocalInv ==
  /\ nr_free_pages \in Nat
  /\ pc \in {"idle", "split", "merge"}
  /\ block \in AllPages /\ current_order \in Orders /\ order \in Orders
  /\ pc = "split" => 2 ^ order <= nr_free_pages
  /\ forgotten \subseteq AllPages \X Orders

IInv == ListInv /\ LocalInv /\ Good(FreeBlocks, held, InFlight)

----------------------------------------------------------------------------
\* Page numbers are numbers.
LEMMA Numbers ==
  /\ \A k \in Orders : k \in Int /\ 2 ^ k \in Nat \ {0}
  /\ \A k \in Orders \ {0} : k - 1 \in Orders /\ 2 ^ k = 2 * 2 ^ (k - 1)
  /\ AllPages \subseteq Int
  /\ memory_start \in AllPages
<1>1. MAX_ORDER \in Nat /\ \A k \in Orders : k \in Int /\ 2 ^ k \in Nat \ {0}
  BY OrderAssumption, PowerAssumption DEF Orders
<1>2. ASSUME NEW k \in Orders \ {0} PROVE k - 1 \in Orders /\ 2 ^ k = 2 * 2 ^ (k - 1)
  <2>1. k - 1 \in 0 .. MAX_ORDER - 1 /\ (k - 1) + 1 = k
    BY <1>1 DEF Orders
  <2>2. 2 ^ ((k - 1) + 1) = 2 * 2 ^ (k - 1)
    BY <2>1, PowerAssumption
  <2>3. QED BY <1>1, <2>1, <2>2 DEF Orders
<1>3. memory_start \in Nat
  BY ZoneAssumption DEF memory_start
<1>4. InitOrder \in Orders /\ 2 ^ InitOrder \in Nat \ {0}
  BY <1>1, InitOrderAssumption
<1> DEFINE d == 2 ^ InitOrder
<1>5. AllPages = memory_start .. memory_start + d - 1
  BY DEF AllPages, Pages
<1> HIDE DEF d
<1>6. d \in Nat \ {0}
  BY <1>4 DEF d
<1>7. AllPages \subseteq Int /\ memory_start \in AllPages
  BY <1>3, <1>5, <1>6
<1>8. QED BY <1>1, <1>2, <1>7

\* A block contains its first page.
LEMMA FirstPage ==
  ASSUME NEW p \in Int, NEW k \in Orders
  PROVE  p \in Pages(<<p, k>>)
<1> DEFINE d == 2 ^ k
<1>1. d \in Nat \ {0}
  BY Numbers
<1>2. Pages(<<p, k>>) = p .. p + d - 1
  BY DEF Pages
<1> HIDE DEF d
<1>3. QED BY <1>1, <1>2

\* The two halves of a block are the block, and share no page.
LEMMA Halves ==
  ASSUME NEW p \in Int, NEW k \in Orders \ {0}
  PROVE  /\ Pages(<<p, k>>) = Pages(<<p, k - 1>>) \cup Pages(<<p + 2 ^ (k - 1), k - 1>>)
         /\ Pages(<<p, k - 1>>) \cap Pages(<<p + 2 ^ (k - 1), k - 1>>) = {}
<1> DEFINE d == 2 ^ (k - 1)
           e == 2 ^ k
<1>1. d \in Nat \ {0} /\ e = 2 * d
  BY Numbers
<1>2. /\ Pages(<<p, k>>) = p .. p + e - 1
      /\ Pages(<<p, k - 1>>) = p .. p + d - 1
      /\ Pages(<<p + d, k - 1>>) = p + d .. (p + d) + d - 1
  BY DEF Pages
<1> HIDE DEF d, e
<1>3. p .. p + e - 1 = (p .. p + d - 1) \cup (p + d .. (p + d) + d - 1)
  BY <1>1
<1>4. (p .. p + d - 1) \cap (p + d .. (p + d) + d - 1) = {}
  BY <1>1
<1>5. QED BY <1>2, <1>3, <1>4 DEF d


\* Fewer blocks are still inside and apart.
LEMMA Fewer ==
  ASSUME NEW X, NEW Y, Y \subseteq X, Inside(X), Apart(X)
  PROVE  Inside(Y) /\ Apart(Y)
BY DEF Inside, Apart

\* A block inside and apart from the others can be replaced by its halves: one
\* iteration of the split loop.
LEMMA Split ==
  ASSUME NEW F, NEW H, NEW p \in AllPages, NEW k \in Orders \ {0}, Good(F, H, {<<p, k>>})
  PROVE  LET hi == <<p + 2 ^ (k - 1), k - 1>>
         IN  /\ hi \notin F /\ hi \in BlockSet
             /\ Good(F \cup {hi}, H, {<<p, k - 1>>})
<1> DEFINE x == <<p, k>>
           lo == <<p, k - 1>>
           hi == <<p + 2 ^ (k - 1), k - 1>>
<1>1. p \in Int /\ k \in Int /\ k - 1 \in Orders /\ 2 ^ (k - 1) \in Int
  BY Numbers
<1>2. Pages(x) = Pages(lo) \cup Pages(hi) /\ Pages(lo) \cap Pages(hi) = {}
  BY <1>1, Halves
<1>3. p \in Pages(lo) /\ p + 2 ^ (k - 1) \in Pages(hi)
  BY <1>1, FirstPage
<1>4. lo # x /\ hi # x
  BY <1>1
<1> HIDE DEF x, lo, hi
<1>5. Pages(x) \subseteq AllPages /\ Inside(F \cup H) /\ x \notin F \cup H
  BY DEF Good, Inside, x
<1>6. \A b \in F \cup H : Pages(b) \cap Pages(x) = {}
  BY <1>5 DEF Good, Apart, x
<1>7. lo \notin F \cup H /\ hi \notin F \cup H /\ lo # hi
  BY <1>2, <1>3, <1>6
<1>8. p + 2 ^ (k - 1) \in AllPages
  BY <1>2, <1>3, <1>5
<1>9. lo \in BlockSet /\ hi \in BlockSet
  BY <1>1, <1>8 DEF BlockSet, lo, hi
<1>10. Inside(F \cup {hi} \cup H \cup {lo})
  BY <1>2, <1>5, <1>9 DEF Inside
<1>11. Apart(F \cup H)
  BY DEF Good, Apart
<1>12. \A b \in F \cup H : Pages(b) \cap Pages(lo) = {} /\ Pages(b) \cap Pages(hi) = {}
  BY <1>2, <1>6
<1>13. Apart(F \cup {hi} \cup H \cup {lo})
  BY <1>2, <1>11, <1>12 DEF Apart
<1>14. F \cap H = {}
  BY DEF Good
<1>15. Good(F \cup {hi}, H, {lo})
  BY <1>7, <1>10, <1>13, <1>14 DEF Good
<1>16. QED BY <1>7, <1>9, <1>15 DEF lo, hi

\* Two free neighbours of one order can be replaced by their union: one
\* iteration of the merge loop.  low is the lower of the two.
LEMMA Join ==
  ASSUME NEW F, NEW H, NEW p \in AllPages, NEW q \in AllPages, NEW k \in Orders,
         k + 1 \in Orders, NEW low \in AllPages,
         \/ low = p /\ q = p + 2 ^ k
         \/ low = q /\ p = q + 2 ^ k,
         <<q, k>> \in F, Good(F, H, {<<p, k>>})
  PROVE  Good(F \ {<<q, k>>}, H, {<<low, k + 1>>})
<1> DEFINE x == <<p, k>>
           y == <<q, k>>
           G == F \ {y}
           z == <<low, k + 1>>
<1>1. k \in Int /\ low \in Int /\ (k + 1) - 1 = k /\ k + 1 \in Orders \ {0}
  BY Numbers DEF Orders
<1>2. Pages(<<low, k + 1>>) = Pages(<<low, k>>) \cup Pages(<<low + 2 ^ k, k>>)
  <2> DEFINE m == k + 1
  <2>1. Pages(<<low, m>>) = Pages(<<low, m - 1>>) \cup Pages(<<low + 2 ^ (m - 1), m - 1>>)
    BY <1>1, Halves
  <2>2. m - 1 = k
    BY <1>1
  <2>3. QED BY <2>1, <2>2
<1>3. Pages(z) = Pages(x) \cup Pages(y)
  BY <1>2
<1>4. low \in Pages(z)
  BY <1>1, FirstPage
<1>5. z \in BlockSet
  BY DEF BlockSet
<1> HIDE DEF x, y, z
<1>6. x \notin F /\ x \notin H /\ y \in F /\ y \notin H
  BY DEF Good, x, y
<1>7. Inside(F \cup H) /\ Pages(x) \subseteq AllPages /\ Pages(y) \subseteq AllPages
  BY <1>6 DEF Good, Inside, x
<1>8. \A b \in G \cup H : Pages(b) \cap Pages(x) = {} /\ Pages(b) \cap Pages(y) = {}
  BY <1>6 DEF Good, Apart, x
<1>9. z \notin G \cup H
  BY <1>3, <1>4, <1>8
<1>10. Inside(G \cup H \cup {z})
  BY <1>3, <1>5, <1>7 DEF Inside
<1>11. Apart(G \cup H)
  BY DEF Good, Apart
<1>12. Apart(G \cup H \cup {z})
  BY <1>3, <1>8, <1>11 DEF Apart
<1>13. F \cap H = {}
  BY DEF Good
<1>14. Good(G, H, {z})
  BY <1>9, <1>10, <1>12, <1>13 DEF Good
<1>15. QED BY <1>14 DEF y, z

----------------------------------------------------------------------------
\* The free list of one order changes.
LEMMA ListEffect ==
  ASSUME ListInv, NEW k \in Orders, NEW s \in Seq(AllPages), IsInjective(s),
         free_lists' = [free_lists EXCEPT ![k] = s]
  PROVE  /\ ListInv'
         /\ FreeBlocks' = {b \in BlockSet : IF b[2] = k THEN b[1] \in Range(s)
                                                        ELSE b[1] \in Range(free_lists[b[2]])}
<1>1. free_lists \in [Orders -> Seq(AllPages)] /\ \A j \in Orders : IsInjective(free_lists[j])
  BY DEF ListInv
<1>2. free_lists' \in [Orders -> Seq(AllPages)]
  BY <1>1
<1>3. \A j \in Orders : free_lists'[j] = IF j = k THEN s ELSE free_lists[j]
  BY <1>1
<1>4. ListInv'
  BY <1>1, <1>2, <1>3 DEF ListInv, AllPages, Orders, Pages
<1>5. \A b \in BlockSet : b[2] \in Orders
  BY DEF BlockSet
<1>6. FreeBlocks' = {b \in BlockSet : b[1] \in Range(free_lists'[b[2]])}
  BY DEF FreeBlocks, BlockSet
<1>7. QED BY <1>3, <1>4, <1>5, <1>6

\* A block goes to the front of its free list.
LEMMA PushEffect ==
  ASSUME ListInv, NEW k \in Orders, NEW a \in AllPages, <<a, k>> \notin FreeBlocks, Push(k, a)
  PROVE  ListInv' /\ FreeBlocks' = FreeBlocks \cup {<<a, k>>}
<1> DEFINE s == <<a>> \o free_lists[k]
<1>1. free_lists[k] \in Seq(AllPages) /\ IsInjective(free_lists[k])
  BY DEF ListInv
<1>2. a \notin Range(free_lists[k])
  BY DEF FreeBlocks
<1>3. s \in Seq(AllPages) /\ Range(s) = Range(free_lists[k]) \cup {a} /\ IsInjective(s)
  BY <1>1, <1>2, ConsFacts
<1>4. free_lists' = [free_lists EXCEPT ![k] = s]
  BY DEF Push
<1> HIDE DEF s
<1>5. ListInv' /\ FreeBlocks' = {b \in BlockSet : IF b[2] = k THEN b[1] \in Range(s)
                                                   ELSE b[1] \in Range(free_lists[b[2]])}
  BY <1>3, <1>4, ListEffect
<1>6. FreeBlocks = {b \in BlockSet : b[1] \in Range(free_lists[b[2]])}
  BY DEF FreeBlocks, BlockSet
<1>7. \A b \in BlockSet : b = <<b[1], b[2]>>
  BY DEF BlockSet
<1>8. <<a, k>> \in BlockSet /\ <<a, k>>[1] = a /\ <<a, k>>[2] = k
  BY DEF BlockSet
<1>9. QED BY <1>3, <1>5, <1>6, <1>7, <1>8

\* A block leaves its free list.
LEMMA DropEffect ==
  ASSUME ListInv, NEW k \in Orders, NEW a \in AllPages, NEW s \in Seq(AllPages),
         IsInjective(s), Range(s) = Range(free_lists[k]) \ {a},
         free_lists' = [free_lists EXCEPT ![k] = s]
  PROVE  ListInv' /\ FreeBlocks' = FreeBlocks \ {<<a, k>>}
<1>1. ListInv' /\ FreeBlocks' = {b \in BlockSet : IF b[2] = k THEN b[1] \in Range(s)
                                                   ELSE b[1] \in Range(free_lists[b[2]])}
  BY ListEffect
<1>2. FreeBlocks = {b \in BlockSet : b[1] \in Range(free_lists[b[2]])}
  BY DEF FreeBlocks, BlockSet
<1>3. \A b \in BlockSet : b = <<b[1], b[2]>>
  BY DEF BlockSet
<1>4. <<a, k>>[1] = a /\ <<a, k>>[2] = k
  OBVIOUS
<1>5. QED BY <1>1, <1>2, <1>3, <1>4

\* try_merge_buddy unlinks the block it finds.
LEMMA RemoveFacts ==
  ASSUME NEW list \in Seq(AllPages), NEW a \in Range(list), IsInjective(list)
  PROVE  /\ Remove(list, a) \in Seq(AllPages)
         /\ Range(Remove(list, a)) = Range(list) \ {a}
         /\ IsInjective(Remove(list, a))
<1> DEFINE First(i) == list[i] = a /\ \A j \in 1 .. i - 1 : list[j] # a
           k == CHOOSE i \in DOMAIN list : First(i)
<1>1. Len(list) \in Nat /\ DOMAIN list = 1 .. Len(list)
  BY LenProperties
<1>2. PICK i \in DOMAIN list : list[i] = a
  BY DEF Range
<1>3. ASSUME NEW j \in 1 .. i - 1 PROVE list[j] # a
  <2>1. j \in DOMAIN list /\ j # i
    BY <1>1, <1>2
  <2>2. QED BY <1>2, <2>1 DEF IsInjective
<1>4. First(i)
  BY <1>2, <1>3
<1>5. k \in DOMAIN list /\ list[k] = a
  BY <1>4
<1>6. Remove(list, a) = SubSeq(list, 1, k - 1) \o SubSeq(list, k + 1, Len(list))
  BY Zenon DEF Remove
<1> HIDE DEF k
<1>7. k \in 1 .. Len(list)
  BY <1>1, <1>5
<1> DEFINE r == SubSeq(list, 1, k - 1) \o SubSeq(list, k + 1, Len(list))
<1>8. r \in Seq(AllPages) /\ Range(r) = Range(list) \ {list[k]} /\ IsInjective(r)
  BY <1>7, CutFacts, Zenon
<1> HIDE DEF r
<1>9. Remove(list, a) = r
  BY <1>6 DEF r
<1>10. QED BY <1>5, <1>8, <1>9, Zenon

----------------------------------------------------------------------------
LEMMA InitIInv == Init => IInv
<1> SUFFICES ASSUME Init PROVE IInv
  OBVIOUS
<1> DEFINE x == <<memory_start, InitOrder>>
<1>1. memory_start \in AllPages /\ InitOrder \in Orders /\ 0 \in Orders /\ ZONE_SIZE \in Nat
  BY Numbers, InitOrderAssumption, OrderAssumption, ZoneAssumption DEF Orders
<1>2. <<memory_start>> \in Seq(AllPages) /\ Range(<<memory_start>>) = {memory_start}
      /\ IsInjective(<<memory_start>>)
  BY <1>1 DEF Range, IsInjective
<1>3. \A k \in Orders : free_lists[k] = IF k = InitOrder THEN <<memory_start>> ELSE <<>>
  BY DEF Init
<1>4. ListInv
  <2>1. free_lists \in [Orders -> Seq(AllPages)]
    BY <1>2 DEF Init
  <2>2. QED BY <1>2, <1>3, <2>1, EmptyQueue DEF ListInv
<1>5. LocalInv
  BY <1>1 DEF Init, LocalInv
<1>6. FreeBlocks = {x}
  <2>1. \A b \in BlockSet : b[2] \in Orders /\ b = <<b[1], b[2]>>
    BY DEF BlockSet
  <2>2. x \in BlockSet /\ x[1] = memory_start /\ x[2] = InitOrder
    BY <1>1 DEF BlockSet
  <2>3. FreeBlocks = {b \in BlockSet : b[1] \in Range(free_lists[b[2]])}
    BY DEF FreeBlocks, BlockSet
  <2>4. QED BY <1>2, <1>3, <2>1, <2>2, <2>3, EmptyQueue
<1>7. held = {} /\ InFlight = {}
  BY DEF Init, InFlight
<1>8. Inside({x}) /\ Apart({x})
  BY <1>1 DEF Inside, Apart, BlockSet, AllPages
<1>9. Good(FreeBlocks, held, InFlight)
  BY <1>6, <1>7, <1>8 DEF Good
<1>10. QED BY <1>4, <1>5, <1>9 DEF IInv

\* The head of a list leaves it and becomes the block in flight.
LEMMA AllocTakeIInv ==
  ASSUME IInv, NEW o \in Requests, AllocTake(o)
  PROVE  IInv'
<1>1. PICK c \in o .. MAX_ORDER :
        /\ free_lists[c] # <<>>
        /\ free_lists' = [free_lists EXCEPT ![c] = Tail(free_lists[c])]
        /\ block' = Head(free_lists[c])
        /\ current_order' = c
  BY DEF AllocTake
<1>2. o \in Orders /\ c \in Orders
  BY OrderAssumption DEF Orders
<1> DEFINE list == free_lists[c]
           h == Head(list)
           s == Tail(list)
<1>3. list \in Seq(AllPages) /\ IsInjective(list) /\ list # <<>>
  BY <1>1, <1>2 DEF IInv, ListInv
<1>4. h \in AllPages /\ h \in Range(list) /\ s \in Seq(AllPages)
      /\ Range(s) = Range(list) \ {h} /\ IsInjective(s)
  BY <1>3, TailFacts
<1>5. free_lists' = [free_lists EXCEPT ![c] = s]
  BY <1>1
<1> HIDE DEF h, s
<1>6. ListInv' /\ FreeBlocks' = FreeBlocks \ {<<h, c>>}
  BY <1>2, <1>4, <1>5, DropEffect DEF IInv
<1>7. <<h, c>> \in FreeBlocks
  BY <1>2, <1>4 DEF FreeBlocks
<1>8. InFlight = {} /\ held' = held /\ InFlight' = {<<h, c>>}
  BY <1>1 DEF AllocTake, InFlight, h
<1>9. LocalInv'
  BY <1>1, <1>2, <1>4 DEF AllocTake, IInv, LocalInv, h, AllPages, Orders, Pages
<1>10. Good(FreeBlocks', held', InFlight')
  BY <1>6, <1>7, <1>8 DEF IInv, Good, Inside, Apart
<1>11. QED BY <1>6, <1>9, <1>10 DEF IInv

LEMMA AllocSplitIInv ==
  ASSUME IInv, AllocSplit
  PROVE  IInv'
<1> DEFINE k == current_order
           hi == <<block + 2 ^ (k - 1), k - 1>>
<1>1. block \in AllPages /\ k \in Orders \ {0} /\ k - 1 \in Orders
  BY Numbers DEF IInv, LocalInv, AllocSplit, Orders
<1>2. InFlight = {<<block, k>>} /\ InFlight' = {<<block, k - 1>>} /\ held' = held
  BY DEF AllocSplit, InFlight
<1>3. hi \notin FreeBlocks /\ hi \in BlockSet /\ Good(FreeBlocks \cup {hi}, held, {<<block, k - 1>>})
  BY <1>1, <1>2, Split DEF IInv
<1>4. block + 2 ^ (k - 1) \in AllPages
  BY <1>3 DEF BlockSet
<1>5. ListInv' /\ FreeBlocks' = FreeBlocks \cup {hi}
  BY <1>1, <1>3, <1>4, PushEffect DEF IInv, AllocSplit
<1>6. LocalInv'
  BY <1>1 DEF AllocSplit, IInv, LocalInv, AllPages, Orders, Pages
<1>7. QED BY <1>2, <1>3, <1>5, <1>6 DEF IInv

LEMMA AllocDoneIInv ==
  ASSUME IInv, AllocDone
  PROVE  IInv'
<1> DEFINE x == <<block, order>>
<1>1. InFlight = {x} /\ InFlight' = {} /\ held' = held \cup {x}
  BY DEF AllocDone, InFlight, Return
<1>2. ListInv' /\ FreeBlocks' = FreeBlocks
  BY DEF AllocDone, IInv, ListInv, FreeBlocks, AllPages, Orders, Pages
<1>3. nr_free_pages' \in Nat
  <2> DEFINE d == 2 ^ order
  <2>1. d \in Nat /\ nr_free_pages \in Nat /\ d <= nr_free_pages /\ nr_free_pages' = nr_free_pages - d
    BY Numbers DEF IInv, LocalInv, AllocDone
  <2> HIDE DEF d
  <2>2. QED BY <2>1
<1>4. memory_start \in AllPages /\ 0 \in Orders
  BY Numbers, OrderAssumption DEF Orders
<1>5. LocalInv'
  BY <1>3, <1>4 DEF AllocDone, Return, IInv, LocalInv, AllPages, Orders, Pages
<1>6. Good(FreeBlocks', held', InFlight')
  BY <1>1, <1>2 DEF IInv, Good, Inside, Apart
<1>7. QED BY <1>2, <1>5, <1>6 DEF IInv

\* The block given back is in flight.
LEMMA FreePagesIInv ==
  ASSUME IInv, NEW b \in held, FreePages(b[1], b[2])
  PROVE  IInv'
<1>1. b \in BlockSet /\ b[1] \in AllPages /\ b[2] \in Orders /\ b = <<b[1], b[2]>>
  BY DEF IInv, Good, Inside, BlockSet
<1>2. InFlight = {} /\ held' = held \ {b} /\ InFlight' = {b}
  BY <1>1 DEF FreePages, InFlight
<1>3. ListInv' /\ FreeBlocks' = FreeBlocks
  BY DEF FreePages, IInv, ListInv, FreeBlocks, AllPages, Orders, Pages
<1>4. LocalInv'
  BY <1>1 DEF FreePages, IInv, LocalInv, AllPages, Orders, Pages
<1>5. Good(FreeBlocks', held', InFlight')
  BY <1>2, <1>3 DEF IInv, Good, Inside, Apart
<1>6. QED BY <1>3, <1>4, <1>5 DEF IInv

\* A block above the zone has no owner any more.
LEMMA FreeIgnoredIInv ==
  ASSUME IInv, NEW b \in held, FreeIgnored(b[1], b[2])
  PROVE  IInv'
<1>1. b \in BlockSet /\ b = <<b[1], b[2]>>
  BY DEF IInv, Good, Inside, BlockSet
<1>2. held' = held \ {b} /\ forgotten' = forgotten \cup {b}
  BY <1>1 DEF FreeIgnored
<1>3. ListInv' /\ FreeBlocks' = FreeBlocks /\ InFlight' = InFlight
  BY DEF FreeIgnored, IInv, ListInv, FreeBlocks, InFlight, AllPages, Orders, Pages
<1>4. forgotten' \subseteq AllPages \X Orders
  BY <1>1, <1>2 DEF IInv, LocalInv, BlockSet
<1>5. LocalInv'
  BY <1>4 DEF FreeIgnored, IInv, LocalInv, AllPages, Orders, Pages
<1>6. Good(FreeBlocks', held', InFlight')
  BY <1>2, <1>3 DEF IInv, Good, Inside, Apart
<1>7. QED BY <1>3, <1>5, <1>6 DEF IInv

LEMMA FreeMergeIInv ==
  ASSUME IInv, FreeMerge
  PROVE  IInv'
<1> DEFINE k == current_order
           q == GetBuddyAddress(block, k)
           low == IF block < q THEN block ELSE q
           s == Remove(free_lists[k], q)
<1>1. block \in AllPages /\ k \in Orders /\ k + 1 \in Orders
  BY OrderAssumption DEF IInv, LocalInv, FreeMerge, BuddyFree, Orders
<1>2. free_lists[k] \in Seq(AllPages) /\ IsInjective(free_lists[k]) /\ q \in Range(free_lists[k])
  BY <1>1 DEF IInv, ListInv, FreeMerge, BuddyFree
<1>3. q \in AllPages
  BY <1>2 DEF Range
<1>4. s \in Seq(AllPages) /\ Range(s) = Range(free_lists[k]) \ {q} /\ IsInjective(s)
  BY <1>2, RemoveFacts
<1>5. free_lists' = [free_lists EXCEPT ![k] = s] /\ block' = low
  BY DEF FreeMerge
<1>6. \/ low = block /\ q = block + 2 ^ k
      \/ low = q /\ block = q + 2 ^ k
  <2> DEFINE d == 2 ^ k
  <2>1. block \in Int /\ d \in Nat \ {0} /\ (q = block + d \/ q = block - d)
    BY <1>1, Numbers DEF GetBuddyAddress
  <2> HIDE DEF d, q
  <2>2. QED BY <2>1 DEF d
<1> HIDE DEF q, s
<1>7. ListInv' /\ FreeBlocks' = FreeBlocks \ {<<q, k>>}
  BY <1>1, <1>3, <1>4, <1>5, DropEffect DEF IInv
<1>8. <<q, k>> \in FreeBlocks
  BY <1>1, <1>2, <1>3 DEF FreeBlocks
<1>9. low \in AllPages
  BY <1>1, <1>3
<1>10. InFlight = {<<block, k>>} /\ InFlight' = {<<low, k + 1>>} /\ held' = held
  BY <1>5 DEF FreeMerge, InFlight
<1> HIDE DEF low
<1>11. Good(FreeBlocks \ {<<q, k>>}, held, {<<low, k + 1>>})
  BY <1>1, <1>3, <1>6, <1>8, <1>9, <1>10, Join DEF IInv
<1>12. LocalInv'
  BY <1>1, <1>5, <1>9 DEF FreeMerge, IInv, LocalInv, AllPages, Orders, Pages
<1>13. QED BY <1>7, <1>10, <1>11, <1>12 DEF IInv

LEMMA FreeInsertIInv ==
  ASSUME IInv, FreeInsert
  PROVE  IInv'
<1> DEFINE x == <<block, current_order>>
<1>1. block \in AllPages /\ current_order \in Orders
  BY DEF IInv, LocalInv
<1>2. InFlight = {x} /\ InFlight' = {} /\ held' = held
  BY DEF FreeInsert, InFlight, Return
<1>3. x \notin FreeBlocks
  BY <1>2 DEF IInv, Good
<1>4. ListInv' /\ FreeBlocks' = FreeBlocks \cup {x}
  BY <1>1, <1>3, PushEffect DEF IInv, FreeInsert
<1>5. nr_free_pages' \in Nat
  <2> DEFINE d == 2 ^ order
  <2>1. d \in Nat /\ nr_free_pages \in Nat /\ nr_free_pages' = nr_free_pages + d
    BY Numbers DEF IInv, LocalInv, FreeInsert
  <2> HIDE DEF d
  <2>2. QED BY <2>1
<1>6. memory_start \in AllPages /\ 0 \in Orders
  BY Numbers, OrderAssumption DEF Orders
<1>7. LocalInv'
  BY <1>5, <1>6 DEF FreeInsert, Return, IInv, LocalInv, AllPages, Orders, Pages
<1>8. Good(FreeBlocks', held', InFlight')
  BY <1>2, <1>3, <1>4 DEF IInv, Good, Inside, Apart
<1>9. QED BY <1>4, <1>7, <1>8 DEF IInv

LEMMA NextIInv == IInv /\ [Next]_vars => IInv'
<1> SUFFICES ASSUME IInv, [Next]_vars PROVE IInv'
  OBVIOUS
<1>1. CASE UNCHANGED vars
  BY <1>1 DEF vars, IInv, ListInv, LocalInv, Good, Inside, Apart, FreeBlocks, InFlight,
              BlockSet, AllPages, Orders, Pages
<1>2. ASSUME NEW o \in Requests, AllocTake(o) PROVE IInv'
  BY <1>2, AllocTakeIInv
<1>3. CASE AllocSplit
  BY <1>3, AllocSplitIInv
<1>4. CASE AllocDone
  BY <1>4, AllocDoneIInv
<1>5. ASSUME NEW b \in held, FreePages(b[1], b[2]) \/ FreeIgnored(b[1], b[2]) PROVE IInv'
  BY <1>5, FreePagesIInv, FreeIgnoredIInv
<1>6. CASE FreeMerge
  BY <1>6, FreeMergeIInv
<1>7. CASE FreeInsert
  BY <1>7, FreeInsertIInv
<1>8. QED BY <1>1, <1>2, <1>3, <1>4, <1>5, <1>6, <1>7 DEF Next

LEMMA IInvDisjoint == IInv => BlocksDisjoint
<1> SUFFICES ASSUME IInv PROVE BlocksDisjoint
  OBVIOUS
<1>1. held \subseteq AllPages \X Orders
  BY DEF IInv, Good, Inside, BlockSet
<1>2. TypeOK
  BY <1>1 DEF IInv, ListInv, LocalInv, TypeOK
<1>3. \A a, b \in Blocks : a # b => Pages(a) \cap Pages(b) = {}
  BY DEF IInv, Good, Apart, Blocks
<1>4. QED BY <1>2, <1>3 DEF IInv, ListInv, Good, BlocksDisjoint

\* No page is ever in two blocks, free, handed out or being split or merged by
\* allocate_pages and free_pages, wherever the zone starts and whatever orders
\* are asked for and given back in whatever sequence.
THEOREM BlocksDisjointHolds == Spec => []BlocksDisjoint
<1>1. IInv /\ [Next]_vars => IInv'
  BY NextIInv
<1>2. QED BY InitIInv, <1>1, IInvDisjoint, PTL DEF Spec

============================================================================
