-------------------------- MODULE UserMemoryProofs --------------------------
(***************************************************************************)
(* The areas of an address space do not overlap before an mmap of length 0 *)
(* and every frame has one owner, for every user range, set of frames and  *)
(* set of lengths.                                                         *)
(*                                                                         *)
(* AreasDisjoint is not inductive: find_free_area is right only for a      *)
(* sorted array.  What keeps it sorted is that there never is a gap: the   *)
(* first area starts at USER_START, each one starts where the one before   *)
(* it ends, and the only area that is ever freed is the last one, the one  *)
(* sys_execve has just made.  So first fit always answers Top, the end of  *)
(* the last area, and a page from Top on is present only if it was touched *)
(* outside every area.  An area of length 0 fits the gap of length 0 after *)
(* the stack, and ends the order of the array.                             *)
(***************************************************************************)
EXTENDS UserMemory, TLAPS

Area == [start_addr : 0 .. ADDRESS_PAGES - 1, end_addr : 0 .. ADDRESS_PAGES - 1]
Top == IF Len(areas) = 0 THEN USER_START ELSE areas[Len(areas)].end_addr

ShapeInv ==
  /\ areas \in Seq(Area)
  /\ Len(areas) <= MAX_MEMORY_AREAS
  /\ total_vm \in Nat

\* Only the area of an empty file is empty, and it is the last one.
AreaInv ==
  /\ \A i \in 1 .. Len(areas) :
       /\ USER_START <= areas[i].start_addr
       /\ areas[i].start_addr <= areas[i].end_addr
       /\ areas[i].end_addr <= USER_END
       /\ areas[i].start_addr < areas[i].end_addr \/ (i = Len(areas) /\ filep # 0)
  /\ \A i, j \in 1 .. Len(areas) : i < j => areas[i].end_addr <= areas[j].start_addr
  /\ Len(areas) > 0 => areas[1].start_addr = USER_START
  /\ \A i \in 1 .. Len(areas) - 1 : areas[i + 1].start_addr = areas[i].end_addr
  /\ \A p \in USER_START .. Top - 1 :
       \E i \in 1 .. Len(areas) : areas[i].start_addr <= p /\ p < areas[i].end_addr
  /\ total_vm = Top - USER_START

FrameInv ==
  /\ DOMAIN pte = UserPages
  /\ \A p \in UserPages :
       pte[p] \in {Clear, Reserved} \/ \E f \in Frames, w \in BOOLEAN : pte[p] = Present(f, w)
  /\ free_frames \subseteq Frames
  /\ lost \subseteq Frames
  /\ free_frames \cap lost = {}
  /\ \A p \in UserPages : IsPresent(pte[p]) => pte[p][2] \notin free_frames \cup lost
  /\ \A p, q \in UserPages :
       IsPresent(pte[p]) /\ IsPresent(pte[q]) /\ pte[p][2] = pte[q][2] => p = q
  /\ \A f \in Frames \ (free_frames \cup lost) :
       \E p \in UserPages : IsPresent(pte[p]) /\ pte[p][2] = f

StrayInv ==
  /\ \A p \in UserPages : IsPresent(pte[p]) => p < Top \/ pte[p][2] \in stray
  /\ lost \subseteq stray

PhaseInv ==
  /\ phase \in {"boot", "init", "user", "panic"}
  /\ zeroed \in BOOLEAN
  /\ stray \subseteq Frames
  /\ phase = "boot" => Len(areas) = 0 /\ filep = 0 /\ ~zeroed
  /\ phase = "init" => ~zeroed /\ (filep = 0 => Len(areas) = 1)
  /\ phase = "user" => Len(areas) > 1 /\ filep = 0
  /\ filep # 0 => /\ Len(areas) = 2
                  /\ filep = areas[2].start_addr
                  /\ filep \in UserPages

IInv == ShapeInv /\ FrameInv /\ PhaseInv /\ (~zeroed => AreaInv /\ StrayInv)

----------------------------------------------------------------------------
WFI == INSTANCE WellFoundedInduction

\* A set of numbers that is not empty has a smallest one.
LEMMA MinExists ==
  ASSUME NEW S \in SUBSET Nat, S # {}
  PROVE  \E m \in S : \A k \in S : m <= k
<1> DEFINE R == {ss \in Nat \X Nat : ss[1] < ss[2]}
<1>1. WFI!IsWellFoundedOn(R, Nat)
  BY WFI!NatLessThanWellFounded DEF WFI!OpToRel
<1> HIDE DEF R
<1>2. \E m \in S : \A k \in S : ~(<<k, m>> \in R)
  BY <1>1, WFI!WFMin, Zenon
<1> USE DEF R
<1>3. PICK m \in S : \A k \in S : ~(<<k, m>> \in R)
  BY <1>2, Zenon
<1>4. \A k \in Nat : k < m => <<k, m>> \in R
  OBVIOUS
<1>5. \A k \in S : k \in Nat /\ m \in Nat /\ ~(k < m)
  BY <1>3, <1>4, Zenon
<1>6. QED BY <1>5

\* The bits of a page table entry that tell the three kinds apart.
LEMMA Entries ==
  /\ ~IsPresent(Clear) /\ ~IsPresent(Reserved)
  /\ \A f, w : IsPresent(Present(f, w)) /\ Present(f, w)[2] = f
BY DEF IsPresent, Clear, Reserved, Present

\* What the assumptions say of the constants.
LEMMA Bounds ==
  /\ USER_START \in Nat \ {0} /\ USER_END \in Nat /\ ADDRESS_PAGES \in Nat \ {0}
  /\ USER_START < USER_END /\ USER_END < ADDRESS_PAGES
  /\ StackPages \in Nat \ {0} /\ USER_START + StackPages <= USER_END
  /\ MAX_MEMORY_AREAS \in Nat \ {0}
BY UserAssumption

\* The sequence of areas.
LEMMA Shape ==
  ASSUME ShapeInv
  PROVE  /\ Len(areas) \in Nat /\ DOMAIN areas = 1 .. Len(areas)
         /\ \A i \in 1 .. Len(areas) :
              /\ areas[i] \in Area
              /\ areas[i].start_addr \in 0 .. ADDRESS_PAGES - 1
              /\ areas[i].end_addr \in 0 .. ADDRESS_PAGES - 1
              /\ areas[i].start_addr \in Int /\ areas[i].end_addr \in Int
<1>1. Len(areas) \in Nat /\ DOMAIN areas = 1 .. Len(areas)
  BY DEF ShapeInv
<1>2. \A i \in 1 .. Len(areas) : areas[i] \in Area
  BY <1>1 DEF ShapeInv
<1>3. \A a \in Area : /\ a.start_addr \in 0 .. ADDRESS_PAGES - 1
                      /\ a.end_addr \in 0 .. ADDRESS_PAGES - 1
  BY DEF Area
<1>4. \A x \in 0 .. ADDRESS_PAGES - 1 : x \in Int
  OBVIOUS
<1>5. QED BY <1>1, <1>2, <1>3, <1>4, Zenon

\* Top is a page number of the user range or its end.
LEMMA TopFacts ==
  ASSUME ShapeInv, AreaInv
  PROVE  /\ Top \in Int /\ USER_START <= Top /\ Top <= USER_END
         /\ \A i \in 1 .. Len(areas) : areas[i].end_addr <= Top
<1>1. /\ Len(areas) \in Nat
      /\ \A i \in 1 .. Len(areas) : areas[i].start_addr \in Int /\ areas[i].end_addr \in Int
  BY Shape, Zenon
<1>2. USER_START \in Int /\ USER_END \in Int /\ USER_START < USER_END
  BY Bounds
<1>3. Top \in Int /\ USER_START <= Top /\ Top <= USER_END
  BY <1>1, <1>2 DEF AreaInv, Top
<1>4. ASSUME NEW i \in 1 .. Len(areas) PROVE areas[i].end_addr <= Top
  <2> DEFINE n == Len(areas)
  <2>1. n \in 1 .. n /\ (i = n \/ i < n)
    BY <1>1
  <2>2. /\ areas[n].start_addr <= areas[n].end_addr
        /\ i < n => areas[i].end_addr <= areas[n].start_addr
    BY <2>1, Zenon DEF AreaInv
  <2>3. Top = areas[n].end_addr
    BY <2>1 DEF Top
  <2>4. /\ areas[i].end_addr \in Int
        /\ areas[n].start_addr \in Int /\ areas[n].end_addr \in Int
    BY <1>1, <2>1
  <2> HIDE DEF n
  <2>5. QED BY <2>1, <2>2, <2>3, <2>4
<1>5. QED BY <1>3, <1>4

\* find_free_area answers with the start of the user range, the end of an area or 0.
LEMMA FindFreeAreaType ==
  ASSUME ShapeInv, NEW size
  PROVE  FindFreeArea(size) \in 0 .. ADDRESS_PAGES - 1
<1> DEFINE n == Len(areas)
           gaps == {i \in 1 .. n - 1 : GapFits(i, size)}
           least == CHOOSE i \in gaps : \A j \in gaps : i <= j
<1>1. n \in Nat /\ \A i \in 1 .. n : areas[i].end_addr \in 0 .. ADDRESS_PAGES - 1
  BY Shape, Zenon
<1>2. /\ USER_START \in 0 .. ADDRESS_PAGES - 1
      /\ 0 \in 0 .. ADDRESS_PAGES - 1
  BY Bounds
<1>3. n # 0 => areas[n].end_addr \in 0 .. ADDRESS_PAGES - 1
  BY <1>1
<1>4. gaps # {} => areas[least].end_addr \in 0 .. ADDRESS_PAGES - 1
  <2>1. gaps \in SUBSET Nat /\ gaps \subseteq 1 .. n
    BY <1>1
  <2> HIDE DEF gaps
  <2>2. gaps # {} => least \in gaps
    BY <2>1, MinExists, Zenon
  <2> HIDE DEF least
  <2>3. QED BY <1>1, <2>1, <2>2, Zenon
<1>5. QED BY <1>2, <1>3, <1>4 DEF FindFreeArea

\* find_free_area, with no gap between the areas: the end of the last area if
\* the length fits behind it.  An empty file comes second, when there are no gaps.
LEMMA FirstFit ==
  ASSUME ShapeInv, AreaInv, NEW size \in Nat, size # 0 \/ Len(areas) <= 1
  PROVE  /\ Len(areas) = 0 => FindFreeArea(size) = USER_START
         /\ Len(areas) # 0 /\ FindFreeArea(size) # 0 =>
              FindFreeArea(size) = Top /\ Top + size <= USER_END /\ Top < USER_END
<1>1. /\ Len(areas) \in Nat
      /\ \A i \in 1 .. Len(areas) : areas[i].start_addr \in Int /\ areas[i].end_addr \in Int
  BY Shape, Zenon
<1>2. USER_START \in Int /\ USER_END \in Int /\ ADDRESS_PAGES \in Nat \ {0}
  BY Bounds
<1>3. CASE Len(areas) = 0
  BY <1>3 DEF FindFreeArea
<1>4. CASE Len(areas) # 0
  <2>1. ~(areas[1].start_addr > USER_START)
    BY <1>1, <1>2, <1>4 DEF AreaInv
  <2>2. ASSUME NEW i \in 1 .. Len(areas) - 1 PROVE ~GapFits(i, size)
    <3>1. areas[i + 1].start_addr - areas[i].end_addr = 0
      BY <1>1, <2>2 DEF AreaInv
    <3>2. 0 % ADDRESS_PAGES = 0
      BY <1>2
    <3>3. size # 0
      BY <1>1, <2>2
    <3>4. QED BY <3>1, <3>2, <3>3 DEF GapFits
  <2>3. {i \in 1 .. Len(areas) - 1 : GapFits(i, size)} = {}
    BY <2>2
  <2>4. FindFreeArea(size) = IF /\ areas[Len(areas)].end_addr < USER_END
                                /\ USER_END - areas[Len(areas)].end_addr >= size
                               THEN areas[Len(areas)].end_addr ELSE 0
    BY <1>4, <2>1, <2>3 DEF FindFreeArea
  <2>5. Top = areas[Len(areas)].end_addr /\ Top \in Int
    BY <1>1, <1>4 DEF Top
  <2>6. QED BY <1>2, <1>4, <2>4, <2>5
<1>5. QED BY <1>3, <1>4

\* allocate_area adds one area.
LEMMA Append1 ==
  ASSUME ShapeInv, NEW start \in 0 .. ADDRESS_PAGES - 1, NEW size \in Nat,
         AddArea(start, size), Len(areas) < MAX_MEMORY_AREAS
  PROVE  /\ ShapeInv'
         /\ Len(areas') = Len(areas) + 1
         /\ \A i \in 1 .. Len(areas) : areas'[i] = areas[i]
         /\ areas'[Len(areas) + 1].start_addr = start
         /\ areas'[Len(areas) + 1].end_addr = (start + size) % ADDRESS_PAGES
<1> DEFINE n == Len(areas)
           new == [start_addr |-> start, end_addr |-> (start + size) % ADDRESS_PAGES]
<1>1. n \in Nat
  BY Shape, Zenon
<1>2. (start + size) % ADDRESS_PAGES \in 0 .. ADDRESS_PAGES - 1
  BY Bounds
<1>3. new \in Area /\ new.start_addr = start /\ new.end_addr = (start + size) % ADDRESS_PAGES
  BY <1>2 DEF Area
<1>4. areas' = Append(areas, new) /\ total_vm' = total_vm + size
  BY DEF AddArea
<1> HIDE DEF new
<1>5. /\ areas' \in Seq(Area)
      /\ Len(areas') = n + 1
      /\ \A i \in 1 .. n : areas'[i] = areas[i]
      /\ areas'[n + 1] = new
  BY <1>3, <1>4 DEF ShapeInv
<1>6. Len(areas') <= MAX_MEMORY_AREAS /\ total_vm' \in Nat
  BY <1>1, <1>4, <1>5, Bounds DEF ShapeInv
<1>7. QED BY <1>3, <1>5, <1>6 DEF ShapeInv

\* allocate_area at the top of the areas keeps them in order and moves Top.
LEMMA Push ==
  ASSUME ShapeInv, AreaInv, NEW size \in Nat, AddArea(Top, size),
         Top + size <= USER_END, Len(areas) < MAX_MEMORY_AREAS,
         filep = 0, size # 0 \/ filep' # 0
  PROVE  /\ ShapeInv' /\ AreaInv' /\ Top' = Top + size /\ Len(areas') = Len(areas) + 1
         /\ areas'[Len(areas')].start_addr = Top
<1> DEFINE n == Len(areas)
<1>1. /\ n \in Nat
      /\ \A i \in 1 .. n : areas[i].start_addr \in Int /\ areas[i].end_addr \in Int
  BY Shape, Zenon
<1>2. /\ Top \in Int /\ USER_START <= Top /\ Top <= USER_END
      /\ \A i \in 1 .. n : areas[i].end_addr <= Top
  BY TopFacts, Zenon
<1>3. /\ USER_START \in Nat /\ USER_END \in Nat /\ ADDRESS_PAGES \in Nat
      /\ Top \in 0 .. ADDRESS_PAGES - 1
      /\ (Top + size) % ADDRESS_PAGES = Top + size
  <2>1. USER_START \in Nat /\ USER_END \in Nat /\ ADDRESS_PAGES \in Nat
    BY Bounds
  <2>2. USER_END < ADDRESS_PAGES
    BY Bounds
  <2>3. Top \in 0 .. ADDRESS_PAGES - 1
    BY <1>2, <2>1, <2>2
  <2>4. Top + size \in 0 .. ADDRESS_PAGES - 1
    BY <1>2, <2>1, <2>2
  <2>5. \A x \in 0 .. ADDRESS_PAGES - 1 : x % ADDRESS_PAGES = x
    BY <2>1
  <2>6. QED BY <2>1, <2>3, <2>4, <2>5, Zenon
<1>4. /\ ShapeInv'
      /\ Len(areas') = n + 1
      /\ \A i \in 1 .. n : areas'[i] = areas[i]
      /\ areas'[n + 1].start_addr = Top
      /\ areas'[n + 1].end_addr = Top + size
  BY <1>3, Append1
<1>5. Top' = Top + size
  BY <1>1, <1>4 DEF Top
<1>6. total_vm' = Top' - USER_START
  <2>1. total_vm' = total_vm + size
    BY DEF AddArea
  <2>2. total_vm = Top - USER_START
    BY DEF AreaInv
  <2>3. QED BY <1>2, <1>3, <1>5, <2>1, <2>2
<1>7. ASSUME NEW i \in 1 .. Len(areas')
      PROVE  /\ USER_START <= areas'[i].start_addr
             /\ areas'[i].start_addr <= areas'[i].end_addr
             /\ areas'[i].end_addr <= USER_END
             /\ areas'[i].start_addr < areas'[i].end_addr \/ (i = Len(areas') /\ filep' # 0)
  <2>1. CASE i \in 1 .. n
    BY <1>4, <2>1 DEF AreaInv
  <2>2. CASE i = n + 1
    BY <1>2, <1>3, <1>4, <2>2
  <2>3. QED BY <1>1, <1>4, <2>1, <2>2
<1>8. ASSUME NEW i \in 1 .. Len(areas'), NEW j \in 1 .. Len(areas'), i < j
      PROVE  areas'[i].end_addr <= areas'[j].start_addr
  <2>1. i \in 1 .. n
    BY <1>1, <1>4, <1>8
  <2>2. CASE j \in 1 .. n
    <3>1. areas[i].end_addr <= areas[j].start_addr
      BY <1>8, <2>1, <2>2, Zenon DEF AreaInv
    <3>2. QED BY <1>4, <2>1, <2>2, <3>1
  <2>3. CASE j = n + 1
    BY <1>2, <1>4, <2>1, <2>3
  <2>4. QED BY <1>1, <1>4, <2>2, <2>3
<1>9. areas'[1].start_addr = USER_START
  <2>1. CASE n = 0
    BY <1>4, <2>1 DEF Top
  <2>2. CASE n > 0
    BY <1>1, <1>4, <2>2 DEF AreaInv
  <2>3. QED BY <1>1, <2>1, <2>2
<1>10. ASSUME NEW i \in 1 .. Len(areas') - 1
       PROVE  areas'[i + 1].start_addr = areas'[i].end_addr
  <2>1. CASE i = n
    <3>1. n \in 1 .. n /\ Top = areas[n].end_addr
      BY <1>1, <1>4, <2>1 DEF Top
    <3>2. QED BY <1>4, <2>1, <3>1
  <2>2. CASE i \in 1 .. n - 1
    <3>1. i + 1 \in 1 .. n /\ i \in 1 .. n
      BY <1>1, <2>2
    <3>2. QED BY <1>4, <2>2, <3>1 DEF AreaInv
  <2>3. QED BY <1>1, <1>4, <2>1, <2>2
<1>11. ASSUME NEW p \in USER_START .. Top' - 1
       PROVE  \E i \in 1 .. Len(areas') : areas'[i].start_addr <= p /\ p < areas'[i].end_addr
  <2>1. CASE p < Top
    <3>1. p \in USER_START .. Top - 1
      BY <1>2, <1>5, <2>1
    <3>2. PICK i \in 1 .. n : areas[i].start_addr <= p /\ p < areas[i].end_addr
      BY <3>1 DEF AreaInv
    <3>3. i \in 1 .. Len(areas') /\ areas'[i] = areas[i]
      BY <1>1, <1>4
    <3>4. QED BY <3>2, <3>3
  <2>2. CASE p >= Top
    <3>1. n + 1 \in 1 .. Len(areas')
      BY <1>1, <1>4
    <3>2. QED BY <1>2, <1>4, <1>5, <2>2, <3>1
  <2>3. QED BY <1>2, <1>5, <2>1, <2>2
<1>12. areas'[Len(areas')].start_addr = Top
  BY <1>4
<1>13. AreaInv'
  BY <1>6, <1>7, <1>8, <1>9, <1>10, <1>11, Zenon DEF AreaInv
<1>14. QED BY <1>4, <1>5, <1>12, <1>13

\* free_area of the second area.
LEMMA Pop ==
  ASSUME ShapeInv, AreaInv, Len(areas) = 2, filep' = 0,
         areas' = [j \in 1 .. Len(areas) - 1 |-> areas[j]],
         total_vm' = total_vm - (areas[2].end_addr - areas[2].start_addr)
  PROVE  /\ ShapeInv' /\ AreaInv'
         /\ Len(areas') = 1
         /\ Top' = areas[2].start_addr
<1>1. /\ areas[1] \in Area
      /\ areas[1].start_addr \in Int /\ areas[1].end_addr \in Int
      /\ areas[2].start_addr \in Int /\ areas[2].end_addr \in Int
  BY Shape
<1>2. areas' \in [1 .. 1 -> Area] /\ areas'[1] = areas[1]
  BY <1>1
<1>3. areas' \in Seq(Area) /\ Len(areas') = 1
  BY <1>2
<1>4. /\ areas[1].start_addr = USER_START
      /\ areas[1].start_addr < areas[1].end_addr
      /\ areas[1].end_addr <= USER_END
      /\ areas[2].start_addr = areas[1].end_addr
      /\ Top = areas[2].end_addr
      /\ total_vm = Top - USER_START
  BY DEF AreaInv, Top
<1>5. Top' = areas[1].end_addr
  BY <1>2, <1>3 DEF Top
<1>6. total_vm' = Top' - USER_START /\ total_vm' \in Nat
  BY <1>1, <1>4, <1>5
<1>7. ShapeInv'
  BY <1>3, <1>6, Bounds DEF ShapeInv
<1>8. AreaInv'
  BY <1>1, <1>2, <1>3, <1>4, <1>5, <1>6 DEF AreaInv
<1>9. QED BY <1>3, <1>4, <1>5, <1>7, <1>8

----------------------------------------------------------------------------
\* The frame of a present page is one of the allocator's.
LEMMA PresentFrame ==
  ASSUME FrameInv, NEW p \in UserPages, IsPresent(pte[p])
  PROVE  pte[p][2] \in Frames
<1>1. pte[p] \notin {Clear, Reserved}
  BY Entries
<1>2. PICK f \in Frames, w \in BOOLEAN : pte[p] = Present(f, w)
  BY <1>1, Zenon DEF FrameInv
<1>3. Present(f, w)[2] = f
  BY Entries, Zenon
<1>4. QED BY <1>2, <1>3

\* Pages of the user range mapped with fresh frames: what the entries held is
\* lost, and nothing is shared.
LEMMA MapFresh ==
  ASSUME FrameInv, NEW start, NEW size, MapFrames(start, size),
         Extent(start, size) \subseteq UserPages
  PROVE  FrameInv'
<1> DEFINE E == Extent(start, size)
           old == PresentIn(start, size)
<1>1. PICK frames \in [E -> free_frames] :
        /\ \A p, q \in E : frames[p] = frames[q] => p = q
        /\ free_frames' = free_frames \ {frames[p] : p \in E}
        /\ pte' = [p \in UserPages |-> IF p \in E THEN Present(frames[p], TRUE) ELSE pte[p]]
        /\ Overwrite(start, size)
  BY Zenon DEF MapFrames
<1>2. lost' = lost \cup {pte[p][2] : p \in old}
  BY <1>1, Zenon DEF Overwrite
<1>3. \A p \in UserPages : p \in old <=> p \in E /\ IsPresent(pte[p])
  BY DEF PresentIn
<1>4. old \subseteq UserPages
  BY DEF PresentIn
<1> HIDE DEF E, old
<1>5. \A p \in E : frames[p] \in free_frames /\ frames[p] \in Frames
  BY <1>1 DEF FrameInv
<1>6. DOMAIN pte' = UserPages
  BY <1>1, Zenon
<1>7. \A p \in E : p \in UserPages /\ pte'[p] = Present(frames[p], TRUE)
  BY <1>1, Zenon DEF E
<1>8. \A p \in UserPages : p \notin E => pte'[p] = pte[p]
  BY <1>1, Zenon
<1>9. \A p \in E : IsPresent(pte'[p]) /\ pte'[p][2] = frames[p]
  <2> TAKE p \in E
  <2>1. pte'[p] = Present(frames[p], TRUE)
    BY <1>7, Zenon
  <2>2. IsPresent(Present(frames[p], TRUE)) /\ Present(frames[p], TRUE)[2] = frames[p]
    BY Entries, Zenon
  <2>3. QED BY <2>1, <2>2, Zenon DEF IsPresent
<1>10. ASSUME NEW p \in UserPages
       PROVE  \/ pte'[p] \in {Clear, Reserved}
              \/ \E f \in Frames, w \in BOOLEAN : pte'[p] = Present(f, w)
  <2>1. CASE p \in E
    <3>1. pte'[p] = Present(frames[p], TRUE) /\ frames[p] \in Frames /\ TRUE \in BOOLEAN
      BY <1>5, <1>7, <2>1, Zenon
    <3>2. QED BY <3>1, Zenon
  <2>2. CASE p \notin E
    BY <1>8, <2>2 DEF FrameInv
  <2>3. QED BY <2>1, <2>2
<1>11. free_frames' \subseteq Frames
  BY <1>1 DEF FrameInv
<1>12. \A p \in old : pte[p][2] \in Frames /\ pte[p][2] \notin free_frames
  BY <1>3, <1>4, PresentFrame, Zenon DEF FrameInv
<1>13. lost' \subseteq Frames
  BY <1>2, <1>12 DEF FrameInv
<1>14. free_frames' \cap lost' = {}
  <2>1. free_frames' \subseteq free_frames
    BY <1>1
  <2>2. free_frames \cap lost = {}
    BY DEF FrameInv
  <2>3. QED BY <1>2, <1>12, <2>1, <2>2
<1>15. ASSUME NEW p \in UserPages, IsPresent(pte'[p])
       PROVE  pte'[p][2] \notin free_frames' \cup lost'
  <2>1. CASE p \in E
    <3>1. pte'[p][2] = frames[p] /\ frames[p] \in free_frames
      BY <1>5, <1>9, <2>1, Zenon
    <3>2. frames[p] \notin free_frames'
      BY <1>1, <2>1, Zenon
    <3>3. frames[p] \notin lost'
      BY <1>2, <1>12, <3>1 DEF FrameInv
    <3>4. QED BY <3>1, <3>2, <3>3
  <2>2. CASE p \notin E
    <3>1. pte'[p] = pte[p] /\ IsPresent(pte[p])
      BY <1>8, <1>15, <2>2
    <3>2. pte[p][2] \notin free_frames /\ pte[p][2] \notin lost
      BY <3>1 DEF FrameInv
    <3>3. \A q \in old : q \in UserPages /\ IsPresent(pte[q]) /\ q # p
      BY <1>3, <1>4, <2>2
    <3>4. \A q \in old : pte[q][2] # pte[p][2]
      BY <3>1, <3>3 DEF FrameInv
    <3>5. QED BY <1>1, <1>2, <3>1, <3>2, <3>4, Zenon
  <2>3. QED BY <2>1, <2>2
<1>16. ASSUME NEW p \in UserPages, NEW q \in UserPages,
              IsPresent(pte'[p]), IsPresent(pte'[q]), pte'[p][2] = pte'[q][2]
       PROVE  p = q
  <2>1. CASE p \in E /\ q \in E
    <3>1. frames[p] = frames[q]
      BY <1>9, <1>16, <2>1, Zenon
    <3>2. QED BY <1>1, <2>1, <3>1, Zenon
  <2>2. CASE p \in E /\ q \notin E
    BY <1>5, <1>8, <1>9, <1>16, <2>2 DEF FrameInv
  <2>3. CASE p \notin E /\ q \in E
    BY <1>5, <1>8, <1>9, <1>16, <2>3 DEF FrameInv
  <2>4. CASE p \notin E /\ q \notin E
    BY <1>8, <1>16, <2>4 DEF FrameInv
  <2>5. QED BY <2>1, <2>2, <2>3, <2>4
<1>17. ASSUME NEW f \in Frames \ (free_frames' \cup lost')
       PROVE  \E p \in UserPages : IsPresent(pte'[p]) /\ pte'[p][2] = f
  <2>1. CASE f \in free_frames
    <3>1. PICK p \in E : f = frames[p]
      BY <1>1, <1>17, <2>1
    <3>2. QED BY <1>7, <1>9, <3>1, Zenon
  <2>2. CASE f \notin free_frames
    <3>1. f \in Frames \ (free_frames \cup lost)
      BY <1>2, <1>17, <2>2
    <3>2. PICK p \in UserPages : IsPresent(pte[p]) /\ pte[p][2] = f
      BY <3>1, Zenon DEF FrameInv
    <3>3. p \notin E
      BY <1>2, <1>3, <1>17, <3>2
    <3>4. QED BY <1>8, <3>2, <3>3
  <2>3. QED BY <2>1, <2>2
<1>18. QED
  BY <1>6, <1>10, <1>11, <1>13, <1>14, <1>15, <1>16, <1>17, Zenon DEF FrameInv

\* unmap_pages gives back the frames of the pages that it clears.
LEMMA Unmap ==
  ASSUME FrameInv, NEW start, NEW size, UnmapPages(start, size), UNCHANGED lost
  PROVE  FrameInv'
<1> DEFINE gone == PresentIn(start, size)
<1>1. /\ free_frames' = free_frames \cup {pte[p][2] : p \in gone}
      /\ pte' = [p \in UserPages |-> IF p \in gone THEN Clear ELSE pte[p]]
  BY Zenon DEF UnmapPages
<1>2. \A p \in gone : p \in UserPages /\ IsPresent(pte[p])
  BY DEF PresentIn
<1> HIDE DEF gone
<1>3. \A p \in gone : pte'[p] = Clear /\ ~IsPresent(pte'[p])
  BY <1>1, <1>2, Entries
<1>4. \A p \in UserPages : p \notin gone => pte'[p] = pte[p]
  BY <1>1
<1>5. DOMAIN pte' = UserPages
  BY <1>1
<1>6. ASSUME NEW p \in UserPages
      PROVE  \/ pte'[p] \in {Clear, Reserved}
             \/ \E f \in Frames, w \in BOOLEAN : pte'[p] = Present(f, w)
  BY <1>3, <1>4 DEF FrameInv
<1>7. \A p \in gone : pte[p][2] \in Frames /\ pte[p][2] \notin lost
  BY <1>2, PresentFrame, Zenon DEF FrameInv
<1>8. free_frames' \subseteq Frames /\ free_frames' \cap lost' = {} /\ lost' \subseteq Frames
  BY <1>1, <1>7 DEF FrameInv
<1>9. ASSUME NEW p \in UserPages, IsPresent(pte'[p])
      PROVE  pte'[p][2] \notin free_frames' \cup lost'
  <2>1. p \notin gone /\ pte'[p] = pte[p]
    BY <1>3, <1>4, <1>9
  <2>2. IsPresent(pte[p])
    BY <1>9, <2>1
  <2>3. pte[p][2] \notin free_frames \cup lost
    BY <2>2 DEF FrameInv
  <2>4. \A q \in gone : pte[q][2] # pte[p][2]
    BY <1>2, <2>1, <2>2 DEF FrameInv
  <2>5. QED BY <1>1, <2>1, <2>3, <2>4
<1>10. ASSUME NEW p \in UserPages, NEW q \in UserPages,
              IsPresent(pte'[p]), IsPresent(pte'[q]), pte'[p][2] = pte'[q][2]
       PROVE  p = q
  BY <1>3, <1>4, <1>10 DEF FrameInv
<1>11. ASSUME NEW f \in Frames \ (free_frames' \cup lost')
       PROVE  \E p \in UserPages : IsPresent(pte'[p]) /\ pte'[p][2] = f
  <2>1. PICK p \in UserPages : IsPresent(pte[p]) /\ pte[p][2] = f
    BY <1>1, <1>11 DEF FrameInv
  <2>2. p \notin gone
    BY <1>1, <1>11, <2>1
  <2>3. QED BY <1>4, <2>1, <2>2
<1>12. QED BY <1>5, <1>6, <1>8, <1>9, <1>10, <1>11, Zenon DEF FrameInv

\* sys_mmap reserves entries: what they held is lost.
LEMMA Reserve ==
  ASSUME FrameInv, NEW start, NEW size, UNCHANGED free_frames, Overwrite(start, size),
         pte' = [p \in UserPages |-> IF p \in Extent(start, size) THEN Reserved ELSE pte[p]]
  PROVE  FrameInv'
<1> DEFINE E == Extent(start, size)
           old == PresentIn(start, size)
<1>1. lost' = lost \cup {pte[p][2] : p \in old}
  BY Zenon DEF Overwrite
<1>2. /\ \A p \in old : p \in UserPages /\ IsPresent(pte[p])
      /\ \A p \in UserPages : p \in old <=> p \in E /\ IsPresent(pte[p])
  BY DEF PresentIn
<1>3. \A p \in UserPages : /\ p \in E => pte'[p] = Reserved /\ ~IsPresent(pte'[p])
                           /\ p \notin E => pte'[p] = pte[p]
  BY Entries
<1>4. DOMAIN pte' = UserPages
  OBVIOUS
<1> HIDE DEF E, old
<1>5. ASSUME NEW p \in UserPages
      PROVE  \/ pte'[p] \in {Clear, Reserved}
             \/ \E f \in Frames, w \in BOOLEAN : pte'[p] = Present(f, w)
  BY <1>3 DEF FrameInv
<1>6. \A p \in old : pte[p][2] \in Frames /\ pte[p][2] \notin free_frames
  BY <1>2, PresentFrame, Zenon DEF FrameInv
<1>7. free_frames' \subseteq Frames /\ free_frames' \cap lost' = {} /\ lost' \subseteq Frames
  BY <1>1, <1>6 DEF FrameInv
<1>8. \A p \in UserPages : IsPresent(pte'[p]) =>
        pte'[p] = pte[p] /\ IsPresent(pte[p]) /\ p \notin old
  BY <1>2, <1>3
<1>9. ASSUME NEW p \in UserPages, IsPresent(pte'[p])
      PROVE  pte'[p][2] \notin free_frames' \cup lost'
  <2>1. pte'[p] = pte[p] /\ IsPresent(pte[p]) /\ p \notin old
    BY <1>8, <1>9
  <2>2. pte[p][2] \notin free_frames \cup lost
    BY <2>1 DEF FrameInv
  <2>3. \A q \in old : pte[q][2] # pte[p][2]
    BY <1>2, <2>1 DEF FrameInv
  <2>4. QED BY <1>1, <2>1, <2>2, <2>3
<1>10. \A p, q \in UserPages :
         IsPresent(pte'[p]) /\ IsPresent(pte'[q]) /\ pte'[p][2] = pte'[q][2] => p = q
  BY <1>8 DEF FrameInv
<1>11. ASSUME NEW f \in Frames \ (free_frames' \cup lost')
       PROVE  \E p \in UserPages : IsPresent(pte'[p]) /\ pte'[p][2] = f
  <2>1. PICK p \in UserPages : IsPresent(pte[p]) /\ pte[p][2] = f
    BY <1>1, <1>11 DEF FrameInv
  <2>2. p \notin E
    BY <1>1, <1>2, <1>11, <2>1
  <2>3. QED BY <1>3, <2>1, <2>2
<1>12. QED BY <1>4, <1>5, <1>7, <1>9, <1>10, <1>11, Zenon DEF FrameInv

\* page_fault_handler: a page gets a frame of the free list.
LEMMA Touch ==
  ASSUME FrameInv, NEW t \in UserPages, NEW w \in BOOLEAN, NEW f \in free_frames,
         ~IsPresent(pte[t]), UNCHANGED lost,
         free_frames' = free_frames \ {f}, pte' = [pte EXCEPT ![t] = Present(f, w)]
  PROVE  FrameInv'
<1>1. /\ DOMAIN pte' = UserPages
      /\ pte'[t] = Present(f, w)
      /\ \A p \in UserPages : p # t => pte'[p] = pte[p]
  BY DEF FrameInv
<1>2. IsPresent(pte'[t]) /\ pte'[t][2] = f
  BY <1>1, Entries
<1>3. f \in Frames /\ f \notin lost
  BY DEF FrameInv
<1>4. ASSUME NEW p \in UserPages
      PROVE  \/ pte'[p] \in {Clear, Reserved}
             \/ \E g \in Frames, v \in BOOLEAN : pte'[p] = Present(g, v)
  BY <1>1, <1>3 DEF FrameInv
<1>5. \A p \in UserPages : p # t /\ IsPresent(pte'[p]) => pte'[p][2] \notin free_frames \cup lost
  BY <1>1 DEF FrameInv
<1>6. \A p \in UserPages : IsPresent(pte'[p]) => pte'[p][2] \notin free_frames' \cup lost'
  BY <1>2, <1>3, <1>5
<1>7. ASSUME NEW p \in UserPages, NEW q \in UserPages,
             IsPresent(pte'[p]), IsPresent(pte'[q]), pte'[p][2] = pte'[q][2]
      PROVE  p = q
  BY <1>1, <1>2, <1>5, <1>7 DEF FrameInv
<1>8. ASSUME NEW g \in Frames \ (free_frames' \cup lost')
      PROVE  \E p \in UserPages : IsPresent(pte'[p]) /\ pte'[p][2] = g
  BY <1>1, <1>2, <1>8 DEF FrameInv
<1>9. free_frames' \subseteq Frames /\ lost' \subseteq Frames /\ free_frames' \cap lost' = {}
  BY DEF FrameInv
<1>10. QED BY <1>1, <1>4, <1>6, <1>7, <1>8, <1>9, Zenon DEF FrameInv

----------------------------------------------------------------------------
\* Entries written from Top on: the frames that they held are stray ones.
LEMMA OverwriteStray ==
  ASSUME StrayInv, NEW size \in Nat, Top \in Int, Top' = Top + size, UNCHANGED stray,
         Overwrite(Top, size),
         \A p \in UserPages : p \notin Extent(Top, size) => pte'[p] = pte[p]
  PROVE  StrayInv'
<1> DEFINE old == PresentIn(Top, size)
<1>1. lost' = lost \cup {pte[p][2] : p \in old}
  BY Zenon DEF Overwrite
<1>2. \A p \in old : p \in UserPages /\ p >= Top /\ IsPresent(pte[p]) /\ p \in Int
  BY DEF PresentIn, Extent
<1> HIDE DEF old
<1>3. \A p \in old : pte[p][2] \in stray
  BY <1>2 DEF StrayInv
<1>4. lost' \subseteq stray'
  BY <1>1, <1>3 DEF StrayInv
<1>5. ASSUME NEW p \in UserPages, IsPresent(pte'[p])
      PROVE  p < Top' \/ pte'[p][2] \in stray'
  <2>1. p \in Int
    BY Bounds DEF UserPages
  <2>2. CASE p \in Extent(Top, size)
    BY <2>1, <2>2 DEF Extent
  <2>3. CASE p \notin Extent(Top, size)
    <3>1. pte'[p] = pte[p] /\ IsPresent(pte[p])
      BY <1>5, <2>3
    <3>2. p < Top \/ pte[p][2] \in stray
      BY <3>1 DEF StrayInv
    <3>3. QED BY <2>1, <3>1, <3>2
  <2>4. QED BY <2>2, <2>3
<1>6. QED BY <1>4, <1>5, Zenon DEF StrayInv

\* The effect of MapFrames on the entries outside the extent, and on lost.
LEMMA MapFramesOutside ==
  ASSUME NEW start, NEW size, MapFrames(start, size)
  PROVE  /\ Overwrite(start, size)
         /\ \A p \in UserPages : p \notin Extent(start, size) => pte'[p] = pte[p]
<1>1. PICK frames \in [Extent(start, size) -> free_frames] :
        /\ pte' = [p \in UserPages |->
                     IF p \in Extent(start, size) THEN Present(frames[p], TRUE) ELSE pte[p]]
        /\ Overwrite(start, size)
  BY Zenon DEF MapFrames
<1>2. QED BY <1>1, Zenon

\* An extent between the ends of the user range.
LEMMA ExtentInRange ==
  ASSUME NEW start \in Int, NEW size \in Nat, USER_START <= start, start + size <= USER_END
  PROVE  Extent(start, size) \subseteq UserPages
BY Bounds DEF Extent, UserPages

\* A step that leaves the areas, the page table and the frames alone keeps what
\* the invariant says of them.
LEMMA SameMemory ==
  ASSUME IInv, UNCHANGED <<areas, total_vm, pte, free_frames, zeroed, stray, lost>>,
         \/ filep' = filep
         \/ filep' = 0 /\ areas[Len(areas)].end_addr # areas[Len(areas)].start_addr
  PROVE  ShapeInv' /\ FrameInv' /\ (~zeroed' => AreaInv' /\ StrayInv')
<1>1. Top' = Top
  BY DEF Top
<1>2. ShapeInv'
  BY DEF IInv, ShapeInv
<1>3. FrameInv'
  BY DEF IInv, FrameInv
<1>4. ASSUME ~zeroed PROVE StrayInv'
  BY <1>1, <1>4 DEF IInv, StrayInv
<1>5. ASSUME ~zeroed PROVE AreaInv'
  <2>1. ShapeInv /\ AreaInv
    BY <1>5 DEF IInv
  <2>2. \A i \in 1 .. Len(areas) : areas[i].start_addr \in Int /\ areas[i].end_addr \in Int
    BY <2>1, Shape, Zenon
  <2>3. \A i \in 1 .. Len(areas') :
          /\ USER_START <= areas'[i].start_addr
          /\ areas'[i].start_addr <= areas'[i].end_addr
          /\ areas'[i].end_addr <= USER_END
          /\ areas'[i].start_addr < areas'[i].end_addr \/ (i = Len(areas') /\ filep' # 0)
    BY <2>1, <2>2 DEF AreaInv
  <2>4. QED BY <1>1, <2>1, <2>3, Zenon DEF AreaInv
<1>6. QED BY <1>2, <1>3, <1>4, <1>5

\* A new address space: no areas, every frame free.
LEMMA InitIInv == UserInit => IInv
<1> SUFFICES ASSUME UserInit PROVE IInv
  OBVIOUS
<1>1. areas \in Seq(Area) /\ Len(areas) = 0
  BY DEF UserInit
<1>2. Top = USER_START
  BY <1>1 DEF Top
<1>3. ShapeInv
  BY <1>1, Bounds DEF ShapeInv, UserInit
<1>4. AreaInv
  BY <1>1, <1>2, Bounds DEF AreaInv, UserInit
<1>5. \A p \in UserPages : pte[p] = Clear /\ ~IsPresent(pte[p])
  BY Entries DEF UserInit
<1>6. FrameInv
  BY <1>5 DEF FrameInv, UserInit
<1>7. StrayInv
  BY <1>5 DEF StrayInv, UserInit
<1>8. PhaseInv
  BY <1>1, Zenon DEF PhaseInv, UserInit
<1>9. QED BY <1>3, <1>4, <1>6, <1>7, <1>8 DEF IInv

\* allocUserStack makes the first area.
LEMMA StackIInv == IInv /\ AllocUserStack => IInv'
<1> SUFFICES ASSUME IInv, AllocUserStack PROVE IInv'
  OBVIOUS
<1>1. phase = "boot" /\ phase' = "init" /\ UNCHANGED <<filep, zeroed, stray>>
  BY DEF AllocUserStack
<1>2. /\ ShapeInv /\ FrameInv /\ PhaseInv /\ ~zeroed /\ AreaInv /\ StrayInv
      /\ Len(areas) = 0 /\ filep = 0
  BY <1>1 DEF IInv, PhaseInv
<1>3. /\ StackPages \in Nat \ {0} /\ USER_START + StackPages <= USER_END /\ 0 < MAX_MEMORY_AREAS
      /\ USER_START \in Int
  BY Bounds
<1>4. Top = USER_START /\ FindFreeArea(StackPages) = Top
  BY <1>2, <1>3, FirstFit DEF Top
<1>5. AddArea(Top, StackPages) /\ MapFrames(Top, StackPages)
  BY <1>4 DEF AllocUserStack
<1>6. ShapeInv' /\ AreaInv' /\ Top' = Top + StackPages /\ Len(areas') = 1
  BY <1>2, <1>3, <1>4, <1>5, Push
<1>7. FrameInv'
  <2>1. Extent(Top, StackPages) \subseteq UserPages
    BY <1>3, <1>4, ExtentInRange
  <2>2. QED BY <1>2, <1>5, <2>1, MapFresh, Zenon
<1>8. StrayInv'
  BY <1>1, <1>2, <1>3, <1>4, <1>5, <1>6, MapFramesOutside, OverwriteStray
<1>9. PhaseInv'
  BY <1>1, <1>2, <1>6 DEF PhaseInv
<1>10. QED BY <1>6, <1>7, <1>8, <1>9 DEF IInv

\* sys_execve puts the file, empty or not, behind the stack.
LEMMA ExecAllocateIInv ==
  ASSUME IInv, NEW size \in FilePages, ExecAllocate(size)
  PROVE  IInv'
<1>1. /\ phase = "init" /\ filep = 0 /\ Len(areas) < MAX_MEMORY_AREAS
      /\ UNCHANGED <<phase, zeroed, stray>>
  BY DEF ExecAllocate
<1>2. /\ ShapeInv /\ FrameInv /\ PhaseInv /\ ~zeroed /\ AreaInv /\ StrayInv
      /\ Len(areas) = 1
  BY <1>1 DEF IInv, PhaseInv
<1>3. size \in Nat
  BY UserAssumption
<1>4. FindFreeArea(size) = Top /\ Top + size <= USER_END /\ Top < USER_END
  BY <1>2, <1>3, FirstFit DEF ExecAllocate
<1>5. AddArea(Top, size) /\ MapFrames(Top, size) /\ filep' = Top
  BY <1>4 DEF ExecAllocate
<1>6. Top \in Int /\ USER_START <= Top
  BY <1>2, TopFacts, Zenon
<1>7. Top \in UserPages /\ Top # 0
  BY <1>4, <1>6, Bounds DEF UserPages
<1>8. /\ ShapeInv' /\ AreaInv' /\ Top' = Top + size /\ Len(areas') = 2
      /\ areas'[2].start_addr = Top
  BY <1>1, <1>2, <1>3, <1>4, <1>5, <1>7, Push
<1>9. FrameInv'
  <2>1. Extent(Top, size) \subseteq UserPages
    BY <1>3, <1>4, <1>6, ExtentInRange
  <2>2. QED BY <1>2, <1>5, <2>1, MapFresh, Zenon
<1>10. StrayInv'
  BY <1>1, <1>2, <1>3, <1>5, <1>6, <1>8, MapFramesOutside, OverwriteStray
<1>11. PhaseInv'
  BY <1>1, <1>2, <1>5, <1>7, <1>8 DEF PhaseInv
<1>12. QED BY <1>8, <1>9, <1>10, <1>11 DEF IInv

\* The area that a failed sys_execve frees is the last one.
LEMMA ExecFailIInv == IInv /\ ExecFail => IInv'
<1> SUFFICES ASSUME IInv, ExecFail PROVE IInv'
  OBVIOUS
<1>1. phase = "init" /\ filep # 0 /\ filep' = 0 /\ UNCHANGED <<phase, zeroed, stray, lost>>
  BY DEF ExecFail
<1>2. /\ ShapeInv /\ FrameInv /\ PhaseInv /\ ~zeroed /\ AreaInv /\ StrayInv
      /\ Len(areas) = 2 /\ filep = areas[2].start_addr /\ filep \in UserPages
  BY <1>1 DEF IInv, PhaseInv
<1>3. /\ DOMAIN areas = 1 .. 2
      /\ areas[1].start_addr \in Int /\ areas[1].end_addr \in Int
      /\ areas[2].start_addr \in Int /\ areas[2].end_addr \in Int
  BY <1>2, Shape
<1>4. \A i \in 1 .. 2 : areas[i].start_addr = filep => i = 2
  BY <1>2, <1>3 DEF AreaInv
<1>5. PICK i \in 1 .. 2 :
        /\ i = 2
        /\ areas' = [j \in 1 .. Len(areas) - 1 |-> IF j < i THEN areas[j] ELSE areas[j + 1]]
        /\ total_vm' = total_vm - (areas[i].end_addr - areas[i].start_addr)
        /\ UnmapPages(filep, areas[i].end_addr - areas[i].start_addr)
  BY <1>3, <1>4, Zenon DEF ExecFail
<1>6. areas' = [j \in 1 .. Len(areas) - 1 |-> areas[j]]
  BY <1>2, <1>5
<1>7. ShapeInv' /\ AreaInv' /\ Len(areas') = 1 /\ Top' = filep
  BY <1>1, <1>2, <1>5, <1>6, Pop
<1>8. Top = areas[2].end_addr
  BY <1>2 DEF Top
<1>9. FrameInv'
  BY <1>1, <1>2, <1>5, Unmap
<1>10. StrayInv'
  <2> DEFINE gone == PresentIn(filep, Top - filep)
  <2>1. pte' = [p \in UserPages |-> IF p \in gone THEN Clear ELSE pte[p]]
    BY <1>2, <1>5, <1>8, Zenon DEF UnmapPages
  <2>2. \A p \in UserPages : /\ p \in Int
                             /\ IsPresent(pte[p]) /\ filep <= p /\ p < Top => p \in gone
    BY <1>2, <1>3, <1>8, Bounds DEF PresentIn, Extent, UserPages
  <2> HIDE DEF gone
  <2>3. ASSUME NEW p \in UserPages, IsPresent(pte'[p])
        PROVE  p < Top' \/ pte'[p][2] \in stray'
    <3>1. p \notin gone /\ pte'[p] = pte[p] /\ IsPresent(pte[p])
      BY <2>1, <2>3, Entries
    <3>2. p < Top \/ pte[p][2] \in stray
      BY <1>2, <3>1 DEF StrayInv
    <3>3. p < Top => p < filep
      BY <1>2, <1>3, <2>2, <3>1
    <3>4. QED BY <1>1, <1>7, <3>1, <3>2, <3>3
  <2>4. lost' \subseteq stray'
    BY <1>1, <1>2 DEF StrayInv
  <2>5. QED BY <2>3, <2>4, Zenon DEF StrayInv
<1>11. PhaseInv'
  BY <1>1, <1>2, <1>7 DEF PhaseInv
<1>12. QED BY <1>7, <1>9, <1>10, <1>11 DEF IInv

\* sys_mmap: behind the last area, unless an area of length 0 is or was made.
LEMMA MmapIInv ==
  ASSUME IInv, NEW size \in MmapPages, Mmap(size)
  PROVE  IInv'
<1> DEFINE start == FindFreeArea(size)
<1>1. /\ phase = "user" /\ Len(areas) < MAX_MEMORY_AREAS /\ start # 0
      /\ AddArea(start, size)
      /\ pte' = [p \in UserPages |-> IF p \in Extent(start, size) THEN Reserved ELSE pte[p]]
      /\ Overwrite(start, size)
      /\ zeroed' = (zeroed \/ size = 0)
      /\ free_frames' = free_frames /\ filep' = filep /\ phase' = phase /\ stray' = stray
  BY DEF Mmap
<1>2. size \in Nat
  BY UserAssumption
<1>3. ShapeInv /\ FrameInv /\ PhaseInv /\ filep = 0 /\ Len(areas) > 1 /\ Len(areas) \in Nat
  BY <1>1, Shape DEF IInv, PhaseInv
<1>4. start \in 0 .. ADDRESS_PAGES - 1
  BY <1>3, FindFreeAreaType, Zenon
<1> HIDE DEF start
<1>5. ShapeInv' /\ Len(areas') = Len(areas) + 1
  BY <1>1, <1>2, <1>3, <1>4, Append1, Zenon
<1>6. FrameInv'
  BY <1>1, <1>3, Reserve, Zenon
<1>7. PhaseInv'
  BY <1>1, <1>3, <1>5 DEF PhaseInv
<1>8. ASSUME ~zeroed' PROVE AreaInv' /\ StrayInv'
  <2>1. ~zeroed /\ size # 0
    BY <1>1, <1>8, Zenon
  <2>2. AreaInv /\ StrayInv
    BY <2>1 DEF IInv
  <2>3. start = Top /\ Top + size <= USER_END
    BY <1>1, <1>2, <1>3, <2>1, <2>2, FirstFit DEF start
  <2>4. AreaInv' /\ Top' = Top + size
    BY <1>1, <1>2, <1>3, <2>1, <2>2, <2>3, Push
  <2>5. \A p \in UserPages : p \notin Extent(Top, size) => pte'[p] = pte[p]
    BY <1>1, <2>3, Zenon
  <2>6. Top \in Int
    BY <1>3, <2>2, TopFacts, Zenon
  <2>7. Overwrite(Top, size)
    BY <1>1, <2>3
  <2>8. StrayInv'
    BY <1>1, <1>2, <2>2, <2>4, <2>5, <2>6, <2>7, OverwriteStray, Zenon
  <2>9. QED BY <2>4, <2>8
<1>9. QED BY <1>5, <1>6, <1>7, <1>8 DEF IInv

\* The page fault handler changes one entry and takes one frame, which is a
\* stray one if the page is in no area.
LEMMA PageFaultIInv ==
  ASSUME IInv, NEW t \in UserPages, NEW w \in BOOLEAN, PageFault(t, w)
  PROVE  IInv'
<1>1. /\ areas' = areas /\ total_vm' = total_vm /\ filep' = filep /\ phase' = phase
      /\ zeroed' = zeroed /\ lost' = lost /\ ~IsPresent(pte[t])
  BY DEF PageFault
<1>2. PICK f \in free_frames :
        /\ free_frames' = free_frames \ {f}
        /\ pte' = [pte EXCEPT ![t] = Present(f, w)]
        /\ stray' = IF InArea(t) THEN stray ELSE stray \cup {f}
  BY Zenon DEF PageFault
<1>3. ShapeInv /\ FrameInv /\ PhaseInv
  BY DEF IInv
<1>4. Top' = Top
  BY <1>1 DEF Top
<1>5. ShapeInv'
  BY <1>1, <1>3 DEF ShapeInv
<1>6. FrameInv'
  BY <1>1, <1>2, <1>3, Touch, Zenon
<1>7. f \in Frames
  BY <1>3 DEF FrameInv
<1>8. PhaseInv'
  BY <1>1, <1>2, <1>3, <1>7 DEF PhaseInv
<1>9. ASSUME ~zeroed' PROVE AreaInv' /\ StrayInv'
  <2>1. AreaInv /\ StrayInv
    BY <1>1, <1>9 DEF IInv
  <2>2. AreaInv'
    BY <1>1, <1>4, <2>1, Zenon DEF AreaInv
  <2>3. InArea(t) => t < Top
    <3>1. /\ DOMAIN areas = 1 .. Len(areas) /\ Top \in Int /\ t \in Int
          /\ \A i \in 1 .. Len(areas) : areas[i].end_addr \in Int /\ areas[i].end_addr <= Top
      BY <1>3, <2>1, Shape, TopFacts, Bounds DEF UserPages
    <3>2. QED BY <3>1 DEF InArea
  <2>4. stray \subseteq stray' /\ lost' \subseteq stray'
    BY <1>1, <1>2, <2>1 DEF StrayInv
  <2>5. ASSUME NEW p \in UserPages, IsPresent(pte'[p])
        PROVE  p < Top' \/ pte'[p][2] \in stray'
    <3>1. CASE p = t
      <4>1. pte'[t] = Present(f, w)
        BY <1>2, <1>3 DEF FrameInv
      <4>2. pte'[t][2] = f
        BY <4>1, Entries
      <4>3. QED BY <1>2, <1>4, <2>3, <3>1, <4>2
    <3>2. CASE p # t
      <4>1. pte'[p] = pte[p] /\ IsPresent(pte[p])
        BY <1>2, <1>3, <2>5, <3>2 DEF FrameInv
      <4>2. p < Top \/ pte[p][2] \in stray
        BY <2>1, <4>1 DEF StrayInv
      <4>3. QED BY <1>4, <2>4, <4>1, <4>2
    <3>3. QED BY <3>1, <3>2
  <2>6. StrayInv'
    BY <2>4, <2>5, Zenon DEF StrayInv
  <2>7. QED BY <2>2, <2>6
<1>10. QED BY <1>5, <1>6, <1>8, <1>9 DEF IInv

\* The program starts: the file was not empty.
LEMMA ExecEnterIInv == IInv /\ ExecEnter => IInv'
<1> SUFFICES ASSUME IInv, ExecEnter PROVE IInv'
  OBVIOUS
<1>1. /\ phase = "init" /\ phase' = "user" /\ filep # 0 /\ filep' = 0
      /\ areas[Len(areas)].end_addr # filep
      /\ UNCHANGED <<areas, total_vm, pte, free_frames, zeroed, stray, lost>>
  BY DEF ExecEnter
<1>2. PhaseInv /\ Len(areas) = 2 /\ filep = areas[Len(areas)].start_addr
  BY <1>1, Zenon DEF IInv, PhaseInv
<1>3. PhaseInv'
  BY <1>1, <1>2 DEF PhaseInv
<1>4. ShapeInv' /\ FrameInv' /\ (~zeroed' => AreaInv' /\ StrayInv')
  BY <1>1, <1>2, SameMemory
<1>5. QED BY <1>3, <1>4 DEF IInv

\* A fault that is not served changes nothing but the phase.
LEMMA PanicIInv ==
  ASSUME IInv, NEW p \in UserPages, PageFaultPanic(p)
  PROVE  IInv'
<1>1. /\ phase' = "panic" /\ filep' = filep
      /\ UNCHANGED <<areas, total_vm, pte, free_frames, zeroed, stray, lost>>
  BY DEF PageFaultPanic
<1>2. PhaseInv'
  BY <1>1 DEF IInv, PhaseInv
<1>3. ShapeInv' /\ FrameInv' /\ (~zeroed' => AreaInv' /\ StrayInv')
  BY <1>1, SameMemory
<1>4. QED BY <1>2, <1>3 DEF IInv

\* Every step keeps the invariant.
LEMMA NextIInv == IInv /\ [UserNext]_userVars => IInv'
<1> SUFFICES ASSUME IInv, [UserNext]_userVars PROVE IInv'
  OBVIOUS
<1>1. CASE AllocUserStack
  BY <1>1, StackIInv
<1>2. ASSUME NEW size \in FilePages, ExecAllocate(size) PROVE IInv'
  BY <1>2, ExecAllocateIInv
<1>3. CASE ExecFail
  BY <1>3, ExecFailIInv
<1>4. CASE ExecEnter
  BY <1>4, ExecEnterIInv
<1>5. ASSUME NEW size \in MmapPages, Mmap(size) PROVE IInv'
  BY <1>5, MmapIInv
<1>6. ASSUME NEW p \in UserPages, PageFaultPanic(p) PROVE IInv'
  BY <1>6, PanicIInv
<1>7. ASSUME NEW p \in UserPages, NEW w \in BOOLEAN, PageFault(p, w) PROVE IInv'
  BY <1>7, PageFaultIInv
<1>8. CASE UNCHANGED userVars
  <2>1. /\ UNCHANGED <<areas, total_vm, pte, free_frames, zeroed, stray, lost>>
        /\ filep' = filep /\ phase' = phase
    BY <1>8 DEF userVars
  <2>2. PhaseInv'
    BY <2>1 DEF IInv, PhaseInv
  <2>3. ShapeInv' /\ FrameInv' /\ (~zeroed' => AreaInv' /\ StrayInv')
    BY <2>1, SameMemory
  <2>4. QED BY <2>2, <2>3 DEF IInv
<1>9. QED
  BY <1>1, <1>2, <1>3, <1>4, <1>5, <1>6, <1>7, <1>8, Zenon DEF UserNext

----------------------------------------------------------------------------
\* The pages of the areas are those from USER_START to Top.
LEMMA Covered ==
  ASSUME ShapeInv, AreaInv
  PROVE  {p \in UserPages : InArea(p)} = USER_START .. Top - 1
<1>1. /\ DOMAIN areas = 1 .. Len(areas)
      /\ Top \in Int /\ USER_START <= Top /\ Top <= USER_END
      /\ \A i \in 1 .. Len(areas) : areas[i].end_addr \in Int /\ areas[i].end_addr <= Top
      /\ USER_START \in Int /\ USER_END \in Int
  BY Shape, TopFacts, Bounds
<1>2. ASSUME NEW p \in UserPages, InArea(p) PROVE p \in USER_START .. Top - 1
  <2>1. PICK i \in 1 .. Len(areas) : areas[i].start_addr <= p /\ p < areas[i].end_addr
    BY <1>1, <1>2 DEF InArea
  <2>2. areas[i].end_addr <= Top /\ areas[i].end_addr \in Int
    BY <1>1
  <2>3. QED BY <1>1, <2>1, <2>2 DEF UserPages
<1>3. ASSUME NEW p \in USER_START .. Top - 1 PROVE p \in UserPages /\ InArea(p)
  <2>1. p \in UserPages
    BY <1>1 DEF UserPages
  <2>2. InArea(p)
    BY <1>1, Zenon DEF AreaInv, InArea
  <2>3. QED BY <2>1, <2>2
<1>4. QED BY <1>2, <1>3

FST == INSTANCE FiniteSetTheorems

\* The library speaks of the same finite sets and of the same cardinality.
LEMMA SameCounting ==
  \A S : (FST!IsFiniteSet(S) <=> IsFiniteSet(S)) /\ FST!Cardinality(S) = Cardinality(S)
<1>1. \A S : FST!IsFiniteSet(S) <=> IsFiniteSet(S)
  BY DEF FST!IsFiniteSet, IsFiniteSet
<1>2. \A S : FST!Cardinality(S) = Cardinality(S)
  BY Zenon DEF FST!Cardinality, Cardinality
<1>3. QED BY <1>1, <1>2

\* The cardinalities of the sets that the properties count.
LEMMA Counts ==
  /\ Cardinality({}) = 0
  /\ \A x : Cardinality({x}) = 1
  /\ \A a, b \in Int : Cardinality(a .. b) = IF a > b THEN 0 ELSE b - a + 1
<1>1. Cardinality({}) = 0
  BY FST!FS_EmptySet, SameCounting
<1>2. \A x : Cardinality({x}) = 1
  BY FST!FS_Singleton, SameCounting, Zenon
<1>3. \A a, b \in Int : Cardinality(a .. b) = IF a > b THEN 0 ELSE b - a + 1
  BY FST!FS_Interval, SameCounting
<1>4. QED BY <1>1, <1>2, <1>3, Zenon

\* The invariant says that the areas are disjoint and counted.
LEMMA IInvAreas == IInv => AreasDisjoint
<1> SUFFICES ASSUME IInv PROVE AreasDisjoint
  OBVIOUS
<1>1. ShapeInv /\ FrameInv /\ PhaseInv
  BY DEF IInv
<1>2. /\ Len(areas) \in Nat /\ DOMAIN areas = 1 .. Len(areas)
      /\ \A i \in 1 .. Len(areas) :
           areas[i] \in Area /\ areas[i].start_addr \in Int /\ areas[i].end_addr \in Int
  BY <1>1, Shape, Zenon
<1>3. filep \in UserPages \cup {0}
  BY <1>1 DEF PhaseInv
<1>4. UserTypeOK
  BY <1>1, <1>2, <1>3, Zenon DEF UserTypeOK, ShapeInv, FrameInv, PhaseInv, Area
<1>5. ASSUME ~zeroed
      PROVE  /\ total_vm = Cardinality({p \in UserPages : InArea(p)})
             /\ \A i \in DOMAIN areas :
                  USER_START <= areas[i].start_addr /\ areas[i].end_addr <= USER_END
             /\ \A i, j \in DOMAIN areas : i # j => ~Overlap(i, j)
  <2>1. AreaInv
    BY <1>5 DEF IInv
  <2>2. Top \in Int /\ USER_START <= Top /\ USER_START \in Int
    BY <1>1, <2>1, TopFacts, Bounds
  <2>3. Cardinality(USER_START .. Top - 1) = Top - USER_START
    <3> DEFINE b == Top - 1
    <3>1. b \in Int /\ (USER_START > b => Top = USER_START)
      BY <2>2
    <3> HIDE DEF b
    <3>2. Cardinality(USER_START .. b) = IF USER_START > b THEN 0 ELSE b - USER_START + 1
      BY <2>2, <3>1, Counts
    <3>3. QED BY <2>2, <3>1, <3>2 DEF b
  <2>4. {p \in UserPages : InArea(p)} = USER_START .. Top - 1
    BY <1>1, <2>1, Covered
  <2>5. total_vm = Top - USER_START
    BY <2>1 DEF AreaInv
  <2>6. total_vm = Cardinality({p \in UserPages : InArea(p)})
    BY <2>3, <2>4, <2>5, Zenon
  <2>7. \A i \in DOMAIN areas : USER_START <= areas[i].start_addr /\ areas[i].end_addr <= USER_END
    BY <1>2, <2>1, Zenon DEF AreaInv
  <2>8. ASSUME NEW i \in DOMAIN areas, NEW j \in DOMAIN areas, i < j
        PROVE  Extent(areas[i].start_addr, SizeOf(i)) \cap Extent(areas[j].start_addr, SizeOf(j)) = {}
    <3>1. i \in 1 .. Len(areas) /\ j \in 1 .. Len(areas)
      BY <1>2
    <3>2. areas[i].end_addr <= areas[j].start_addr
      BY <2>1, <2>8, <3>1, Zenon DEF AreaInv
    <3>3. /\ areas[i].start_addr \in Int /\ areas[i].end_addr \in Int
          /\ areas[j].start_addr \in Int /\ areas[j].end_addr \in Int
      BY <1>2, <3>1
    <3>4. \A p \in Extent(areas[i].start_addr, SizeOf(i)) : p \in Int /\ p < areas[i].end_addr
      BY <3>3 DEF Extent, SizeOf
    <3>5. \A p \in Extent(areas[j].start_addr, SizeOf(j)) : p \in Int /\ p >= areas[j].start_addr
      BY <3>3 DEF Extent, SizeOf
    <3>6. QED BY <3>2, <3>3, <3>4, <3>5
  <2>9. \A i, j \in DOMAIN areas : i # j => i < j \/ j < i
    BY <1>2
  <2>10. \A i, j \in DOMAIN areas : i # j => ~Overlap(i, j)
    BY <2>8, <2>9 DEF Overlap
  <2>11. QED BY <2>6, <2>7, <2>10
<1>6. QED BY <1>4, <1>5 DEF AreasDisjoint

\* The invariant says that a frame has one owner.
LEMMA IInvFrames == IInv => FramesOwnedOnce
<1> SUFFICES ASSUME IInv PROVE FramesOwnedOnce
  OBVIOUS
<1> DEFINE mapped(f) == {p \in UserPages : IsPresent(pte[p]) /\ pte[p][2] = f}
<1>1. /\ \A p \in UserPages : IsPresent(pte[p]) => pte[p][2] \notin free_frames \cup lost
      /\ \A p, q \in UserPages :
           IsPresent(pte[p]) /\ IsPresent(pte[q]) /\ pte[p][2] = pte[q][2] => p = q
      /\ \A f \in Frames \ (free_frames \cup lost) :
           \E p \in UserPages : IsPresent(pte[p]) /\ pte[p][2] = f
      /\ free_frames \cap lost = {}
  BY Zenon DEF IInv, FrameInv
<1>2. ASSUME NEW f \in Frames
      PROVE  Cardinality(mapped(f)) = IF f \in free_frames \cup lost THEN 0 ELSE 1
  <2>1. CASE f \in free_frames \cup lost
    <3>1. mapped(f) = {}
      BY <1>1, <2>1
    <3>2. QED BY <2>1, <3>1, Counts, Zenon
  <2>2. CASE f \notin free_frames \cup lost
    <3>1. PICK p \in UserPages : IsPresent(pte[p]) /\ pte[p][2] = f
      BY <1>1, <2>2, Zenon
    <3>2. mapped(f) = {p}
      BY <1>1, <3>1
    <3>3. Cardinality({p}) = 1
      BY Counts, Zenon
    <3>4. QED BY <2>2, <3>2, <3>3, Zenon
  <2>3. QED BY <2>1, <2>2
<1>3. ~zeroed => lost \subseteq stray
  BY DEF IInv, StrayInv
<1>4. QED BY <1>1, <1>2, <1>3, Zenon DEF FramesOwnedOnce

\* Before an mmap of length 0 the areas of find_free_area and allocate_area never
\* overlap or leave the user range, and total_vm counts their pages, whatever the
\* lengths and whatever faults the handler has served outside them.
THEOREM AreasDisjointHolds == UserSpec => []AreasDisjoint
BY InitIInv, NextIInv, IInvAreas, PTL DEF UserSpec

\* No frame is mapped twice, or free while it is mapped, in any behaviour; a frame
\* is lost only when map_pages or allocate_area writes over the entry of a page
\* that the fault handler has served outside every area, or after an mmap of
\* length 0.
THEOREM FramesOwnedOnceHolds == UserSpec => []FramesOwnedOnce
BY InitIInv, NextIInv, IInvFrames, PTL DEF UserSpec

============================================================================
