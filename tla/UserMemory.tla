----------------------------- MODULE UserMemory -----------------------------
(***************************************************************************)
(* The address space of the init task: UserMemory's areas and the page     *)
(* table entries of the user range, with the kernel code that works on     *)
(* them: allocUserStack at boot, sys_execve and its retries, sys_mmap and  *)
(* the page fault handler.  Addresses are page numbers.                    *)
(*                                                                         *)
(* Bounds: sys_execve finds the frames that it needs, and the frames of    *)
(* the page tables are not counted.  The entries outside the user range    *)
(* are not followed.                                                       *)
(***************************************************************************)
EXTENDS Integers, Sequences, FiniteSets

CONSTANTS
  USER_START, USER_END,
  MAX_MEMORY_AREAS,
  StackPages,           \* pages of the user stack
  FilePages,            \* sizes the executable may have, in pages
  MmapPages,            \* lengths of the program's mmap calls, in pages; one
                        \* close to 2^32 is rounded up to 0
  Frames,               \* frames of the page allocator
  ADDRESS_PAGES         \* 2^20: page numbers wrap around here

ASSUME UserAssumption ==
  /\ USER_START \in Nat \ {0} /\ USER_END \in Nat
  /\ USER_START + StackPages <= USER_END /\ USER_END < ADDRESS_PAGES
  /\ StackPages \in Nat \ {0} /\ FilePages \subseteq Nat /\ MmapPages \subseteq Nat
  /\ MAX_MEMORY_AREAS \in Nat \ {0}
  /\ ADDRESS_PAGES \in Nat

UserPages == USER_START .. USER_END - 1

\* Page table entries: clear; reserved (not present, permissions kept); present.
Clear == <<"clear">>
Reserved == <<"reserved">>
Present(f, writable) == <<"present", f, writable>>
IsPresent(e) == e[1] = "present"

VARIABLES
  areas,        \* areas[1 .. num_areas]
  total_vm,
  pte,          \* the page table entries of the user range
  free_frames,  \* the page allocator
  filep,        \* where sys_execve put the file; 0: not in sys_execve
  phase,        \* "boot", "init" (the loop around sys_execve), "user", "panic"
  zeroed,       \* history: an mmap of length 0 was served
  stray,        \* history: the frames that went to pages outside every area
  lost          \* history: the frames whose entry was overwritten

userVars == <<areas, total_vm, pte, free_frames, filep, phase, zeroed, stray, lost>>

UserTypeOK ==
  /\ \A i \in DOMAIN areas :
       areas[i] \in [start_addr : 0 .. ADDRESS_PAGES - 1, end_addr : 0 .. ADDRESS_PAGES - 1]
  /\ Len(areas) <= MAX_MEMORY_AREAS
  /\ total_vm \in Nat
  /\ DOMAIN pte = UserPages
  /\ \A p \in UserPages :
       pte[p] \in {Clear, Reserved} \/ \E f \in Frames, w \in BOOLEAN : pte[p] = Present(f, w)
  /\ free_frames \subseteq Frames
  /\ filep \in UserPages \cup {0}
  /\ phase \in {"boot", "init", "user", "panic"}
  /\ zeroed \in BOOLEAN
  /\ stray \subseteq Frames
  /\ lost \subseteq Frames

UserInit ==
  /\ areas = <<>>
  /\ total_vm = 0
  /\ pte = [p \in UserPages |-> Clear]
  /\ free_frames = Frames
  /\ filep = 0
  /\ phase = "boot"
  /\ zeroed = FALSE
  /\ stray = {}
  /\ lost = {}

-----------------------------------------------------------------------------
\* Mutant: gaps one page short will do.
GapFitsOneShort(i, size) ==
  (areas[i + 1].start_addr - areas[i].end_addr) % ADDRESS_PAGES >= size - 1

\* The gap behind area i, computed in 32 bits, is large enough.
GapFits(i, size) ==
  (areas[i + 1].start_addr - areas[i].end_addr) % ADDRESS_PAGES >= size

\* find_free_area: first fit over the areas in the order of the array.
FindFreeArea(size) ==
  LET n    == Len(areas)
      gaps == {i \in 1 .. n - 1 : GapFits(i, size)}
      last == areas[n].end_addr
  IN  IF n = 0 THEN USER_START
      ELSE IF areas[1].start_addr > USER_START /\ areas[1].start_addr - USER_START >= size
        THEN USER_START
      ELSE IF gaps # {} THEN areas[CHOOSE i \in gaps : \A j \in gaps : i <= j].end_addr
      ELSE IF last < USER_END /\ USER_END - last >= size THEN last
      ELSE 0

Extent(start, size) == start .. start + size - 1

\* allocate_area, up to the page table entries: the area and the count.
AddArea(start, size) ==
  /\ areas' = Append(areas, [start_addr |-> start, end_addr |-> (start + size) % ADDRESS_PAGES])
  /\ total_vm' = total_vm + size

\* The present pages among those from start on.
PresentIn(start, size) == {p \in UserPages \cap Extent(start, size) : IsPresent(pte[p])}

\* allocate_area writes the entries without looking at what they hold.
Overwrite(start, size) ==
  lost' = lost \cup {pte[p][2] : p \in PresentIn(start, size)}

\* Every page of the extent gets a frame of its own.
MapFrames(start, size) ==
  \E frames \in [Extent(start, size) -> free_frames] :
    /\ \A p, q \in Extent(start, size) : frames[p] = frames[q] => p = q
    /\ free_frames' = free_frames \ {frames[p] : p \in Extent(start, size)}
    /\ pte' = [p \in UserPages |->
                 IF p \in Extent(start, size) THEN Present(frames[p], TRUE) ELSE pte[p]]
    /\ Overwrite(start, size)

\* allocUserStack: a stack area has its frames from the beginning.
AllocUserStack ==
  /\ phase = "boot"
  /\ AddArea(FindFreeArea(StackPages), StackPages)
  /\ MapFrames(FindFreeArea(StackPages), StackPages)
  /\ phase' = "init"
  /\ UNCHANGED <<filep, zeroed, stray>>

\* sys_execve: an area for the file, and a frame for each of its pages.  With
\* the stack alone in the way allocate_area does not fail.
ExecAllocate(size) ==
  /\ phase = "init" /\ filep = 0
  /\ Len(areas) < MAX_MEMORY_AREAS
  /\ FindFreeArea(size) # 0
  /\ AddArea(FindFreeArea(size), size)
  /\ MapFrames(FindFreeArea(size), size)
  /\ filep' = FindFreeArea(size)
  /\ UNCHANGED <<phase, zeroed, stray>>

\* unmap_pages: present pages give back their frames, other entries stay.
UnmapPages(start, size) ==
  /\ free_frames' = free_frames \cup {pte[p][2] : p \in PresentIn(start, size)}
  /\ pte' = [p \in UserPages |-> IF p \in PresentIn(start, size) THEN Clear ELSE pte[p]]

\* The file cannot be read or is no ELF file: free_area, and the loop around
\* sys_execve tries again.
ExecFail ==
  /\ phase = "init" /\ filep # 0
  /\ \E i \in DOMAIN areas :
       /\ areas[i].start_addr = filep
       /\ \A j \in 1 .. i - 1 : areas[j].start_addr # filep
       /\ areas' = [j \in 1 .. Len(areas) - 1 |-> IF j < i THEN areas[j] ELSE areas[j + 1]]
       /\ total_vm' = total_vm - (areas[i].end_addr - areas[i].start_addr)
       /\ UnmapPages(filep, areas[i].end_addr - areas[i].start_addr)
  /\ filep' = 0
  /\ UNCHANGED <<phase, zeroed, stray, lost>>

\* The file, which is not empty, is loaded and the program runs; the area of the
\* file stays.
ExecEnter ==
  /\ phase = "init" /\ filep # 0
  /\ areas[Len(areas)].end_addr # filep
  /\ phase' = "user"
  /\ filep' = 0
  /\ UNCHANGED <<areas, total_vm, pte, free_frames, zeroed, stray, lost>>

\* sys_mmap of anonymous memory: the entries are reserved, frames come later.
Mmap(size) ==
  /\ phase = "user"
  /\ Len(areas) < MAX_MEMORY_AREAS
  /\ LET start == FindFreeArea(size)
     IN  /\ start # 0
         /\ AddArea(start, size)
         /\ pte' = [p \in UserPages |-> IF p \in Extent(start, size) THEN Reserved ELSE pte[p]]
         /\ Overwrite(start, size)
  /\ zeroed' = (zeroed \/ size = 0)
  /\ UNCHANGED <<free_frames, filep, phase, stray>>

InArea(p) == \E i \in DOMAIN areas : areas[i].start_addr <= p /\ p < areas[i].end_addr

\* Who touches user pages: the program, and load_elf when it copies the segments.
Touching == phase = "user" \/ (phase = "init" /\ filep # 0)

\* Mutant: the frame stays on the allocator's list.
PageFaultKeepsFrame(p, is_write) ==
  /\ Touching /\ ~IsPresent(pte[p])
  /\ \E f \in free_frames :
       /\ pte' = [pte EXCEPT ![p] = Present(f, is_write)]
       /\ stray' = IF InArea(p) THEN stray ELSE stray \cup {f}
  /\ UNCHANGED <<free_frames, areas, total_vm, filep, phase, zeroed, lost>>

\* page_fault_handler: an access to a page that is not present, in an area or not.
PageFault(p, is_write) ==
  /\ Touching /\ ~IsPresent(pte[p])
  /\ \E f \in free_frames :
       /\ free_frames' = free_frames \ {f}
       /\ pte' = [pte EXCEPT ![p] = Present(f, is_write)]
       /\ stray' = IF InArea(p) THEN stray ELSE stray \cup {f}
  /\ UNCHANGED <<areas, total_vm, filep, phase, zeroed, lost>>

\* The faults that it cannot serve: no frame is left, or the page is written after
\* a read has mapped it without PAGE_WRITE (copyCOWPage finds no PAGE_COW).
PageFaultPanic(p) ==
  /\ Touching
  /\ IF IsPresent(pte[p]) THEN ~pte[p][3] ELSE free_frames = {}
  /\ phase' = "panic"
  /\ UNCHANGED <<areas, total_vm, pte, free_frames, filep, zeroed, stray, lost>>

UserNext ==
  \/ AllocUserStack
  \/ \E size \in FilePages : ExecAllocate(size)
  \/ ExecFail
  \/ ExecEnter
  \/ \E size \in MmapPages : Mmap(size)
  \/ \E p \in UserPages : PageFaultPanic(p) \/ \E w \in BOOLEAN : PageFault(p, w)

UserSpec == UserInit /\ [][UserNext]_userVars

-----------------------------------------------------------------------------
SizeOf(i) == areas[i].end_addr - areas[i].start_addr

Overlap(i, j) ==
  Extent(areas[i].start_addr, SizeOf(i)) \cap Extent(areas[j].start_addr, SizeOf(j)) # {}

\* First fit finds a suitable free area, as long as no mmap of length 0 was
\* served: no two areas overlap and none leaves the user range, after failed
\* attempts of sys_execve and any sequence of mmap calls and faults, and total_vm,
\* which is kept beside them, counts their pages.
AreasDisjoint ==
  /\ UserTypeOK
  /\ ~zeroed =>
       /\ total_vm = Cardinality({p \in UserPages : InArea(p)})
       /\ \A i \in DOMAIN areas :
            USER_START <= areas[i].start_addr /\ areas[i].end_addr <= USER_END
       /\ \A i, j \in DOMAIN areas : i # j => ~Overlap(i, j)

\* What find_free_area is for, "使用first-fit策略查找合适的空闲区域" (to look for
\* a suitable free area, user_memory.cpp:47), also after an mmap of length 0.
FirstFitFindsFree == \A i, j \in DOMAIN areas : i # j => ~Overlap(i, j)

\* A frame is free, or mapped at one page, or its entry was overwritten: none is
\* shared or freed while it is mapped, whatever the program maps and touches.  And
\* as long as no mmap of length 0 was served, the only frames that mmap or a new
\* attempt of sys_execve overwrites are those of pages that were touched outside
\* every area.
FramesOwnedOnce ==
  LET mapped(f) == {p \in UserPages : IsPresent(pte[p]) /\ pte[p][2] = f}
  IN  /\ \A f \in Frames :
           Cardinality(mapped(f)) = IF f \in free_frames \cup lost THEN 0 ELSE 1
      /\ free_frames \cap lost = {}
      /\ ~zeroed => lost \subseteq stray

=============================================================================
