---------------------------- MODULE ElfLoader ----------------------------
(***************************************************************************)
(* ElfLoader::load_elf (kernel/process/elf_loader.cpp and                  *)
(* elf_loader_reloc.cpp): the copy of an executable's segments to their    *)
(* addresses and the relocation of the copy.                               *)
(*                                                                         *)
(* Memory is a function from word addresses to words.  A file is a record  *)
(* of the tables load_elf finds through the header's offsets:              *)
(*   complete    size >= sizeof(ElfHeader) and the data is there           *)
(*   magic       header->magic = ELF_MAGIC                                 *)
(*   type        header->type                                              *)
(*   segments    <<[type, vaddr, offset, words, memsz]>>; words is what    *)
(*               the file holds at the offset                              *)
(*   dynamic     <<[tag, ptr, count]>>, the contents of PT_DYNAMIC         *)
(*   tables      the tables that lie at the file's offsets; it holds zeros *)
(*               at every other one                                        *)
(*   sections    <<[type, link, table]>>, empty when shoff or shnum is 0   *)
(* An entry of a relocation table is [offset, type, sym], one of a symbol  *)
(* table its value.  The result is [ok, mem]: what load_elf returns and    *)
(* the memory it leaves.                                                   *)
(***************************************************************************)
EXTENDS Integers, Sequences, SequencesExt, FiniteSetsExt

CONSTANTS
  WordBits,       \* width of a word
  Addresses       \* 0 .. n, the addresses there are

ASSUME WordAssumption == WordBits \in Nat /\ Addresses = 0 .. Max(Addresses)

Word(n) == n % 2 ^ WordBits
Absent == <<>>          \* a table pointer that is null
Symbol(symtab, i) == IF i < Len(symtab) THEN symtab[i + 1] ELSE 0

----------------------------------------------------------------------------
(* elf_loader_reloc.cpp                                                    *)

\* A symbol of value 0 is undefined, and its value is 0 whatever the base.
get_symbol_value(value, base) == IF value = 0 THEN 0 ELSE Word(value + base)

\* One entry of the table.  An entry of an unknown type ends the loop.
Relocate(st, rel, symtab, base) ==
  LET at    == rel.offset + base
      value == get_symbol_value(Symbol(symtab, rel.sym), base)
      put(w) == [st EXCEPT !.mem[at] = w]
  IN  CASE ~st.ok                                          -> st
        [] st.ok /\ rel.type = "NONE"                      -> st
        [] st.ok /\ rel.type \in {"32", "GLOB_DAT", "JMP_SLOT"} -> put(value)
        [] st.ok /\ rel.type = "PC32"                      -> put(Word(value - at))
        [] st.ok /\ rel.type = "RELATIVE"                  -> put(Word(st.mem[at] + base))
        [] OTHER                                           -> [st EXCEPT !.ok = FALSE]

process_relocations(st, rels, symtab, base) ==
  FoldLeft(LAMBDA s, rel : Relocate(s, rel, symtab, base), st, rels)

\* What process_dynamic finds in the dynamic table: the last entry of a tag.
Tags(dynamic) == {dynamic[i].tag : i \in DOMAIN dynamic}
LastOf(dynamic, tag) ==
  FoldLeft(LAMBDA found, d : IF d.tag = tag THEN d ELSE found,
           [tag |-> tag, ptr |-> 0, count |-> 0], dynamic)

\* The table whose pointer has the tag.  A pointer of the dynamic table is an
\* address of the loaded image; the code takes it for an offset in the file.
\* Zeros read as relocations of type NONE and as undefined symbols.
TableAt(file, tag) ==
  LET ptr == LastOf(file.dynamic, tag).ptr
  IN  IF ptr \in DOMAIN file.tables THEN file.tables[ptr] ELSE <<>>

\* The first count entries of the table of the tag, when all parts are there.
DynamicTable(st, file, tag, count, base) ==
  LET rel == TableAt(file, tag)
      n   == LastOf(file.dynamic, count).count
  IN  IF st.ok /\ n > 0 /\ {tag, "SYMTAB", "STRTAB"} \subseteq Tags(file.dynamic)
        THEN process_relocations(st, SubSeq(rel, 1, Min({n, Len(rel)})),
                                 TableAt(file, "SYMTAB"), base)
        ELSE st

\* Mutant: the table of the PLT is forgotten.
process_dynamicNoPlt(st, file, base) == DynamicTable(st, file, "REL", "RELSZ", base)

\* Both tables, REL first.
process_dynamic(st, file, base) ==
  DynamicTable(DynamicTable(st, file, "REL", "RELSZ", base),
               file, "JMPREL", "PLTRELSZ", base)

----------------------------------------------------------------------------
(* elf_loader.cpp                                                          *)

\* The rest of a PT_LOAD segment behind the file's part is cleared; PT_DYNAMIC
\* and PT_GNU_EH_FRAME are only copied, and other segments are passed over.
CopySegment(mem, seg, base) ==
  LET at(a) == a - (seg.vaddr + base)
  IN  [a \in DOMAIN mem |->
         CASE seg.type \in {"LOAD", "DYNAMIC", "EH_FRAME"} /\ at(a) \in 0 .. Len(seg.words) - 1
                -> seg.words[at(a) + 1]
           [] seg.type = "LOAD" /\ at(a) \in Len(seg.words) .. seg.memsz - 1 -> 0
           [] OTHER -> mem[a]]

\* The last symbol table among the sections, whichever the relocations link to.
SymbolTable(sections) ==
  FoldLeft(LAMBDA found, s : IF s.type = "SYMTAB" THEN s ELSE found,
           [type |-> "NULL", link |-> 0, table |-> Absent], sections)

\* strtab stays from an earlier symbol table when the last one's link is
\* out of range.
StringTable(sections) ==
  \E i \in DOMAIN sections :
    sections[i].type = "SYMTAB" /\ sections[i].link < Len(sections)

\* The relocation sections, in order, whether or not process_dynamic has
\* applied the same table already.
RelocateSections(st, sections, base) ==
  IF SymbolTable(sections).table = Absent \/ ~StringTable(sections) THEN st
  ELSE FoldLeft(LAMBDA s, sec : IF s.ok /\ sec.type = "REL"
                                  THEN process_relocations(s, sec.table, SymbolTable(sections).table, base)
                                  ELSE s,
                st, sections)

Accepted(file) == file.complete /\ file.magic /\ file.type \in {"EXEC", "DYN"}

load_elf(file, base, mem) ==
  IF ~Accepted(file) THEN [ok |-> FALSE, mem |-> mem]
  ELSE LET copied  == [ok  |-> TRUE,
                       mem |-> FoldLeft(LAMBDA m, seg : CopySegment(m, seg, base), mem, file.segments)]
           dynamic == IF file.type = "DYN" /\ \E i \in DOMAIN file.segments :
                                                 file.segments[i].type = "DYNAMIC"
                        THEN process_dynamic(copied, file, base) ELSE copied
       IN  IF dynamic.ok THEN RelocateSections(dynamic, file.sections, base) ELSE dynamic
============================================================================
