---------------------------- MODULE Algorithms ----------------------------
(***************************************************************************)
(* The conversions of the kernel that compute a result and keep no state:  *)
(* the formatter, the hex dump and the ELF loader, called with every input *)
(* of a bounded set and compared with what the result is for.              *)
(***************************************************************************)
EXTENDS Formatter, ElfLoader

CONSTANTS
  Buffers,       \* buffer sizes
  Formats,       \* calls [before, spec, type, after, args] of format_string
  Dumps,         \* byte sequences given to hexdump
  Files,         \* files given to load_elf
  Bases          \* base addresses

VARIABLE probe   \* the last call and its result

Idle == [kind |-> "idle"]
Ample == 64      \* a buffer in which every text of Formats fits
OldMemory == [a \in Addresses |-> Word(7 * a + 1)]

FormatOf(c) == c.before \o <<"%">> \o c.spec \o <<c.type>> \o c.after

Format ==
  \E size \in Buffers, c \in Formats :
    probe' = [kind |-> "format", size |-> size, call |-> c,
              result |-> format_string_v(size, FormatOf(c), c.args)]

Dump == \E data \in Dumps : probe' = [kind |-> "dump", data |-> data, lines |-> hexdump(data)]

\* sys_execve's call, and the return it makes of a refused file.
Load ==
  \E file \in Files, base \in Bases :
    probe' = [kind |-> "load", file |-> file, base |-> base,
              result |-> load_elf(file, base, OldMemory)]

Return == probe # Idle /\ probe' = Idle

Init == probe = Idle
Next == Return \/ (probe = Idle /\ (Format \/ Dump \/ Load))
Spec == Init /\ [][Next]_probe

----------------------------------------------------------------------------
(* The formatter.                                                          *)

AmpleText(c) == format_string_v(Ample, FormatOf(c), c.args).text

\* Whatever the buffer's size, format_string_v stores and counts no cell
\* behind the buffer, ends the text inside it, and the text is the beginning
\* of the one a larger buffer would get.  It is the NUL over the last cell
\* that hides the digit format_hex writes in place of half a prefix.
TruncatesText ==
  probe.kind = "format" =>
    /\ probe.result.length <= probe.size
    /\ Len(probe.result.text) <= Max({0, probe.size - 1})
    /\ IsPrefix(probe.result.text, AmpleText(probe.call))

\* The field of a text: what lies between the call's fixed parts.
FieldText(c) ==
  LET t == AmpleText(c)
  IN  SubSeq(t, Len(c.before) + 1, Len(t) - Len(c.after))

Trim(t) == SelectSeq(t, LAMBDA ch : ch # " ")

DigitValue(ch) == CHOOSE d \in 0 .. 15 : ch \in {LowerDigits[d + 1], UpperDigits[d + 1]}
ValueOf(ds, base) == FoldLeft(LAMBDA v, ch : v * base + DigitValue(ch), 0, ds)

\* The number that a field without blanks shows is the value, with its sign and its prefix.
Reads(t, f, value) ==
  LET all(ds) == ds # <<>> /\ \A i \in DOMAIN ds : ds[i] \in Range(LowerDigits) \cup Range(UpperDigits)
      neg     == t # <<>> /\ t[1] = "-"
      skip    == IF f.type \in {"x", "X"} /\ f.alternative THEN 2 ELSE IF neg THEN 1 ELSE 0
      ds      == Drop(t, skip)
  IN  /\ all(ds)
      /\ CASE f.type = "d"        -> value = (IF neg THEN -1 ELSE 1) * ValueOf(ds, 10)
           [] f.type = "u"        -> Unsigned(value) = ValueOf(ds, 10)
           [] f.type = "o"        -> Unsigned(value) = ValueOf(ds, 8)
           [] OTHER -> /\ Unsigned(value) = ValueOf(ds, 16)
                       /\ f.alternative => SubSeq(t, 1, 2) = <<"0", IF f.type = "X" THEN "X" ELSE "x">>

\* The field t shows the value the way the flags f ask.
Shows(t, f, value) ==
  LET n    == Len(Trim(t))
      from == IF f.left_align THEN 1 ELSE Len(t) - n + 1
  IN  /\ SubSeq(t, from, from + n - 1) = Trim(t)
      /\ Reads(Trim(t), f, value)
      /\ \/ Len(t) = Max({n, f.width})
         \/ f.type = "o" /\ f.alternative
         \/ /\ f.type \in {"x", "X"}
            /\ f.precision > Len(Digits(Unsigned(value), 16, LowerDigits))

\* A number formatted with any flags, width and precision is read back from
\* its field; blanks stand only on the side the alignment asks for, and the
\* field is as wide as asked unless the number is longer.  The smallest long
\* is left out, and the width where the code does not keep it: a hex number
\* with more digits of precision than of its own, an octal one with #.
NumbersReadBack ==
  (probe.kind = "format" /\ probe.call.type \in {"d", "u", "x", "X", "o"}) =>
    LET c == probe.call
        d == parse_format_flags(Append(c.spec, c.type), c.args)
    IN  \/ c.type = "d" /\ Head(d.args).num = MinLong
        \/ Shows(FieldText(c), d.flags, Head(d.args).num)

\* Every line of a hex dump fits in line[78] with its NUL, however many bytes
\* the last one has, and the bytes are read back from the lines, in order.
DumpReadsBack ==
  probe.kind = "dump" =>
    LET lines  == probe.lines
        column(i) == 11 + 3 * i + IF i > 7 THEN 1 ELSE 0
        byte(k) == SubSeq(lines[(k \div LineWidth) + 1], column(k % LineWidth), column(k % LineWidth) + 1)
    IN  /\ \A k \in DOMAIN lines :
             /\ Len(lines[k]) + 1 <= LineSize
             /\ ValueOf(SubSeq(lines[k], 1, 8), 16) = LineWidth * (k - 1)
        /\ \A k \in 0 .. Len(probe.data) - 1 : ValueOf(byte(k), 16) = probe.data[k + 1]

----------------------------------------------------------------------------
(* The loader.                                                             *)

\* What the file says lies at an address: of a segment, or what was there.
InSegment(seg, base, a) == seg.type = "LOAD" /\ a - (seg.vaddr + base) \in 0 .. seg.memsz - 1
FileWord(seg, base, a) ==
  LET i == a - (seg.vaddr + base) + 1
  IN  IF i <= Len(seg.words) THEN seg.words[i] ELSE 0
Unrelocated(file, base, a) ==
  LET segs == {seg \in Range(file.segments) : InSegment(seg, base, a)}
  IN  IF segs = {} THEN OldMemory[a] ELSE FileWord(CHOOSE seg \in segs : TRUE, base, a)

\* The file's offset of an address: that of the LOAD segment the address is in.
OffsetOf(file, ptr) ==
  LET seg == CHOOSE seg \in Range(file.segments) : InSegment(seg, 0, ptr)
  IN  seg.offset + ptr - seg.vaddr
Ptr(file, tag) == LastOf(file.dynamic, tag).ptr
TableOf(file, tag) == file.tables[OffsetOf(file, Ptr(file, tag))]

\* The relocations the file asks for, each with the value of its symbol: those
\* of the dynamic table when there is one, and those of the sections, with the
\* symbols of the section that their section links to.
With(rels, symtab) ==
  [i \in DOMAIN rels |-> [rel |-> rels[i], value |-> symtab[rels[i].sym + 1]]]
DynamicRels(file) ==
  IF file.type # "DYN" \/ file.dynamic = <<>> THEN <<>>
  ELSE With(TableOf(file, "REL") \o TableOf(file, "JMPREL"), TableOf(file, "SYMTAB"))
SectionRels(file) ==
  LET rels(s) == IF s.type # "REL" THEN <<>>
                 ELSE With(s.table, file.sections[s.link + 1].table)
  IN  FlattenSeq([i \in DOMAIN file.sections |-> rels(file.sections[i])])
Rels(file) == DynamicRels(file) \o SectionRels(file)

\* The relocations in front of the first one of a type that is not known.
Known(rels) ==
  LET i == SelectInSeq(rels, LAMBDA r : r.rel.type = "GOT32")
  IN  IF i = 0 THEN rels ELSE SubSeq(rels, 1, i - 1)
RelsAt(file, base, a) ==
  SelectSeq(Known(Rels(file)), LAMBDA r : r.rel.offset + base = a /\ r.rel.type # "NONE")

\* The ABI's value of a relocated word with addend A at P.
Relocated(r, base, A, P) ==
  LET S == IF r.value = 0 THEN 0 ELSE r.value + base
  IN  CASE r.rel.type = "RELATIVE"               -> Word(base + A)
        [] r.rel.type \in {"GLOB_DAT", "JMP_SLOT"} -> Word(S)
        [] r.rel.type = "32"                     -> Word(S + A)
        [] r.rel.type = "PC32"                   -> Word(S + A - P)

\* The files whose tables load_elf finds: the address of each dynamic table is
\* also its offset in the file, and relocation sections link to the last
\* SYMTAB, not to an earlier one or to a DYNSYM.
TablesFound(file) ==
  /\ \A tag \in Tags(file.dynamic) \cap {"REL", "JMPREL", "SYMTAB"} :
       OffsetOf(file, Ptr(file, tag)) = Ptr(file, tag)
  /\ \A i \in DOMAIN file.sections : file.sections[i].type = "REL" =>
       LET link == file.sections[i].link + 1
       IN  /\ file.sections[link].type = "SYMTAB"
           /\ \A k \in link + 1 .. Len(file.sections) : file.sections[k].type # "SYMTAB"

\* load_elf ignores the addend of R_386_32 and R_386_PC32, and a table that
\* is both dynamic and a section is applied twice: such words are left out.
Specified(file, base, a) ==
  LET rs == RelsAt(file, base, a)
      A  == Unrelocated(file, base, a)
  IN  /\ \A i, j \in DOMAIN rs : rs[i] = rs[j]
      /\ Len(rs) > 1 => base = 0 \/ rs[1].rel.type # "RELATIVE"
      /\ rs # <<>> /\ rs[1].rel.type \in {"32", "PC32"} => A = 0

\* load_elf accepts a file with the right header and no unknown relocation.
\* Every word of memory is then what the file and the ABI say: the segments'
\* words and cleared tails at their addresses whatever the order of the
\* segments, each relocated word relocated by the table that names it, and
\* everything else as it was.  A file with a bad header leaves memory alone.
\* An unknown relocation is not undone: the image of the program that called
\* execve is gone, with exactly the relocations before that one applied to the
\* new one.  This is about the files whose tables load_elf finds.
ImageExact ==
  (probe.kind = "load" /\ TablesFound(probe.file)) =>
    LET file == probe.file
        base == probe.base
    IN  /\ probe.result.ok <=> Accepted(file) /\ Known(Rels(file)) = Rels(file)
        /\ ~Accepted(file) => probe.result.mem = OldMemory
        /\ Accepted(file) => \A a \in Addresses :
             Specified(file, base, a) =>
               LET rs == RelsAt(file, base, a)
                   A  == Unrelocated(file, base, a)
               IN  probe.result.mem[a] = IF rs = <<>> THEN A ELSE Relocated(rs[1], base, A, a)
============================================================================
