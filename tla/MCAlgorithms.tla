--------------------------- MODULE MCAlgorithms ---------------------------
(* 8-bit longs and words; a directive with every mix of flags, width,      *)
(* precision and conversion; dumps of up to 33 bytes; images of three LOAD *)
(* segments, the last with the tables of the dynamic linker, and with a    *)
(* PT_DYNAMIC and a PT_GNU_EH_FRAME inside the first.                      *)
EXTENDS Algorithms

MCAddresses == 0 .. 14

Flags == {<<>>, <<"0">>, <<"-">>, <<"#">>, <<"#", "0">>, <<"-", "0">>, <<"#", "-">>}

\* A width, a precision, a length modifier, and the arguments they take.
Sizes ==
  {[chars |-> <<>>, args |-> <<>>], [chars |-> <<"6">>, args |-> <<>>],
   [chars |-> <<"*">>, args |-> <<Num(5)>>], [chars |-> <<"*">>, args |-> <<Num(-3)>>],
   [chars |-> <<"1", "0", "l">>, args |-> <<>>],
   [chars |-> <<".", "2", "h", "h">>, args |-> <<>>],
   [chars |-> <<"5", ".", "*">>, args |-> <<Num(4)>>], [chars |-> <<"6", ".">>, args |-> <<>>]}

Conversion(types, values) == {[type |-> t, args |-> <<v>>] : t \in types, v \in values}

MCConversions ==
  Conversion({"d", "u", "x", "X", "o"}, {Num(n) : n \in {0, 9, 93, -9, -128}})
  \cup Conversion({"p"}, {Num(0), Num(255)})
  \cup Conversion({"s"}, {Str(<<>>), Str(<<"y", "e", "s">>),
                        Str(<<"%", "d", "!", "!", "!", "!", "!">>), Str(Null)})
  \cup Conversion({"c"}, {Str(<<"q">>)})
  \cup {[type |-> "%", args |-> <<>>], [type |-> "z", args |-> <<>>]}

MCFormats ==
  {[before |-> <<"=">>, spec |-> fl \o w.chars, type |-> c.type, after |-> <<"x", ":">>,
    args |-> w.args \o c.args] : fl \in Flags, w \in Sizes, c \in MCConversions}

\* Bytes at both ends of the printable range.
MCDumps == {[i \in 1 .. n |-> (k * i + 31) % 256] : n \in 0 .. 33, k \in {1, 95}}

Segment(type, vaddr, words, memsz) ==
  [type |-> type, vaddr |-> vaddr, offset |-> vaddr, words |-> words, memsz |-> memsz]
Load1 == Segment("LOAD", 1, <<5, 0, 250, 0>>, 4)
Load2 == Segment("LOAD", 6, <<0>>, 3)
Dyn1  == Segment("DYNAMIC", 2, <<0, 250>>, 2)
Eh1   == Segment("EH_FRAME", 1, <<5>>, 1)
Note1 == Segment("NOTE", 5, <<4>>, 1)
\* the segment of the tables, at an offset of the file that is its address or not
Load3(offset) == [Segment("LOAD", 9, <<31, 32, 33, 34>>, 4) EXCEPT !.offset = offset]

MCRels ==
  {[offset |-> o, type |-> t, sym |-> 1] : o \in {2, 3}, t \in {"32", "PC32", "GLOB_DAT", "RELATIVE"}}
  \cup {[offset |-> 6, type |-> t, sym |-> s] : s \in {0, 1, 2}, t \in {"JMP_SLOT", "32"}}
  \cup {[offset |-> 6, type |-> t, sym |-> 0] : t \in {"NONE", "GOT32"}}
Tables == {<<>>} \cup {<<r>> : r \in MCRels}
Symbols == <<0, 6, 253>>
Strings == <<"names">>

\* The dynamic table names its tables in any order and ends in DT_NULL.
Dynamic(rel, plt) ==
  <<[tag |-> "PLTRELSZ", ptr |-> 0, count |-> Len(plt)],
    [tag |-> "STRTAB", ptr |-> 12, count |-> 0],
    [tag |-> "REL", ptr |-> 9, count |-> 0], [tag |-> "JMPREL", ptr |-> 10, count |-> 0],
    [tag |-> "SYMTAB", ptr |-> 11, count |-> 0],
    [tag |-> "RELSZ", ptr |-> 0, count |-> Len(rel)], [tag |-> "NULL", ptr |-> 0, count |-> 0]>>
TablesFrom(offset, rel, plt) ==
  [o \in offset .. offset + 3 |-> CASE o = offset -> rel [] o = offset + 1 -> plt
                                    [] o = offset + 2 -> Symbols [] OTHER -> Strings]

\* The relocations link to the symbol table, or to the dynamic symbols.
SectionsOf(rel, link) ==
  <<[type |-> "NULL", link |-> 0, table |-> <<>>], [type |-> "REL", link |-> link, table |-> rel],
    [type |-> "SYMTAB", link |-> 3, table |-> Symbols], [type |-> "STRTAB", link |-> 0, table |-> <<>>],
    [type |-> "DYNSYM", link |-> 3, table |-> <<0, 8, 9>>]>>

File(type, segments, dynamic, tables, sections) ==
  [complete |-> TRUE, magic |-> TRUE, type |-> type, segments |-> segments,
   dynamic |-> dynamic, tables |-> tables, sections |-> sections]

Layouts == {<<Load1, Load2, Dyn1, Eh1, Note1>>, <<Dyn1, Note1, Eh1, Load2, Load1>>}
Plain == File("EXEC", <<Load1, Load2>>, <<>>, <<>>, <<>>)

MCFiles ==
  {File("DYN", Append(l, Load3(o)), Dynamic(r, p), TablesFrom(o, r, p), <<>>) :
     l \in Layouts, r \in Tables, p \in Tables, o \in {9, 13}}
  \cup {File(t, Append(l, Load3(9)), Dynamic(r, <<>>), TablesFrom(9, r, <<>>), SectionsOf(s, k)) :
          t \in {"EXEC", "DYN"}, l \in Layouts, r \in Tables, s \in Tables, k \in {2, 4}}
  \cup {[Plain EXCEPT !.complete = c, !.magic = m, !.type = t] :
          c \in BOOLEAN, m \in BOOLEAN, t \in {"NONE", "REL", "EXEC", "DYN", "CORE"}}
============================================================================
