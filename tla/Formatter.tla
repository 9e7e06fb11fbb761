---------------------------- MODULE Formatter ----------------------------
(***************************************************************************)
(* format_string_v and hexdump (lib/debug.cpp), behind every message of    *)
(* the kernel.                                                             *)
(*                                                                         *)
(* A text is a sequence of one-character strings.  `out' is what lies      *)
(* between buffer and p, so that p < end is Len(out) < size.  Almost every *)
(* loop of the code tests p < end before each character; text written by   *)
(* such loops goes through Write, which cuts it at the end of the buffer,  *)
(* and a field is then just the text it would be in an endless one.  The   *)
(* prefix of format_hex is the exception: one test for two characters.     *)
(*                                                                         *)
(* An argument is [num, str]: its value as a number, and as the text of a  *)
(* string or the one character of a char; a conversion looks at one of     *)
(* them.  A format ends outside a directive (no call in the kernel has one *)
(* that ends in %), and has as many arguments as it asks for.              *)
(***************************************************************************)
EXTENDS Integers, Sequences, SequencesExt, FiniteSetsExt, TLC

CONSTANT LongBits      \* width of a long

ASSUME LongAssumption == LongBits \in Nat \ {0}

MinLong == -(2 ^ (LongBits - 1))
NUL == "NUL"
Null == <<"null pointer">>

Num(n) == [num |-> n, str |-> <<>>]
Str(s) == [num |-> 0, str |-> s]
NoArgument == Num(0)

\* What digits[] yields for a negative index: a byte that lies before it.
Junk == "junk"

LowerDigits == <<"0", "1", "2", "3", "4", "5", "6", "7",
                 "8", "9", "a", "b", "c", "d", "e", "f">>
UpperDigits == <<"0", "1", "2", "3", "4", "5", "6", "7",
                 "8", "9", "A", "B", "C", "D", "E", "F">>
DecimalDigits == {LowerDigits[i] : i \in 1 .. 10}

Fill(c, n) == [i \in 1 .. n |-> c]

\* while (... && p < end) *p++ = ...
Write(out, size, text) ==
  out \o SubSeq(text, 1, Min({Len(text), Max({0, size - Len(out)})}))

\* The digits of a number, which every formatter produces last one first.
RECURSIVE Digits(_, _, _)
Digits(val, base, chars) ==
  IF val < base THEN <<chars[val + 1]>>
                ELSE Append(Digits(val \div base, base, chars), chars[(val % base) + 1])

Unsigned(value) == value % 2 ^ LongBits

----------------------------------------------------------------------------
(* parse_format_flags.  f is the format behind the %.                      *)

At(f) == IF f = <<>> THEN NUL ELSE Head(f)

Drop(f, n) == SubSeq(f, n + 1, Len(f))

\* How many characters at the front of f are in S.
RunLength(f, S) == Min({i \in 1 .. Len(f) + 1 : i > Len(f) \/ f[i] \notin S}) - 1

NumberOf(ds) ==
  FoldLeft(LAMBDA v, c : v * 10 + (CHOOSE d \in 0 .. 9 : LowerDigits[d + 1] = c), 0, ds)

\* A width or a precision: digits, or the next argument, or neither.
ReadNumber(f, args) ==
  LET n == RunLength(f, DecimalDigits)
  IN  CASE n > 0       -> [value |-> NumberOf(SubSeq(f, 1, n)), rest |-> Drop(f, n), args |-> args]
        [] At(f) = "*" -> [value |-> Head(args).num, rest |-> Tail(f), args |-> Tail(args)]
        [] OTHER       -> [value |-> 0, rest |-> f, args |-> args]

\* l, ll, h or hh
LengthModifier(f) ==
  IF At(f) \notin {"l", "h"} THEN 0
  ELSE IF Len(f) > 1 /\ f[2] = f[1] THEN 2 ELSE 1

Precision(width) ==
  IF At(width.rest) = "." THEN ReadNumber(Tail(width.rest), width.args)
                          ELSE [width EXCEPT !.value = -1]

\* f has n flags; width and prec are the numbers read behind them.
Directive(f, n, width, prec) ==
  LET conv == Drop(prec.rest, LengthModifier(prec.rest))
  IN  [flags |-> [width        |-> width.value,
                  precision    |-> prec.value,
                  alternative  |-> \E i \in 1 .. n : f[i] = "#",
                  zero_padding |-> \E i \in 1 .. n : f[i] = "0",
                  left_align   |-> \E i \in 1 .. n : f[i] = "-",
                  type         |-> At(conv)],
       rest  |-> Tail(conv),
       args  |-> prec.args]

parse_format_flags(f, args) ==
  LET n     == RunLength(f, {"#", "0", "-"})
      width == ReadNumber(Drop(f, n), args)
  IN  Directive(f, n, width, Precision(width))

----------------------------------------------------------------------------
(* The fields.                                                             *)

apply_padding(len, flags) ==
  IF flags.left_align THEN <<>>
  ELSE Fill(IF flags.zero_padding THEN "0" ELSE " ", flags.width - len)

apply_post_padding(len, flags) ==
  IF flags.left_align THEN Fill(" ", flags.width - len) ELSE <<>>

\* The sign comes before zeros and behind blanks.  The smallest long has no
\* negative: its remainders are negative and index what lies before digits[].
IntegerDigits(value) ==
  LET ds == Digits(IF value < 0 THEN -value ELSE value, 10, LowerDigits)
  IN  IF value = MinLong THEN [i \in DOMAIN ds |-> IF ds[i] = "0" THEN "0" ELSE Junk]
                         ELSE ds

format_integerLateSign(value, flags) ==
  LET sign   == IF value < 0 THEN <<"-">> ELSE <<>>
      digits == IntegerDigits(value)
      len    == Len(sign) + Len(digits)
  IN  apply_padding(len, flags) \o sign \o digits \o apply_post_padding(len, flags)

format_integer(value, flags) ==
  LET sign   == IF value < 0 THEN <<"-">> ELSE <<>>
      digits == IntegerDigits(value)
      len    == Len(sign) + Len(digits)
      pad    == apply_padding(len, flags)
  IN  (IF flags.zero_padding /\ ~flags.left_align THEN sign \o pad ELSE pad \o sign)
      \o digits \o apply_post_padding(len, flags)

format_unsigned(value, flags) ==
  LET digits == Digits(value, 10, LowerDigits)
  IN  apply_padding(Len(digits), flags) \o digits \o apply_post_padding(Len(digits), flags)

\* The leading zeros of a precision are counted twice in the total length.
\* The prefix is left out when it does not fit whole.
HexField(out, size, value, flags, needed) ==
  LET num    == Digits(value, 16, IF flags.type = "X" THEN UpperDigits ELSE LowerDigits)
      n      == Len(num)
      prefix == IF flags.alternative THEN 2 ELSE 0
      zeros  == IF flags.precision > n THEN flags.precision - n
                ELSE IF flags.zero_padding /\ ~flags.left_align
                       THEN Max({0, flags.width - n - prefix}) ELSE 0
      total  == Max({n, flags.precision}) + prefix + zeros
      spaces == Fill(" ", flags.width - total)
      a      == IF flags.left_align THEN out ELSE Write(out, size, spaces)
      b      == IF flags.alternative /\ Len(a) + needed <= size
                  THEN a \o <<"0", IF flags.type = "X" THEN "X" ELSE "x">> ELSE a
      c      == Write(b, size, Fill("0", zeros) \o num)
  IN  IF flags.left_align THEN Write(c, size, spaces) ELSE c

format_hexThreeCells(out, size, value, flags) == HexField(out, size, value, flags, 3)
format_hex(out, size, value, flags) == HexField(out, size, value, flags, 2)

\* With the prefix there is no padding on the left.
format_octal(value, flags) ==
  LET digits == Digits(value, 8, LowerDigits)
      prefix == IF flags.alternative THEN <<"0">> ELSE <<>>
      len    == Len(digits) + Len(prefix)
  IN  prefix \o (IF flags.alternative THEN <<>> ELSE apply_padding(len, flags))
      \o digits \o apply_post_padding(len, flags)

format_string(s, flags) ==
  LET str == IF s = Null THEN <<"(", "n", "u", "l", "l", ")">> ELSE s
      len == IF flags.precision >= 0 THEN Min({flags.precision, Len(str)}) ELSE Len(str)
  IN  apply_padding(len, flags) \o SubSeq(str, 1, len) \o apply_post_padding(len, flags)

format_char(c, flags) == apply_padding(1, flags) \o <<c>> \o apply_post_padding(1, flags)

format_pointer(ptr) == <<"0", "x">> \o Digits(ptr, 16, LowerDigits)

----------------------------------------------------------------------------
(* format_string_v.                                                        *)

Conversions == {"d", "i", "u", "x", "X", "o", "s", "c", "p"}

\* The switch on flags.type; `arg' is the argument of a conversion.
Field(out, size, arg, flags) ==
  LET t == flags.type
  IN  CASE t \in {"d", "i"} -> Write(out, size, format_integer(arg.num, flags))
        [] t = "u"          -> Write(out, size, format_unsigned(Unsigned(arg.num), flags))
        [] t \in {"x", "X"} -> format_hex(out, size, Unsigned(arg.num), flags)
        [] t = "o"          -> Write(out, size, format_octal(Unsigned(arg.num), flags))
        [] t = "s"          -> Write(out, size, format_string(arg.str, flags))
        [] t = "c"          -> Write(out, size, format_char(arg.str[1], flags))
        [] t = "p"          -> Write(out, size, format_pointer(Unsigned(arg.num)))
        [] OTHER            -> Write(out, size, <<t>>)

RECURSIVE Scan(_, _, _, _)
Scan(f, args, out, size) ==
  IF f = <<>> \/ Len(out) >= size THEN out
  ELSE IF Head(f) # "%" THEN Scan(Tail(f), args, Append(out, Head(f)), size)
  ELSE LET d     == parse_format_flags(Tail(f), args)
           takes == d.flags.type \in Conversions
       IN  Scan(d.rest, IF takes THEN Tail(d.args) ELSE d.args,
                Field(out, size, IF takes THEN Head(d.args) ELSE NoArgument, d.flags), size)

\* What a caller sees: the length returned and the text before the NUL that
\* is stored behind the text or, when the buffer is full, over its last cell.
format_string_v(size, f, args) ==
  LET out == Scan(f, args, <<>>, size)
  IN  [length |-> Len(out), text |-> IF Len(out) < size THEN out ELSE SubSeq(out, 1, size - 1)]

----------------------------------------------------------------------------
(* hexdump.  A byte is a number; a printable one stands for its character. *)

LineWidth == 16
LineSize == 78          \* char line[78]

Glyph(b) == IF b >= 32 /\ b <= 126 THEN ToString(b) ELSE "."

\* The address has 9 cells, the last of which format_string ends with NUL.
AddressCells(address) ==
  LET t == format_string_v(9, <<"%", "0", "8", "x", ":">>, <<Num(address)>>).text
  IN  t \o Fill(" ", 9 - Len(t))

\* The i-th byte's cells (from 0), or as many blanks.
HexCells(bytes, i) ==
  (IF i < Len(bytes) THEN format_string_v(3, <<"%", "0", "2", "x">>, <<Num(bytes[i + 1])>>).text
                     ELSE format_string_v(3, <<" ", " ">>, <<>>).text)
  \o (IF i = 7 THEN <<" ">> ELSE <<>>) \o <<" ">>

LineShifted(bytes, address) ==
  AddressCells(address) \o <<" ">>
  \o FlattenSeq([k \in 1 .. LineWidth |-> HexCells(bytes, k - 1) \o IF k % 4 = 0 THEN <<" ">> ELSE <<>>])
  \o <<"|", " ">> \o [i \in 1 .. LineWidth |-> IF i <= Len(bytes) THEN Glyph(bytes[i]) ELSE " "]
Line(bytes, address) ==
  AddressCells(address) \o <<" ">>
  \o FlattenSeq([k \in 1 .. LineWidth |-> HexCells(bytes, k - 1)])
  \o <<"|", " ">> \o [i \in 1 .. LineWidth |-> IF i <= Len(bytes) THEN Glyph(bytes[i]) ELSE " "]

\* The lines handed to printf_func, 16 bytes each but for the last.
hexdump(data) ==
  [k \in 1 .. (Len(data) + LineWidth - 1) \div LineWidth |->
     LET first == (k - 1) * LineWidth
     IN  Line(SubSeq(data, first + 1, Min({first + LineWidth, Len(data)})), first)]
============================================================================
