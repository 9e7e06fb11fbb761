------------------------------ MODULE Console ------------------------------
(***************************************************************************)
(* The VGA text console (lib/console.cpp).  A screen is a value: the cells *)
(* of the video memory, row after row, and the cursor.  The colour, set    *)
(* once at boot, is left out.  Clear, Putchar and Scroll are the functions *)
(* of that name; the hardware cursor follows cursorX and cursorY.          *)
(***************************************************************************)
EXTENDS Integers

CONSTANTS
  VGA_WIDTH, VGA_HEIGHT,
  TabStop,        \* 8
  Glyphs          \* the characters that have no effect but to be shown

ASSUME ConsoleAssumption ==
  /\ VGA_WIDTH \in Nat \ {0}
  /\ VGA_HEIGHT \in Nat \ {0}
  /\ TabStop \in Nat \ {0}
  /\ {"NL", "CR", "TAB"} \cap Glyphs = {}

VARIABLE screen

Blank == "blank"
Cells == 0 .. VGA_WIDTH * VGA_HEIGHT - 1
Chars == Glyphs \cup {"NL", "CR", "TAB"}

\* Console::clear
Clear == [videoMemory |-> [p \in Cells |-> Blank], cursorX |-> 0, cursorY |-> 0]

\* Console::scroll
ScrollKeepsLast(s) ==
  [s EXCEPT !.videoMemory = [p \in Cells |->
                IF p + VGA_WIDTH \in Cells THEN s.videoMemory[p + VGA_WIDTH]
                                           ELSE s.videoMemory[p]],
            !.cursorY = VGA_HEIGHT - 1]
Scroll(s) ==
  [s EXCEPT !.videoMemory = [p \in Cells |->
                IF p + VGA_WIDTH \in Cells THEN s.videoMemory[p + VGA_WIDTH] ELSE Blank],
            !.cursorY = VGA_HEIGHT - 1]

\* The part of Console::putchar that depends on the character.  A glyph for
\* which there is no cell is dropped.
Advance(s, c) ==
  LET position == s.cursorY * VGA_WIDTH + s.cursorX
  IN  CASE c = "NL" -> [s EXCEPT !.cursorX = 0, !.cursorY = s.cursorY + 1]
        [] c = "CR" -> [s EXCEPT !.cursorX = 0]
        [] c = "TAB" -> [s EXCEPT !.cursorX = s.cursorX + TabStop - (s.cursorX % TabStop)]
        [] c \in Glyphs /\ position \in Cells ->
             [s EXCEPT !.videoMemory = [s.videoMemory EXCEPT ![position] = c],
                       !.cursorX = s.cursorX + 1]
        [] OTHER -> s

Wrap(s) == IF s.cursorX >= VGA_WIDTH
             THEN [s EXCEPT !.cursorX = 0, !.cursorY = s.cursorY + 1]
             ELSE s

\* Console::putchar
PutcharNoScroll(s, c) == Wrap(Advance(s, c))
Putchar(s, c) ==
  LET w == Wrap(Advance(s, c))
  IN  IF w.cursorY >= VGA_HEIGHT THEN Scroll(w) ELSE w

----------------------------------------------------------------------------
\* The console by itself, whoever writes to it.
ConsoleInit == screen = Clear
ConsoleNext == \E c \in Chars : screen' = Putchar(screen, c)
ConsoleSpec == ConsoleInit /\ [][ConsoleNext]_screen

\* The cursor is always on a cell of the screen, so that putchar never drops a
\* glyph and never addresses memory behind the video memory, whatever mixture
\* of glyphs, tabs, returns and line ends was written before.
OnScreen ==
  screen \in [videoMemory : [Cells -> Glyphs \cup {Blank}],
              cursorX : 0 .. VGA_WIDTH - 1, cursorY : 0 .. VGA_HEIGHT - 1]
============================================================================
