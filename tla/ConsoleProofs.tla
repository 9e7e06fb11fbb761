--------------------------- MODULE ConsoleProofs ---------------------------
(* The cursor of the console stays on the screen, for every size of screen. *)
EXTENDS Console, TLAPS

\* A screen whose cursor may be one step outside, as between the parts of
\* putchar.
Loose(x, y) == [videoMemory : [Cells -> Glyphs \cup {Blank}], cursorX : x, cursorY : y]

\* cursorY * VGA_WIDTH + cursorX is a cell when the cursor is on the screen.
LEMMA CursorCell ==
  ASSUME NEW x \in 0 .. VGA_WIDTH - 1, NEW y \in 0 .. VGA_HEIGHT - 1
  PROVE  y * VGA_WIDTH + x \in Cells
<1>1. y <= VGA_HEIGHT - 1 /\ x <= VGA_WIDTH - 1 /\ x \in Nat /\ y \in Nat
      /\ VGA_WIDTH \in Nat /\ VGA_HEIGHT \in Nat
  BY ConsoleAssumption
<1>2. y * VGA_WIDTH <= (VGA_HEIGHT - 1) * VGA_WIDTH
  BY <1>1
<1>3. (VGA_HEIGHT - 1) * VGA_WIDTH = VGA_WIDTH * VGA_HEIGHT - VGA_WIDTH
  BY <1>1
<1>4. y * VGA_WIDTH \in Nat /\ VGA_WIDTH * VGA_HEIGHT \in Nat
  BY <1>1
<1> QED BY <1>1, <1>2, <1>3, <1>4 DEF Cells

\* What one character does to a screen before the line is wrapped: a glyph is
\* written to the cursor's cell, the column grows or returns to 0, and the row
\* grows by at most 1 and only with the column at 0.
LEMMA AdvanceLoose ==
  ASSUME NEW s \in Loose(0 .. VGA_WIDTH - 1, 0 .. VGA_HEIGHT - 1), NEW c \in Chars
  PROVE  \/ Advance(s, c) \in Loose(Nat, 0 .. VGA_HEIGHT - 1)
         \/ Advance(s, c) \in Loose({0}, 0 .. VGA_HEIGHT)
<1> DEFINE p == s.cursorY * VGA_WIDTH + s.cursorX
<1>1. /\ s.cursorX \in 0 .. VGA_WIDTH - 1
      /\ s.cursorY \in 0 .. VGA_HEIGHT - 1
      /\ s.videoMemory \in [Cells -> Glyphs \cup {Blank}]
      /\ s = [videoMemory |-> s.videoMemory, cursorX |-> s.cursorX, cursorY |-> s.cursorY]
  BY DEF Loose
<1>2. p \in Cells
  BY <1>1, CursorCell
<1>3. CASE c = "NL"
  <2>0. c \notin Glyphs
    BY <1>3, ConsoleAssumption
  <2>1. Advance(s, c) = [s EXCEPT !.cursorX = 0, !.cursorY = s.cursorY + 1]
    BY <1>3, <2>0 DEF Advance
  <2>2. s.cursorY + 1 \in 0 .. VGA_HEIGHT
    BY <1>1, ConsoleAssumption
  <2> QED BY <2>1, <2>2, <1>1 DEF Loose
<1>4. CASE c = "CR"
  <2>0. c \notin Glyphs
    BY <1>4, ConsoleAssumption
  <2>1. Advance(s, c) = [s EXCEPT !.cursorX = 0]
    BY <1>4, <2>0 DEF Advance
  <2> QED BY <2>1, <1>1 DEF Loose
<1>5. CASE c = "TAB"
  <2>0. c \notin Glyphs
    BY <1>5, ConsoleAssumption
  <2>1. Advance(s, c) = [s EXCEPT !.cursorX = s.cursorX + TabStop - (s.cursorX % TabStop)]
    BY <1>5, <2>0 DEF Advance
  <2>2. s.cursorX + TabStop - (s.cursorX % TabStop) \in Nat
    BY <1>1, ConsoleAssumption
  <2> QED BY <2>1, <2>2, <1>1 DEF Loose
<1>6. CASE c \in Glyphs
  <2>1. c # "NL" /\ c # "CR" /\ c # "TAB"
    BY <1>6, ConsoleAssumption
  <2>2. Advance(s, c) = [s EXCEPT !.videoMemory = [s.videoMemory EXCEPT ![p] = c],
                                  !.cursorX = s.cursorX + 1]
    BY <1>2, <1>6, <2>1 DEF Advance
  <2>3. [s.videoMemory EXCEPT ![p] = c] \in [Cells -> Glyphs \cup {Blank}]
    BY <1>1, <1>6
  <2>4. s.cursorX + 1 \in Nat
    BY <1>1, ConsoleAssumption
  <2> QED BY <2>2, <2>3, <2>4, <1>1 DEF Loose
<1> QED BY <1>3, <1>4, <1>5, <1>6 DEF Chars

\* After the wrap the column is on the screen and the row at most one below it.
LEMMA WrapRow ==
  ASSUME NEW s, \/ s \in Loose(Nat, 0 .. VGA_HEIGHT - 1)
                \/ s \in Loose({0}, 0 .. VGA_HEIGHT)
  PROVE  Wrap(s) \in Loose(0 .. VGA_WIDTH - 1, 0 .. VGA_HEIGHT)
<1>1. /\ s.videoMemory \in [Cells -> Glyphs \cup {Blank}]
      /\ s = [videoMemory |-> s.videoMemory, cursorX |-> s.cursorX, cursorY |-> s.cursorY]
      /\ s.cursorX \in Nat
      /\ s.cursorY \in 0 .. VGA_HEIGHT
      /\ s.cursorX # 0 => s.cursorY \in 0 .. VGA_HEIGHT - 1
  BY ConsoleAssumption DEF Loose
<1>2. CASE s.cursorX >= VGA_WIDTH
  <2>1. Wrap(s) = [s EXCEPT !.cursorX = 0, !.cursorY = s.cursorY + 1]
    BY <1>2 DEF Wrap
  <2>2. s.cursorY + 1 \in 0 .. VGA_HEIGHT /\ 0 \in 0 .. VGA_WIDTH - 1
    BY <1>1, <1>2, ConsoleAssumption
  <2> QED BY <2>1, <2>2, <1>1 DEF Loose
<1>3. CASE ~(s.cursorX >= VGA_WIDTH)
  <2>1. Wrap(s) = s
    BY <1>3 DEF Wrap
  <2>2. s.cursorX \in 0 .. VGA_WIDTH - 1
    BY <1>1, <1>3, ConsoleAssumption
  <2> QED BY <2>1, <2>2, <1>1 DEF Loose
<1> QED BY <1>2, <1>3

\* Scrolling brings the row back to the last one.
LEMMA ScrollRow ==
  ASSUME NEW s \in Loose(0 .. VGA_WIDTH - 1, 0 .. VGA_HEIGHT)
  PROVE  Scroll(s) \in Loose(0 .. VGA_WIDTH - 1, 0 .. VGA_HEIGHT - 1)
<1> DEFINE m == [p \in Cells |->
                   IF p + VGA_WIDTH \in Cells THEN s.videoMemory[p + VGA_WIDTH] ELSE Blank]
<1>1. /\ s.videoMemory \in [Cells -> Glyphs \cup {Blank}]
      /\ s.cursorX \in 0 .. VGA_WIDTH - 1
      /\ s = [videoMemory |-> s.videoMemory, cursorX |-> s.cursorX, cursorY |-> s.cursorY]
  BY DEF Loose
<1>2. m \in [Cells -> Glyphs \cup {Blank}]
  BY <1>1
<1>3. VGA_HEIGHT - 1 \in 0 .. VGA_HEIGHT - 1
  BY ConsoleAssumption
<1>4. Scroll(s) = [s EXCEPT !.videoMemory = m, !.cursorY = VGA_HEIGHT - 1]
  BY DEF Scroll
<1> QED BY <1>1, <1>2, <1>3, <1>4 DEF Loose

\* One call of putchar keeps the cursor on the screen.
LEMMA PutcharOnScreen ==
  ASSUME NEW s \in Loose(0 .. VGA_WIDTH - 1, 0 .. VGA_HEIGHT - 1), NEW c \in Chars
  PROVE  Putchar(s, c) \in Loose(0 .. VGA_WIDTH - 1, 0 .. VGA_HEIGHT - 1)
<1> DEFINE w == Wrap(Advance(s, c))
<1>1. w \in Loose(0 .. VGA_WIDTH - 1, 0 .. VGA_HEIGHT)
  BY AdvanceLoose, WrapRow
<1>2. CASE w.cursorY >= VGA_HEIGHT
  BY <1>1, <1>2, ScrollRow DEF Putchar
<1>3. CASE ~(w.cursorY >= VGA_HEIGHT)
  <2>1. Putchar(s, c) = w
    BY <1>3 DEF Putchar
  <2>2. w.cursorY \in 0 .. VGA_HEIGHT - 1
    BY <1>1, <1>3, ConsoleAssumption DEF Loose
  <2> QED BY <1>1, <2>1, <2>2 DEF Loose
<1> QED BY <1>2, <1>3

\* Whatever is written, the cursor stays on the screen: Console::putchar never
\* drops a glyph and never writes outside the video memory.
THEOREM OnScreenHolds == ConsoleSpec => []OnScreen
<1>1. OnScreen <=> screen \in Loose(0 .. VGA_WIDTH - 1, 0 .. VGA_HEIGHT - 1)
  BY DEF OnScreen, Loose
<1>2. ConsoleInit => OnScreen
  BY ConsoleAssumption DEF ConsoleInit, Clear, OnScreen
<1>3. OnScreen /\ [ConsoleNext]_screen => OnScreen'
  <2> SUFFICES ASSUME OnScreen, [ConsoleNext]_screen
               PROVE  OnScreen'
    OBVIOUS
  <2>1. CASE ConsoleNext
    <3>1. PICK c \in Chars : screen' = Putchar(screen, c)
      BY <2>1 DEF ConsoleNext
    <3>2. screen' \in Loose(0 .. VGA_WIDTH - 1, 0 .. VGA_HEIGHT - 1)
      BY <1>1, <3>1, PutcharOnScreen
    <3> QED BY <3>2 DEF OnScreen, Loose
  <2>2. CASE UNCHANGED screen
    BY <2>2 DEF OnScreen
  <2> QED BY <2>1, <2>2
<1> QED BY <1>2, <1>3, PTL DEF ConsoleSpec
============================================================================
