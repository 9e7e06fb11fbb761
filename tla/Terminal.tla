------------------------------ MODULE Terminal ------------------------------
(***************************************************************************)
(* Somebody types, the keyboard controller queues scan codes, and the      *)
(* shell (rootfs/init.cpp) polls them through ConsoleDevice::read, edits   *)
(* its line, echoes through ConsoleDevice::write to the Console, and runs  *)
(* the line.  The typist and the shell interleave; one turn of the shell's *)
(* inner loop is one step, because its system calls are the only ones that *)
(* take from the queue or write to the screen once init runs.              *)
(***************************************************************************)
EXTENDS Console, Keyboard, Sequences, SequencesExt

CONSTANTS
  MAX_CMD_LEN,    \* length of cmd_buf
  MAX_ARGS,       \* arguments parse_cmd stores
  Keys,           \* the keys that are typed
  FifoSize,       \* scan codes the controller holds
  MaxEvents       \* bound: presses and releases of keys

ASSUME TerminalAssumption == MAX_CMD_LEN \in Nat \ {0, 1} /\ MAX_ARGS \in Nat \ {0}

VARIABLES
  held,           \* keys that are down
  overlapped,     \* both shift keys have been down at once
  events,         \* presses and releases so far
  fifo,           \* queued scan codes, each with the character it stands for
  kb,             \* see Keyboard
  cmd_buf, n,     \* the shell's line
  lines,          \* argument lists given to execute_command
  exited,         \* the shell has returned from main
  heard,          \* characters the shell has been sent
  text            \* characters written to the console

vars == <<screen, held, overlapped, events, fifo, kb, cmd_buf, n, lines, exited,
          heard, text>>

ShiftKeys == {LeftShift, RightShift}
Prompt == <<">">>
ExitCommand == <<"A">>
Commands == {<<"a">>}                  \* registered commands

----------------------------------------------------------------------------
\* What a press stands for: the character that the tables hold for the key,
\* with or without a shift key held down.
Meaning(k) ==
  CASE k \in ShiftKeys -> NoChar
    [] k = Arrow -> extended_scancode_map(k)
    [] OTHER -> IF held \cap ShiftKeys # {} THEN shift_scancode_map(k)
                                            ELSE normal_scancode_map(k)

\* The codes of a press or release: the arrow's have a prefix.
Codes(k, bit, means) ==
  (IF k = Arrow THEN <<[code |-> Extended, means |-> NoChar]>> ELSE <<>>)
    \o <<[code |-> k + bit, means |-> means]>>

Send(codes) ==
  /\ events < MaxEvents
  /\ events' = events + 1
  /\ Len(fifo) + Len(codes) <= FifoSize
  /\ fifo' = fifo \o codes
  /\ UNCHANGED <<screen, kb, cmd_buf, n, lines, exited, heard, text>>

\* A key goes down, or repeats.
Press(k) ==
  /\ held' = held \cup {k}
  /\ overlapped' = (overlapped \/ ShiftKeys \subseteq held')
  /\ Send(Codes(k, 0, Meaning(k)))

Release(k) ==
  /\ k \in held
  /\ held' = held \ {k}
  /\ overlapped' = overlapped
  /\ Send(Codes(k, ReleaseBit, NoChar))

----------------------------------------------------------------------------
(* Running a line.                                                         *)

\* The string in a buffer: up to the first NUL.
CString(buf) ==
  LET end == CHOOSE i \in 0 .. MAX_CMD_LEN - 1 :
               buf[i] = "NUL" /\ \A j \in 0 .. i - 1 : buf[j] # "NUL"
  IN  [i \in 1 .. end |-> buf[i - 1]]

\* parse_cmd: skip spaces, take a word, go on until MAX_ARGS words are taken.
RECURSIVE SkipSpaces(_), Word(_), ParseFrom(_, _)
SkipSpaces(s) == IF s # <<>> /\ Head(s) = "SP" THEN SkipSpaces(Tail(s)) ELSE s
Word(s) == IF s = <<>> \/ Head(s) = "SP" THEN <<>> ELSE <<Head(s)>> \o Word(Tail(s))
ParseFrom(s, argc) ==
  IF s = <<>> \/ argc >= MAX_ARGS THEN <<>>
  ELSE LET w == Word(s)
       IN  <<w>> \o ParseFrom(SkipSpaces(SubSeq(s, Len(w) + 1, Len(s))), argc + 1)
ParseCmd(s) == ParseFrom(SkipSpaces(s), 0)

\* execute_command: what a line writes to the console.
Output(args) == IF args[1] \in Commands THEN <<"o", "TAB", "NL">> ELSE <<"?", "NL">>

Write(out) == /\ screen' = FoldLeft(Putchar, screen, out)
              /\ text' = text \o out

----------------------------------------------------------------------------
(* The shell's inner loop.                                                 *)

Store(c) == [cmd_buf EXCEPT ![n] = c]

\* The character at the front of the queue is taken.
Take ==
  /\ ~exited
  /\ fifo # <<>>
  /\ fifo' = Tail(fifo)
  /\ kb' = After(kb, Head(fifo).code)
  /\ heard' = IF Head(fifo).means = NoChar THEN heard ELSE Append(heard, Head(fifo).means)
  /\ UNCHANGED <<held, overlapped, events>>

Char == Ascii(kb, Head(fifo).code)

\* read returns 0: no code is there, or one that is no character.
Poll ==
  /\ ~exited
  /\ fifo = <<>>
  /\ UNCHANGED vars
ReadNothing ==
  /\ Take
  /\ Char = NoChar
  /\ UNCHANGED <<screen, cmd_buf, n, lines, exited, text>>

Erase ==
  /\ Take
  /\ Char = "BS"
  /\ cmd_buf' = Store("BS")
  /\ n' = IF n > 0 THEN n - 1 ELSE n
  /\ IF n > 0 THEN Write(<<"BS", "SP", "BS">>) ELSE UNCHANGED <<screen, text>>
  /\ UNCHANGED <<lines, exited>>

Insert ==
  /\ Take
  /\ Char \notin {NoChar, "BS", "NL"}
  /\ n + 1 < MAX_CMD_LEN
  /\ cmd_buf' = Store(Char)
  /\ n' = n + 1
  /\ Write(<<Char>>)
  /\ UNCHANGED <<lines, exited>>

\* A line end, or the character that fills the buffer: the last character
\* becomes NUL, the line is run and the prompt is shown.
RunLine ==
  /\ Take
  /\ Char \notin {NoChar, "BS"}
  /\ Char = "NL" \/ n + 1 >= MAX_CMD_LEN
  /\ cmd_buf' = Store("NUL")
  /\ n' = 0
  /\ \E args \in {ParseCmd(CString(cmd_buf'))} :
       CASE args = <<>> ->
              /\ Write(<<Char>> \o Prompt)
              /\ UNCHANGED <<lines, exited>>
         [] args # <<>> /\ args[1] = ExitCommand ->
              /\ Write(<<Char>>)
              /\ exited' = TRUE
              /\ UNCHANGED lines
         [] OTHER ->
              /\ Write(<<Char>> \o Output(args) \o Prompt)
              /\ lines' = Append(lines, args)
              /\ UNCHANGED exited

Init ==
  /\ held = {} /\ overlapped = FALSE /\ events = 0
  /\ fifo = <<>> /\ kb = KeyboardInit
  /\ cmd_buf = [i \in 0 .. MAX_CMD_LEN - 1 |-> "NUL"] /\ n = 0
  /\ lines = <<>> /\ exited = FALSE /\ heard = <<>>
  /\ text = Prompt
  /\ screen = FoldLeft(Putchar, Clear, Prompt)

Done == (exited \/ events = MaxEvents) /\ UNCHANGED vars

Next ==
  \/ \E k \in Keys : Press(k) \/ Release(k)
  \/ Poll \/ ReadNothing \/ Erase \/ Insert \/ RunLine
  \/ Done

Spec == Init /\ [][Next]_vars

----------------------------------------------------------------------------
(* What the line should be: the typed characters, edited.                  *)

\* The words of a line: maximal runs without spaces, at most MAX_ARGS of them.
Words(s) ==
  LET starts == SetToSortSeq({i \in DOMAIN s : s[i] # "SP" /\ (i = 1 \/ s[i - 1] = "SP")}, <)
      end(i) == CHOOSE j \in i .. Len(s) :
                  /\ \A k \in i .. j : s[k] # "SP"
                  /\ j = Len(s) \/ s[j + 1] = "SP"
      count == IF Len(starts) < MAX_ARGS THEN Len(starts) ELSE MAX_ARGS
  IN  [w \in 1 .. count |-> SubSeq(s, starts[w], end(starts[w]))]

Edit(st, c) ==
  LET run(line) == IF Words(line) = <<>> THEN [st EXCEPT !.line = <<>>]
                   ELSE IF Words(line)[1] = ExitCommand THEN [st EXCEPT !.exited = TRUE, !.line = <<>>]
                   ELSE [st EXCEPT !.lines = Append(@, Words(line)), !.line = <<>>]
  IN  CASE st.exited -> st
        [] c = "BS" /\ ~st.exited -> [st EXCEPT !.line = SubSeq(@, 1, Len(@) - 1)]
        [] c = "NL" /\ ~st.exited -> run(st.line)
        [] OTHER -> IF Len(st.line) = MAX_CMD_LEN - 1 THEN run(st.line)
                    ELSE [st EXCEPT !.line = Append(@, c)]

\* The shell runs exactly the lines that were typed: for each key the character
\* its table holds (which is not always the one on the label, see Keyboard), in
\* order, from the table that the shift keys select at the moment of the press,
\* erased ones gone, a line that fills the buffer cut there, split into its
\* words.  It holds while at most one shift key is down at a time: the driver
\* keeps one flag for both.
LinesAsTyped ==
  ~overlapped =>
    LET want == FoldLeft(Edit, [line |-> <<>>, lines |-> <<>>, exited |-> FALSE], heard)
    IN  /\ lines = want.lines
        /\ exited = want.exited
        /\ ~exited => [i \in 1 .. n |-> cmd_buf[i - 1]] = want.line

----------------------------------------------------------------------------
(* What the screen should show: the end of the text, on endless paper.     *)

OnPaper(p, c) ==
  LET stop == (p.col \div TabStop + 1) * TabStop
      moved == CASE c = "NL" -> [p EXCEPT !.row = @ + 1, !.col = 0]
                 [] c = "CR" -> [p EXCEPT !.col = 0]
                 [] c = "TAB" -> [p EXCEPT !.col = stop]
                 [] OTHER -> [p EXCEPT !.ink = @ \cup {<<p.row, p.col, c>>}, !.col = @ + 1]
  IN  IF moved.col < VGA_WIDTH THEN moved ELSE [moved EXCEPT !.row = @ + 1, !.col = 0]

\* The screen shows the last VGA_HEIGHT rows of everything written so far, with
\* the cursor behind the last character: scrolling loses no row and leaves
\* nothing behind.
ScreenIsTail ==
  LET paper == FoldLeft(OnPaper, [row |-> 0, col |-> 0, ink |-> {}], text)
      top == IF paper.row < VGA_HEIGHT THEN 0 ELSE paper.row - VGA_HEIGHT + 1
  IN  /\ screen.cursorX = paper.col
      /\ screen.cursorY = paper.row - top
      /\ \A p \in Cells :
           LET at == {i \in paper.ink : i[1] = top + p \div VGA_WIDTH /\ i[2] = p % VGA_WIDTH}
           IN  IF at = {} THEN screen.videoMemory[p] = Blank
                          ELSE \A i \in at : screen.videoMemory[p] = i[3]
============================================================================
