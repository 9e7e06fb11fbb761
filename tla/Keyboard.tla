------------------------------ MODULE Keyboard ------------------------------
(***************************************************************************)
(* The PS/2 keyboard driver (drivers/keyboard.cpp): scan codes to          *)
(* characters.  kb is the driver's state, shift_pressed and precode.       *)
(*                                                                         *)
(* A key is its scan code, named by its label.  The tables are cut down to *)
(* one key of each kind and the keys whose entries do not fit the label: W *)
(* gives a tab, Z gives w, and X with shift gives N.                       *)
(***************************************************************************)
EXTENDS Naturals

Extended == 224                       \* 0xE0
LeftShift == 42
RightShift == 54
ReleaseBit == 128
KeyA == 30
KeyW == 17
KeyZ == 44
KeyX == 45
SpaceBar == 57
Return == 28
Backspace == 14
Arrow == 72                           \* after Extended

NoChar == "none"                      \* '\0'

normal_scancode_map(code) ==
  CASE code = KeyA -> "a" [] code = KeyW -> "TAB" [] code = KeyZ -> "w" [] code = KeyX -> "x"
    [] code = SpaceBar -> "SP" [] code = Return -> "NL" [] code = Backspace -> "BS"
    [] code = LeftShift -> "z" [] OTHER -> NoChar
shift_scancode_map(code) ==
  CASE code = KeyA -> "A" [] code = KeyW -> "TAB" [] code = KeyZ -> "W" [] code = KeyX -> "N"
    [] code = SpaceBar -> "SP" [] code = Return -> "NL" [] code = Backspace -> "BS"
    [] code = LeftShift -> "Z" [] OTHER -> NoChar
extended_scancode_map(code) == IF code = Arrow THEN "UP" ELSE NoChar

\* keyboard_init
KeyboardInit == [shift_pressed |-> FALSE, precode |-> 0]

\* scancode_to_ascii: the character, and the state afterwards.  Every code,
\* also that of a shift key or a release, becomes the prefix of the next.
Ascii(kb, code) ==
  CASE code \in {LeftShift, RightShift} -> NoChar
    [] code >= ReleaseBit -> NoChar
    [] kb.precode = Extended /\ code \notin {LeftShift, RightShift} ->
         extended_scancode_map(code)
    [] OTHER -> IF kb.shift_pressed THEN shift_scancode_map(code)
                                    ELSE normal_scancode_map(code)

AfterKeepsShift(kb, code) ==
  [shift_pressed |-> kb.shift_pressed \/ code \in {LeftShift, RightShift},
   precode |-> code]
After(kb, code) ==
  [shift_pressed |-> CASE code \in {LeftShift, RightShift} -> TRUE
                       [] code \in {LeftShift + ReleaseBit, RightShift + ReleaseBit} -> FALSE
                       [] OTHER -> kb.shift_pressed,
   precode |-> code]
============================================================================
