----------------------------- MODULE MCTerminal -----------------------------
(* A screen of 2 rows of 5 columns with tab stops every 2 columns and a    *)
(* line buffer of 4 characters.                                            *)
EXTENDS Terminal
MCGlyphs == {"a", "A", "w", "W", "x", "N", "SP", "BS", "UP", ">", "o", "?"}
MCKeys == {LeftShift, RightShift, KeyA, KeyW, KeyZ, KeyX, SpaceBar, Return, Backspace, Arrow}
============================================================================
