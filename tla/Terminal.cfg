SPECIFICATION Spec
CONSTANTS
  VGA_WIDTH = 5
  VGA_HEIGHT = 2
  TabStop = 2
  Glyphs <- MCGlyphs
  MAX_CMD_LEN = 4
  MAX_ARGS = 2
  Keys <- MCKeys
  FifoSize = 2
  MaxEvents = 5
INVARIANTS
  LinesAsTyped
  ScreenIsTail
  OnScreen
