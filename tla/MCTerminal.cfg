SPECIFICATION Spec
CONSTANTS
  VGA_WIDTH = 5
  VGA_HEIGHT = 2
  Chars <- MCChars
  Colors <- MCColors
  MaxPaper = 2
INVARIANTS InsideScreen ScreenShowsPaper BackspaceUndoesPrint
