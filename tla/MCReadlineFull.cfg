SPECIFICATION Spec
CONSTANTS
  VGA_WIDTH = 3
  VGA_HEIGHT = 2
  MAX_LEN = 3
  HISTORY_SIZE = 2
  Input <- MCInput
  Garbage = {0, 66}
  Prompt <- MCPrompt
  Output <- MCOutput
  MaxCalls = 3
INVARIANT LineIsTerminated
CHECK_DEADLOCK FALSE
