SPECIFICATION Spec
CONSTANTS
  Main = main
  Dicts = {main, other}
  stack_limit = 6
INVARIANT LinesAssignInMain
CHECK_DEADLOCK FALSE
