SPECIFICATION Spec
CONSTANTS
  Main = main
  Dicts = {main, other}
  stack_limit = 7
INVARIANTS ChainsMatchStack RunsInItsOwnGlobals PromptIsClean OnlyPrintingIsFatal StackIsBounded
PROPERTIES LinesKeepTheLocals
CHECK_DEADLOCK FALSE
