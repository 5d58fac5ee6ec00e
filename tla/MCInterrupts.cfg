SPECIFICATION Spec
CONSTANTS
  Lines = {0, 1, 4, 9}
  Faults = {14}
  Delays = {0, 2}
  TICKS = 4
  MaxElapsed = 3
INVARIANTS InterruptsInv InterruptsFindHandlers NothingLeftInService
PROPERTIES DelayNotEarly KeyInterruptServed DelayEnds
