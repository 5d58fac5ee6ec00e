SPECIFICATION StdinSpec
CONSTANTS
  KBD_BUFFER_SIZE = 4
  kbd_us <- KbdUs
  kbd_us_shift <- KbdUsShift
  Keys <- MCKeys
  MaxPending = 2
  SerialChars <- MCSerialChars
  UART_FIFO = 1
  TICKS = 2
INVARIANTS StdinTypeOK GetcInv
PROPERTIES RingIsFifo DriverUsedAsAssumed InputEndsTheWait SerialServedWhenKeysStop
