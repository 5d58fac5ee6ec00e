SPECIFICATION Spec
CONSTANTS
  KBD_BUFFER_SIZE = 2
  kbd_us <- KbdUs
  kbd_us_shift <- KbdUsShift
  Keys <- DecoderKeys
  MaxPending = 2
INVARIANTS NoStuckModifier EveryCharacterTypeable
