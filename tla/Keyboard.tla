------------------------------ MODULE Keyboard ------------------------------
(***************************************************************************)
(* The PS/2 keyboard driver, kernel/drivers/keyboard.c: the interrupt      *)
(* handler that decodes scancodes and fills the ring kbd_buffer, and       *)
(* keyboard_getc, which empties it from the main thread.                   *)
(*                                                                         *)
(* IRQ1 enters through an interrupt gate (flags 0x8E), so the handler runs *)
(* with interrupts off on the only CPU: it is one atomic step, which can   *)
(* fall between any two steps of keyboard_getc.  kbd_buffer is not         *)
(* volatile while the two indices are, so the compiler may move the read   *)
(* of the slot past the store to kbd_buffer_tail; both orders are steps.   *)
(*                                                                         *)
(* Keys and the 8042 controller are the environment: a key sends its make  *)
(* code when pressed (again and again while held) and its break code when  *)
(* released; the controller queues them until the handler reads port 0x60. *)
(***************************************************************************)
EXTENDS Integers, Sequences

CONSTANTS
  KBD_BUFFER_SIZE,        \* 256
  kbd_us, kbd_us_shift,   \* scancode -> character, see KbdLayout
  Keys,                   \* the keys pressed: [ext: BOOLEAN, sc: 1 .. 127];
                          \* set 1 has no 96, whose break code would be E0
  MaxPending              \* bound: scancodes the controller queues

ASSUME KeyboardAssumption ==
  /\ KBD_BUFFER_SIZE \in Nat /\ KBD_BUFFER_SIZE > 1
  /\ kbd_us \in [0 .. 127 -> 0 .. 127]
  /\ kbd_us_shift \in [0 .. 127 -> 0 .. 127]
  /\ Keys \subseteq [ext : BOOLEAN, sc : 1 .. 127 \ {96}]
  /\ MaxPending \in Nat

VARIABLES
  kbd_buffer, kbd_buffer_head, kbd_buffer_tail,
  shift_pressed, caps_lock, ctrl_pressed, ext_scancode,
  down,        \* environment: the keys held down
  scancodes,   \* environment: the controller's output, oldest first
  pc,          \* where the main thread is in keyboard_getc
  slot, c,     \* keyboard_getc: the tail index it loaded, the character
  ret          \* the character keyboard_getc last returned

ringVars == <<kbd_buffer, kbd_buffer_head>>
modVars == <<shift_pressed, caps_lock, ctrl_pressed>>
envVars == <<down, scancodes>>
getcVars == <<kbd_buffer_tail, pc, slot, c, ret>>
vars == <<ringVars, modVars, ext_scancode, envVars, getcVars>>

Char == 0 .. 127        \* what the layouts and the sequences put in the ring
Byte == 0 .. 255
Index == 0 .. KBD_BUFFER_SIZE - 1

-----------------------------------------------------------------------------
(* The ring.  The handler writes the buffer and the head, keyboard_getc    *)
(* writes the tail.                                                        *)

Ring == [buf |-> kbd_buffer, head |-> kbd_buffer_head]

(* Mutant: the test for a full ring is missing. *)
kbd_buffer_put_NoFullTest(r, ch) ==
  [buf |-> [r.buf EXCEPT ![r.head] = ch],
   head |-> (r.head + 1) % KBD_BUFFER_SIZE]

(* kbd_buffer_put: one slot stays free, a character for a full ring is lost. *)
kbd_buffer_put(r, ch) ==
  LET next == (r.head + 1) % KBD_BUFFER_SIZE IN
  IF next # kbd_buffer_tail
    THEN [buf |-> [r.buf EXCEPT ![r.head] = ch], head |-> next]
    ELSE r

ESC == 27

(* kbd_buffer_puts of the three-character string ESC [ final. *)
kbd_buffer_puts(r, final) ==
  kbd_buffer_put(kbd_buffer_put(kbd_buffer_put(r, ESC), 91), final)

keyboard_has_data == kbd_buffer_head # kbd_buffer_tail

Store(r) == kbd_buffer' = r.buf /\ kbd_buffer_head' = r.head

-----------------------------------------------------------------------------
(* keyboard_handler, by the branches it returns from. *)

E0 == 224
LSHIFT == 42
RSHIFT == 54
CTRL == 29
CAPS == 58

(* Final characters of the sequences for the arrow keys, Home and End. *)
Arrow == {72, 80, 77, 75}
ExtSequence == Arrow \cup {71, 79}
Final(sc) == CASE sc = 72 -> 65   \* Up     A
               [] sc = 80 -> 66   \* Down   B
               [] sc = 77 -> 67   \* Right  C
               [] sc = 75 -> 68   \* Left   D
               [] sc = 71 -> 72   \* Home   H
               [] sc = 79 -> 70   \* End    F

IsLetter(ch) == ch \in 97 .. 122

(* Mutant: shift changes letters only. *)
KeyChar_ShiftLettersOnly(sc, ctrl, shift, caps) ==
  LET base_c == kbd_us[sc] IN
  IF ctrl /\ IsLetter(base_c) THEN base_c - 97 + 1
  ELSE IF IsLetter(base_c) /\ shift # caps THEN base_c - 32
  ELSE base_c

(* The character of an ordinary key under the modifiers, 0 for none. *)
KeyChar(sc, ctrl, shift, caps) ==
  LET base_c == kbd_us[sc] IN
  IF base_c = 0 THEN 0
  ELSE IF ctrl /\ IsLetter(base_c) THEN base_c - 97 + 1
  ELSE IF ctrl /\ base_c \in 65 .. 90 THEN base_c - 65 + 1
  ELSE IF IsLetter(base_c) THEN IF shift # caps THEN base_c - 32 ELSE base_c
  ELSE IF shift THEN kbd_us_shift[sc] ELSE base_c

ExtPrefix(sc) ==
  /\ sc = E0
  /\ ext_scancode' = TRUE
  /\ UNCHANGED <<ringVars, modVars>>

ExtendedKey(sc) ==
  /\ sc # E0 /\ ext_scancode
  /\ ext_scancode' = FALSE
  /\ \/ sc \in ExtSequence /\ Store(kbd_buffer_puts(Ring, Final(sc)))
     \/ sc = 83 /\ Store(kbd_buffer_put(Ring, 127))     \* Delete
     \/ sc \notin ExtSequence \cup {83} /\ UNCHANGED ringVars
  /\ UNCHANGED modVars

(* Mutant: only the left shift key is recognised when it is released. *)
KeyRelease_LeftOnly(sc) ==
  /\ sc # E0 /\ ~ext_scancode /\ sc >= 128
  /\ shift_pressed' = (shift_pressed /\ sc - 128 # LSHIFT)
  /\ ctrl_pressed' = (ctrl_pressed /\ sc - 128 # CTRL)
  /\ UNCHANGED <<ringVars, caps_lock, ext_scancode>>

KeyRelease(sc) ==
  /\ sc # E0 /\ ~ext_scancode /\ sc >= 128
  /\ shift_pressed' = (shift_pressed /\ sc - 128 \notin {LSHIFT, RSHIFT})
  /\ ctrl_pressed' = (ctrl_pressed /\ sc - 128 # CTRL)
  /\ UNCHANGED <<ringVars, caps_lock, ext_scancode>>

ModifierPress(sc) ==
  /\ ~ext_scancode /\ sc \in {LSHIFT, RSHIFT, CTRL, CAPS}
  /\ shift_pressed' = (shift_pressed \/ sc \in {LSHIFT, RSHIFT})
  /\ ctrl_pressed' = (ctrl_pressed \/ sc = CTRL)
  /\ caps_lock' = (caps_lock # (sc = CAPS))
  /\ UNCHANGED <<ringVars, ext_scancode>>

CharPress(sc) ==
  /\ ~ext_scancode /\ sc < 128 /\ sc \notin {LSHIFT, RSHIFT, CTRL, CAPS}
  /\ LET ch == KeyChar(sc, ctrl_pressed, shift_pressed, caps_lock) IN
     \/ sc \in Arrow /\ Store(kbd_buffer_puts(Ring, Final(sc)))
     \/ sc \notin Arrow /\ ch # 0 /\ Store(kbd_buffer_put(Ring, ch))
     \/ sc \notin Arrow /\ ch = 0 /\ UNCHANGED ringVars
  /\ UNCHANGED <<modVars, ext_scancode>>

Decode(sc) ==
  \/ ExtPrefix(sc)
  \/ ExtendedKey(sc)
  \/ KeyRelease(sc)
  \/ ModifierPress(sc)
  \/ CharPress(sc)

(* IRQ1: the handler reads the oldest scancode from port 0x60. *)
keyboard_handler ==
  /\ scancodes # << >>
  /\ scancodes' = Tail(scancodes)
  /\ Decode(Head(scancodes))
  /\ UNCHANGED <<down, getcVars>>

-----------------------------------------------------------------------------
(* keyboard_getc.  Its only caller has just seen keyboard_has_data, and no *)
(* one else moves the tail, so the hlt in its loop is never reached.       *)

CallGetc ==
  /\ pc = "caller" /\ keyboard_has_data
  /\ pc' = "getc"
  /\ UNCHANGED <<ringVars, modVars, ext_scancode, envVars,
                 kbd_buffer_tail, slot, c, ret>>

GetcTest ==
  /\ pc = "getc" /\ keyboard_has_data
  /\ slot' = kbd_buffer_tail
  /\ pc' = "fetch"
  /\ UNCHANGED <<ringVars, modVars, ext_scancode, envVars,
                 kbd_buffer_tail, c, ret>>

NextTail == (kbd_buffer_tail + 1) % KBD_BUFFER_SIZE

(* In the order of the source: read the slot, then give it back. *)
GetcRead ==
  /\ pc = "fetch"
  /\ c' = kbd_buffer[slot]
  /\ pc' = "advance"
  /\ UNCHANGED <<ringVars, modVars, ext_scancode, envVars,
                 kbd_buffer_tail, slot, ret>>

GetcAdvance ==
  /\ pc = "advance"
  /\ kbd_buffer_tail' = NextTail
  /\ ret' = c
  /\ pc' = "caller"
  /\ UNCHANGED <<ringVars, modVars, ext_scancode, envVars, slot, c>>

(* In the order the compiler may choose: give the slot back, then read it. *)
GetcAdvanceEarly ==
  /\ pc = "fetch"
  /\ kbd_buffer_tail' = NextTail
  /\ pc' = "late"
  /\ UNCHANGED <<ringVars, modVars, ext_scancode, envVars, slot, c, ret>>

GetcReadLate ==
  /\ pc = "late"
  /\ c' = kbd_buffer[slot]
  /\ ret' = c'
  /\ pc' = "caller"
  /\ UNCHANGED <<ringVars, modVars, ext_scancode, envVars,
                 kbd_buffer_tail, slot>>

keyboard_getc ==
  GetcTest \/ GetcRead \/ GetcAdvance \/ GetcAdvanceEarly \/ GetcReadLate

-----------------------------------------------------------------------------
(* The environment: keys and the keyboard controller. *)

MakeCodes(k) == IF k.ext THEN <<E0, k.sc>> ELSE <<k.sc>>
BreakCodes(k) == IF k.ext THEN <<E0, k.sc + 128>> ELSE <<k.sc + 128>>

Send(codes) ==
  /\ Len(scancodes) + Len(codes) <= MaxPending
  /\ scancodes' = scancodes \o codes
  /\ UNCHANGED <<ringVars, modVars, ext_scancode, getcVars>>

(* A press, or the typematic repeat of a key that is held. *)
KeyDown(k) == down' = down \cup {k} /\ Send(MakeCodes(k))

KeyUp(k) == k \in down /\ down' = down \ {k} /\ Send(BreakCodes(k))

User == \E k \in Keys : KeyDown(k) \/ KeyUp(k)

Init ==
  /\ kbd_buffer = [i \in Index |-> 0]
  /\ kbd_buffer_head = 0 /\ kbd_buffer_tail = 0
  /\ shift_pressed = FALSE /\ caps_lock = FALSE
  /\ ctrl_pressed = FALSE /\ ext_scancode = FALSE
  /\ down = {} /\ scancodes = << >>
  /\ pc = "caller" /\ slot = 0 /\ c = 0 /\ ret = 0

Next == User \/ keyboard_handler \/ CallGetc \/ keyboard_getc

Spec == Init /\ [][Next]_vars

-----------------------------------------------------------------------------
TypeOK ==
  /\ kbd_buffer \in [Index -> Char]
  /\ kbd_buffer_head \in Index /\ kbd_buffer_tail \in Index
  /\ shift_pressed \in BOOLEAN /\ caps_lock \in BOOLEAN
  /\ ctrl_pressed \in BOOLEAN /\ ext_scancode \in BOOLEAN
  /\ down \subseteq Keys
  /\ scancodes \in Seq(Byte) /\ Len(scancodes) <= MaxPending
  /\ pc \in {"caller", "getc", "fetch", "advance", "late"}
  /\ slot \in Index /\ c \in Char /\ ret \in Char

(***************************************************************************)
(* The decoder settles: once every scancode has been read, no prefix is    *)
(* pending, and shift or ctrl counts as pressed only while such a key is   *)
(* really held.  A press and its release may be queued in any number,      *)
(* with repeats, other keys and extended codes between them.               *)
(***************************************************************************)
PlainKey(sc) == [ext |-> FALSE, sc |-> sc]
NoStuckModifier ==
  scancodes = << >> =>
    /\ ~ext_scancode
    /\ shift_pressed => down \cap {PlainKey(LSHIFT), PlainKey(RSHIFT)} # {}
    /\ ctrl_pressed => PlainKey(CTRL) \in down

(***************************************************************************)
(* No sequence of keys leaves the keyboard unable to type: once every      *)
(* scancode has been read, each printable ASCII character is on some key,  *)
(* with or without shift, under the caps lock and ctrl state that was left *)
(* behind, unless ctrl is held; and then the letter keys give every        *)
(* control code.                                                           *)
(***************************************************************************)
EveryCharacterTypeable ==
  scancodes = << >> =>
    \/ /\ PlainKey(CTRL) \notin down
       /\ \A ch \in 32 .. 126 :
            \E sc \in 1 .. 127, shift \in BOOLEAN :
              KeyChar(sc, ctrl_pressed, shift, caps_lock) = ch
    \/ /\ PlainKey(CTRL) \in down
       /\ \A ch \in 1 .. 26 : \E sc \in 1 .. 127 :
            KeyChar(sc, TRUE, shift_pressed, caps_lock) = ch

(***************************************************************************)
(* What makes NoStuckModifier inductive.  A code is taken as a modifier    *)
(* only when no prefix precedes it; prefixes come in pairs with their      *)
(* code; and while a modifier counts as pressed whose keys are all up, the *)
(* break code that will clear it is still in the controller.               *)
(***************************************************************************)
Prefixed(j) == IF j = 1 THEN ext_scancode ELSE scancodes[j - 1] = E0

Queued(code, j) ==
  j \in 1 .. Len(scancodes) /\ scancodes[j] = code /\ ~Prefixed(j)

PrefixesPair ==
  /\ ext_scancode => scancodes # << >>
  /\ \A j \in 1 .. Len(scancodes) : scancodes[j] = E0 => j < Len(scancodes) /\ ~Prefixed(j)

ReleaseFollows(sc) ==
  PlainKey(sc) \notin down =>
    \A j \in 1 .. Len(scancodes) :
      Queued(sc, j) => \E k \in j + 1 .. Len(scancodes) : Queued(sc + 128, k)

ReleaseIsQueued(pressed, S) ==
  pressed /\ (\A sc \in S : PlainKey(sc) \notin down) =>
    \E sc \in S, k \in 1 .. Len(scancodes) : Queued(sc + 128, k)

DecoderInv ==
  /\ PrefixesPair
  /\ \A sc \in {LSHIFT, RSHIFT, CTRL} : ReleaseFollows(sc)
  /\ ReleaseIsQueued(shift_pressed, {LSHIFT, RSHIFT})
  /\ ReleaseIsQueued(ctrl_pressed, {CTRL})

-----------------------------------------------------------------------------
(* The ring implements the bounded lossy queue of KbdFifo. *)

Count(h, t) == IF h >= t THEN h - t ELSE h - t + KBD_BUFFER_SIZE

Contents(buf, h, t) ==
  [k \in 1 .. Count(h, t) |-> buf[(t + k - 1) % KBD_BUFFER_SIZE]]

AllBursts ==
  {<<ch>> : ch \in 1 .. 127}
    \cup {<<ESC, 91, Final(sc)>> : sc \in ExtSequence}

Fifo == INSTANCE KbdFifo
  WITH Capacity <- KBD_BUFFER_SIZE - 1,
       Bursts <- AllBursts,
       q <- Contents(kbd_buffer, kbd_buffer_head, kbd_buffer_tail),
       out <- IF pc = "late" THEN kbd_buffer[slot] ELSE ret

(***************************************************************************)
(* Wherever the interrupt falls between the steps of keyboard_getc, and in *)
(* whichever order the compiler places the last two, the reader gets every *)
(* character that fitted, once, in the order typed; a burst is cut only at *)
(* the point where KBD_BUFFER_SIZE - 1 characters were unread.             *)
(***************************************************************************)
RingIsFifo == Fifo!Spec

(***************************************************************************)
(* The inductive strengthening: while keyboard_getc works on a slot the    *)
(* handler leaves that slot alone.                                         *)
(***************************************************************************)
GetcInv ==
  /\ TypeOK
  /\ pc \in {"getc", "fetch", "advance"} => keyboard_has_data
  /\ pc \in {"fetch", "advance"} => slot = kbd_buffer_tail
  /\ pc = "advance" => c = kbd_buffer[slot]
  /\ pc = "late" => kbd_buffer_tail = (slot + 1) % KBD_BUFFER_SIZE
=============================================================================
