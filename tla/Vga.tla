-------------------------------- MODULE Vga --------------------------------
(***************************************************************************)
(* The text console of kernel/drivers/vga.c.  The globals, the video       *)
(* memory at 0xB8000 and the hardware cursor are the fields of one record, *)
(* and the functions of vga.c are operators from record to record.         *)
(* Characters are their ASCII codes.  The copy of each character that      *)
(* terminal_putchar sends to COM1 is output only and is left out.          *)
(***************************************************************************)
EXTENDS Integers, Sequences

CONSTANTS VGA_WIDTH, VGA_HEIGHT   \* 80 and 25

ASSUME VgaAssumption ==
  VGA_WIDTH \in Nat \ {0} /\ VGA_HEIGHT \in Nat \ {0}

BS == 8
TAB == 9
LF == 10
CR == 13
SPACE == 32

LIGHT_CYAN == 11       \* vga_entry_color(VGA_COLOR_LIGHT_CYAN, VGA_COLOR_BLACK)

Byte == 0 .. 255
UINT16 == 65536         \* number of values of a uint16_t
Uint16 == 0 .. UINT16 - 1
Cells == 0 .. VGA_WIDTH * VGA_HEIGHT - 1

vga_entry(ch, color) == [ch |-> ch, color |-> color]

Cell(t, x, y) == t.buffer[y * VGA_WIDTH + x]

-----------------------------------------------------------------------------
(* terminal_putentryat; a store outside the video memory sets stray. *)
terminal_putentryat(t, ch, x, y) ==
  LET index == y * VGA_WIDTH + x IN
  [t EXCEPT !.stray = t.stray \/ index \notin Cells,
            !.buffer = IF index \in Cells
                         THEN [t.buffer EXCEPT ![index] = vga_entry(ch, t.color)]
                         ELSE t.buffer]

(* update_cursor; pos is a uint16_t. *)
update_cursor(t, x, y) == [t EXCEPT !.cursor = (y * VGA_WIDTH + x) % UINT16]

terminal_clear(t) ==
  update_cursor([t EXCEPT !.buffer = [i \in Cells |-> vga_entry(SPACE, t.color)],
                          !.row = 0, !.column = 0], 0, 0)

terminal_initialize(t) == terminal_clear([t EXCEPT !.color = LIGHT_CYAN])

terminal_setcolor(t, color) == [t EXCEPT !.color = color]

(* Mutant: the line that scrolls in is not cleared. *)
terminal_scroll_NoClear(t) ==
  [t EXCEPT !.buffer =
     [i \in Cells |-> IF i < (VGA_HEIGHT - 1) * VGA_WIDTH
                        THEN t.buffer[i + VGA_WIDTH] ELSE t.buffer[i]]]

(* The first loop moves every line up, the second blanks the last one. *)
terminal_scroll(t) ==
  [t EXCEPT !.buffer =
     [i \in Cells |-> IF i < (VGA_HEIGHT - 1) * VGA_WIDTH
                        THEN t.buffer[i + VGA_WIDTH]
                        ELSE vga_entry(SPACE, t.color)]]

NextLine(t) == [t EXCEPT !.column = 0, !.row = t.row + 1]

Tab(t) ==
  LET stop == ((t.column + 4) \div 4) * 4 IN
  IF stop >= VGA_WIDTH THEN NextLine(t) ELSE [t EXCEPT !.column = stop]

(* Mutant: a backspace in column 0 stays on its line. *)
Backspace_SameLine(t) ==
  IF t.column = 0 THEN t
  ELSE terminal_putentryat([t EXCEPT !.column = t.column - 1],
                           SPACE, t.column - 1, t.row)

Backspace(t) ==
  IF t.column > 0
    THEN terminal_putentryat([t EXCEPT !.column = t.column - 1],
                             SPACE, t.column - 1, t.row)
  ELSE IF t.row > 0
    THEN terminal_putentryat([t EXCEPT !.row = t.row - 1,
                                       !.column = VGA_WIDTH - 1],
                             SPACE, VGA_WIDTH - 1, t.row - 1)
  ELSE t

Printable(t, ch) ==
  LET u == terminal_putentryat(t, ch, t.column, t.row) IN
  IF t.column + 1 = VGA_WIDTH THEN NextLine(u)
  ELSE [u EXCEPT !.column = t.column + 1]

Place(t, ch) ==
  CASE ch = LF -> NextLine(t)
    [] ch = CR -> [t EXCEPT !.column = 0]
    [] ch = TAB -> Tab(t)
    [] ch = BS -> Backspace(t)
    [] OTHER -> Printable(t, ch)

(* Mutant: the screen scrolls one line too late. *)
ScrollIfNeeded_Late(t) ==
  IF t.row > VGA_HEIGHT
    THEN [terminal_scroll(t) EXCEPT !.row = VGA_HEIGHT - 1]
    ELSE t

ScrollIfNeeded(t) ==
  IF t.row >= VGA_HEIGHT
    THEN [terminal_scroll(t) EXCEPT !.row = VGA_HEIGHT - 1]
    ELSE t

terminal_putchar(t, ch) ==
  LET u == ScrollIfNeeded(Place(t, ch)) IN
  update_cursor(u, u.column, u.row)

(* terminal_write, and terminal_writestring of a string of s's length:     *)
(* screen[k] is the console after k turns of the loop.                     *)
terminal_write(t, s) ==
  LET screen[k \in 0 .. Len(s)] ==
        IF k = 0 THEN t ELSE terminal_putchar(screen[k - 1], s[k])
  IN screen[Len(s)]

(* mp_hal_stdout_tx_strn_cooked. *)
CookedPut(t, ch) ==
  terminal_putchar(IF ch = LF THEN terminal_putchar(t, CR) ELSE t, ch)
mp_hal_stdout_tx_strn_cooked(t, s) ==
  LET screen[k \in 0 .. Len(s)] ==
        IF k = 0 THEN t ELSE CookedPut(screen[k - 1], s[k])
  IN screen[Len(s)]

-----------------------------------------------------------------------------
Rows == 0 .. VGA_HEIGHT - 1
Columns == 0 .. VGA_WIDTH - 1
Entry == [ch : Byte, color : Byte]

Term ==
  [row : Rows, column : Columns, color : Byte, cursor : Uint16,
   stray : BOOLEAN, buffer : [Cells -> Entry]]

(* Before kernel_main: the globals are zero, the firmware's text is shown. *)
FirmwareText == 66
PowerOn ==
  [row |-> 0, column |-> 0, color |-> 0, cursor |-> 0, stray |-> FALSE,
   buffer |-> [i \in Cells |-> vga_entry(FirmwareText, 7)]]

=============================================================================
