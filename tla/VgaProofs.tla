----------------------------- MODULE VgaProofs -----------------------------
(***************************************************************************)
(* The console never leaves its screen, for every width and height: each   *)
(* branch of terminal_putchar stores only at a row and a column that are   *)
(* on the screen and moves the row at most one line too far down, which    *)
(* ScrollIfNeeded corrects.  Strings are written character by character:   *)
(* WriteInduction and CookedInduction carry a fact through that loop.      *)
(***************************************************************************)
EXTENDS Vga, WellFoundedInduction, TLAPS

Screen == [Cells -> Entry]

(* A console in the middle of terminal_putchar that has made no stray      *)
(* store and whose row is one of rows.                                     *)
Writing(rows) ==
  [row : rows, column : Columns, color : Byte, cursor : Uint16,
   stray : {FALSE}, buffer : Screen]

-----------------------------------------------------------------------------
LEMMA ScreenSize == VGA_WIDTH \in Nat \ {0} /\ VGA_HEIGHT \in Nat \ {0}
BY VgaAssumption

(* The index terminal_putentryat computes for a place on the screen is a   *)
(* cell of it.                                                             *)
LEMMA IndexOnScreen ==
  ASSUME NEW x \in Columns, NEW y \in Rows
  PROVE  y * VGA_WIDTH + x \in Cells
<1>1. y \in Nat /\ x \in Nat /\ y <= VGA_HEIGHT - 1 /\ x <= VGA_WIDTH - 1
  BY ScreenSize DEF Rows, Columns
<1>2. PICK d \in Nat : VGA_HEIGHT = y + 1 + d
  <2>1. VGA_HEIGHT - y - 1 \in Nat /\ VGA_HEIGHT = y + 1 + (VGA_HEIGHT - y - 1)
    BY <1>1, ScreenSize
  <2> QED BY <2>1
<1>3. VGA_WIDTH * VGA_HEIGHT = y * VGA_WIDTH + VGA_WIDTH + d * VGA_WIDTH
  BY <1>1, <1>2, ScreenSize
<1>4. d * VGA_WIDTH \in Nat /\ y * VGA_WIDTH \in Nat
  BY <1>1, ScreenSize
<1>5. y * VGA_WIDTH + x <= VGA_WIDTH * VGA_HEIGHT - 1
  BY <1>1, <1>3, <1>4, ScreenSize
<1> QED BY <1>1, <1>4, <1>5, ScreenSize DEF Cells

(* Storing an entry on the screen changes one cell and nothing else. *)
LEMMA PutentryWrites ==
  ASSUME NEW rows, NEW t \in Writing(rows), NEW ch \in Byte,
         NEW x \in Columns, NEW y \in Rows
  PROVE  /\ terminal_putentryat(t, ch, x, y) \in Writing(rows)
         /\ terminal_putentryat(t, ch, x, y).row = t.row
         /\ terminal_putentryat(t, ch, x, y).column = t.column
<1>1. PICK index \in Cells : index = y * VGA_WIDTH + x
  BY IndexOnScreen
<1>2. PICK entry \in Entry : entry = vga_entry(ch, t.color)
  BY DEF vga_entry, Entry, Writing
<1>3. PICK buf \in Screen : buf = [t.buffer EXCEPT ![index] = entry]
  <2>1. t.buffer \in Screen
    BY DEF Writing
  <2> QED BY <2>1, <1>1, <1>2 DEF Screen
<1>4. t.stray = FALSE
  BY DEF Writing
<1>5. terminal_putentryat(t, ch, x, y)
        = [t EXCEPT !.stray = FALSE, !.buffer = buf]
  BY <1>1, <1>2, <1>3, <1>4 DEF terminal_putentryat
<1> QED BY <1>5 DEF Writing

-----------------------------------------------------------------------------
(* The branches of terminal_putchar leave the row at most one too far down. *)

LowRows == 0 .. VGA_HEIGHT

LEMMA NextLineLow ==
  ASSUME NEW t \in Writing(Rows)
  PROVE  NextLine(t) \in Writing(LowRows)
<1>1. t.row + 1 \in LowRows /\ 0 \in Columns
  BY ScreenSize DEF Writing, Rows, LowRows, Columns
<1> QED BY <1>1 DEF NextLine, Writing

LEMMA StaysLow ==
  ASSUME NEW t \in Writing(Rows), NEW x \in Columns
  PROVE  [t EXCEPT !.column = x] \in Writing(LowRows)
<1>1. t.row \in LowRows
  BY ScreenSize DEF Writing, Rows, LowRows
<1> QED BY <1>1 DEF Writing

LEMMA TabLow ==
  ASSUME NEW t \in Writing(Rows)
  PROVE  Tab(t) \in Writing(LowRows)
<1>1. PICK col \in Nat : col = t.column
  BY ScreenSize DEF Writing, Columns
<1>2. PICK stop \in Nat : stop = ((t.column + 4) \div 4) * 4
  BY <1>1
<1>3. CASE stop >= VGA_WIDTH
  BY <1>2, <1>3, NextLineLow DEF Tab
<1>4. CASE ~(stop >= VGA_WIDTH)
  <2>1. stop \in Columns
    BY <1>4, ScreenSize DEF Columns
  <2> QED BY <1>2, <1>4, <2>1, StaysLow DEF Tab
<1> QED BY <1>3, <1>4

LEMMA RowsAreLow == Writing(Rows) \subseteq Writing(LowRows)
<1>1. Rows \subseteq LowRows
  BY ScreenSize DEF Rows, LowRows
<1> QED BY <1>1 DEF Writing

LEMMA BackspaceLow ==
  ASSUME NEW t \in Writing(Rows)
  PROVE  Backspace(t) \in Writing(LowRows)
<1>1. SPACE \in Byte
  BY DEF SPACE, Byte
<1>2. t.row \in Rows /\ t.column \in Columns
  BY DEF Writing
<1>3. CASE t.column > 0
  <2>1. t.column - 1 \in Columns
    BY <1>2, <1>3, ScreenSize DEF Columns
  <2>2. [t EXCEPT !.column = t.column - 1] \in Writing(Rows)
    BY <2>1 DEF Writing
  <2>3. Backspace(t) \in Writing(Rows)
    BY <1>1, <1>2, <1>3, <2>1, <2>2, PutentryWrites DEF Backspace
  <2> QED BY <2>3, RowsAreLow
<1>4. CASE ~(t.column > 0) /\ t.row > 0
  <2>1. t.row - 1 \in Rows /\ VGA_WIDTH - 1 \in Columns
    BY <1>2, <1>4, ScreenSize DEF Rows, Columns
  <2>2. [t EXCEPT !.row = t.row - 1, !.column = VGA_WIDTH - 1] \in Writing(Rows)
    BY <2>1 DEF Writing
  <2>3. Backspace(t) \in Writing(Rows)
    BY <1>1, <1>4, <2>1, <2>2, PutentryWrites DEF Backspace
  <2> QED BY <2>3, RowsAreLow
<1>5. CASE ~(t.column > 0) /\ ~(t.row > 0)
  BY <1>5, RowsAreLow DEF Backspace
<1> QED BY <1>3, <1>4, <1>5

LEMMA PrintableLow ==
  ASSUME NEW t \in Writing(Rows), NEW ch \in Byte
  PROVE  Printable(t, ch) \in Writing(LowRows)
<1>1. t.row \in Rows /\ t.column \in Columns
  BY DEF Writing
<1>2. PICK u \in Writing(Rows) : u = terminal_putentryat(t, ch, t.column, t.row)
  BY <1>1, PutentryWrites
<1>3. CASE t.column + 1 = VGA_WIDTH
  BY <1>2, <1>3, NextLineLow DEF Printable
<1>4. CASE t.column + 1 # VGA_WIDTH
  <2>1. t.column + 1 \in Columns
    BY <1>1, <1>4, ScreenSize DEF Columns
  <2> QED BY <1>2, <1>4, <2>1, StaysLow DEF Printable
<1> QED BY <1>3, <1>4

LEMMA PlaceLow ==
  ASSUME NEW t \in Writing(Rows), NEW ch \in Byte
  PROVE  Place(t, ch) \in Writing(LowRows)
<1>1. 0 \in Columns
  BY ScreenSize DEF Columns
<1>2. ch = LF => Place(t, ch) = NextLine(t)
  BY DEF Place, LF, CR, TAB, BS
<1>3. ch = CR => Place(t, ch) = [t EXCEPT !.column = 0]
  BY DEF Place, LF, CR, TAB, BS
<1>4. ch = TAB => Place(t, ch) = Tab(t)
  BY DEF Place, LF, CR, TAB, BS
<1>5. ch = BS => Place(t, ch) = Backspace(t)
  BY DEF Place, LF, CR, TAB, BS
<1>6. ch \notin {LF, CR, TAB, BS} => Place(t, ch) = Printable(t, ch)
  BY DEF Place
<1> QED BY <1>1, <1>2, <1>3, <1>4, <1>5, <1>6,
           NextLineLow, StaysLow, TabLow, BackspaceLow, PrintableLow

-----------------------------------------------------------------------------
(* terminal_scroll reads and writes cells of the screen only. *)
LEMMA ScrollWrites ==
  ASSUME NEW rows, NEW t \in Writing(rows)
  PROVE  terminal_scroll(t) \in Writing(rows)
<1>1. t.buffer \in Screen /\ t.color \in Byte
  BY DEF Writing
<1>2. vga_entry(SPACE, t.color) \in Entry
  <2>1. SPACE \in Byte
    BY DEF SPACE, Byte
  <2> QED BY <1>1, <2>1 DEF vga_entry, Entry
<1>3. ASSUME NEW k \in Cells, k < (VGA_HEIGHT - 1) * VGA_WIDTH
      PROVE  k + VGA_WIDTH \in Cells
  <2>1. (VGA_HEIGHT - 1) * VGA_WIDTH = VGA_WIDTH * VGA_HEIGHT - VGA_WIDTH
    BY ScreenSize
  <2>2. VGA_WIDTH * VGA_HEIGHT \in Nat
    BY ScreenSize
  <2> QED BY <1>3, <2>1, <2>2, ScreenSize DEF Cells
<1>4. PICK buf \in Screen :
        buf = [k \in Cells |-> IF k < (VGA_HEIGHT - 1) * VGA_WIDTH
                                 THEN t.buffer[k + VGA_WIDTH]
                                 ELSE vga_entry(SPACE, t.color)]
  <2>1. ASSUME NEW k \in Cells
        PROVE  (IF k < (VGA_HEIGHT - 1) * VGA_WIDTH
                 THEN t.buffer[k + VGA_WIDTH]
                 ELSE vga_entry(SPACE, t.color)) \in Entry
    BY <1>1, <1>2, <1>3 DEF Screen
  <2> QED BY <2>1 DEF Screen
<1> QED BY <1>4 DEF terminal_scroll, Writing

LEMMA ScrollBack ==
  ASSUME NEW t \in Writing(LowRows)
  PROVE  ScrollIfNeeded(t) \in Writing(Rows)
<1>1. PICK u \in Writing(LowRows) : u = terminal_scroll(t)
  BY ScrollWrites
<1>2. VGA_HEIGHT - 1 \in Rows
  BY ScreenSize DEF Rows
<1>3. [u EXCEPT !.row = VGA_HEIGHT - 1] \in Writing(Rows)
  BY <1>2 DEF Writing
<1>4. ~(t.row >= VGA_HEIGHT) => t \in Writing(Rows)
  <2>1. t.row \in LowRows
    BY DEF Writing
  <2>2. ~(t.row >= VGA_HEIGHT) => t.row \in Rows
    BY <2>1, ScreenSize DEF Rows, LowRows
  <2> QED BY <2>2 DEF Writing
<1> QED BY <1>1, <1>3, <1>4 DEF ScrollIfNeeded

(* update_cursor puts the hardware cursor at (x, y), in 16 bits. *)
LEMMA CursorSet ==
  ASSUME NEW t \in Writing(Rows), NEW x \in Columns, NEW y \in Rows
  PROVE  /\ update_cursor(t, x, y) \in Writing(Rows)
         /\ update_cursor(t, x, y).row = t.row
         /\ update_cursor(t, x, y).column = t.column
         /\ update_cursor(t, x, y).cursor = (y * VGA_WIDTH + x) % UINT16
<1>1. PICK pos \in Nat : pos = y * VGA_WIDTH + x
  BY ScreenSize, IndexOnScreen DEF Cells
<1>2. PICK cur : cur = pos % UINT16
  OBVIOUS
<1>3. cur \in Uint16
  <2>1. UINT16 \in Nat \ {0}
    BY DEF UINT16
  <2> QED BY <1>2, <2>1 DEF Uint16
<1>4. update_cursor(t, x, y) = [t EXCEPT !.cursor = cur]
  BY <1>1, <1>2 DEF update_cursor
<1>5. (y * VGA_WIDTH + x) % UINT16 = cur
  BY <1>1, <1>2
<1> QED BY <1>3, <1>4, <1>5 DEF Writing

(* What terminal_putchar leaves behind. *)
OnScreen(t) ==
  t \in Writing(Rows) /\ t.cursor = (t.row * VGA_WIDTH + t.column) % UINT16

LEMMA PutcharOnScreen ==
  ASSUME NEW t \in Writing(Rows), NEW ch \in Byte
  PROVE  OnScreen(terminal_putchar(t, ch))
<1>1. PICK u \in Writing(Rows) : u = ScrollIfNeeded(Place(t, ch))
  BY PlaceLow, ScrollBack
<1>2. u.row \in Rows /\ u.column \in Columns
  BY DEF Writing
<1>3. terminal_putchar(t, ch) = update_cursor(u, u.column, u.row)
  BY <1>1 DEF terminal_putchar
<1> QED BY <1>2, <1>3, CursorSet DEF OnScreen

(* Before kernel_main: everything is zero, the firmware's text is shown. *)
LEMMA PowerOnOnScreen == OnScreen(PowerOn)
<1>1. 0 \in Rows /\ 0 \in Columns
  BY ScreenSize DEF Rows, Columns
<1>2. 0 \in Byte /\ 7 \in Byte /\ FirmwareText \in Byte
  BY DEF Byte, FirmwareText
<1>3. 0 \in Uint16 /\ (0 * VGA_WIDTH + 0) % UINT16 = 0
  BY ScreenSize DEF Uint16, UINT16
<1>4. [k \in Cells |-> vga_entry(FirmwareText, 7)] \in Screen
  BY <1>2 DEF vga_entry, Screen, Entry
<1> QED BY <1>1, <1>2, <1>3, <1>4 DEF OnScreen, PowerOn, Writing

LEMMA InitializeOnScreen ==
  ASSUME NEW t \in Writing(Rows)
  PROVE  OnScreen(terminal_initialize(t))
<1>1. LIGHT_CYAN \in Byte /\ SPACE \in Byte
  BY DEF LIGHT_CYAN, SPACE, Byte
<1>2. 0 \in Rows /\ 0 \in Columns
  BY ScreenSize DEF Rows, Columns
<1>3. PICK u \in Writing(Rows) : u = [t EXCEPT !.color = LIGHT_CYAN]
  BY <1>1 DEF Writing
<1>4. PICK buf \in Screen : buf = [i \in Cells |-> vga_entry(SPACE, u.color)]
  <2>1. u.color \in Byte
    BY DEF Writing
  <2> QED BY <1>1, <2>1 DEF vga_entry, Screen, Entry
<1>5. PICK v \in Writing(Rows) :
        v = [u EXCEPT !.buffer = buf, !.row = 0, !.column = 0]
  BY <1>2 DEF Writing
<1>6. v.row = 0 /\ v.column = 0
  BY <1>3, <1>5 DEF Writing
<1>7. terminal_initialize(t) = update_cursor(v, 0, 0)
  BY <1>3, <1>4, <1>5 DEF terminal_initialize, terminal_clear
<1> QED BY <1>2, <1>6, <1>7, CursorSet DEF OnScreen

LEMMA SetcolorOnScreen ==
  ASSUME NEW t, OnScreen(t), NEW color \in Byte
  PROVE  OnScreen(terminal_setcolor(t, color))
<1>1. t \in Writing(Rows)
  BY DEF OnScreen
<1>2. PICK u : u = [t EXCEPT !.color = color]
  OBVIOUS
<1>3. u \in Writing(Rows) /\ u.row = t.row /\ u.column = t.column
        /\ u.cursor = t.cursor
  BY <1>1, <1>2 DEF Writing
<1> QED BY <1>2, <1>3 DEF OnScreen, terminal_setcolor
-----------------------------------------------------------------------------
(* Strings.  A fact about the console after each turn of the loop in       *)
(* terminal_write is given as a set S[k] of consoles for each turn k: if   *)
(* the first is in S[0] and terminal_putchar leads from S[k - 1] to S[k],  *)
(* the last is in S[Len(s)].                                               *)

(* A set of numbers that is not empty has a least member. *)
LEMMA LeastNumber ==
  ASSUME NEW S \in SUBSET Nat, S # {}
  PROVE  \E x \in S : \A y \in S : x <= y
<1>1. PICK x \in S : \A y \in S : <<y, x>> \notin OpToRel(<, Nat)
  BY NatLessThanWellFounded, WFMin
<1>2. \A y \in S : ~(y < x)
  BY <1>1 DEF OpToRel
<1> QED BY <1>2

(* The consoles after each turn exist. *)
WriteTurns(f, t, s) ==
  f = [k \in 0 .. Len(s) |-> IF k = 0 THEN t ELSE terminal_putchar(f[k - 1], s[k])]

LEMMA WriteExists ==
  ASSUME NEW t, NEW s, Len(s) \in Nat
  PROVE  \E f : WriteTurns(f, t, s)
<1> DEFINE Turns(m) == \E f : f = [k \in 0 .. m |->
                      IF k = 0 THEN t ELSE terminal_putchar(f[k - 1], s[k])]
           S == {m \in 0 .. Len(s) : ~Turns(m)}
<1>1. SUFFICES ASSUME S # {} PROVE FALSE
  <2>1. Len(s) \in 0 .. Len(s)
    OBVIOUS
  <2>2. S = {} => Turns(Len(s))
    BY <2>1
  <2> QED BY <2>2 DEF WriteTurns
<1>2. S \in SUBSET Nat
  OBVIOUS
<1>3. PICK x \in S : \A y \in S : x <= y
  BY <1>1, <1>2, LeastNumber
<1>4. x \in Nat /\ x <= Len(s) /\ ~Turns(x)
  BY <1>3
<1> HIDE DEF S
<1>5. CASE x = 0
  <2>1. PICK f : f = [k \in 0 .. 0 |-> t]
    OBVIOUS
  <2>2. f = [k \in 0 .. 0 |->
              IF k = 0 THEN t ELSE terminal_putchar(f[k - 1], s[k])]
    BY <2>1
  <2> QED BY <1>4, <1>5, <2>2
<1>6. CASE x # 0
  <2>1. x - 1 \in Nat /\ x - 1 \in 0 .. Len(s)
    BY <1>4, <1>6
  <2>2. x - 1 \notin S
    BY <1>3, <1>4, <2>1
  <2>3. Turns(x - 1)
    BY <2>1, <2>2 DEF S
  <2>4. PICK f : f = [k \in 0 .. x - 1 |->
                       IF k = 0 THEN t ELSE terminal_putchar(f[k - 1], s[k])]
    BY <2>3
  <2>5. PICK g : g = [k \in 0 .. x |->
                       IF k = x THEN terminal_putchar(f[x - 1], s[x]) ELSE f[k]]
    OBVIOUS
  <2>6. ASSUME NEW k \in 0 .. x
        PROVE  g[k] = IF k = 0 THEN t ELSE terminal_putchar(g[k - 1], s[k])
    <3>1. CASE k = x
      <4>1. g[x - 1] = f[x - 1]
        BY <1>4, <2>1, <2>5
      <4> QED BY <1>6, <2>5, <3>1, <4>1
    <3>2. CASE k # x
      <4>1. k \in 0 .. x - 1 /\ g[k] = f[k]
        BY <1>4, <2>5, <3>2
      <4>2. k # 0 => k - 1 \in 0 .. x /\ k - 1 # x
        BY <1>4, <4>1
      <4>3. k # 0 => g[k - 1] = f[k - 1]
        BY <2>5, <4>2
      <4> QED BY <2>4, <4>1, <4>3
    <3> QED BY <3>1, <3>2
  <2>7. g = [k \in 0 .. x |->
              IF k = 0 THEN t ELSE terminal_putchar(g[k - 1], s[k])]
    BY <2>5, <2>6
  <2> QED BY <1>4, <2>7
<1> QED BY <1>5, <1>6

LEMMA WriteInduction ==
  ASSUME NEW t, NEW s, Len(s) \in Nat, NEW S, t \in S[0],
         \A k \in 1 .. Len(s) : \A u \in S[k - 1] :
            terminal_putchar(u, s[k]) \in S[k]
  PROVE  terminal_write(t, s) \in S[Len(s)]
<1>1. PICK f : /\ terminal_write(t, s) = f[Len(s)]
               /\ f = [k \in 0 .. Len(s) |->
                    IF k = 0 THEN t ELSE terminal_putchar(f[k - 1], s[k])]
  <2>1. PICK g : WriteTurns(g, t, s)
    BY WriteExists
  <2> QED BY <2>1 DEF terminal_write, WriteTurns
<1>2. f[0] = t /\ \A k \in 1 .. Len(s) : f[k] = terminal_putchar(f[k - 1], s[k])
  <2>1. 0 \in 0 .. Len(s) /\ \A k \in 1 .. Len(s) : k \in 0 .. Len(s) /\ k # 0
    OBVIOUS
  <2> QED BY <1>1, <2>1
<1> DEFINE B == {m \in 0 .. Len(s) : f[m] \notin S[m]}
<1>3. B \in SUBSET Nat
  OBVIOUS
<1>4. B = {}
  <2> SUFFICES ASSUME B # {} PROVE FALSE
    OBVIOUS
  <2>1. PICK x \in B : \A y \in B : x <= y
    BY <1>3, LeastNumber
  <2>2. x \in 1 .. Len(s) /\ f[x] \notin S[x]
    BY <1>2, <2>1
  <2>3. x - 1 \in 0 .. Len(s) /\ x - 1 \notin B
    BY <2>1, <2>2
  <2>4. f[x - 1] \in S[x - 1]
    BY <2>3
  <2> QED BY <1>2, <2>2, <2>4
<1>5. Len(s) \in 0 .. Len(s)
  OBVIOUS
<1> QED BY <1>1, <1>4, <1>5

(* The same for the cooked output. *)
CookedTurns(f, t, s) ==
  f = [k \in 0 .. Len(s) |-> IF k = 0 THEN t ELSE CookedPut(f[k - 1], s[k])]

LEMMA CookedExists ==
  ASSUME NEW t, NEW s, Len(s) \in Nat
  PROVE  \E f : CookedTurns(f, t, s)
<1> DEFINE Turns(m) == \E f : f = [k \in 0 .. m |->
                      IF k = 0 THEN t ELSE CookedPut(f[k - 1], s[k])]
           S == {m \in 0 .. Len(s) : ~Turns(m)}
<1>1. SUFFICES ASSUME S # {} PROVE FALSE
  <2>1. Len(s) \in 0 .. Len(s)
    OBVIOUS
  <2>2. S = {} => Turns(Len(s))
    BY <2>1
  <2> QED BY <2>2 DEF CookedTurns
<1>2. S \in SUBSET Nat
  OBVIOUS
<1>3. PICK x \in S : \A y \in S : x <= y
  BY <1>1, <1>2, LeastNumber
<1>4. x \in Nat /\ x <= Len(s) /\ ~Turns(x)
  BY <1>3
<1> HIDE DEF S
<1>5. CASE x = 0
  <2>1. PICK f : f = [k \in 0 .. 0 |-> t]
    OBVIOUS
  <2>2. f = [k \in 0 .. 0 |->
              IF k = 0 THEN t ELSE CookedPut(f[k - 1], s[k])]
    BY <2>1
  <2> QED BY <1>4, <1>5, <2>2
<1>6. CASE x # 0
  <2>1. x - 1 \in Nat /\ x - 1 \in 0 .. Len(s)
    BY <1>4, <1>6
  <2>2. x - 1 \notin S
    BY <1>3, <1>4, <2>1
  <2>3. Turns(x - 1)
    BY <2>1, <2>2 DEF S
  <2>4. PICK f : f = [k \in 0 .. x - 1 |->
                       IF k = 0 THEN t ELSE CookedPut(f[k - 1], s[k])]
    BY <2>3
  <2>5. PICK g : g = [k \in 0 .. x |->
                       IF k = x THEN CookedPut(f[x - 1], s[x]) ELSE f[k]]
    OBVIOUS
  <2>6. ASSUME NEW k \in 0 .. x
        PROVE  g[k] = IF k = 0 THEN t ELSE CookedPut(g[k - 1], s[k])
    <3>1. CASE k = x
      <4>1. g[x - 1] = f[x - 1]
        BY <1>4, <2>1, <2>5
      <4> QED BY <1>6, <2>5, <3>1, <4>1
    <3>2. CASE k # x
      <4>1. k \in 0 .. x - 1 /\ g[k] = f[k]
        BY <1>4, <2>5, <3>2
      <4>2. k # 0 => k - 1 \in 0 .. x /\ k - 1 # x
        BY <1>4, <4>1
      <4>3. k # 0 => g[k - 1] = f[k - 1]
        BY <2>5, <4>2
      <4> QED BY <2>4, <4>1, <4>3
    <3> QED BY <3>1, <3>2
  <2>7. g = [k \in 0 .. x |->
              IF k = 0 THEN t ELSE CookedPut(g[k - 1], s[k])]
    BY <2>5, <2>6
  <2> QED BY <1>4, <2>7
<1> QED BY <1>5, <1>6

LEMMA CookedInduction ==
  ASSUME NEW t, NEW s, Len(s) \in Nat, NEW S, t \in S[0],
         \A k \in 1 .. Len(s) : \A u \in S[k - 1] :
            CookedPut(u, s[k]) \in S[k]
  PROVE  mp_hal_stdout_tx_strn_cooked(t, s) \in S[Len(s)]
<1>1. PICK f : /\ mp_hal_stdout_tx_strn_cooked(t, s) = f[Len(s)]
               /\ f = [k \in 0 .. Len(s) |->
                    IF k = 0 THEN t ELSE CookedPut(f[k - 1], s[k])]
  <2>1. PICK g : CookedTurns(g, t, s)
    BY CookedExists
  <2> QED BY <2>1 DEF mp_hal_stdout_tx_strn_cooked, CookedTurns
<1>2. f[0] = t /\ \A k \in 1 .. Len(s) : f[k] = CookedPut(f[k - 1], s[k])
  <2>1. 0 \in 0 .. Len(s) /\ \A k \in 1 .. Len(s) : k \in 0 .. Len(s) /\ k # 0
    OBVIOUS
  <2> QED BY <1>1, <2>1
<1> DEFINE B == {m \in 0 .. Len(s) : f[m] \notin S[m]}
<1>3. B \in SUBSET Nat
  OBVIOUS
<1>4. B = {}
  <2> SUFFICES ASSUME B # {} PROVE FALSE
    OBVIOUS
  <2>1. PICK x \in B : \A y \in B : x <= y
    BY <1>3, LeastNumber
  <2>2. x \in 1 .. Len(s) /\ f[x] \notin S[x]
    BY <1>2, <2>1
  <2>3. x - 1 \in 0 .. Len(s) /\ x - 1 \notin B
    BY <2>1, <2>2
  <2>4. f[x - 1] \in S[x - 1]
    BY <2>3
  <2> QED BY <1>2, <2>2, <2>4
<1>5. Len(s) \in 0 .. Len(s)
  OBVIOUS
<1> QED BY <1>1, <1>4, <1>5

=============================================================================
