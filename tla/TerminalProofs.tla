--------------------------- MODULE TerminalProofs ---------------------------
(***************************************************************************)
(* The console, for every width and height, every length of paper and      *)
(* every order of calls: it stays on its screen, the screen is a window on *)
(* the paper roll, and a backspace undoes the character before it.         *)
(*                                                                         *)
(* ScreenShowsPaper is not inductive as it stands: RollInv adds where the  *)
(* paper ends, and that it is blank from there on, so that the line that   *)
(* scrolls in shows what the roll has there.                               *)
(***************************************************************************)
EXTENDS Terminal, VgaProofs
-----------------------------------------------------------------------------
LEMMA InsideIsOnScreen == InsideScreen <=> OnScreen(term)
<1>1. InsideScreen => term \in Writing(Rows)
  <2>1. term \in Term /\ ~term.stray => term.stray = FALSE
    <3>1. term \in Term => term.stray \in BOOLEAN
      BY DEF Term
    <3> QED BY <3>1, Zenon
  <2>2. term \in Term /\ term.stray = FALSE => term \in Writing(Rows)
    BY DEF Term, Writing, Screen
  <2> QED BY <2>1, <2>2, Zenon DEF InsideScreen, TypeOK
<1>2. term \in Writing(Rows) => term \in Term /\ ~term.stray
  BY DEF Term, Writing, Screen
<1> QED BY <1>1, <1>2 DEF InsideScreen, TypeOK, OnScreen

(***************************************************************************)
(* For every width and height, every set of characters and every order of  *)
(* calls: terminal_putchar and the other functions of vga.c never store    *)
(* outside the video memory, keep row and column on the screen, and leave  *)
(* the hardware cursor where the next character goes.                      *)
(***************************************************************************)
THEOREM ConsoleStaysOnScreen == Spec => []InsideScreen
<1>1. Init => InsideScreen
  BY PowerOnOnScreen, InsideIsOnScreen DEF Init
<1>2. InsideScreen /\ [Next]_vars => InsideScreen'
  <2> SUFFICES ASSUME OnScreen(term), [Next]_vars PROVE OnScreen(term)'
    BY InsideIsOnScreen, PTL
  <2>1. term \in Writing(Rows)
    BY DEF OnScreen
  <2>2. CASE Initialize
    BY <2>1, <2>2, InitializeOnScreen DEF Initialize, OnScreen
  <2>3. ASSUME NEW ch \in Chars, Putchar(ch) PROVE OnScreen(term)'
    <3>1. ch \in Byte
      BY TerminalAssumption DEF Byte
    <3> QED BY <2>1, <2>3, <3>1, PutcharOnScreen DEF Putchar, OnScreen
  <2>4. ASSUME NEW color \in Colors, SetColor(color) PROVE OnScreen(term)'
    <3>1. color \in Byte
      BY TerminalAssumption DEF Byte
    <3> QED BY <2>4, <3>1, SetcolorOnScreen DEF SetColor, OnScreen
  <2>5. CASE UNCHANGED vars
    BY <2>5 DEF vars, OnScreen
  <2> QED BY <2>2, <2>3, <2>4, <2>5 DEF Next
<1> QED BY <1>1, <1>2, PTL DEF Spec
-----------------------------------------------------------------------------
(* The screen is a window on the roll. *)

(* The contents of the screen agree with the roll from its line top on.    *)
ShowsCells(t, top, cells) ==
  \A y \in Rows, x \in Columns :
    top + y <= MaxPaper => Cell(t, x, y).ch = cells[top + y][x]

(* Two places on the screen are two cells.                                 *)
LEMMA IndexInjective ==
  ASSUME NEW x1 \in Columns, NEW y1 \in Rows, NEW x2 \in Columns, NEW y2 \in Rows,
         y1 * VGA_WIDTH + x1 = y2 * VGA_WIDTH + x2
  PROVE  x1 = x2 /\ y1 = y2
<1>1. /\ x1 \in Nat /\ x2 \in Nat /\ y1 \in Nat /\ y2 \in Nat
      /\ x1 < VGA_WIDTH /\ x2 < VGA_WIDTH
  BY ScreenSize DEF Columns, Rows
<1>2. ASSUME NEW a \in Nat, NEW b \in Nat, NEW c \in Nat, NEW d \in Nat,
             c < VGA_WIDTH, d < VGA_WIDTH, a * VGA_WIDTH + c = b * VGA_WIDTH + d
      PROVE  ~(a < b)
  <2> SUFFICES ASSUME a < b PROVE FALSE
    OBVIOUS
  <2>1. PICK e \in Nat : b = a + 1 + e
    <3>1. b - a - 1 \in Nat /\ b = a + 1 + (b - a - 1)
      OBVIOUS
    <3> QED BY <3>1
  <2>2. b * VGA_WIDTH = a * VGA_WIDTH + VGA_WIDTH + e * VGA_WIDTH
    BY <2>1, ScreenSize
  <2>3. e * VGA_WIDTH \in Nat /\ a * VGA_WIDTH \in Nat
    BY ScreenSize
  <2> QED BY <1>2, <2>2, <2>3, ScreenSize
<1>3. ~(y1 < y2) /\ ~(y2 < y1)
  BY <1>1, <1>2
<1>4. y1 = y2
  BY <1>1, <1>3
<1>5. y1 * VGA_WIDTH \in Nat
  BY <1>1, ScreenSize
<1> QED BY <1>1, <1>4, <1>5

LEMMA PutentryCells ==
  ASSUME NEW rows, NEW t \in Writing(rows), NEW ch \in Byte, NEW x \in Columns, NEW y \in Rows,
         NEW x2 \in Columns, NEW y2 \in Rows
  PROVE  Cell(terminal_putentryat(t, ch, x, y), x2, y2).ch
           = IF x2 = x /\ y2 = y THEN ch ELSE Cell(t, x2, y2).ch
<1>1. PICK index \in Cells : index = y * VGA_WIDTH + x
  BY IndexOnScreen
<1>2. PICK index2 \in Cells : index2 = y2 * VGA_WIDTH + x2
  BY IndexOnScreen
<1>3. index2 = index <=> x2 = x /\ y2 = y
  BY <1>1, <1>2, IndexInjective
<1>4. PICK entry : entry = vga_entry(ch, t.color)
  OBVIOUS
<1>5. terminal_putentryat(t, ch, x, y).buffer = [t.buffer EXCEPT ![index] = entry]
  BY <1>1, <1>4 DEF terminal_putentryat, Writing
<1>6. t.buffer \in Screen /\ entry.ch = ch
  BY <1>4 DEF Writing, vga_entry
<1>7. [t.buffer EXCEPT ![index] = entry][index2]
        = IF index2 = index THEN entry ELSE t.buffer[index2]
  BY <1>6 DEF Screen
<1> QED BY <1>2, <1>3, <1>5, <1>6, <1>7 DEF Cell

(* A character put on the screen is inked on the roll.                     *)
LEMMA InkShows ==
  ASSUME NEW rows, NEW t \in Writing(rows), NEW ch \in Byte, NEW x \in Columns, NEW y \in Rows,
         NEW top \in 0 .. MaxPaper, NEW cells \in [0 .. MaxPaper -> [Columns -> Byte]],
         ShowsCells(t, top, cells), NEW line \in 0 .. MaxPaper, line = top + y,
         NEW inked, inked = [cells EXCEPT ![line][x] = ch]
  PROVE  ShowsCells(terminal_putentryat(t, ch, x, y), top, inked)
<1> SUFFICES ASSUME NEW y2 \in Rows, NEW x2 \in Columns, top + y2 <= MaxPaper
             PROVE  Cell(terminal_putentryat(t, ch, x, y), x2, y2).ch
                      = inked[top + y2][x2]
  BY DEF ShowsCells
<1>1. Cell(terminal_putentryat(t, ch, x, y), x2, y2).ch
        = IF x2 = x /\ y2 = y THEN ch ELSE cells[top + y2][x2]
  BY PutentryCells DEF ShowsCells
<1>3. PICK line2 \in 0 .. MaxPaper : line2 = top + y2
  BY TerminalAssumption, ScreenSize DEF Rows
<1>4. line2 = line <=> y2 = y
  BY <1>3, TerminalAssumption, ScreenSize DEF Rows
<1>5. inked[line2][x2]
        = IF x2 = x /\ line2 = line THEN ch ELSE cells[line2][x2]
  OBVIOUS
<1> QED BY <1>1, <1>3, <1>4, <1>5

(* Scrolling moves the window down by a line, which the roll has blank.    *)
LEMMA ScrollShows ==
  ASSUME NEW rows, NEW t \in Writing(rows),
         NEW top \in 0 .. MaxPaper, NEW cells, ShowsCells(t, top, cells),
         \A x \in Columns :
           top + VGA_HEIGHT <= MaxPaper => cells[top + VGA_HEIGHT][x] = SPACE
  PROVE  ShowsCells(terminal_scroll(t), top + 1, cells)
<1> SUFFICES ASSUME NEW y \in Rows, NEW x \in Columns, top + 1 + y <= MaxPaper
             PROVE  Cell(terminal_scroll(t), x, y).ch = cells[top + 1 + y][x]
  BY DEF ShowsCells
<1>1. /\ y \in Nat /\ x \in Nat /\ x < VGA_WIDTH /\ y <= VGA_HEIGHT - 1 /\ top \in Nat
      /\ MaxPaper \in Nat
  BY ScreenSize, TerminalAssumption DEF Rows, Columns
<1>2. PICK index \in Cells : index = y * VGA_WIDTH + x
  BY IndexOnScreen
<1>3. terminal_scroll(t).buffer[index]
        = IF index < (VGA_HEIGHT - 1) * VGA_WIDTH
            THEN t.buffer[index + VGA_WIDTH] ELSE vga_entry(SPACE, t.color)
  BY DEF terminal_scroll, Writing
<1>4. CASE y < VGA_HEIGHT - 1
  <2>1. y + 1 \in Rows /\ (top + 1) + y = top + (y + 1)
    BY <1>1, <1>4, ScreenSize DEF Rows
  <2>2. PICK d \in Nat : VGA_HEIGHT - 1 = y + 1 + d
    <3>1. VGA_HEIGHT - 1 - y - 1 \in Nat
      BY <1>1, <1>4, ScreenSize
    <3> QED BY <1>1, <3>1, ScreenSize
  <2>3. (VGA_HEIGHT - 1) * VGA_WIDTH = y * VGA_WIDTH + VGA_WIDTH + d * VGA_WIDTH
    BY <1>1, <2>2, ScreenSize
  <2>4. d * VGA_WIDTH \in Nat /\ y * VGA_WIDTH \in Nat
    BY <1>1, ScreenSize
  <2>5. index < (VGA_HEIGHT - 1) * VGA_WIDTH
    BY <1>1, <1>2, <2>3, <2>4, ScreenSize
  <2>6. index + VGA_WIDTH = (y + 1) * VGA_WIDTH + x
    <3>1. (y + 1) * VGA_WIDTH = y * VGA_WIDTH + VGA_WIDTH
      BY <1>1, ScreenSize
    <3> QED BY <1>1, <1>2, <2>4, <3>1, ScreenSize
  <2>7. Cell(terminal_scroll(t), x, y) = Cell(t, x, y + 1)
    BY <1>2, <1>3, <2>5, <2>6 DEF Cell
  <2> QED BY <2>1, <2>7 DEF ShowsCells
<1>5. CASE ~(y < VGA_HEIGHT - 1)
  <2>1. y = VGA_HEIGHT - 1 /\ (top + 1) + y = top + VGA_HEIGHT
    BY <1>1, <1>5, ScreenSize
  <2>2. ~(index < (VGA_HEIGHT - 1) * VGA_WIDTH)
    <3>1. y * VGA_WIDTH \in Nat /\ (VGA_HEIGHT - 1) * VGA_WIDTH = y * VGA_WIDTH
      BY <1>1, <2>1, ScreenSize
    <3> QED BY <1>1, <1>2, <3>1
  <2>3. Cell(terminal_scroll(t), x, y).ch = SPACE
    BY <1>2, <1>3, <2>2 DEF Cell, vga_entry
  <2> QED BY <2>1, <2>3
<1> QED BY <1>4, <1>5
(* The roll after the cursor went to column x of line: what terminal_putchar *)
(* does on the screen with ScrollIfNeeded.                                 *)
Settled(p, x, line) ==
  [p EXCEPT !.column = x,
            !.row = line,
            !.top = IF line - p.top >= VGA_HEIGHT THEN line - VGA_HEIGHT + 1 ELSE p.top]

LEMMA SettleShows ==
  ASSUME NEW u \in Writing(LowRows), NEW p, Rolled(p), NEW x \in Columns,
         NEW line \in 0 .. MaxPaper,
         u.row = line - p.top, u.column = x, ShowsCells(u, p.top, p.cells)
  PROVE  Rolled(Settled(p, x, line)) /\ Shows(ScrollIfNeeded(u), Settled(p, x, line))
<1>1. /\ p \in Paper /\ p.top \in 0 .. MaxPaper /\ MaxPaper \in Nat
      /\ p.cells \in [0 .. MaxPaper -> [Columns -> Byte]]
      /\ \A y \in 0 .. MaxPaper, c \in Columns :
           y >= p.top + VGA_HEIGHT => p.cells[y][c] = SPACE
  BY TerminalAssumption DEF Rolled, Paper
<1>2. u.row \in LowRows /\ u.row >= 0 /\ u.row <= VGA_HEIGHT
  BY ScreenSize DEF Writing, LowRows
<1>3. PICK top : top = IF line - p.top >= VGA_HEIGHT THEN line - VGA_HEIGHT + 1 ELSE p.top
  OBVIOUS
<1>4. PICK q : q = [p EXCEPT !.column = x, !.row = line, !.top = top]
  OBVIOUS
<1>5. q = Settled(p, x, line)
  BY <1>3, <1>4 DEF Settled
<1>6. q.row = line /\ q.column = x /\ q.top = top /\ q.cells = p.cells
  BY <1>1, <1>4 DEF Paper
<1>7. CASE line - p.top >= VGA_HEIGHT
  <2>1. line = p.top + VGA_HEIGHT /\ top = p.top + 1
    BY <1>1, <1>2, <1>3, <1>7, ScreenSize
  <2>2. top \in 0 .. MaxPaper /\ line - top = VGA_HEIGHT - 1
    BY <1>1, <2>1, ScreenSize
  <2>3. \A y \in 0 .. MaxPaper, c \in Columns :
          y >= top + VGA_HEIGHT => p.cells[y][c] = SPACE
    <3> SUFFICES ASSUME NEW y \in 0 .. MaxPaper, NEW c \in Columns, y >= top + VGA_HEIGHT
                 PROVE  p.cells[y][c] = SPACE
      OBVIOUS
    <3>1. p.top \in Nat /\ y \in Nat
      BY <1>1
    <3>2. y >= p.top + VGA_HEIGHT
      BY <2>1, <3>1, ScreenSize
    <3> QED BY <1>1, <3>2, Zenon
  <2>4. q \in Paper
    BY <1>1, <1>4, <2>2 DEF Paper
  <2>5. Rolled(q)
    <3>1. top <= line /\ line < top + VGA_HEIGHT
      BY <2>2, ScreenSize
    <3> QED BY <1>6, <2>3, <2>4, <3>1 DEF Rolled
  <2>6. PICK v \in Writing(LowRows) : v = terminal_scroll(u)
    BY ScrollWrites
  <2>7. v.column = u.column
    BY <2>6 DEF terminal_scroll, Writing
  <2>8. ShowsCells(v, top, p.cells)
    <3>1. \A c \in Columns :
            p.top + VGA_HEIGHT <= MaxPaper => p.cells[p.top + VGA_HEIGHT][c] = SPACE
      BY <1>1, ScreenSize
    <3> QED BY <1>1, <2>1, <2>6, <3>1, ScrollShows
  <2>9. PICK w : w = [v EXCEPT !.row = VGA_HEIGHT - 1]
    OBVIOUS
  <2>10. w.row = VGA_HEIGHT - 1 /\ w.column = v.column /\ w.buffer = v.buffer
    BY <2>9 DEF Writing
  <2>11. ScrollIfNeeded(u) = w
    BY <1>7, <2>6, <2>9 DEF ScrollIfNeeded
  <2>12. Shows(w, q)
    BY <1>6, <2>2, <2>7, <2>8, <2>10 DEF Shows, ShowsCells, Cell
  <2> QED BY <1>5, <2>5, <2>11, <2>12
<1>8. CASE ~(line - p.top >= VGA_HEIGHT)
  <2>1. top = p.top /\ line >= p.top /\ line < p.top + VGA_HEIGHT
    BY <1>1, <1>2, <1>3, <1>8, ScreenSize
  <2>2. q \in Paper
    BY <1>1, <1>4, <2>1 DEF Paper
  <2>3. Rolled(q)
    BY <1>1, <1>6, <2>1, <2>2 DEF Rolled
  <2>4. ScrollIfNeeded(u) = u
    BY <1>8 DEF ScrollIfNeeded
  <2>5. Shows(u, q)
    BY <1>6, <2>1 DEF Shows, ShowsCells
  <2> QED BY <1>5, <2>3, <2>4, <2>5
<1> QED BY <1>7, <1>8

(* A move of the cursor: to column x, or to the next line if x is past the *)
(* end, on the line of the cursor or the one after it.                     *)
LEMMA MoveShows ==
  ASSUME NEW u \in Writing(LowRows), NEW p, Rolled(p), NEW x \in Nat, NEW y \in Nat,
         NEW line \in 0 .. MaxPaper, line = (IF x >= VGA_WIDTH THEN y + 1 ELSE y),
         u.row = line - p.top, u.column = (IF x >= VGA_WIDTH THEN 0 ELSE x),
         ShowsCells(u, p.top, p.cells)
  PROVE  Rolled(PaperMove(p, x, y)) /\ Shows(ScrollIfNeeded(u), PaperMove(p, x, y))
<1>1. u.column \in Columns
  BY DEF Writing
<1>2. PaperMove(p, x, y) = Settled(p, u.column, line)
  BY DEF PaperMove, Settled
<1> QED BY <1>1, <1>2, SettleShows

(* The branches of terminal_putchar, each with its branch of PaperPut.     *)
LEMMA NextLineShows ==
  ASSUME NEW t \in Writing(Rows), NEW p, Rolled(p), p.row < MaxPaper,
         t.row = p.row - p.top, ShowsCells(t, p.top, p.cells),
         NEW x \in Nat, NEW y \in Nat,
         (x >= VGA_WIDTH /\ y = p.row) \/ (x = 0 /\ y = p.row + 1)
  PROVE  /\ Rolled(PaperMove(p, x, y))
         /\ Shows(ScrollIfNeeded(NextLine(t)), PaperMove(p, x, y))
<1>1. p.row \in 0 .. MaxPaper /\ p.top \in 0 .. MaxPaper /\ MaxPaper \in Nat
  BY TerminalAssumption DEF Rolled, Paper
<1>2. PICK u \in Writing(LowRows) : u = NextLine(t)
  BY NextLineLow
<1>3. u.row = t.row + 1 /\ u.column = 0 /\ u.buffer = t.buffer
  BY <1>2 DEF NextLine, Writing
<1>4. PICK line \in 0 .. MaxPaper : line = p.row + 1
  BY <1>1
<1>5. line = (IF x >= VGA_WIDTH THEN y + 1 ELSE y) /\ 0 = (IF x >= VGA_WIDTH THEN 0 ELSE x)
  BY <1>1, <1>4, ScreenSize
<1>6. u.row = line - p.top
  BY <1>1, <1>3, <1>4
<1>7. ShowsCells(u, p.top, p.cells)
  BY <1>3 DEF ShowsCells, Cell
<1> QED BY <1>2, <1>3, <1>5, <1>6, <1>7, MoveShows

LEMMA StayShows ==
  ASSUME NEW t \in Writing(Rows), NEW p, Rolled(p),
         t.row = p.row - p.top, ShowsCells(t, p.top, p.cells), NEW x \in Columns
  PROVE  /\ Rolled(PaperMove(p, x, p.row))
         /\ Shows(ScrollIfNeeded([t EXCEPT !.column = x]), PaperMove(p, x, p.row))
<1>1. p.row \in 0 .. MaxPaper /\ p.row \in Nat
  BY TerminalAssumption DEF Rolled, Paper
<1>2. PICK u \in Writing(LowRows) : u = [t EXCEPT !.column = x]
  BY StaysLow
<1>3. u.row = t.row /\ u.column = x /\ u.buffer = t.buffer
  BY <1>2 DEF Writing
<1>4. x \in Nat /\ ~(x >= VGA_WIDTH)
  BY ScreenSize DEF Columns
<1>5. ShowsCells(u, p.top, p.cells)
  BY <1>3 DEF ShowsCells, Cell
<1> QED BY <1>1, <1>2, <1>3, <1>4, <1>5, MoveShows

LEMMA TabShows ==
  ASSUME NEW t \in Writing(Rows), NEW p, Rolled(p), Shows(t, p), p.row < MaxPaper
  PROVE  /\ Rolled(PaperMove(p, p.column + 4 - (p.column % 4), p.row))
         /\ Shows(ScrollIfNeeded(Tab(t)),
                  PaperMove(p, p.column + 4 - (p.column % 4), p.row))
<1>1. p.row \in Nat /\ p.column \in Columns
  BY TerminalAssumption DEF Rolled, Paper
<1>2. PICK col \in Nat : col = p.column /\ col = t.column
  BY <1>1, ScreenSize DEF Columns, Shows
<1>3. t.row = p.row - p.top /\ ShowsCells(t, p.top, p.cells)
  BY DEF Shows, ShowsCells
<1>4. PICK stop \in Nat : stop = ((col + 4) \div 4) * 4 /\ stop = col + 4 - (col % 4)
  OBVIOUS
<1>5. CASE stop >= VGA_WIDTH
  <2>1. Tab(t) = NextLine(t)
    BY <1>2, <1>4, <1>5 DEF Tab
  <2> QED BY <1>1, <1>2, <1>3, <1>4, <1>5, <2>1, NextLineShows
<1>6. CASE ~(stop >= VGA_WIDTH)
  <2>1. Tab(t) = [t EXCEPT !.column = stop]
    BY <1>2, <1>4, <1>6 DEF Tab
  <2>2. stop \in Columns
    BY <1>6, ScreenSize DEF Columns
  <2> QED BY <1>2, <1>3, <1>4, <2>1, <2>2, StayShows
<1> QED BY <1>5, <1>6
(* Ink on a line the screen shows, at the place where the cursor then is.  *)
LEMMA InkRolled ==
  ASSUME NEW p, Rolled(p), NEW x \in Columns, NEW y \in 0 .. MaxPaper, NEW ch \in Byte,
         p.top <= y, y < p.top + VGA_HEIGHT
  PROVE  /\ Rolled(Ink(p, x, y, ch))
         /\ Ink(p, x, y, ch).row = y /\ Ink(p, x, y, ch).column = x
         /\ Ink(p, x, y, ch).top = p.top
         /\ Ink(p, x, y, ch).cells = [p.cells EXCEPT ![y][x] = ch]
<1>1. /\ p \in Paper /\ p.cells \in [0 .. MaxPaper -> [Columns -> Byte]]
      /\ p.top \in 0 .. MaxPaper
  BY DEF Rolled, Paper
<1>2. PICK inked \in [0 .. MaxPaper -> [Columns -> Byte]] :
        inked = [p.cells EXCEPT ![y][x] = ch]
  BY <1>1
<1>3. PICK q : q = [p EXCEPT !.cells = inked, !.row = y, !.column = x]
  OBVIOUS
<1>4. Ink(p, x, y, ch) = q
  BY <1>2, <1>3 DEF Ink
<1>5. q \in Paper /\ q.row = y /\ q.column = x /\ q.top = p.top /\ q.cells = inked
  BY <1>1, <1>3 DEF Paper
<1>6. ASSUME NEW y2 \in 0 .. MaxPaper, NEW x2 \in Columns, y2 >= p.top + VGA_HEIGHT
      PROVE  inked[y2][x2] = SPACE
  <2>1. y2 # y
    BY <1>1, <1>6, ScreenSize, TerminalAssumption
  <2>2. inked[y2] = p.cells[y2]
    BY <1>1, <1>2, <2>1
  <2> QED BY <1>6, <2>2 DEF Rolled
<1>7. Rolled(q)
  BY <1>5, <1>6 DEF Rolled
<1> QED BY <1>2, <1>4, <1>5, <1>7

LEMMA BackspaceShows ==
  ASSUME NEW t \in Writing(Rows), NEW p, Rolled(p), Shows(t, p)
  PROVE  /\ Rolled(PaperPut(p, BS))
         /\ Shows(ScrollIfNeeded(Backspace(t)), PaperPut(p, BS))
<1>1. PICK row \in 0 .. MaxPaper, top \in 0 .. MaxPaper, col \in Columns :
        /\ p.row = row /\ p.top = top /\ p.column = col
        /\ p.cells \in [0 .. MaxPaper -> [Columns -> Byte]]
        /\ top <= row /\ row < top + VGA_HEIGHT /\ MaxPaper \in Nat
  BY TerminalAssumption DEF Rolled, Paper
<1>2. /\ t.row = row - top /\ t.column = col /\ ShowsCells(t, top, p.cells)
      /\ t.row \in Rows /\ t.column \in Columns
  BY <1>1 DEF Shows, ShowsCells, Writing
<1>3. SPACE \in Byte
  BY DEF SPACE, Byte
<1>4. ASSUME NEW x \in Columns, NEW y \in Rows, NEW t0 \in Writing(Rows),
             t0.row = y, t0.column = x, t0.buffer = t.buffer, NEW line \in 0 .. MaxPaper,
             line = top + y
      PROVE  /\ Rolled(Ink(p, x, line, SPACE))
             /\ Shows(ScrollIfNeeded(terminal_putentryat(t0, SPACE, x, y)),
                      Ink(p, x, line, SPACE))
  <2>1. PICK u \in Writing(Rows) : u = terminal_putentryat(t0, SPACE, x, y)
    BY <1>3, PutentryWrites
  <2>2. u.row = y /\ u.column = x
    BY <1>3, <1>4, <2>1, PutentryWrites
  <2>3. y < VGA_HEIGHT /\ y >= 0
    BY ScreenSize DEF Rows
  <2>4. ScrollIfNeeded(u) = u
    BY <2>2, <2>3, ScreenSize DEF ScrollIfNeeded, Rows
  <2>5. ShowsCells(t0, top, p.cells)
    BY <1>2, <1>4 DEF ShowsCells, Cell
  <2> PICK inked : inked = [p.cells EXCEPT ![line][x] = SPACE]
    OBVIOUS
  <2>6. ShowsCells(u, top, inked)
    BY <1>1, <1>3, <1>4, <2>1, <2>5, InkShows
  <2>7. top <= line /\ line < top + VGA_HEIGHT /\ y = line - top
    BY <1>1, <1>4, <2>3, ScreenSize DEF Rows
  <2>8. /\ Rolled(Ink(p, x, line, SPACE))
        /\ Ink(p, x, line, SPACE).row = line /\ Ink(p, x, line, SPACE).column = x
        /\ Ink(p, x, line, SPACE).top = top
        /\ Ink(p, x, line, SPACE).cells = inked
    <3>1. p.top <= line /\ line < p.top + VGA_HEIGHT
      BY <1>1, <2>7
    <3>2. /\ Rolled(Ink(p, x, line, SPACE))
          /\ Ink(p, x, line, SPACE).row = line /\ Ink(p, x, line, SPACE).column = x
          /\ Ink(p, x, line, SPACE).top = p.top
          /\ Ink(p, x, line, SPACE).cells = [p.cells EXCEPT ![line][x] = SPACE]
      BY <1>3, <3>1, InkRolled
    <3> QED BY <1>1, <3>2
  <2> QED BY <1>1, <2>1, <2>2, <2>4, <2>6, <2>7, <2>8 DEF Shows, ShowsCells
<1>5. CASE col > 0
  <2>1. PaperPut(p, BS) = Ink(p, col - 1, row, SPACE)
    BY <1>1, <1>5 DEF PaperPut, BS, LF, CR, TAB
  <2>2. col - 1 \in Columns
    BY <1>1, <1>5, ScreenSize DEF Columns
  <2>3. PICK t0 \in Writing(Rows) : t0 = [t EXCEPT !.column = col - 1]
    BY <2>2 DEF Writing
  <2>4. t0.row = t.row /\ t0.column = col - 1 /\ t0.buffer = t.buffer
    BY <2>3 DEF Writing
  <2>5. Backspace(t) = terminal_putentryat(t0, SPACE, col - 1, t.row)
    BY <1>2, <1>5, <2>3 DEF Backspace
  <2>6. row = top + t.row
    BY <1>1, <1>2
  <2> QED BY <1>1, <1>2, <1>4, <2>1, <2>2, <2>4, <2>5, <2>6
<1>6. CASE ~(col > 0) /\ row > top
  <2>1. col = 0 /\ t.row > 0 /\ ~(t.column > 0)
    BY <1>1, <1>2, <1>6, ScreenSize DEF Columns
  <2>2. PaperPut(p, BS) = Ink(p, VGA_WIDTH - 1, row - 1, SPACE)
    BY <1>1, <1>6, <2>1 DEF PaperPut, BS, LF, CR, TAB
  <2>3. VGA_WIDTH - 1 \in Columns /\ t.row - 1 \in Rows
    BY <1>2, <2>1, ScreenSize DEF Columns, Rows
  <2>4. row - 1 \in 0 .. MaxPaper /\ row - 1 = top + (t.row - 1)
    BY <1>1, <1>2, <1>6, <2>1, ScreenSize DEF Rows
  <2>5. PICK t0 \in Writing(Rows) :
          t0 = [t EXCEPT !.row = t.row - 1, !.column = VGA_WIDTH - 1]
    BY <2>3 DEF Writing
  <2>6. t0.row = t.row - 1 /\ t0.column = VGA_WIDTH - 1 /\ t0.buffer = t.buffer
    BY <2>5 DEF Writing
  <2>7. Backspace(t) = terminal_putentryat(t0, SPACE, VGA_WIDTH - 1, t.row - 1)
    BY <2>1, <2>5 DEF Backspace
  <2> QED BY <1>1, <1>4, <2>2, <2>3, <2>4, <2>6, <2>7
<1>7. CASE ~(col > 0) /\ ~(row > top)
  <2>1. col = 0 /\ row = top /\ t.row = 0 /\ ~(t.column > 0)
    BY <1>1, <1>2, <1>7, ScreenSize DEF Columns
  <2>2. PaperPut(p, BS) = p
    BY <1>1, <1>7, <2>1 DEF PaperPut, BS, LF, CR, TAB
  <2>3. Backspace(t) = t
    BY <2>1 DEF Backspace
  <2>4. ScrollIfNeeded(t) = t
    BY <2>1, ScreenSize DEF ScrollIfNeeded
  <2> QED BY <2>2, <2>3, <2>4
<1> QED BY <1>5, <1>6, <1>7

LEMMA PrintableShows ==
  ASSUME NEW t \in Writing(Rows), NEW p, Rolled(p), Shows(t, p), p.row < MaxPaper,
         NEW ch \in Byte
  PROVE  LET q == PaperMove(Ink(p, p.column, p.row, ch), p.column + 1, p.row)
         IN  Rolled(q) /\ Shows(ScrollIfNeeded(Printable(t, ch)), q)
<1>1. PICK row \in 0 .. MaxPaper, top \in 0 .. MaxPaper, col \in Columns :
        /\ p.row = row /\ p.top = top /\ p.column = col
        /\ p.cells \in [0 .. MaxPaper -> [Columns -> Byte]]
        /\ top <= row /\ row < top + VGA_HEIGHT /\ MaxPaper \in Nat
  BY TerminalAssumption DEF Rolled, Paper
<1>2. /\ t.row = row - top /\ t.column = col /\ ShowsCells(t, top, p.cells)
      /\ t.row \in Rows /\ t.column \in Columns
  BY <1>1 DEF Shows, ShowsCells, Writing
<1>3. PICK u \in Writing(Rows) : u = terminal_putentryat(t, ch, col, t.row)
  BY <1>1, <1>2, PutentryWrites
<1>4. u.row = t.row /\ u.column = t.column
  BY <1>1, <1>2, <1>3, PutentryWrites
<1> PICK inked : inked = [p.cells EXCEPT ![row][col] = ch]
  OBVIOUS
<1>5. PICK ink : ink = Ink(p, col, row, ch) /\ ink = Ink(p, p.column, p.row, ch)
  BY <1>1
<1>6. /\ Rolled(ink) /\ ink.row = row /\ ink.column = col /\ ink.top = top
      /\ ink.cells = inked
  <2>1. p.top <= row /\ row < p.top + VGA_HEIGHT
    BY <1>1
  <2>2. /\ Rolled(Ink(p, col, row, ch))
        /\ Ink(p, col, row, ch).row = row /\ Ink(p, col, row, ch).column = col
        /\ Ink(p, col, row, ch).top = p.top
        /\ Ink(p, col, row, ch).cells = [p.cells EXCEPT ![row][col] = ch]
    BY <2>1, InkRolled
  <2> QED BY <1>1, <1>5, <2>2
<1>7. ShowsCells(u, ink.top, ink.cells)
  <2>1. row = top + t.row /\ top + t.row <= MaxPaper
    BY <1>1, <1>2
  <2>2. ShowsCells(u, top, inked)
    BY <1>1, <1>2, <1>3, <2>1, InkShows
  <2> QED BY <1>6, <2>2
<1>8. u.row = ink.row - ink.top
  BY <1>2, <1>4, <1>6
<1>9. col + 1 \in Nat /\ row \in Nat
  BY <1>1, ScreenSize DEF Columns
<1>10. CASE t.column + 1 = VGA_WIDTH
  <2>1. Printable(t, ch) = NextLine(u)
    BY <1>2, <1>3, <1>10 DEF Printable
  <2>2. col + 1 >= VGA_WIDTH
    BY <1>2, <1>10, ScreenSize
  <2> QED BY <1>1, <1>5, <1>6, <1>7, <1>8, <1>9, <2>1, <2>2, NextLineShows
<1>11. CASE t.column + 1 # VGA_WIDTH
  <2>1. Printable(t, ch) = [u EXCEPT !.column = col + 1]
    BY <1>2, <1>3, <1>11 DEF Printable
  <2>2. col + 1 \in Columns
    BY <1>1, <1>2, <1>11, ScreenSize DEF Columns
  <2> QED BY <1>1, <1>5, <1>6, <1>7, <1>8, <2>1, <2>2, StayShows
<1> QED BY <1>10, <1>11

LEMMA PutcharShows ==
  ASSUME NEW t \in Writing(Rows), NEW p, Rolled(p), Shows(t, p), p.row < MaxPaper,
         NEW ch \in Byte
  PROVE  Rolled(PaperPut(p, ch)) /\ Shows(terminal_putchar(t, ch), PaperPut(p, ch))
<1>1. t.row = p.row - p.top /\ t.column = p.column /\ ShowsCells(t, p.top, p.cells)
  BY DEF Shows, ShowsCells
<1>2. p.row \in Nat /\ 0 \in Columns
  BY TerminalAssumption, ScreenSize DEF Rolled, Paper, Columns
<1>3. Rolled(PaperPut(p, ch)) /\ Shows(ScrollIfNeeded(Place(t, ch)), PaperPut(p, ch))
  <2>1. CASE ch = LF
    <3>1. Place(t, ch) = NextLine(t) /\ PaperPut(p, ch) = PaperMove(p, 0, p.row + 1)
      BY <2>1 DEF Place, PaperPut, LF, CR, TAB, BS
    <3> QED BY <1>1, <1>2, <3>1, NextLineShows
  <2>2. CASE ch = CR
    <3>1. Place(t, ch) = [t EXCEPT !.column = 0] /\ PaperPut(p, ch) = PaperMove(p, 0, p.row)
      BY <2>2 DEF Place, PaperPut, LF, CR, TAB, BS
    <3> QED BY <1>1, <1>2, <3>1, StayShows
  <2>3. CASE ch = TAB
    <3>1. /\ Place(t, ch) = Tab(t)
          /\ PaperPut(p, ch) = PaperMove(p, p.column + 4 - (p.column % 4), p.row)
      BY <2>3 DEF Place, PaperPut, LF, CR, TAB, BS
    <3> QED BY <3>1, TabShows
  <2>4. CASE ch = BS
    <3>1. Place(t, ch) = Backspace(t)
      BY <2>4 DEF Place, LF, CR, TAB, BS
    <3> QED BY <2>4, <3>1, BackspaceShows
  <2>5. CASE ch \notin {LF, CR, TAB, BS}
    <3>1. /\ Place(t, ch) = Printable(t, ch)
          /\ PaperPut(p, ch) = PaperMove(Ink(p, p.column, p.row, ch), p.column + 1, p.row)
      BY <2>5 DEF Place, PaperPut
    <3> QED BY <3>1, PrintableShows
  <2> QED BY <2>1, <2>2, <2>3, <2>4, <2>5
<1>4. PICK u \in Writing(Rows) : u = ScrollIfNeeded(Place(t, ch))
  BY PlaceLow, ScrollBack
<1>5. PICK cur : cur = (u.row * VGA_WIDTH + u.column) % UINT16
  OBVIOUS
<1>6. terminal_putchar(t, ch) = [u EXCEPT !.cursor = cur]
  BY <1>4, <1>5 DEF terminal_putchar, update_cursor
<1>7. PICK v : v = [u EXCEPT !.cursor = cur]
  OBVIOUS
<1>8. v.row = u.row /\ v.column = u.column /\ v.buffer = u.buffer
  BY <1>7 DEF Writing
<1> QED BY <1>3, <1>4, <1>6, <1>7, <1>8 DEF Shows, Cell
(* Only terminal_setcolor changes the colour.                              *)
LEMMA PutcharKeepsColor ==
  ASSUME NEW t \in Writing(Rows), NEW ch \in Byte
  PROVE  terminal_putchar(t, ch).color = t.color
<1>1. t.row \in Rows /\ t.column \in Columns
  BY DEF Writing
<1>3. Place(t, ch).color = t.color
  BY DEF Place, NextLine, Tab, Backspace, Printable, terminal_putentryat, Writing
<1>4. PICK u \in Writing(LowRows) : u = Place(t, ch)
  BY PlaceLow
<1>5. ScrollIfNeeded(u).color = u.color
  BY DEF ScrollIfNeeded, terminal_scroll, Writing
<1>6. PICK v \in Writing(Rows) : v = ScrollIfNeeded(u)
  BY ScrollBack
<1>7. terminal_putchar(t, ch) = update_cursor(v, v.column, v.row)
  BY <1>4, <1>6 DEF terminal_putchar
<1>8. update_cursor(v, v.column, v.row).color = v.color
  BY DEF update_cursor, Writing
<1> QED BY <1>3, <1>4, <1>5, <1>6, <1>7, <1>8

(* A roll nothing was printed on is what terminal_initialize shows.        *)
LEMMA BlankRolled ==
  /\ Rolled(BlankPaper)
  /\ \A t \in Writing(Rows) : Shows(terminal_initialize(t), BlankPaper)
<1>1. SPACE \in Byte /\ 0 \in 0 .. MaxPaper /\ 0 \in Columns /\ 0 < 0 + VGA_HEIGHT
  BY ScreenSize, TerminalAssumption DEF SPACE, Byte, Columns
<1>2. PICK cells \in [0 .. MaxPaper -> [Columns -> Byte]] :
        cells = [y \in 0 .. MaxPaper |-> [x \in 0 .. VGA_WIDTH - 1 |-> SPACE]]
  BY <1>1 DEF Columns
<1>3. \A y \in 0 .. MaxPaper, x \in Columns : cells[y][x] = SPACE
  BY <1>2 DEF Columns
<1>4. BlankPaper \in Paper /\ BlankPaper.row = 0 /\ BlankPaper.top = 0
        /\ BlankPaper.column = 0 /\ BlankPaper.cells = cells
  BY <1>1, <1>2 DEF BlankPaper, Paper
<1>5. Rolled(BlankPaper)
  BY <1>1, <1>3, <1>4 DEF Rolled
<1>6. ASSUME NEW t \in Writing(Rows)
      PROVE  Shows(terminal_initialize(t), BlankPaper)
  <2>1. PICK buf : buf = [k \in Cells |-> vga_entry(SPACE, LIGHT_CYAN)]
    OBVIOUS
  <2>2. PICK u : u = terminal_initialize(t)
    OBVIOUS
  <2>3. u.row = 0 /\ u.column = 0 /\ u.buffer = buf
    BY <2>1, <2>2 DEF terminal_initialize, terminal_clear, update_cursor, Writing
  <2>4. ASSUME NEW y \in Rows, NEW x \in Columns, 0 + y <= MaxPaper
        PROVE  Cell(u, x, y).ch = cells[0 + y][x]
    <3>1. PICK index \in Cells : index = y * VGA_WIDTH + x
      BY IndexOnScreen
    <3>2. Cell(u, x, y).ch = SPACE
      BY <2>1, <2>3, <3>1 DEF Cell, vga_entry
    <3>3. 0 + y \in 0 .. MaxPaper
      BY <2>4, ScreenSize, TerminalAssumption DEF Rows
    <3> QED BY <1>3, <3>2, <3>3
  <2> QED BY <1>4, <2>2, <2>3, <2>4 DEF Shows
<1> QED BY <1>5, <1>6

(***************************************************************************)
(* For every width, height and length of roll: the screen is a window on   *)
(* the roll of everything printed, whatever mix of characters, tabs,       *)
(* newlines and backspaces terminal_putchar was given.                     *)
(***************************************************************************)
THEOREM RollInvariant == Spec => []RollInv
<1>1. Init => RollInv
  <2> SUFFICES ASSUME Init PROVE RollInv
    OBVIOUS
  <2>1. InsideScreen
    BY PowerOnOnScreen, InsideIsOnScreen DEF Init
  <2>2. ~Initialized
    BY DEF Init, PowerOn, Initialized
  <2> QED BY <2>1, <2>2, BlankRolled DEF Init, RollInv, ScreenShowsPaper
<1>2. RollInv /\ InsideScreen' /\ [Next]_vars => RollInv'
  <2> SUFFICES ASSUME RollInv, InsideScreen', [Next]_vars PROVE RollInv'
    OBVIOUS
  <2>1. term \in Writing(Rows) /\ Rolled(paper)
    BY InsideIsOnScreen DEF RollInv, OnScreen
  <2>2. CASE Initialize
    <3>1. paper = BlankPaper /\ paper' = paper /\ term' = terminal_initialize(term)
      BY <2>2 DEF Initialize, RollInv
    <3>2. Shows(term', paper')
      BY <2>1, <3>1, BlankRolled
    <3>3. Rolled(paper')
      BY <2>1, <3>1
    <3> QED BY <3>1, <3>2, <3>3 DEF RollInv, ScreenShowsPaper
  <2>3. ASSUME NEW ch \in Chars, Putchar(ch) PROVE RollInv'
    <3>1. ch \in Byte
      BY TerminalAssumption DEF Byte
    <3>2. /\ Shows(term, paper) /\ paper.row < MaxPaper /\ Initialized
          /\ term' = terminal_putchar(term, ch) /\ paper' = PaperPut(paper, ch)
      BY <2>3 DEF Putchar, RollInv, ScreenShowsPaper
    <3>3. Rolled(paper') /\ Shows(term', paper')
      BY <2>1, <3>1, <3>2, PutcharShows
    <3>4. term'.color = term.color
      BY <2>1, <3>1, <3>2, PutcharKeepsColor
    <3>5. Initialized'
      BY <3>2, <3>4 DEF Initialized
    <3> QED BY <3>3, <3>5 DEF RollInv, ScreenShowsPaper
  <2>4. ASSUME NEW color \in Colors, SetColor(color) PROVE RollInv'
    <3>1. color # 0
      BY TerminalAssumption
    <3>2. /\ Shows(term, paper) /\ paper' = paper
          /\ term' = [term EXCEPT !.color = color]
      BY <2>4 DEF SetColor, RollInv, ScreenShowsPaper, terminal_setcolor
    <3>3. /\ term'.row = term.row /\ term'.column = term.column
          /\ term'.buffer = term.buffer /\ term'.color = color
      BY <2>1, <3>2 DEF Writing
    <3>4. Shows(term', paper') /\ Rolled(paper') /\ Initialized'
      BY <2>1, <3>1, <3>2, <3>3 DEF Shows, Cell, Initialized
    <3> QED BY <3>4 DEF RollInv, ScreenShowsPaper
  <2>5. CASE UNCHANGED vars
    BY <2>5 DEF vars, RollInv, ScreenShowsPaper, Shows, Rolled, Cell, Initialized
  <2> QED BY <2>2, <2>3, <2>4, <2>5 DEF Next
<1> QED BY <1>1, <1>2, ConsoleStaysOnScreen, PTL DEF Spec

(***************************************************************************)
(* Scrolling, wrapping and backspacing across line ends lose and duplicate *)
(* nothing that terminal_putchar was given and that is still visible.      *)
(***************************************************************************)
THEOREM ScreenIsWindow == Spec => []ScreenShowsPaper
<1>1. RollInv => ScreenShowsPaper
  BY DEF RollInv
<1> QED BY <1>1, RollInvariant, PTL
-----------------------------------------------------------------------------
(* Erasing undoes printing. *)

(* terminal_putentryat on the screen, as the store it is.                  *)
LEMMA PutentryBuffer ==
  ASSUME NEW rows, NEW t \in Writing(rows), NEW ch, NEW x \in Columns, NEW y \in Rows,
         NEW index, index = y * VGA_WIDTH + x
  PROVE  /\ index \in Cells
         /\ terminal_putentryat(t, ch, x, y).buffer
              = [t.buffer EXCEPT ![index] = vga_entry(ch, t.color)]
         /\ terminal_putentryat(t, ch, x, y).color = t.color
<1>1. index \in Cells
  BY IndexOnScreen
<1>2. PICK entry : entry = vga_entry(ch, t.color)
  OBVIOUS
<1>3. PICK buf : buf = [t.buffer EXCEPT ![index] = entry]
  OBVIOUS
<1>4. terminal_putentryat(t, ch, x, y)
        = [t EXCEPT !.stray = (t.stray \/ FALSE), !.buffer = buf]
  BY <1>1, <1>2, <1>3 DEF terminal_putentryat
<1> QED BY <1>1, <1>2, <1>3, <1>4 DEF Writing

(* A backspace right after the place (x, y) blanks that place.             *)
LEMMA BackspaceBlanks ==
  ASSUME NEW t \in Writing(Rows), NEW x \in Columns, NEW y \in Rows,
         \/ t.row = y /\ t.column = x + 1
         \/ x = VGA_WIDTH - 1 /\ t.column = 0 /\ t.row = y + 1,
         NEW index, index = y * VGA_WIDTH + x
  PROVE  /\ terminal_putchar(t, BS).row = y
         /\ terminal_putchar(t, BS).column = x
         /\ terminal_putchar(t, BS).buffer
              = [t.buffer EXCEPT ![index] = vga_entry(SPACE, t.color)]
<1>1. x \in Nat /\ y \in Nat /\ y < VGA_HEIGHT /\ SPACE \in Byte
  BY ScreenSize DEF Columns, Rows, SPACE, Byte
<1>2. PICK t0 \in Writing(Rows) :
        /\ t0.row = y /\ t0.column = x /\ t0.buffer = t.buffer /\ t0.color = t.color
        /\ Backspace(t) = terminal_putentryat(t0, SPACE, x, y)
  <2>1. CASE t.row = y /\ t.column = x + 1
    <3>1. t.column > 0 /\ t.column - 1 = x
      BY <1>1, <2>1
    <3>2. PICK t0 : t0 = [t EXCEPT !.column = x]
      OBVIOUS
    <3>3. t0 \in Writing(Rows) /\ t0.row = y /\ t0.column = x /\ t0.buffer = t.buffer
            /\ t0.color = t.color
      BY <2>1, <3>2 DEF Writing
    <3>4. Backspace(t) = terminal_putentryat(t0, SPACE, x, y)
      BY <2>1, <3>1, <3>2 DEF Backspace
    <3> QED BY <3>3, <3>4
  <2>2. CASE x = VGA_WIDTH - 1 /\ t.column = 0 /\ t.row = y + 1
    <3>1. ~(t.column > 0) /\ t.row > 0 /\ t.row - 1 = y
      BY <1>1, <2>2
    <3>2. PICK t0 : t0 = [t EXCEPT !.row = y, !.column = x]
      OBVIOUS
    <3>3. t0 \in Writing(Rows) /\ t0.row = y /\ t0.column = x /\ t0.buffer = t.buffer
            /\ t0.color = t.color
      BY <3>2 DEF Writing
    <3>4. Backspace(t) = terminal_putentryat(t0, SPACE, x, y)
      BY <2>2, <3>1, <3>2 DEF Backspace
    <3> QED BY <3>3, <3>4
  <2> QED BY <2>1, <2>2
<1>3. PICK u \in Writing(Rows) : u = Backspace(t)
  BY <1>1, <1>2, PutentryWrites
<1>4. /\ u.row = y /\ u.column = x
      /\ u.buffer = [t.buffer EXCEPT ![index] = vga_entry(SPACE, t.color)]
  <2>1. SPACE \in Byte
    BY DEF SPACE, Byte
  <2>2. PICK w : w = terminal_putentryat(t0, SPACE, x, y)
    OBVIOUS
  <2>3. w.row = t0.row /\ w.column = t0.column
    BY <2>1, <2>2, PutentryWrites
  <2>4. w.buffer = [t0.buffer EXCEPT ![index] = vga_entry(SPACE, t0.color)]
    BY <1>1, <2>2, PutentryBuffer, Z3
  <2> QED BY <1>2, <1>3, <2>2, <2>3, <2>4, Zenon
<1>5. ScrollIfNeeded(u) = u
  BY <1>1, <1>4, ScreenSize DEF ScrollIfNeeded
<1>6. terminal_putchar(t, BS) = update_cursor(u, x, y)
  BY <1>3, <1>4, <1>5 DEF terminal_putchar, Place, LF, CR, TAB, BS
<1>7. /\ update_cursor(u, x, y).row = u.row /\ update_cursor(u, x, y).column = u.column
      /\ update_cursor(u, x, y).buffer = u.buffer
  BY DEF update_cursor, Writing
<1> QED BY <1>4, <1>6, <1>7

(* What a printable character does: it wraps in the last column and        *)
(* scrolls in the last place of the screen.                                *)
LEMMA PrintableStores ==
  ASSUME NEW t \in Writing(Rows), NEW ch \in Byte \ {BS, TAB, LF, CR},
         NEW u, u = terminal_putentryat(t, ch, t.column, t.row),
         NEW v, v = terminal_putchar(t, ch)
  PROVE  /\ v \in Writing(Rows) /\ v.color = t.color
         /\ t.column + 1 # VGA_WIDTH =>
              v.row = t.row /\ v.column = t.column + 1 /\ v.buffer = u.buffer
         /\ t.column + 1 = VGA_WIDTH /\ t.row + 1 # VGA_HEIGHT =>
              v.row = t.row + 1 /\ v.column = 0 /\ v.buffer = u.buffer
         /\ t.column + 1 = VGA_WIDTH /\ t.row + 1 = VGA_HEIGHT =>
              v.row = t.row /\ v.column = 0 /\ v.buffer = terminal_scroll(u).buffer
<1>1. /\ t.row \in Rows /\ t.column \in Columns /\ t.row \in Nat /\ t.row < VGA_HEIGHT
      /\ VGA_HEIGHT \in Nat
  BY ScreenSize DEF Writing, Rows
<1>2. u \in Writing(Rows) /\ u.row = t.row /\ u.column = t.column
  BY <1>1, PutentryWrites
<1>3. PICK w \in Writing(LowRows) : w = Place(t, ch)
  BY PlaceLow
<1>4. w = Printable(t, ch)
  BY <1>3 DEF Place
<1>5. PICK z \in Writing(Rows) : z = ScrollIfNeeded(w)
  BY ScrollBack
<1>6. v = update_cursor(z, z.column, z.row)
  BY <1>3, <1>5 DEF terminal_putchar
<1>7. v \in Writing(Rows) /\ v.color = t.color
  BY PutcharOnScreen, PutcharKeepsColor DEF OnScreen
<1>8. v.row = z.row /\ v.column = z.column /\ v.buffer = z.buffer
  BY <1>6 DEF update_cursor, Writing
<1>9. CASE t.column + 1 # VGA_WIDTH
  <2>1. w = [u EXCEPT !.column = t.column + 1]
    BY <1>4, <1>9 DEF Printable
  <2>2. w.row = t.row /\ w.column = t.column + 1 /\ w.buffer = u.buffer
    BY <1>2, <2>1 DEF Writing
  <2>3. z = w
    BY <1>1, <1>5, <2>2 DEF ScrollIfNeeded
  <2> QED BY <1>7, <1>8, <1>9, <2>2, <2>3
<1>10. CASE t.column + 1 = VGA_WIDTH
  <2>1. w = [u EXCEPT !.column = 0, !.row = u.row + 1]
    BY <1>4, <1>10 DEF Printable, NextLine
  <2>2. w.row = t.row + 1 /\ w.column = 0 /\ w.buffer = u.buffer /\ w.color = u.color
    BY <1>2, <2>1 DEF Writing
  <2>3. CASE t.row + 1 # VGA_HEIGHT
    <3>1. z = w
      BY <1>1, <1>5, <2>2, <2>3 DEF ScrollIfNeeded
    <3> QED BY <1>7, <1>8, <1>10, <2>2, <2>3, <3>1
  <2>4. CASE t.row + 1 = VGA_HEIGHT
    <3>1. z = [terminal_scroll(w) EXCEPT !.row = VGA_HEIGHT - 1]
      BY <1>1, <1>5, <2>2, <2>4 DEF ScrollIfNeeded
    <3>2. terminal_scroll(w).buffer = terminal_scroll(u).buffer
      BY <1>2, <2>2 DEF terminal_scroll, Writing
    <3>3. z.row = t.row /\ z.column = 0 /\ z.buffer = terminal_scroll(w).buffer
      BY <1>1, <2>2, <2>4, <3>1 DEF terminal_scroll, Writing
    <3> QED BY <1>7, <1>8, <1>10, <2>4, <3>2, <3>3
  <2> QED BY <2>3, <2>4
<1> QED BY <1>9, <1>10

LEMMA EraseUndoesPrint ==
  ASSUME VGA_HEIGHT > 1, NEW t \in Writing(Rows), NEW ch \in Byte \ {BS, TAB, LF, CR},
         NEW w, w = terminal_putchar(terminal_putchar(t, ch), BS)
  PROVE  /\ w.column = t.column
         /\ ~(t.row = VGA_HEIGHT - 1 /\ t.column = VGA_WIDTH - 1) =>
              /\ w.row = t.row
              /\ w.buffer = terminal_putentryat(t, SPACE, w.column, w.row).buffer
         /\ t.row = VGA_HEIGHT - 1 /\ t.column = VGA_WIDTH - 1 =>
              /\ w.row = t.row - 1
              /\ w.buffer
                   = terminal_putentryat(terminal_scroll(t), SPACE, w.column, w.row).buffer
<1> PICK row \in Rows, col \in Columns :
        /\ row = t.row /\ col = t.column /\ row \in Nat /\ col \in Nat
  BY ScreenSize DEF Writing, Rows, Columns
<1>1. /\ t.row \in Rows /\ t.column \in Columns /\ t.row \in Nat /\ t.column \in Nat
      /\ t.row < VGA_HEIGHT /\ t.column < VGA_WIDTH
      /\ VGA_HEIGHT \in Nat /\ VGA_WIDTH \in Nat
      /\ t.buffer \in Screen
  BY ScreenSize DEF Writing, Rows, Columns
<1>2. PICK u \in Writing(Rows) : u = terminal_putentryat(t, ch, col, row)
  BY <1>1, PutentryWrites
<1>3. PICK v : v = terminal_putchar(t, ch)
  OBVIOUS
<1>4. /\ v \in Writing(Rows) /\ v.color = t.color
      /\ t.column + 1 # VGA_WIDTH =>
           v.row = t.row /\ v.column = t.column + 1 /\ v.buffer = u.buffer
      /\ t.column + 1 = VGA_WIDTH /\ t.row + 1 # VGA_HEIGHT =>
           v.row = t.row + 1 /\ v.column = 0 /\ v.buffer = u.buffer
      /\ t.column + 1 = VGA_WIDTH /\ t.row + 1 = VGA_HEIGHT =>
           v.row = t.row /\ v.column = 0 /\ v.buffer = terminal_scroll(u).buffer
  BY <1>2, <1>3, PrintableStores
<1>5. w = terminal_putchar(v, BS)
  BY <1>3
<1>6. PICK ink, blank : ink = vga_entry(ch, t.color) /\ blank = vga_entry(SPACE, t.color)
  OBVIOUS
<1>7. PICK index : index = row * VGA_WIDTH + col
  OBVIOUS
<1>8. index \in Cells /\ u.buffer = [t.buffer EXCEPT ![index] = ink] /\ u.color = t.color
  <2>1. index \in Cells
    BY <1>7, IndexOnScreen
  <2>2. terminal_putentryat(t, ch, col, row).buffer = [t.buffer EXCEPT ![index] = ink]
    BY <1>6, <1>7, <2>1 DEF terminal_putentryat, Writing
  <2>3. u.color = t.color
    BY <1>2 DEF terminal_putentryat, Writing
  <2> QED BY <1>2, <1>6, <2>1, <2>2, <2>3
<1>9. CASE ~(t.row = VGA_HEIGHT - 1 /\ t.column = VGA_WIDTH - 1)
  <2>1. ~(t.column + 1 = VGA_WIDTH /\ t.row + 1 = VGA_HEIGHT)
    BY <1>1, <1>9
  <2>2. v.buffer = u.buffer
    BY <1>4, <2>1
  <2>3. \/ v.row = t.row /\ v.column = t.column + 1
        \/ t.column = VGA_WIDTH - 1 /\ v.column = 0 /\ v.row = t.row + 1
    BY <1>1, <1>4, <2>1
  <2>4. /\ w.row = t.row /\ w.column = t.column
        /\ w.buffer = [v.buffer EXCEPT ![index] = vga_entry(SPACE, v.color)]
    BY <1>1, <1>4, <1>5, <1>7, <2>3, BackspaceBlanks
  <2>5. w.buffer = [[t.buffer EXCEPT ![index] = ink] EXCEPT ![index] = blank]
    BY <1>4, <1>6, <1>8, <2>2, <2>4
  <2>6. w.buffer = [t.buffer EXCEPT ![index] = blank]
    BY <1>1, <2>5 DEF Screen
  <2>7. terminal_putentryat(t, SPACE, col, row).buffer
          = [t.buffer EXCEPT ![index] = blank]
    <3>1. terminal_putentryat(t, SPACE, col, row).buffer
            = [t.buffer EXCEPT ![index] = vga_entry(SPACE, t.color)]
      BY <1>7, PutentryBuffer
    <3> QED BY <1>6, <3>1
  <2> QED BY <1>9, <2>1, <2>4, <2>6, <2>7
<1>10. CASE t.row = VGA_HEIGHT - 1 /\ t.column = VGA_WIDTH - 1
  <2> PICK base : base = terminal_scroll(t)
    OBVIOUS
  <2>1. /\ t.row = VGA_HEIGHT - 1 /\ t.column = VGA_WIDTH - 1
        /\ t.column + 1 = VGA_WIDTH /\ t.row + 1 = VGA_HEIGHT
    BY <1>1, <1>10
  <2>2. PICK y \in Rows : y = VGA_HEIGHT - 2 /\ t.row = y + 1 /\ y = t.row - 1
    BY <1>1, <2>1 DEF Rows
  <2>3. PICK index2 : index2 = y * VGA_WIDTH + col
    OBVIOUS
  <2>4. index2 \in Cells
    BY <1>1, <2>3, IndexOnScreen
  <2>5. index2 + VGA_WIDTH = index /\ index2 < (VGA_HEIGHT - 1) * VGA_WIDTH
    <3>1. (y + 1) * VGA_WIDTH = y * VGA_WIDTH + VGA_WIDTH /\ y * VGA_WIDTH \in Nat
      BY <1>1, <2>2 DEF Rows
    <3>2. (VGA_HEIGHT - 1) * VGA_WIDTH = y * VGA_WIDTH + VGA_WIDTH
      BY <2>1, <2>2, <3>1
    <3> QED BY <1>1, <1>7, <2>2, <2>3, <3>1, <3>2
  <2>6. /\ w.row = y /\ w.column = t.column
        /\ w.buffer = [v.buffer EXCEPT ![index2] = vga_entry(SPACE, v.color)]
    BY <1>1, <1>4, <1>5, <2>1, <2>2, <2>3, BackspaceBlanks
  <2>7. v.buffer = [k \in Cells |-> IF k < (VGA_HEIGHT - 1) * VGA_WIDTH
                                      THEN u.buffer[k + VGA_WIDTH] ELSE blank]
    BY <1>2, <1>4, <1>6, <1>8, <2>1 DEF terminal_scroll, Writing
  <2>8. PICK shifted : shifted = base.buffer
    OBVIOUS
  <2>9. shifted = [k \in Cells |-> IF k < (VGA_HEIGHT - 1) * VGA_WIDTH
                                     THEN t.buffer[k + VGA_WIDTH] ELSE blank]
    BY <1>6, <2>1, <2>8 DEF terminal_scroll, Writing
  <2>10. ASSUME NEW k \in Cells, k # index2 PROVE v.buffer[k] = shifted[k]
    <3>1. k < (VGA_HEIGHT - 1) * VGA_WIDTH => k + VGA_WIDTH \in Cells /\ k + VGA_WIDTH # index
      <4>1. (VGA_HEIGHT - 1) * VGA_WIDTH = VGA_WIDTH * VGA_HEIGHT - VGA_WIDTH
        BY <1>1
      <4>2. VGA_WIDTH * VGA_HEIGHT \in Nat
        BY <1>1
      <4> QED BY <1>1, <2>4, <2>5, <2>10, <4>1, <4>2 DEF Cells
    <3>2. k < (VGA_HEIGHT - 1) * VGA_WIDTH => u.buffer[k + VGA_WIDTH] = t.buffer[k + VGA_WIDTH]
      BY <1>1, <1>8, <3>1 DEF Screen
    <3> QED BY <2>7, <2>9, <3>2
  <2>11. w.buffer = [shifted EXCEPT ![index2] = blank]
    <3>1. w.buffer = [v.buffer EXCEPT ![index2] = blank]
      BY <1>4, <1>6, <2>6
    <3> QED BY <2>4, <2>7, <2>9, <2>10, <3>1
  <2>12. PICK b \in Writing(Rows) : b = base
    BY <2>1, ScrollWrites
  <2>13. b.color = t.color
    BY <2>1, <2>12 DEF terminal_scroll, Writing
  <2>14. terminal_putentryat(b, SPACE, col, y).buffer
           = [b.buffer EXCEPT ![index2] = vga_entry(SPACE, b.color)]
    <3>1. y \in Nat
      BY ScreenSize DEF Rows
    <3> QED BY <2>3, <3>1, PutentryBuffer
  <2>15. terminal_putentryat(base, SPACE, w.column, w.row).buffer
           = [shifted EXCEPT ![index2] = blank]
    BY <1>6, <2>6, <2>8, <2>12, <2>13, <2>14
  <2> QED BY <1>10, <2>2, <2>6, <2>11, <2>15
<1> QED BY <1>9, <1>10

(***************************************************************************)
(* A printable character followed by a backspace leaves its cell blank and *)
(* the cursor where it was, also across a line end and after a scroll, on  *)
(* every screen with at least two lines: with one line only, the backspace *)
(* has no line above to go back to.                                        *)
(***************************************************************************)
THEOREM ErasingUndoesPrinting ==
  ASSUME VGA_HEIGHT > 1
  PROVE  Spec => []BackspaceUndoesPrint
<1>1. InsideScreen => BackspaceUndoesPrint
  <2> SUFFICES ASSUME term \in Writing(Rows), NEW ch \in Chars \ {BS, TAB, LF, CR}
               PROVE
                 LET t == terminal_putchar(terminal_putchar(term, ch), BS)
                     scrolled == term.row = VGA_HEIGHT - 1 /\ term.column = VGA_WIDTH - 1
                     base == IF scrolled THEN terminal_scroll(term) ELSE term
                 IN /\ t.column = term.column
                    /\ t.row = IF scrolled THEN term.row - 1 ELSE term.row
                    /\ t.buffer = terminal_putentryat(base, SPACE, t.column, t.row).buffer
    BY InsideIsOnScreen DEF BackspaceUndoesPrint, OnScreen
  <2>1. ch \in Byte \ {BS, TAB, LF, CR}
    BY TerminalAssumption DEF Byte
  <2> PICK t : t = terminal_putchar(terminal_putchar(term, ch), BS)
    OBVIOUS
  <2>2. /\ t.column = term.column
        /\ ~(term.row = VGA_HEIGHT - 1 /\ term.column = VGA_WIDTH - 1) =>
             /\ t.row = term.row
             /\ t.buffer = terminal_putentryat(term, SPACE, t.column, t.row).buffer
        /\ term.row = VGA_HEIGHT - 1 /\ term.column = VGA_WIDTH - 1 =>
             /\ t.row = term.row - 1
             /\ t.buffer
                  = terminal_putentryat(terminal_scroll(term), SPACE, t.column, t.row).buffer
    BY <2>1, EraseUndoesPrint
  <2> QED BY <2>2
<1> QED BY <1>1, ConsoleStaysOnScreen, PTL

=============================================================================
