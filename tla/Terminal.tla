------------------------------ MODULE Terminal ------------------------------
(***************************************************************************)
(* The console as a state machine: the functions of Vga called in every    *)
(* order, compared with an endless roll of paper on which nothing scrolls. *)
(***************************************************************************)
EXTENDS Vga

CONSTANTS
  Chars,      \* the characters written
  Colors,     \* the attribute bytes given to terminal_setcolor
  MaxPaper    \* bound: lines printed before the run stops

ASSUME TerminalAssumption ==
  /\ Chars \subseteq 0 .. 255 /\ Colors \subseteq 1 .. 255
  /\ MaxPaper \in Nat

VARIABLES
  term,    \* the console
  paper    \* history: what an endless roll of paper would show

vars == <<term, paper>>

-----------------------------------------------------------------------------
(***************************************************************************)
(* The reference: an endless roll on which nothing scrolls.  top is the    *)
(* line at the top of the screen, the only thing the roll knows of it, as  *)
(* a backspace does not go back above it.                                  *)
(***************************************************************************)
BlankPaper ==
  [row |-> 0, column |-> 0, top |-> 0,
   cells |-> [y \in 0 .. MaxPaper |-> [x \in 0 .. VGA_WIDTH - 1 |-> SPACE]]]

Ink(p, x, y, ch) == [p EXCEPT !.cells[y][x] = ch, !.row = y, !.column = x]

PaperMove(p, x, y) ==
  LET newline == x >= VGA_WIDTH
      line == IF newline THEN y + 1 ELSE y
  IN [p EXCEPT !.column = IF newline THEN 0 ELSE x,
               !.row = line,
               !.top = IF line - p.top >= VGA_HEIGHT
                         THEN line - VGA_HEIGHT + 1 ELSE p.top]

PaperPut(p, ch) ==
  CASE ch = LF -> PaperMove(p, 0, p.row + 1)
    [] ch = CR -> PaperMove(p, 0, p.row)
    [] ch = TAB -> PaperMove(p, p.column + 4 - (p.column % 4), p.row)
    [] ch = BS /\ p.column > 0 -> Ink(p, p.column - 1, p.row, SPACE)
    [] ch = BS /\ p.column = 0 /\ p.row > p.top ->
         Ink(p, VGA_WIDTH - 1, p.row - 1, SPACE)
    [] ch = BS /\ p.column = 0 /\ p.row = p.top -> p
    [] OTHER -> PaperMove(Ink(p, p.column, p.row, ch), p.column + 1, p.row)

-----------------------------------------------------------------------------
Initialized == term.color # 0

Init == term = PowerOn /\ paper = BlankPaper

Initialize ==
  /\ ~Initialized
  /\ term' = terminal_initialize(term)
  /\ UNCHANGED paper

Putchar(ch) ==
  /\ Initialized
  /\ paper.row < MaxPaper
  /\ term' = terminal_putchar(term, ch)
  /\ paper' = PaperPut(paper, ch)

SetColor(color) ==
  /\ Initialized
  /\ term' = terminal_setcolor(term, color)
  /\ UNCHANGED paper

Next ==
  \/ Initialize
  \/ \E ch \in Chars : Putchar(ch)
  \/ \E color \in Colors : SetColor(color)

Spec == Init /\ [][Next]_vars

-----------------------------------------------------------------------------
TypeOK == term \in Term

(***************************************************************************)
(* The console never stores outside its VGA_WIDTH x VGA_HEIGHT cells,      *)
(* whatever mix of printable characters, tabs, newlines and backspaces it  *)
(* is given, and the hardware cursor is where the next character goes.     *)
(***************************************************************************)
InsideScreen ==
  /\ TypeOK
  /\ ~term.stray
  /\ term.cursor = (term.row * VGA_WIDTH + term.column) % UINT16

(***************************************************************************)
(* The screen is a window on the roll: scrolling, wrapping and backspacing *)
(* across line ends lose and duplicate nothing that is still visible.      *)
(***************************************************************************)
Shows(t, p) ==
  /\ t.row = p.row - p.top
  /\ t.column = p.column
  /\ \A y \in Rows, x \in Columns :
       p.top + y <= MaxPaper => Cell(t, x, y).ch = p.cells[p.top + y][x]

ScreenShowsPaper == Initialized => Shows(term, paper)

(***************************************************************************)
(* Erasing undoes printing: a printable character and then a backspace     *)
(* return to the same column with that cell blank, even when the character *)
(* wrapped to the next line or scrolled the screen.  nexus_readline's      *)
(* editing relies on it.                                                   *)
(***************************************************************************)
BackspaceUndoesPrint ==
  Initialized => \A ch \in Chars \ {BS, TAB, LF, CR} :
    LET t == terminal_putchar(terminal_putchar(term, ch), BS)
        scrolled == term.row = VGA_HEIGHT - 1 /\ term.column = VGA_WIDTH - 1
        base == IF scrolled THEN terminal_scroll(term) ELSE term
    IN /\ t.column = term.column
       /\ t.row = IF scrolled THEN term.row - 1 ELSE term.row
       /\ t.buffer = terminal_putentryat(base, SPACE, t.column, t.row).buffer

(***************************************************************************)
(* What makes ScreenShowsPaper inductive: the roll is blank below the      *)
(* lowest line the screen can show, so the blank line that terminal_scroll *)
(* puts in at the bottom is what the roll has there.                       *)
(***************************************************************************)
Paper ==
  [row : 0 .. MaxPaper, column : Columns, top : 0 .. MaxPaper,
   cells : [0 .. MaxPaper -> [Columns -> Byte]]]

Rolled(p) ==
  /\ p \in Paper
  /\ p.top <= p.row /\ p.row < p.top + VGA_HEIGHT
  /\ \A y \in 0 .. MaxPaper, x \in Columns :
       y >= p.top + VGA_HEIGHT => p.cells[y][x] = SPACE

RollInv ==
  /\ InsideScreen
  /\ Rolled(paper)
  /\ ~Initialized => paper = BlankPaper
  /\ ScreenShowsPaper
=============================================================================
