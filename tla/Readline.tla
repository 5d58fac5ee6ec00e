------------------------------ MODULE Readline ------------------------------
(***************************************************************************)
(* The line editor nexus_readline of kernel/python/nexus_hal.c, its two    *)
(* callers (the REPL of start_nexus_python and the input() hook readline), *)
(* the command history they share, and the echo on the console.            *)
(*                                                                         *)
(* One action per character received: the whole body of the while loop for *)
(* that character and, when the loop ends with it, the copy into the       *)
(* history that follows.  The characters come from mp_hal_stdin_rx_chr.    *)
(*                                                                         *)
(* line is a stack array nobody clears: one of the REPL, for all its       *)
(* commands, and a new one in each call of input().  The editor overwrites *)
(* every byte it later reads except the last one, which it never stores,   *)
(* so one byte of Garbage stands for what the stack held.                  *)
(***************************************************************************)
EXTENDS Vga

CONSTANTS
  MAX_LEN,        \* 256: sizeof(line), and the length of a history row
  HISTORY_SIZE,   \* 10
  Input,          \* the characters mp_hal_stdin_rx_chr may return
  Garbage,        \* what uninitialised stack bytes may hold
  Prompt,         \* ">>> ", or the argument of input()
  Output,         \* what the running program may print, a set of strings
  MaxCalls        \* bound: lines read

ASSUME ReadlineAssumption ==
  /\ MAX_LEN \in Nat /\ MAX_LEN > 1
  /\ HISTORY_SIZE \in Nat \ {0}
  /\ Input \subseteq -128 .. 127
  /\ Garbage \subseteq 0 .. 255 /\ Garbage # {}
  /\ Prompt \in Seq(32 .. 126)
  /\ Output \subseteq Seq(0 .. 255)
  /\ MaxCalls \in Nat

VARIABLES
  term,
  line, i, esc_state, h_ptr,                     \* nexus_readline
  cmd_history, history_count, history_current,   \* the statics
  pc,         \* python, prompt (the REPL's loop), reading, return, undefined
  reader,     \* who called nexus_readline: repl or input
  repl_byte,  \* what the stack held where the REPL has its line
  submitted,  \* history: the last HISTORY_SIZE nonempty lines, newest last
  calls       \* history: lines read so far, for the bound

histVars == <<cmd_history, history_count, history_current, submitted>>
editVars == <<line, i, esc_state, h_ptr>>
vars == <<term, editVars, histVars, pc, reader, calls, repl_byte>>

Pos == 0 .. MAX_LEN - 1
NUL == 0
ESC == 27
DEL == 127
BRACKET == 91
UP == 65
DOWN == 66

(* A char array read as a string: all of it if no NUL ends it. *)
Terminated(a) == \E k \in Pos : a[k] = NUL
Text(a) ==
  LET len == CHOOSE n \in 0 .. MAX_LEN :
               /\ \A k \in 0 .. n - 1 : a[k] # NUL
               /\ n = MAX_LEN \/ a[n] = NUL
  IN [k \in 1 .. len |-> a[k - 1]]

-----------------------------------------------------------------------------
(* The end of the loop body: test the loop condition; when the loop is     *)
(* over, add the line to the history if it is not empty.                   *)

LastN(s, n) == IF Len(s) <= n THEN s ELSE SubSeq(s, Len(s) - n + 1, Len(s))

(* Mutant: history_current is advanced before the copy. *)
AddToHistory_AdvanceFirst(l) ==
  /\ history_current' = (history_current + 1) % HISTORY_SIZE
  /\ cmd_history' = [cmd_history EXCEPT ![history_current'] = l]
  /\ history_count' = IF history_count < HISTORY_SIZE
                        THEN history_count + 1 ELSE history_count
  /\ submitted' = LastN(Append(submitted, Text(l)), HISTORY_SIZE)

AddToHistory(l) ==
  /\ cmd_history' = [cmd_history EXCEPT ![history_current] = l]
  /\ history_current' = (history_current + 1) % HISTORY_SIZE
  /\ history_count' = IF history_count < HISTORY_SIZE
                        THEN history_count + 1 ELSE history_count
  /\ submitted' = LastN(Append(submitted, Text(l)), HISTORY_SIZE)

(* Mutant: the loop stops one character too late. *)
LoopTail_OneMore(l, n, break) ==
  /\ line' = l
  /\ i' = n
  /\ IF break \/ n >= MAX_LEN
       THEN /\ pc' = "return"
            /\ IF n > 0 THEN AddToHistory(l) ELSE UNCHANGED histVars
       ELSE UNCHANGED <<pc, histVars>>
  /\ UNCHANGED <<reader, calls, repl_byte>>

LoopTail(l, n, break) ==
  /\ line' = l
  /\ i' = n
  /\ IF break \/ n >= MAX_LEN - 1
       THEN /\ pc' = "return"
            /\ IF n > 0 THEN AddToHistory(l) ELSE UNCHANGED histVars
       ELSE UNCHANGED <<pc, histVars>>
  /\ UNCHANGED <<reader, calls, repl_byte>>

-----------------------------------------------------------------------------
(* esc_state = 0: ordinary characters. *)

BeginEscape(ch) ==
  /\ esc_state = 0 /\ ch = ESC
  /\ esc_state' = 1
  /\ UNCHANGED <<term, h_ptr>>
  /\ LoopTail(line, i, FALSE)

(* Mutant: Enter ends the loop without terminating the line. *)
Enter_NoNul(ch) ==
  /\ esc_state = 0 /\ ch \in {LF, CR}
  /\ term' = terminal_putchar(term, LF)
  /\ UNCHANGED <<esc_state, h_ptr>>
  /\ LoopTail(line, i, TRUE)

Enter(ch) ==
  /\ esc_state = 0 /\ ch \in {LF, CR}
  /\ term' = terminal_putchar(term, LF)
  /\ UNCHANGED <<esc_state, h_ptr>>
  /\ LoopTail([line EXCEPT ![i] = NUL], i, TRUE)

EraseChar(ch) ==
  /\ esc_state = 0 /\ ch \in {BS, DEL} /\ i > 0
  /\ term' = terminal_putchar(term, BS)
  /\ UNCHANGED <<esc_state, h_ptr>>
  /\ LoopTail(line, i - 1, FALSE)

InsertChar(ch) ==
  /\ esc_state = 0 /\ ch \in 32 .. 126
  /\ term' = terminal_putchar(term, ch)
  /\ UNCHANGED <<esc_state, h_ptr>>
  /\ LoopTail([line EXCEPT ![i] = ch], i + 1, FALSE)

IgnoreChar(ch) ==
  /\ esc_state = 0 /\ ch \notin {ESC, LF, CR} \cup 32 .. 126
  /\ ~(ch \in {BS, DEL} /\ i > 0)
  /\ UNCHANGED <<term, esc_state, h_ptr>>
  /\ LoopTail(line, i, FALSE)

(* esc_state = 1 and 2: the sequences ESC [ A and ESC [ B. *)

EscapeSecond(ch) ==
  /\ esc_state = 1
  /\ esc_state' = IF ch = BRACKET THEN 2 ELSE 0
  /\ UNCHANGED <<term, h_ptr>>
  /\ LoopTail(line, i, FALSE)

Erased(t, n) == terminal_write(t, [k \in 1 .. n |-> BS])

(* Mutant: the old line is not wiped off the screen before the new one. *)
Recall_NoErase(h) ==
  LET text == Text(cmd_history[h]) IN
  /\ h_ptr' = h
  /\ term' = terminal_write(term, text)
  /\ LoopTail([k \in Pos |-> IF k < Len(text) THEN text[k + 1] ELSE line[k]],
              Len(text), FALSE)

(* Replace the line by row h.  A row no NUL ends is read on into the rows  *)
(* after it and written past the end of line.                              *)
Recall(h) ==
  LET text == Text(cmd_history[h]) IN
  \/ /\ Terminated(cmd_history[h])
     /\ h_ptr' = h
     /\ term' = terminal_write(Erased(term, i), text)
     /\ LoopTail([k \in Pos |-> IF k < Len(text) THEN text[k + 1] ELSE line[k]],
                 Len(text), FALSE)
  \/ /\ ~Terminated(cmd_history[h])
     /\ pc' = "undefined"
     /\ UNCHANGED <<term, line, i, h_ptr, histVars, reader, calls, repl_byte>>

EscapeThird(ch) ==
  /\ esc_state = 2
  /\ esc_state' = 0
  /\ \/ /\ ch = UP /\ history_count > 0
        /\ Recall((h_ptr - 1 + HISTORY_SIZE) % HISTORY_SIZE)
     \/ /\ ch = DOWN /\ history_count > 0
        /\ Recall((h_ptr + 1) % HISTORY_SIZE)
     \/ /\ ch = DOWN /\ history_count = 0
        /\ term' = Erased(term, i)
        /\ UNCHANGED h_ptr
        /\ LoopTail(line, 0, FALSE)
     \/ /\ ch \notin {UP, DOWN} \/ (ch = UP /\ history_count = 0)
        /\ UNCHANGED <<term, h_ptr>>
        /\ LoopTail(line, i, FALSE)

nexus_readline(ch) ==
  /\ pc = "reading"
  /\ \/ BeginEscape(ch) \/ Enter(ch) \/ EraseChar(ch) \/ InsertChar(ch)
     \/ IgnoreChar(ch) \/ EscapeSecond(ch) \/ EscapeThird(ch)

-----------------------------------------------------------------------------
(* The callers. *)

(* nexus_readline's locals start over; the line array holds garbage. *)
CallReadline(who, garbage) ==
  /\ calls < MaxCalls
  /\ line' = [k \in Pos |-> garbage]
  /\ i' = 0 /\ esc_state' = 0 /\ h_ptr' = history_current
  /\ pc' = "reading" /\ reader' = who
  /\ calls' = calls + 1
  /\ UNCHANGED <<histVars, repl_byte>>

(* The top of the REPL's loop. *)
ReplPrompt ==
  /\ pc = "prompt"
  /\ term' = terminal_write(term, Prompt)
  /\ CallReadline("repl", repl_byte)

(* input(): the builtin prints the prompt, through the cooked output, and  *)
(* hands readline an empty one.                                            *)
readline ==
  /\ pc = "python"
  /\ term' = mp_hal_stdout_tx_strn_cooked(term, Prompt)
  /\ \E g \in Garbage : CallReadline("input", g)

PythonPrints ==
  /\ pc = "python" /\ calls < MaxCalls
  /\ \E s \in Output : term' = mp_hal_stdout_tx_strn_cooked(term, s)
  /\ UNCHANGED <<editVars, histVars, pc, reader, calls, repl_byte>>

(* The boot script or a command ends, by itself or by an exception. *)
PythonEnds ==
  /\ pc = "python"
  /\ pc' = "prompt"
  /\ UNCHANGED <<term, editVars, histVars, reader, calls, repl_byte>>

(* The caller takes the line.  Both callers look for the NUL; without one  *)
(* they read on past the array, which is undefined: the REPL's copy may    *)
(* overrun exec_buf, or a zero byte further up the stack may end it.       *)
Return ==
  /\ pc = "return"
  /\ \/ /\ reader = "repl"
        /\ pc' = IF line[0] = NUL THEN "prompt" ELSE "python"
     \/ /\ reader = "input"
        /\ pc' = "python"
     \/ /\ ~Terminated(line)
        /\ pc' = "undefined"
  /\ UNCHANGED <<term, editVars, histVars, reader, calls, repl_byte>>

(* start_nexus_python starts the boot script first. *)
Init ==
  /\ term = terminal_initialize(PowerOn)
  /\ repl_byte \in Garbage
  /\ line = [k \in Pos |-> NUL]     \* no line is being read yet
  /\ i = 0 /\ esc_state = 0 /\ h_ptr = 0
  /\ cmd_history = [h \in 0 .. HISTORY_SIZE - 1 |-> [k \in Pos |-> NUL]]
  /\ history_count = 0 /\ history_current = 0
  /\ pc = "python" /\ reader = "input"
  /\ submitted = << >> /\ calls = 0

Next ==
  \/ \E ch \in Input : nexus_readline(ch)
  \/ ReplPrompt
  \/ readline
  \/ PythonPrints
  \/ PythonEnds
  \/ Return

Spec == Init /\ [][Next]_vars

-----------------------------------------------------------------------------
TypeOK ==
  /\ term \in Term
  /\ line \in [Pos -> 0 .. 255]
  /\ i \in Pos
  /\ esc_state \in 0 .. 2
  /\ h_ptr \in 0 .. HISTORY_SIZE - 1
  /\ cmd_history \in [0 .. HISTORY_SIZE - 1 -> [Pos -> 0 .. 255]]
  /\ history_count \in 0 .. HISTORY_SIZE
  /\ history_current \in 0 .. HISTORY_SIZE - 1
  /\ pc \in {"python", "prompt", "reading", "return", "undefined"}
  /\ reader \in {"repl", "input"}
  /\ repl_byte \in Garbage /\ calls \in 0 .. MaxCalls

(***************************************************************************)
(* What you see is what you edit: while a line is being edited the cells   *)
(* before the cursor show the prompt and line[0 .. i-1] right after it,    *)
(* and everything from the cursor on is blank, through erasing, wrapping,  *)
(* scrolling and recalling.                                                *)
(***************************************************************************)
CursorAt == term.row * VGA_WIDTH + term.column
Shown == Prompt \o [k \in 1 .. i |-> line[k - 1]]
EchoMatchesLine ==
  pc = "reading" =>
    /\ Len(Shown) <= CursorAt
    /\ \A k \in 1 .. Len(Shown) :
         term.buffer[CursorAt - Len(Shown) + k - 1].ch = Shown[k]
    /\ \A k \in Cells : k >= CursorAt => term.buffer[k].ch = SPACE

(***************************************************************************)
(* The history ring holds the most recent nonempty lines, of the REPL and  *)
(* of input() alike: k steps up from history_current is the k-th last.     *)
(***************************************************************************)
HistoryIsRecent ==
  /\ history_count = Len(submitted)
  /\ \A k \in 1 .. history_count :
       Text(cmd_history[(history_current - k + HISTORY_SIZE) % HISTORY_SIZE])
         = submitted[Len(submitted) - k + 1]

(***************************************************************************)
(* The callers get a string: when nexus_readline returns, a NUL ends line  *)
(* ("Append newline for parser" copies up to it).                          *)
(***************************************************************************)
LineIsTerminated == pc = "return" => Terminated(line)

(***************************************************************************)
(* A line that was ended by Enter, however it was edited or recalled, is   *)
(* delivered whole and terminated; only a line that filled the array can   *)
(* lack its NUL.  So a caller's copy of the line or the recall of a row    *)
(* runs past an array only if one of the lines that the history still      *)
(* holds filled it and found no NUL in its last byte.                      *)
(***************************************************************************)
OverrunNeedsFullLine ==
  pc = "undefined" => \E k \in 1 .. Len(submitted) : Len(submitted[k]) = MAX_LEN

OnlyFullLinesUnterminated ==
  /\ pc = "return" /\ i < MAX_LEN - 1 => Len(Text(line)) = i
  /\ pc = "return" /\ ~Terminated(line) =>
       i = MAX_LEN - 1 /\ line[MAX_LEN - 1] \in Garbage
  /\ OverrunNeedsFullLine

(***************************************************************************)
(* The inductive invariant of the proofs.  The bytes before i are always   *)
(* printable, the editor waits only while there is room for a character    *)
(* and a NUL, and it never stores into the last byte; so every row of the  *)
(* history is printable text up to a NUL or up to its last byte, which may *)
(* be no NUL.  Rows no line was put in yet are empty, a line that is       *)
(* returned is the latest of the history, and what runs past an array does *)
(* so by a line the history holds.  The echo never leaves the screen.      *)
(***************************************************************************)
Typed(a, n) == \A k \in 0 .. n - 1 : a[k] \in 32 .. 126
Row(a) == \E n \in Pos : Typed(a, n) /\ (n = MAX_LEN - 1 \/ a[n] = NUL)

UnusedRowsTerminated ==
  \A k \in history_count + 1 .. HISTORY_SIZE :
    Terminated(cmd_history[(history_current - k + HISTORY_SIZE) % HISTORY_SIZE])

Remembered ==
  pc = "return" /\ i > 0 =>
    submitted # << >> /\ submitted[Len(submitted)] = Text(line)

EditInv ==
  /\ TypeOK /\ ~term.stray
  /\ pc \in {"reading", "return"} =>
       Typed(line, i) /\ line[MAX_LEN - 1] \in Garbage
  /\ pc = "reading" => i < MAX_LEN - 1
  /\ pc = "return" /\ i < MAX_LEN - 1 => line[i] = NUL
  /\ \A h \in 0 .. HISTORY_SIZE - 1 : Row(cmd_history[h])
  /\ submitted \in Seq(Seq(0 .. 255))
  /\ HistoryIsRecent /\ UnusedRowsTerminated
  /\ Remembered /\ OverrunNeedsFullLine

(* EchoMatchesLine is inductive with this: whoever writes on the console   *)
(* leaves nothing behind its cursor.  A program may, with a bare carriage  *)
(* return, and a prompt and line longer than the screen scroll out of it.  *)
BlankAhead ==
  \A k \in Cells : k >= CursorAt => term.buffer[k].ch = SPACE
EchoInv == BlankAhead /\ EchoMatchesLine

LineFitsScreen ==
  Len(Prompt) + MAX_LEN - 1 <= VGA_WIDTH * (VGA_HEIGHT - 1)
OutputHasNoCR == \A s \in Output : \A k \in 1 .. Len(s) : s[k] # CR
=============================================================================
