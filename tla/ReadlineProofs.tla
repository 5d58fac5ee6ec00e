--------------------------- MODULE ReadlineProofs ---------------------------
(***************************************************************************)
(* The line editor, for every line length, history size, prompt and screen *)
(* and every order of keys, calls and output.                              *)
(*                                                                         *)
(* EditInv is inductive: the bytes before i are printable, so the first    *)
(* NUL of a line or of a row is where it was put, and what recalling a row *)
(* echoes takes one cell a character.  For the echo the screen is seen as  *)
(* one line of cells: every character moves the cursor by one cell, or,    *)
(* when the screen scrolls, moves everything up by a line (Moved).  With   *)
(* that, printing and erasing prolong and shorten the text that stands     *)
(* before the cursor (EchoPrint, EchoErase), and strings follow by         *)
(* WriteInduction.                                                         *)
(***************************************************************************)
EXTENDS Readline, VgaProofs, SequenceTheorems

Line == [Pos -> 0 .. 255]
HistoryRows == 0 .. HISTORY_SIZE - 1
Strings == Seq(0 .. 255)

LEMMA ReadlineSizes ==
  /\ MAX_LEN \in Nat /\ MAX_LEN > 1
  /\ HISTORY_SIZE \in Nat /\ HISTORY_SIZE > 0
  /\ MAX_LEN - 1 \in Pos /\ 0 \in Pos
BY ReadlineAssumption DEF Pos

-----------------------------------------------------------------------------
(* A char array as a string. *)

(* n is the number of bytes before the first NUL, or all of them. *)
EndsAt(a, n) ==
  /\ n \in 0 .. MAX_LEN
  /\ \A k \in 0 .. n - 1 : a[k] # NUL
  /\ n = MAX_LEN \/ a[n] = NUL

LEMMA TextIs ==
  ASSUME NEW a \in Line, NEW n, EndsAt(a, n)
  PROVE  /\ Text(a) = [k \in 1 .. n |-> a[k - 1]]
         /\ Text(a) \in Strings /\ Len(Text(a)) = n
<1>1. ASSUME NEW m, EndsAt(a, m) PROVE m = n
  BY <1>1, ReadlineSizes DEF EndsAt
<1>2. (CHOOSE m \in 0 .. MAX_LEN : /\ \A k \in 0 .. m - 1 : a[k] # NUL
                                   /\ m = MAX_LEN \/ a[m] = NUL) = n
  BY <1>1 DEF EndsAt
<1>3. Text(a) = [k \in 1 .. n |-> a[k - 1]]
  BY <1>2 DEF Text
<1>4. n \in Nat /\ \A k \in 1 .. n : a[k - 1] \in 0 .. 255
  BY ReadlineSizes DEF EndsAt, Line, Pos
<1>5. [k \in 1 .. n |-> a[k - 1]] \in Seq(0 .. 255)
  BY <1>4
<1>6. Len([k \in 1 .. n |-> a[k - 1]]) = n
  BY <1>4
<1> QED BY <1>3, <1>5, <1>6 DEF Strings

LEMMA TextEnds ==
  ASSUME NEW a \in Line
  PROVE  \E n : EndsAt(a, n)
<1> DEFINE S == {n \in 0 .. MAX_LEN : n = MAX_LEN \/ a[n] = NUL}
<1>1. S \in SUBSET Nat /\ MAX_LEN \in S
  BY ReadlineSizes
<1>2. PICK n \in S : \A m \in S : n <= m
  BY <1>1, LeastNumber
<1>3. \A k \in 0 .. n - 1 : a[k] # NUL
  BY <1>2, ReadlineSizes
<1> QED BY <1>2, <1>3 DEF EndsAt

LEMMA TextType ==
  ASSUME NEW a \in Line
  PROVE  Text(a) \in Strings
BY TextIs, TextEnds

(* The text of a row that a NUL ends is what was typed, and leaves room    *)
(* for that NUL.                                                           *)
LEMMA RowText ==
  ASSUME NEW a \in Line, Row(a), Terminated(a)
  PROVE  \E n \in Pos : /\ Typed(a, n) /\ EndsAt(a, n)
                        /\ Len(Text(a)) = n
                        /\ \A k \in 1 .. n : Text(a)[k] = a[k - 1]
<1>1. PICK n \in Pos : Typed(a, n) /\ (n = MAX_LEN - 1 \/ a[n] = NUL)
  BY DEF Row
<1>2. n \in Nat /\ n <= MAX_LEN - 1
  BY ReadlineSizes DEF Pos
<1>3. \A k \in 0 .. n - 1 : a[k] # NUL
  BY <1>1 DEF Typed, NUL
<1>4. a[n] = NUL
  <2>1. PICK k \in Pos : a[k] = NUL
    BY DEF Terminated
  <2>2. k >= n
    BY <1>2, <1>3, <2>1 DEF Pos
  <2> QED BY <1>1, <1>2, <2>1, <2>2 DEF Pos
<1>5. EndsAt(a, n)
  BY <1>2, <1>3, <1>4, ReadlineSizes DEF EndsAt
<1> QED BY <1>1, <1>5, TextIs

-----------------------------------------------------------------------------
(* The history. *)

HistInv ==
  /\ cmd_history \in [HistoryRows -> Line]
  /\ history_count \in 0 .. HISTORY_SIZE
  /\ history_current \in HistoryRows
  /\ \A h \in HistoryRows : Row(cmd_history[h])
  /\ submitted \in Seq(Strings)
  /\ HistoryIsRecent /\ UnusedRowsTerminated

(* r is s with x appended and at most the last n kept. *)
Pushed(r, s, x, n) ==
  /\ r \in Seq(Strings)
  /\ Len(r) = IF Len(s) < n THEN Len(s) + 1 ELSE n
  /\ r[Len(r)] = x
  /\ \A k \in 2 .. Len(r) : r[Len(r) - k + 1] = s[Len(s) - k + 2]

LEMMA LastNIs ==
  ASSUME NEW s \in Seq(Strings), NEW x \in Strings,
         NEW n \in Nat \ {0}, Len(s) <= n,
         NEW r, r = LastN(Append(s, x), n)
  PROVE  Pushed(r, s, x, n)
<1>1. PICK a \in Seq(Strings) : a = Append(s, x) /\ r = LastN(a, n)
  BY AppendProperties
<1>2. Len(a) = Len(s) + 1 /\ a[Len(s) + 1] = x
        /\ \A k \in 1 .. Len(s) : a[k] = s[k]
  BY <1>1, AppendProperties
<1>3. CASE Len(s) < n
  <2>1. LastN(a, n) = a
    BY <1>2, <1>3 DEF LastN
  <2> QED BY <1>1, <1>2, <1>3, <2>1 DEF Pushed
<1>4. CASE ~(Len(s) < n)
  <2>1. Len(s) = n
    BY <1>4
  <2>3. r = SubSeq(a, 2, n + 1)
    BY <1>1, <1>2, <2>1 DEF LastN
  <2>4. r \in Seq(Strings) /\ Len(r) = n /\ \A k \in 1 .. n : r[k] = a[k + 1]
    BY <1>1, <1>2, <2>1, <2>3
  <2>5. r[n] = x
    BY <1>2, <2>1, <2>4
  <2>6. \A k \in 2 .. n : r[n - k + 1] = s[n - k + 2]
    BY <1>2, <2>1, <2>4
  <2> QED BY <1>1, <2>1, <2>3, <2>4, <2>5, <2>6 DEF Pushed
<1> QED BY <1>3, <1>4
(* Steps around the ring of rows. *)
LEMMA NextRow ==
  ASSUME NEW c \in HistoryRows
  PROVE  /\ (c + 1) % HISTORY_SIZE \in HistoryRows
         /\ (c + 1) % HISTORY_SIZE = IF c + 1 = HISTORY_SIZE THEN 0 ELSE c + 1
BY ReadlineSizes DEF HistoryRows

LEMMA RowBefore ==
  ASSUME NEW c \in HistoryRows, NEW k \in 1 .. HISTORY_SIZE
  PROVE  /\ (c - k + HISTORY_SIZE) % HISTORY_SIZE \in HistoryRows
         /\ (c - k + HISTORY_SIZE) % HISTORY_SIZE
              = IF k <= c THEN c - k ELSE c - k + HISTORY_SIZE
BY ReadlineSizes DEF HistoryRows

LEMMA HistoryAdds ==
  ASSUME HistInv, NEW l \in Line, Row(l), AddToHistory(l)
  PROVE  HistInv'
<1>1. PICK c \in HistoryRows : c = history_current
  BY DEF HistInv
<1>2. PICK c2 \in HistoryRows : c2 = (c + 1) % HISTORY_SIZE
  BY NextRow
<1>2a. c2 = IF c + 1 = HISTORY_SIZE THEN 0 ELSE c + 1
  BY <1>2, NextRow
<1>3. PICK n \in 0 .. HISTORY_SIZE : n = history_count
  BY DEF HistInv
<1>4. PICK m \in 0 .. HISTORY_SIZE :
        m = IF n < HISTORY_SIZE THEN n + 1 ELSE n
  BY <1>3, ReadlineSizes
<1>5. PICK s \in Seq(Strings) : s = submitted
  BY DEF HistInv
<1>6. Len(s) = n
  BY <1>3, <1>5 DEF HistInv, HistoryIsRecent
<1>7. PICK r : r = LastN(Append(s, Text(l)), HISTORY_SIZE)
  OBVIOUS
<1>8. /\ r \in Seq(Strings) /\ Len(r) = m /\ r[m] = Text(l)
      /\ \A k \in 2 .. m : r[m - k + 1] = s[n - k + 2]
  <2>1. Text(l) \in Strings
    BY TextType
  <2>2. HISTORY_SIZE \in Nat \ {0} /\ Len(s) <= HISTORY_SIZE
    BY <1>3, <1>6, ReadlineSizes
  <2>3. /\ r \in Seq(Strings)
        /\ Len(r) = IF Len(s) < HISTORY_SIZE THEN Len(s) + 1 ELSE HISTORY_SIZE
        /\ r[Len(r)] = Text(l)
        /\ \A k \in 2 .. Len(r) : r[Len(r) - k + 1] = s[Len(s) - k + 2]
    <3>1. PICK x \in Strings : x = Text(l)
      BY <2>1
    <3>2. PICK n2 \in Nat \ {0} : n2 = HISTORY_SIZE
      BY <2>2
    <3>3. Len(s) <= n2 /\ r = LastN(Append(s, x), n2)
      BY <1>7, <2>2, <3>1, <3>2
    <3>4. Pushed(r, s, x, n2)
      BY <3>3, LastNIs
    <3> QED BY <3>1, <3>2, <3>4 DEF Pushed
  <2>4. Len(r) = m
    BY <1>3, <1>4, <1>6, <2>2, <2>3
  <2> QED BY <1>6, <1>7, <2>3, <2>4
<1>9. PICK rows : rows = [cmd_history EXCEPT ![c] = l]
  OBVIOUS
<1>10. /\ rows \in [HistoryRows -> Line] /\ rows[c] = l
       /\ \A h \in HistoryRows \ {c} : rows[h] = cmd_history[h]
  BY <1>9 DEF HistInv
<1>11. /\ cmd_history' = rows /\ history_current' = c2
       /\ history_count' = m /\ submitted' = r
  BY <1>1, <1>2, <1>3, <1>4, <1>5, <1>7, <1>9 DEF AddToHistory
<1>12. \A h \in HistoryRows : Row(rows[h])
  BY <1>10 DEF HistInv
<1>13. ASSUME NEW k \in 1 .. m
       PROVE  Text(rows[(c2 - k + HISTORY_SIZE) % HISTORY_SIZE]) = r[m - k + 1]
  <2>1. k \in 1 .. HISTORY_SIZE /\ m \in Nat
    BY ReadlineSizes
  <2>2. PICK h \in HistoryRows : h = (c2 - k + HISTORY_SIZE) % HISTORY_SIZE
    BY <2>1, RowBefore
  <2>2a. h = IF k <= c2 THEN c2 - k ELSE c2 - k + HISTORY_SIZE
    BY <2>1, <2>2, RowBefore
  <2>3. CASE k = 1
    <3>1. h = c
      BY <1>2a, <2>2a, <2>3, ReadlineSizes DEF HistoryRows
    <3>2. m - k + 1 = m
      BY <2>1, <2>3
    <3> QED BY <1>8, <1>10, <2>2, <3>1, <3>2
  <2>4. CASE k # 1
    <3>1. PICK j \in 1 .. n : k = j + 1
      <4>1. k - 1 \in 1 .. n
        BY <1>4, <2>4
      <4> QED BY <4>1
    <3>2. j \in 1 .. HISTORY_SIZE
      BY <1>3, <3>1, ReadlineSizes
    <3>3. PICK g \in HistoryRows : g = (c - j + HISTORY_SIZE) % HISTORY_SIZE
      BY <3>2, RowBefore
    <3>3a. g = IF j <= c THEN c - j ELSE c - j + HISTORY_SIZE
      BY <3>2, <3>3, RowBefore
    <3>4. g = h /\ h # c
      BY <1>2a, <2>1, <2>2a, <3>1, <3>2, <3>3a, ReadlineSizes DEF HistoryRows
    <3>5. Text(cmd_history[g]) = s[n - j + 1]
      BY <1>1, <1>3, <1>5, <1>6, <3>1, <3>3 DEF HistInv, HistoryIsRecent
    <3>6. r[m - k + 1] = s[n - k + 2] /\ n - k + 2 = n - j + 1
      BY <1>8, <2>1, <2>4, <3>1
    <3> QED BY <1>10, <2>2, <3>4, <3>5, <3>6
  <2> QED BY <2>3, <2>4
<1>14. HistoryIsRecent'
  BY <1>8, <1>11, <1>13 DEF HistoryIsRecent
<1>15. ASSUME NEW k \in m + 1 .. HISTORY_SIZE
       PROVE  Terminated(rows[(c2 - k + HISTORY_SIZE) % HISTORY_SIZE])
  <2>1. PICK j \in n + 1 .. HISTORY_SIZE : k = j + 1
    <3>1. k - 1 \in n + 1 .. HISTORY_SIZE
      BY <1>3, <1>4, ReadlineSizes
    <3> QED BY <3>1
  <2>2. j \in 1 .. HISTORY_SIZE /\ k \in 1 .. HISTORY_SIZE
    BY <1>3, <1>4, <2>1, ReadlineSizes
  <2>3. PICK h \in HistoryRows : h = (c2 - k + HISTORY_SIZE) % HISTORY_SIZE
    BY <2>2, RowBefore
  <2>4. h = IF k <= c2 THEN c2 - k ELSE c2 - k + HISTORY_SIZE
    BY <2>2, <2>3, RowBefore
  <2>5. PICK g \in HistoryRows : g = (c - j + HISTORY_SIZE) % HISTORY_SIZE
    BY <2>2, RowBefore
  <2>6. g = IF j <= c THEN c - j ELSE c - j + HISTORY_SIZE
    BY <2>2, <2>5, RowBefore
  <2>7. g = h /\ h # c
    BY <1>2a, <2>1, <2>2, <2>4, <2>6, ReadlineSizes DEF HistoryRows
  <2>8. Terminated(cmd_history[g])
    BY <1>1, <1>3, <2>1, <2>5 DEF HistInv, UnusedRowsTerminated
  <2> QED BY <1>10, <2>3, <2>7, <2>8
<1>16. UnusedRowsTerminated'
  BY <1>11, <1>15 DEF UnusedRowsTerminated, Terminated
<1> QED BY <1>8, <1>10, <1>11, <1>12, <1>14, <1>16 DEF HistInv

LEMMA HistoryStays ==
  ASSUME HistInv, UNCHANGED histVars
  PROVE  HistInv'
<1>1. UNCHANGED <<cmd_history, history_count, history_current, submitted>>
  BY DEF histVars
<1>2. HistoryIsRecent' /\ UnusedRowsTerminated'
  BY <1>1 DEF HistInv, HistoryIsRecent, UnusedRowsTerminated, Terminated
<1> QED BY <1>1, <1>2 DEF HistInv
-----------------------------------------------------------------------------
(* The editor. *)

(* EditInv without the console, the history and CopyState. *)
EditState ==
  /\ line \in Line /\ i \in Pos
  /\ esc_state \in 0 .. 2 /\ h_ptr \in HistoryRows
  /\ pc \in {"python", "prompt", "reading", "return", "undefined"}
  /\ reader \in {"repl", "input"}
  /\ repl_byte \in Garbage /\ calls \in 0 .. MaxCalls
  /\ pc \in {"reading", "return"} =>
       Typed(line, i) /\ line[MAX_LEN - 1] \in Garbage
  /\ pc = "reading" => i < MAX_LEN - 1
  /\ pc = "return" /\ i < MAX_LEN - 1 => line[i] = NUL

(* What a copy out of line or out of a row can run into. *)
CopyState == Remembered /\ OverrunNeedsFullLine

LEMMA EditInvParts ==
  EditInv <=> term \in Writing(Rows) /\ EditState /\ HistInv /\ CopyState
<1>1. term \in Term /\ ~term.stray <=> term \in Writing(Rows)
  <2>1. term \in Term /\ ~term.stray => term.stray = FALSE
    <3>1. term \in Term => term.stray \in BOOLEAN
      BY DEF Term
    <3> QED BY <3>1, Zenon
  <2>2. term \in Term /\ term.stray = FALSE => term \in Writing(Rows)
    BY DEF Term, Writing, Screen
  <2>3. term \in Writing(Rows) => term \in Term /\ ~term.stray
    BY DEF Term, Writing, Screen
  <2> QED BY <2>1, <2>2, <2>3, Zenon
<1>2. EditInv <=> (term \in Term /\ ~term.stray) /\ EditState /\ HistInv /\ CopyState
  BY DEF EditInv, TypeOK, EditState, HistInv, CopyState, Line, HistoryRows, Strings
<1> QED BY <1>1, <1>2, Zenon

(* The loop test and what follows the loop.  A line that ends the loop     *)
(* carries its NUL or fills the array, so it can become a row.             *)
LEMMA LoopTailKeeps ==
  ASSUME EditState, HistInv, pc = "reading",
         NEW l \in Line, NEW n \in Pos,
         Typed(l, n), l[MAX_LEN - 1] \in Garbage,
         esc_state' \in 0 .. 2, h_ptr' \in HistoryRows,
         \/ LoopTail(l, n, FALSE)
         \/ LoopTail(l, n, TRUE) /\ l[n] = NUL
  PROVE  EditState' /\ HistInv'
<1>1. /\ line' = l /\ i' = n
      /\ UNCHANGED <<reader, calls, repl_byte>>
      /\ \/ pc' = "reading" /\ n < MAX_LEN - 1 /\ UNCHANGED histVars
         \/ /\ pc' = "return" /\ (n = MAX_LEN - 1 \/ l[n] = NUL)
            /\ AddToHistory(l) \/ UNCHANGED histVars
  <2>1. n <= MAX_LEN - 1 /\ n \in Nat
    BY ReadlineSizes DEF Pos
  <2>2. CASE LoopTail(l, n, FALSE)
    BY <2>1, <2>2, ReadlineSizes DEF LoopTail
  <2>3. CASE LoopTail(l, n, TRUE) /\ l[n] = NUL
    BY <2>1, <2>3 DEF LoopTail
  <2> QED BY <2>2, <2>3
<1>2. HistInv'
  <2>1. CASE UNCHANGED histVars
    BY <2>1, HistoryStays
  <2>2. CASE AddToHistory(l) /\ (n = MAX_LEN - 1 \/ l[n] = NUL)
    <3>1. Row(l)
      BY <2>2 DEF Row
    <3> QED BY <2>2, <3>1, HistoryAdds
  <2> QED BY <1>1, <2>1, <2>2
<1>3. EditState'
  <2>1. Typed(line', i') /\ line'[MAX_LEN - 1] \in Garbage
    BY <1>1
  <2>2. /\ pc' \in {"reading", "return"}
        /\ pc' = "reading" => i' < MAX_LEN - 1
        /\ pc' = "return" /\ i' < MAX_LEN - 1 => line'[i'] = NUL
    BY <1>1, ReadlineSizes DEF Pos
  <2>3. /\ line' \in Line /\ i' \in Pos
        /\ reader' \in {"repl", "input"}
        /\ repl_byte' \in Garbage /\ calls' \in 0 .. MaxCalls
    BY <1>1 DEF EditState
  <2> QED BY <2>1, <2>2, <2>3 DEF EditState
<1> QED BY <1>2, <1>3

LEMMA ReadingFacts ==
  ASSUME EditState, pc = "reading"
  PROVE  /\ line \in Line /\ i \in Nat /\ i < MAX_LEN - 1 /\ i \in Pos
         /\ \A k \in 0 .. i - 1 : line[k] \in 32 .. 126
         /\ line[MAX_LEN - 1] \in Garbage
         /\ h_ptr \in HistoryRows
BY ReadlineSizes DEF EditState, Typed, Pos

LEMMA EnterKeeps ==
  ASSUME EditState, HistInv, pc = "reading", NEW ch, Enter(ch)
  PROVE  EditState' /\ HistInv'
<1>1. PICK l \in Line : l = [line EXCEPT ![i] = NUL]
  <2>1. NUL \in 0 .. 255 /\ line \in [Pos -> 0 .. 255] /\ i \in Pos
    BY ReadingFacts DEF NUL, Line
  <2>2. [line EXCEPT ![i] = NUL] \in Line
    BY <2>1 DEF Line
  <2> QED BY <2>2
<1>2. l[i] = NUL /\ \A k \in Pos \ {i} : l[k] = line[k]
  BY <1>1, ReadingFacts DEF Line
<1>3. PICK n \in Pos : n = i
  BY ReadingFacts
<1>4. Typed(l, n) /\ l[MAX_LEN - 1] \in Garbage
  BY <1>2, <1>3, ReadingFacts, ReadlineSizes DEF Typed, Pos
<1>5. esc_state' \in 0 .. 2 /\ h_ptr' \in HistoryRows
  BY DEF Enter, EditState
<1>6. LoopTail(l, n, TRUE) /\ l[n] = NUL
  BY <1>1, <1>2, <1>3 DEF Enter
<1> QED BY <1>4, <1>5, <1>6, LoopTailKeeps

LEMMA EraseCharKeeps ==
  ASSUME EditState, HistInv, pc = "reading", NEW ch, EraseChar(ch)
  PROVE  EditState' /\ HistInv'
<1>1. PICK l \in Line : l = line
  BY ReadingFacts
<1>2. PICK n \in Pos : n = i - 1
  <2>1. i > 0
    BY DEF EraseChar
  <2>2. i - 1 \in Pos
    BY <2>1, ReadingFacts, ReadlineSizes DEF Pos
  <2> QED BY <2>2
<1>4. Typed(l, n) /\ l[MAX_LEN - 1] \in Garbage
  BY <1>1, <1>2, ReadingFacts DEF Typed
<1>5. esc_state' \in 0 .. 2 /\ h_ptr' \in HistoryRows
  BY DEF EraseChar, EditState
<1>6. LoopTail(l, n, FALSE)
  BY <1>1, <1>2 DEF EraseChar
<1> QED BY <1>4, <1>5, <1>6, LoopTailKeeps

LEMMA InsertCharKeeps ==
  ASSUME EditState, HistInv, pc = "reading", NEW ch, InsertChar(ch)
  PROVE  EditState' /\ HistInv'
<1>1. ch \in 32 .. 126
  BY DEF InsertChar
<1>2. PICK l \in Line : l = [line EXCEPT ![i] = ch]
  <2>1. ch \in 0 .. 255 /\ line \in [Pos -> 0 .. 255] /\ i \in Pos
    BY <1>1, ReadingFacts DEF Line
  <2>2. [line EXCEPT ![i] = ch] \in Line
    BY <2>1 DEF Line
  <2> QED BY <2>2
<1>3. l[i] = ch /\ \A k \in Pos \ {i} : l[k] = line[k]
  BY <1>2, ReadingFacts DEF Line
<1>4. PICK n \in Pos : n = i + 1
  <2>1. i + 1 \in Pos
    BY ReadingFacts, ReadlineSizes DEF Pos
  <2> QED BY <2>1
<1>5. Typed(l, n) /\ l[MAX_LEN - 1] \in Garbage
  BY <1>1, <1>3, <1>4, ReadingFacts, ReadlineSizes DEF Typed, Pos
<1>6. esc_state' \in 0 .. 2 /\ h_ptr' \in HistoryRows
  BY DEF InsertChar, EditState
<1>7. LoopTail(l, n, FALSE)
  BY <1>2, <1>4 DEF InsertChar
<1> QED BY <1>5, <1>6, <1>7, LoopTailKeeps

(* The characters that only change the state of the escape sequence.       *)
LEMMA LineStaysKeeps ==
  ASSUME EditState, HistInv, pc = "reading",
         esc_state' \in 0 .. 2, UNCHANGED h_ptr, LoopTail(line, i, FALSE)
  PROVE  EditState' /\ HistInv'
<1>1. PICK l \in Line : l = line
  BY ReadingFacts
<1>2. PICK n \in Pos : n = i
  BY ReadingFacts
<1>3. Typed(l, n) /\ l[MAX_LEN - 1] \in Garbage
  BY <1>1, <1>2, ReadingFacts DEF Typed
<1>4. h_ptr' \in HistoryRows
  BY ReadingFacts
<1>5. LoopTail(l, n, FALSE)
  BY <1>1, <1>2
<1> QED BY <1>3, <1>4, <1>5, LoopTailKeeps

LEMMA RecallKeeps ==
  ASSUME EditState, HistInv, pc = "reading", NEW h \in HistoryRows,
         esc_state' = 0, Recall(h)
  PROVE  EditState' /\ HistInv'
<1>1. PICK a \in Line : a = cmd_history[h]
  BY DEF HistInv
<1>2. CASE Terminated(a)
  <2>1. PICK n \in Pos : /\ Typed(a, n) /\ Len(Text(a)) = n
                         /\ \A k \in 1 .. n : Text(a)[k] = a[k - 1]
    BY <1>1, <1>2, RowText DEF HistInv
  <2>2. n \in Nat /\ n <= MAX_LEN - 1
    BY ReadlineSizes DEF Pos
  <2>3. \A k \in 0 .. n - 1 : Text(a)[k + 1] = a[k] /\ a[k] \in 32 .. 126
    <3>1. \A k \in 0 .. n - 1 : k + 1 \in 1 .. n /\ (k + 1) - 1 = k
      BY <2>2
    <3> QED BY <2>1, <3>1 DEF Typed
  <2>4. PICK l : l = [k \in Pos |-> IF k < Len(Text(a)) THEN Text(a)[k + 1]
                                    ELSE line[k]]
    OBVIOUS
  <2>5. l = [k \in Pos |-> IF k < n THEN a[k] ELSE line[k]]
    BY <2>1, <2>2, <2>3, <2>4 DEF Pos
  <2>6. l \in Line /\ Typed(l, n) /\ l[MAX_LEN - 1] \in Garbage
    <3>1. \A k \in Pos : l[k] = IF k < n THEN a[k] ELSE line[k]
      BY <2>5
    <3>2. l \in Line
      BY <2>5, ReadingFacts DEF Line
    <3>3. \A k \in 0 .. n - 1 : k \in Pos /\ k < n
      BY <2>2, ReadlineSizes DEF Pos
    <3>4. Typed(l, n)
      BY <2>3, <3>1, <3>3 DEF Typed
    <3>5. l[MAX_LEN - 1] = line[MAX_LEN - 1]
      BY <2>2, <3>1, ReadlineSizes
    <3> QED BY <3>2, <3>4, <3>5, ReadingFacts
  <2>7. h_ptr' \in HistoryRows /\ LoopTail(l, n, FALSE)
    BY <1>1, <1>2, <2>1, <2>4 DEF Recall
  <2>8. esc_state' \in 0 .. 2
    OBVIOUS
  <2> QED BY <2>1, <2>6, <2>7, <2>8, LoopTailKeeps
<1>3. CASE ~Terminated(a)
  <2>1. /\ pc' = "undefined"
        /\ UNCHANGED <<line, i, h_ptr, histVars, reader, calls, repl_byte>>
    BY <1>1, <1>3 DEF Recall
  <2>2. HistInv'
    BY <2>1, HistoryStays
  <2> QED BY <2>1, <2>2 DEF EditState
<1> QED BY <1>2, <1>3
LEMMA EscapeThirdKeeps ==
  ASSUME EditState, HistInv, pc = "reading", NEW ch, EscapeThird(ch)
  PROVE  EditState' /\ HistInv'
<1>1. esc_state' = 0 /\ esc_state' \in 0 .. 2
  BY DEF EscapeThird
<1>2. PICK h \in HistoryRows : h = h_ptr
  BY ReadingFacts
<1>3. (h - 1 + HISTORY_SIZE) % HISTORY_SIZE \in HistoryRows
  <2>1. 1 \in 1 .. HISTORY_SIZE
    BY ReadlineSizes
  <2> QED BY <2>1, RowBefore
<1>4. (h + 1) % HISTORY_SIZE \in HistoryRows
  BY NextRow
<1>5. CASE Recall((h_ptr - 1 + HISTORY_SIZE) % HISTORY_SIZE)
  BY <1>1, <1>2, <1>3, <1>5, RecallKeeps
<1>6. CASE Recall((h_ptr + 1) % HISTORY_SIZE)
  BY <1>1, <1>2, <1>4, <1>6, RecallKeeps
<1>7. CASE UNCHANGED h_ptr /\ LoopTail(line, 0, FALSE)
  <2>1. PICK l \in Line : l = line
    BY ReadingFacts
  <2>2. PICK n \in Pos : n = 0
    BY ReadlineSizes
  <2>3. Typed(l, n) /\ l[MAX_LEN - 1] \in Garbage
    BY <2>1, <2>2, ReadingFacts DEF Typed
  <2>4. h_ptr' \in HistoryRows /\ LoopTail(l, n, FALSE)
    BY <1>7, <2>1, <2>2, ReadingFacts
  <2> QED BY <1>1, <2>3, <2>4, LoopTailKeeps
<1>8. CASE UNCHANGED h_ptr /\ LoopTail(line, i, FALSE)
  BY <1>1, <1>8, LineStaysKeeps
<1> QED BY <1>5, <1>6, <1>7, <1>8 DEF EscapeThird

LEMMA CharacterKeeps ==
  ASSUME EditState, HistInv, NEW ch \in Input, nexus_readline(ch)
  PROVE  EditState' /\ HistInv'
<1>1. pc = "reading"
  BY DEF nexus_readline
<1>2. esc_state \in 0 .. 2
  BY DEF EditState
<1>3. CASE BeginEscape(ch)
  BY <1>1, <1>3, LineStaysKeeps DEF BeginEscape
<1>4. CASE IgnoreChar(ch)
  BY <1>1, <1>2, <1>4, LineStaysKeeps DEF IgnoreChar
<1>5. CASE EscapeSecond(ch)
  <2>1. esc_state' \in 0 .. 2
    BY <1>5 DEF EscapeSecond
  <2> QED BY <1>1, <1>5, <2>1, LineStaysKeeps DEF EscapeSecond
<1> QED BY <1>1, <1>3, <1>4, <1>5, EnterKeeps, EraseCharKeeps,
           InsertCharKeeps, EscapeThirdKeeps DEF nexus_readline

(* A new call of nexus_readline. *)
LEMMA CallKeeps ==
  ASSUME EditState, HistInv, NEW who \in {"repl", "input"},
         NEW g \in Garbage, CallReadline(who, g)
  PROVE  EditState' /\ HistInv'
<1>1. HistInv'
  BY HistoryStays DEF CallReadline
<1>2. PICK l : l = [k \in Pos |-> g]
  OBVIOUS
<1>3. l \in Line /\ l[MAX_LEN - 1] \in Garbage /\ Typed(l, 0)
  BY <1>2, ReadlineAssumption, ReadlineSizes DEF Line, Typed
<1>4. /\ line' = l /\ i' = 0 /\ esc_state' = 0 /\ h_ptr' = history_current
      /\ pc' = "reading" /\ reader' = who /\ repl_byte' = repl_byte
  BY <1>2 DEF CallReadline
<1>5. calls' \in 0 .. MaxCalls
  BY ReadlineAssumption DEF CallReadline, EditState
<1>6. h_ptr' \in HistoryRows /\ repl_byte' \in Garbage
  BY <1>4 DEF EditState, HistInv
<1>7. 0 < MAX_LEN - 1
  BY ReadlineSizes
<1>8. EditState'
  BY <1>3, <1>4, <1>5, <1>6, <1>7, ReadlineSizes DEF EditState
<1> QED BY <1>1, <1>8

LEMMA EditNext ==
  ASSUME EditState, HistInv, [Next]_vars
  PROVE  EditState' /\ HistInv'
<1>1. CASE \E ch \in Input : nexus_readline(ch)
  BY <1>1, CharacterKeeps
<1>2. CASE ReplPrompt
  BY <1>2, CallKeeps DEF ReplPrompt, EditState
<1>3. CASE readline
  BY <1>3, CallKeeps DEF readline
<1>4. CASE PythonPrints \/ PythonEnds \/ UNCHANGED vars
  <2>1. UNCHANGED <<line, i, esc_state, h_ptr, reader, calls, repl_byte>>
          /\ UNCHANGED histVars
    BY <1>4 DEF PythonPrints, PythonEnds, vars, editVars
  <2>2. pc' = pc \/ pc' = "prompt"
    BY <1>4 DEF PythonPrints, PythonEnds, vars
  <2>3. EditState'
    BY <2>1, <2>2 DEF EditState
  <2> QED BY <2>1, <2>3, HistoryStays
<1>5. CASE Return
  <2>1. UNCHANGED <<line, i, esc_state, h_ptr, reader, calls, repl_byte>>
          /\ UNCHANGED histVars
    BY <1>5 DEF Return, editVars
  <2>2. pc' \in {"prompt", "python", "undefined"}
    BY <1>5 DEF Return
  <2>3. EditState'
    BY <2>1, <2>2 DEF EditState
  <2> QED BY <2>1, <2>3, HistoryStays
<1> QED BY <1>1, <1>2, <1>3, <1>4, <1>5 DEF Next

(* The row a line went to: every row is some steps up from history_current. *)
LEMMA SomeStepsUp ==
  ASSUME NEW c \in HistoryRows, NEW h \in HistoryRows
  PROVE  \E k \in 1 .. HISTORY_SIZE : (c - k + HISTORY_SIZE) % HISTORY_SIZE = h
<1>1. PICK k \in 1 .. HISTORY_SIZE : k = IF h < c THEN c - h ELSE c - h + HISTORY_SIZE
  <2>1. (IF h < c THEN c - h ELSE c - h + HISTORY_SIZE) \in 1 .. HISTORY_SIZE
    BY ReadlineSizes DEF HistoryRows
  <2> QED BY <2>1
<1>2. (c - k + HISTORY_SIZE) % HISTORY_SIZE
         = IF k <= c THEN c - k ELSE c - k + HISTORY_SIZE
  BY RowBefore
<1> QED BY <1>1, <1>2, ReadlineSizes DEF HistoryRows

LEMMA FullText ==
  ASSUME NEW a \in Line, ~Terminated(a)
  PROVE  Len(Text(a)) = MAX_LEN
<1>1. EndsAt(a, MAX_LEN)
  BY ReadlineSizes DEF EndsAt, Terminated, Pos
<1> QED BY <1>1, TextIs

(* A row without a NUL is one of the lines the history holds. *)
LEMMA FullRow ==
  ASSUME HistInv, NEW h \in HistoryRows, ~Terminated(cmd_history[h])
  PROVE  \E k \in 1 .. Len(submitted) : Len(submitted[k]) = MAX_LEN
<1>1. PICK k \in 1 .. HISTORY_SIZE :
        (history_current - k + HISTORY_SIZE) % HISTORY_SIZE = h
  BY SomeStepsUp DEF HistInv
<1>2. PICK n \in Nat : n = history_count /\ n = Len(submitted)
  <2>1. history_count \in Nat
    BY ReadlineSizes DEF HistInv
  <2> QED BY <2>1 DEF HistInv, HistoryIsRecent
<1>3. ~(k \in n + 1 .. HISTORY_SIZE)
  BY <1>1, <1>2 DEF HistInv, UnusedRowsTerminated
<1>4. k \in 1 .. n /\ n - k + 1 \in 1 .. n
  BY <1>2, <1>3, ReadlineSizes
<1>5. Text(cmd_history[h]) = submitted[n - k + 1]
  BY <1>1, <1>2, <1>4 DEF HistInv, HistoryIsRecent
<1>6. Len(Text(cmd_history[h])) = MAX_LEN
  BY FullText DEF HistInv
<1> QED BY <1>2, <1>4, <1>5, <1>6

(* The line that ends the loop is the last of the history.                 *)
LEMMA TailCopies ==
  ASSUME HistInv, pc = "reading", line' \in Line,
         NEW l, NEW n, NEW b, LoopTail(l, n, b)
  PROVE  CopyState'
<1>1. line' = l /\ i' = n /\ pc' \in {"reading", "return"}
  BY DEF LoopTail
<1>2. CASE AddToHistory(l)
  <2>1. PICK s \in Seq(Strings), x \in Strings, z \in Nat \ {0} :
          s = submitted /\ x = Text(l) /\ z = HISTORY_SIZE /\ Len(s) <= z
    BY <1>1, ReadlineSizes, TextType DEF HistInv, HistoryIsRecent
  <2>2. PICK r : r = LastN(Append(s, x), z)
    OBVIOUS
  <2>3. submitted' = r
    BY <1>2, <2>1, <2>2 DEF AddToHistory
  <2>4. Pushed(r, s, x, z)
    BY <2>1, <2>2, LastNIs
  <2>5. r[Len(r)] = x /\ r # << >>
    BY <2>1, <2>4 DEF Pushed
  <2> QED BY <1>1, <2>1, <2>3, <2>5 DEF CopyState, Remembered, OverrunNeedsFullLine
<1>3. CASE pc' = "return" /\ n > 0 => AddToHistory(l)
  BY <1>1, <1>2, <1>3 DEF CopyState, Remembered, OverrunNeedsFullLine
<1> QED BY <1>3 DEF LoopTail

LEMMA CharacterCopies ==
  ASSUME EditState, HistInv, line' \in Line, NEW ch, nexus_readline(ch)
  PROVE  CopyState'
<1>1. pc = "reading"
  BY DEF nexus_readline
<1>2. ASSUME NEW h \in HistoryRows, Recall(h) PROVE CopyState'
  <2>1. CASE \E l, n : LoopTail(l, n, FALSE)
    BY <1>1, <2>1, TailCopies
  <2>2. CASE ~Terminated(cmd_history[h]) /\ pc' = "undefined" /\ UNCHANGED histVars
    <3>1. UNCHANGED submitted
      BY <2>2 DEF histVars
    <3> QED BY <2>2, <3>1, FullRow DEF CopyState, Remembered, OverrunNeedsFullLine
  <2> QED BY <1>2, <2>1, <2>2 DEF Recall
<1>3. ASSUME EscapeThird(ch) PROVE CopyState'
  <2>1. PICK h \in HistoryRows : h = h_ptr
    BY DEF EditState
  <2>2. 1 \in 1 .. HISTORY_SIZE
    BY ReadlineSizes
  <2>3. /\ (h_ptr - 1 + HISTORY_SIZE) % HISTORY_SIZE \in HistoryRows
        /\ (h_ptr + 1) % HISTORY_SIZE \in HistoryRows
    BY <2>1, <2>2, RowBefore, NextRow
  <2>4. \/ Recall((h_ptr - 1 + HISTORY_SIZE) % HISTORY_SIZE)
        \/ Recall((h_ptr + 1) % HISTORY_SIZE)
        \/ LoopTail(line, 0, FALSE) \/ LoopTail(line, i, FALSE)
    BY <1>3 DEF EscapeThird
  <2> QED BY <1>1, <1>2, <2>3, <2>4, TailCopies
<1>4. ~EscapeThird(ch) => \E l, n, b : LoopTail(l, n, b)
  BY DEF nexus_readline, BeginEscape, Enter, EraseChar, InsertChar, IgnoreChar,
         EscapeSecond
<1> QED BY <1>1, <1>3, <1>4, TailCopies

(* Whoever reads past an array does so because of a line that filled it.   *)
LEMMA CopyNext ==
  ASSUME EditState, HistInv, CopyState, [Next]_vars
  PROVE  CopyState'
<1>1. CASE \E ch \in Input : nexus_readline(ch)
  BY <1>1, EditNext, CharacterCopies DEF EditState
<1>2. CASE ReplPrompt \/ readline \/ PythonPrints \/ PythonEnds
  <2>1. pc' \in {"reading", "python", "prompt"}
    BY <1>2 DEF ReplPrompt, readline, CallReadline, PythonPrints, PythonEnds
  <2> QED BY <2>1 DEF CopyState, Remembered, OverrunNeedsFullLine
<1>3. CASE Return
  <2>1. UNCHANGED submitted /\ pc = "return" /\ pc' # "return"
    BY <1>3 DEF Return, histVars
  <2>2. CASE pc' = "undefined"
    <3>1. PICK l \in Line, n \in Pos : l = line /\ n = i
      BY DEF EditState
    <3>2. ~Terminated(l)
      BY <1>3, <2>2, <3>1 DEF Return
    <3>3. n = MAX_LEN - 1 /\ n > 0
      BY <2>1, <3>1, <3>2, ReadlineSizes DEF EditState, Terminated, Pos
    <3>4. PICK s \in Seq(Strings) : s = submitted
      BY DEF HistInv
    <3>5. s # << >> /\ s[Len(s)] = Text(l)
      BY <2>1, <3>1, <3>3, <3>4 DEF CopyState, Remembered
    <3>6. Len(s) \in 1 .. Len(s)
      BY <3>5
    <3> QED BY <2>1, <2>2, <3>2, <3>4, <3>5, <3>6, FullText
        DEF CopyState, Remembered, OverrunNeedsFullLine
  <2> QED BY <2>1, <2>2 DEF CopyState, Remembered, OverrunNeedsFullLine
<1>4. CASE UNCHANGED vars
  BY <1>4 DEF vars, editVars, histVars, CopyState, Remembered, OverrunNeedsFullLine
<1> QED BY <1>1, <1>2, <1>3, <1>4 DEF Next

LEMMA EditInit ==
  ASSUME Init
  PROVE  EditState /\ HistInv /\ CopyState
<1>1. PICK zero : zero = [k \in Pos |-> NUL]
  OBVIOUS
<1>2. zero \in Line /\ zero[0] = NUL /\ Typed(zero, 0)
  BY <1>1, ReadlineSizes DEF Line, NUL, Typed
<1>3. Row(zero)
  BY <1>2, ReadlineSizes DEF Row
<1>4. cmd_history = [h \in HistoryRows |-> zero] /\ line = zero
  BY <1>1 DEF Init, HistoryRows
<1>5. 0 \in HistoryRows /\ 0 \in 0 .. HISTORY_SIZE
        /\ 0 \in 0 .. MaxCalls
  BY ReadlineSizes, ReadlineAssumption DEF HistoryRows
<1>6. HistInv
  <2>1. /\ history_count = 0 /\ history_current = 0 /\ submitted = << >>
    BY DEF Init
  <2>2. HistoryIsRecent /\ UnusedRowsTerminated
    <3>1. \A k \in 1 .. HISTORY_SIZE :
            (0 - k + HISTORY_SIZE) % HISTORY_SIZE \in HistoryRows
      BY <1>5, RowBefore
    <3>2. \A h \in HistoryRows : Terminated(cmd_history[h])
      BY <1>2, <1>4, ReadlineSizes DEF Terminated
    <3> QED BY <2>1, <3>1, <3>2 DEF HistoryIsRecent, UnusedRowsTerminated
  <2>3. << >> \in Seq(Strings)
    OBVIOUS
  <2> QED BY <1>2, <1>3, <1>4, <1>5, <2>1, <2>2, <2>3 DEF HistInv
<1>7. EditState
  BY <1>2, <1>4, <1>5, ReadlineSizes DEF Init, EditState
<1>8. CopyState
  BY DEF Init, CopyState, Remembered, OverrunNeedsFullLine
<1> QED BY <1>6, <1>7, <1>8
-----------------------------------------------------------------------------
(* The screen seen as one line of cells: At is the cell the next character *)
(* goes to.                                                                *)

At(t) == t.row * VGA_WIDTH + t.column
LastLine == VGA_WIDTH * (VGA_HEIGHT - 1)

LEMMA Geometry ==
  /\ VGA_WIDTH \in Nat /\ VGA_WIDTH > 0 /\ LastLine \in Nat
  /\ VGA_WIDTH * VGA_HEIGHT = LastLine + VGA_WIDTH
  /\ Cells = 0 .. LastLine + VGA_WIDTH - 1
BY ScreenSize DEF LastLine, Cells

LEMMA RowStart ==
  ASSUME NEW y \in LowRows
  PROVE  /\ y * VGA_WIDTH \in Nat
         /\ y < VGA_HEIGHT => y * VGA_WIDTH <= LastLine
         /\ y = VGA_HEIGHT - 1 => y * VGA_WIDTH = LastLine
         /\ y = VGA_HEIGHT => y * VGA_WIDTH = LastLine + VGA_WIDTH
<1>1. y \in Nat /\ y <= VGA_HEIGHT
  BY ScreenSize DEF LowRows
<1>2. y * VGA_WIDTH \in Nat
  BY <1>1, ScreenSize
<1>3. ASSUME y < VGA_HEIGHT PROVE y * VGA_WIDTH <= LastLine
  <2>1. PICK d \in Nat : VGA_HEIGHT - 1 = y + d
    <3>1. VGA_HEIGHT - 1 - y \in Nat /\ VGA_HEIGHT - 1 = y + (VGA_HEIGHT - 1 - y)
      BY <1>1, <1>3, ScreenSize
    <3> QED BY <3>1
  <2>2. LastLine = y * VGA_WIDTH + d * VGA_WIDTH
    BY <1>1, <2>1, ScreenSize DEF LastLine
  <2>3. d * VGA_WIDTH \in Nat
    BY ScreenSize
  <2> QED BY <1>2, <2>2, <2>3
<1>4. y = VGA_HEIGHT - 1 => y * VGA_WIDTH = LastLine
  BY ScreenSize DEF LastLine
<1>5. y = VGA_HEIGHT => y * VGA_WIDTH = LastLine + VGA_WIDTH
  BY ScreenSize DEF LastLine
<1> QED BY <1>2, <1>3, <1>4, <1>5

LEMMA AtOnScreen ==
  ASSUME NEW t \in Writing(Rows)
  PROVE  At(t) \in Cells /\ At(t) \in Nat
<1>1. t.row \in Rows /\ t.column \in Columns
  BY DEF Writing
<1>2. At(t) \in Cells
  BY <1>1, IndexOnScreen DEF At
<1> QED BY <1>2, Geometry

(* u is v with what stood d cells further on, d being nothing or a line.   *)
(* If it is a line, the cursor is on the last one.                         *)
Moved(v, u, d) ==
  /\ u \in Writing(Rows)
  /\ d \in {0, VGA_WIDTH}
  /\ At(u) + d = At(v)
  /\ d = 0 \/ At(u) >= LastLine
  /\ \A k \in Cells :
       u.buffer[k].ch = IF k + d \in Cells THEN v.buffer[k + d].ch ELSE SPACE

LEMMA SettleMoves ==
  ASSUME NEW v \in Writing(LowRows), NEW w, w = ScrollIfNeeded(v),
         NEW u, u = update_cursor(w, w.column, w.row)
  PROVE  \E d : Moved(v, u, d)
<1>1. w \in Writing(Rows)
  BY ScrollBack
<1>2. w.row \in Rows /\ w.column \in Columns
  BY <1>1 DEF Writing
<1>3. u \in Writing(Rows) /\ u.row = w.row /\ u.column = w.column
  BY <1>1, <1>2, CursorSet
<1>4. u.buffer = w.buffer
  BY <1>1 DEF update_cursor, Writing
<1>5. v.row \in LowRows /\ v.column \in Columns
  BY DEF Writing
<1>6. CASE ~(v.row >= VGA_HEIGHT)
  <2>1. w = v
    BY <1>6 DEF ScrollIfNeeded
  <2>2. At(v) \in Nat
    BY <1>1, <2>1, AtOnScreen
  <2>3. At(u) + 0 = At(v)
    BY <1>3, <2>1, <2>2 DEF At
  <2>4. \A k \in Cells : k + 0 = k
    BY Geometry
  <2>5. \A k \in Cells :
          u.buffer[k].ch = IF k + 0 \in Cells THEN v.buffer[k + 0].ch ELSE SPACE
    BY <1>4, <2>1, <2>4
  <2>6. Moved(v, u, 0)
    BY <1>3, <2>3, <2>5 DEF Moved
  <2> QED BY <2>6
<1>7. CASE v.row >= VGA_HEIGHT
  <2>1. v.row = VGA_HEIGHT
    BY <1>5, <1>7, ScreenSize DEF LowRows
  <2>2. PICK z : z = terminal_scroll(v)
    OBVIOUS
  <2>3. z \in Writing(LowRows)
    BY <2>2, ScrollWrites
  <2>4. w = [z EXCEPT !.row = VGA_HEIGHT - 1]
    BY <1>7, <2>2 DEF ScrollIfNeeded
  <2>5. w.row = VGA_HEIGHT - 1 /\ w.column = z.column /\ w.buffer = z.buffer
    BY <2>3, <2>4 DEF Writing
  <2>6. /\ z.column = v.column
        /\ z.buffer = [k \in Cells |-> IF k < (VGA_HEIGHT - 1) * VGA_WIDTH
                                       THEN v.buffer[k + VGA_WIDTH]
                                       ELSE vga_entry(SPACE, v.color)]
    BY <2>2 DEF terminal_scroll, Writing
  <2>7. At(u) + VGA_WIDTH = At(v) /\ At(u) >= LastLine
    <3>1. PICK col \in Nat : col = v.column
      BY <1>5, ScreenSize DEF Columns
    <3>2. VGA_HEIGHT \in LowRows /\ VGA_HEIGHT - 1 \in LowRows
      BY ScreenSize DEF LowRows
    <3>3. At(v) = LastLine + VGA_WIDTH + col
      BY <2>1, <3>1, <3>2, RowStart DEF At
    <3>4. At(u) = LastLine + col
      BY <1>3, <2>5, <2>6, <3>1, <3>2, RowStart DEF At
    <3> QED BY <3>3, <3>4, Geometry
  <2>8. ASSUME NEW k \in Cells
        PROVE  u.buffer[k].ch = IF k + VGA_WIDTH \in Cells
                                  THEN v.buffer[k + VGA_WIDTH].ch ELSE SPACE
    <3>1. k < (VGA_HEIGHT - 1) * VGA_WIDTH <=> k + VGA_WIDTH \in Cells
      <4>1. (VGA_HEIGHT - 1) * VGA_WIDTH = LastLine
        BY ScreenSize DEF LastLine
      <4>2. k \in Nat
        BY Geometry
      <4> QED BY <4>1, <4>2, Geometry
    <3>2. vga_entry(SPACE, v.color).ch = SPACE
      BY DEF vga_entry
    <3> QED BY <1>4, <2>5, <2>6, <3>1, <3>2
  <2>9. Moved(v, u, VGA_WIDTH)
    BY <1>3, <2>7, <2>8 DEF Moved
  <2> QED BY <2>9
<1> QED BY <1>6, <1>7
LEMMA PutcharMoves ==
  ASSUME NEW t \in Writing(Rows), NEW ch \in Byte,
         NEW v, v = Place(t, ch), NEW u, u = terminal_putchar(t, ch)
  PROVE  v \in Writing(LowRows) /\ \E d : Moved(v, u, d)
<1>1. v \in Writing(LowRows)
  BY PlaceLow
<1>2. PICK w : w = ScrollIfNeeded(v)
  OBVIOUS
<1>3. u = update_cursor(w, w.column, w.row)
  BY <1>2 DEF terminal_putchar
<1> QED BY <1>1, <1>2, <1>3, SettleMoves

LEMMA PutentryCell ==
  ASSUME NEW rows, NEW t \in Writing(rows), NEW ch, NEW x \in Columns,
         NEW y \in Rows, NEW c, c = y * VGA_WIDTH + x
  PROVE  \A k \in Cells : terminal_putentryat(t, ch, x, y).buffer[k].ch
                            = IF k = c THEN ch ELSE t.buffer[k].ch
<1>1. c \in Cells
  BY IndexOnScreen
<1>2. PICK e : e = vga_entry(ch, t.color)
  OBVIOUS
<1>3. terminal_putentryat(t, ch, x, y).buffer = [t.buffer EXCEPT ![c] = e]
  BY <1>1, <1>2 DEF terminal_putentryat, Writing
<1>4. t.buffer \in [Cells -> Entry] /\ e.ch = ch
  BY <1>2 DEF Writing, Screen, vga_entry
<1> QED BY <1>1, <1>3, <1>4

LEMMA AtParts ==
  ASSUME NEW t \in Writing(Rows)
  PROVE  \E x \in Columns, y \in Rows, s \in Nat :
           /\ x = t.column /\ y = t.row /\ s = y * VGA_WIDTH
           /\ At(t) = s + x /\ s <= LastLine
           /\ x \in Nat /\ x < VGA_WIDTH /\ y \in Nat /\ y < VGA_HEIGHT
           /\ (y + 1) * VGA_WIDTH = s + VGA_WIDTH
<1>1. PICK x \in Columns, y \in Rows : x = t.column /\ y = t.row
  BY DEF Writing
<1>2. x \in Nat /\ x < VGA_WIDTH /\ y \in Nat /\ y < VGA_HEIGHT
  BY ScreenSize DEF Columns, Rows
<1>3. y \in LowRows
  BY <1>2, ScreenSize DEF LowRows
<1>4. PICK s \in Nat : s = y * VGA_WIDTH
  BY <1>3, RowStart
<1>5. s <= LastLine
  BY <1>2, <1>3, <1>4, RowStart
<1>6. (y + 1) * VGA_WIDTH = s + VGA_WIDTH
  BY <1>2, <1>4, ScreenSize
<1> QED BY <1>1, <1>2, <1>4, <1>5, <1>6 DEF At

LEMMA PrintPlace ==
  ASSUME NEW t \in Writing(Rows), NEW ch \in Byte \ {LF, CR, TAB, BS},
         NEW v, v = Place(t, ch)
  PROVE  /\ At(v) = At(t) + 1
         /\ \A k \in Cells :
              v.buffer[k].ch = IF k = At(t) THEN ch ELSE t.buffer[k].ch
<1>1. PICK x \in Columns, y \in Rows, s \in Nat :
        /\ x = t.column /\ y = t.row /\ s = y * VGA_WIDTH
        /\ At(t) = s + x
        /\ x \in Nat /\ x < VGA_WIDTH /\ y \in Nat
        /\ (y + 1) * VGA_WIDTH = s + VGA_WIDTH
  BY AtParts
<1>2. PICK p \in Writing(Rows) :
        p = terminal_putentryat(t, ch, x, y) /\ p.row = y /\ p.column = x
  BY <1>1, PutentryWrites
<1>3. \A k \in Cells :
        p.buffer[k].ch = IF k = At(t) THEN ch ELSE t.buffer[k].ch
  BY <1>1, <1>2, PutentryCell
<1>4. v = Printable(t, ch)
  BY DEF Place
<1>5. CASE x + 1 = VGA_WIDTH
  <2>1. v = NextLine(p)
    BY <1>1, <1>2, <1>4, <1>5 DEF Printable
  <2>2. v.row = y + 1 /\ v.column = 0 /\ v.buffer = p.buffer
    BY <1>2, <2>1 DEF NextLine, Writing
  <2>3. At(v) = (y + 1) * VGA_WIDTH + 0
    BY <2>2 DEF At
  <2>4. /\ s + VGA_WIDTH = s + x + 1 /\ (y + 1) * VGA_WIDTH + 0 = s + VGA_WIDTH
    BY <1>1, <1>5, ScreenSize
  <2>5. At(v) = At(t) + 1
    BY <1>1, <2>3, <2>4, Zenon
  <2> QED BY <1>3, <2>2, <2>5, Zenon
<1>6. CASE x + 1 # VGA_WIDTH
  <2>1. v = [p EXCEPT !.column = x + 1]
    BY <1>1, <1>2, <1>4, <1>6 DEF Printable
  <2>2. v.row = y /\ v.column = x + 1 /\ v.buffer = p.buffer
    BY <1>2, <2>1 DEF Writing
  <2>3. At(v) = s + (x + 1)
    BY <1>1, <2>2 DEF At
  <2> QED BY <1>1, <1>3, <2>2, <2>3
<1> QED BY <1>5, <1>6

LEMMA BackspacePlace ==
  ASSUME NEW t \in Writing(Rows), NEW v, v = Place(t, BS)
  PROVE  /\ At(t) = 0 => v = t
         /\ At(t) > 0 =>
              /\ At(v) = At(t) - 1
              /\ \A k \in Cells : v.buffer[k].ch
                   = IF k = At(t) - 1 THEN SPACE ELSE t.buffer[k].ch
<1>1. PICK x \in Columns, y \in Rows, s \in Nat :
        /\ x = t.column /\ y = t.row /\ s = y * VGA_WIDTH
        /\ At(t) = s + x
        /\ x \in Nat /\ x < VGA_WIDTH /\ y \in Nat
  BY AtParts
<1>2. v = Backspace(t)
  BY DEF Place, BS, LF, CR, TAB
<1>3. SPACE \in Byte
  BY DEF SPACE, Byte
<1>4. CASE x > 0
  <2>1. PICK x2 \in Columns : x2 = x - 1
    <3>1. x - 1 \in Columns
      BY <1>1, <1>4, ScreenSize DEF Columns
    <3> QED BY <3>1
  <2>2. PICK p \in Writing(Rows) : p = [t EXCEPT !.column = x2]
    BY <2>1 DEF Writing
  <2>3. p.row = y /\ p.column = x2 /\ p.buffer = t.buffer
    BY <1>1, <2>2 DEF Writing
  <2>4. v = terminal_putentryat(p, SPACE, x2, y)
    BY <1>1, <1>2, <1>4, <2>1, <2>2 DEF Backspace
  <2>5. v.row = y /\ v.column = x2
    BY <1>3, <2>3, <2>4, PutentryWrites
  <2>6. PICK c : c = y * VGA_WIDTH + x2
    OBVIOUS
  <2>7. c = At(t) - 1 /\ At(v) = c
    BY <1>1, <2>1, <2>5, <2>6 DEF At
  <2>8. \A k \in Cells :
          v.buffer[k].ch = IF k = c THEN SPACE ELSE p.buffer[k].ch
    BY <2>4, <2>6, PutentryCell
  <2> QED BY <1>1, <1>4, <2>3, <2>7, <2>8
<1>5. CASE ~(x > 0) /\ y > 0
  <2>1. PICK x2 \in Columns, y2 \in Rows : x2 = VGA_WIDTH - 1 /\ y2 = y - 1
    <3>1. VGA_WIDTH - 1 \in Columns
      BY ScreenSize DEF Columns
    <3>2. y - 1 \in Rows
      BY <1>5, ScreenSize DEF Rows
    <3> QED BY <3>1, <3>2
  <2>2. PICK p \in Writing(Rows) : p = [t EXCEPT !.row = y2, !.column = x2]
    BY <2>1 DEF Writing
  <2>3. p.row = y2 /\ p.column = x2 /\ p.buffer = t.buffer
    BY <2>2 DEF Writing
  <2>4. v = terminal_putentryat(p, SPACE, x2, y2)
    BY <1>1, <1>2, <1>5, <2>1, <2>2 DEF Backspace
  <2>5. v.row = y2 /\ v.column = x2
    BY <1>3, <2>3, <2>4, PutentryWrites
  <2>6. PICK c : c = y2 * VGA_WIDTH + x2
    OBVIOUS
  <2>7. s = y2 * VGA_WIDTH + VGA_WIDTH /\ s > 0
    <3>1. PICK z \in Nat : z = y - 1
      <4>1. y - 1 \in Nat
        BY <1>1, <1>5
      <4> QED BY <4>1
    <3>2. y = z + 1 /\ y2 = z
      BY <1>1, <2>1, <3>1
    <3>3. s = z * VGA_WIDTH + VGA_WIDTH /\ z * VGA_WIDTH \in Nat
      BY <1>1, <3>2, Geometry
    <3> QED BY <3>2, <3>3, Geometry
  <2>8. c = At(t) - 1 /\ At(v) = c /\ At(t) > 0
    <3>1. PICK q \in Nat : q = y2 * VGA_WIDTH
      <4>1. y2 \in Nat
        BY ScreenSize DEF Rows
      <4> QED BY <4>1, Geometry
    <3>2. x = 0 /\ At(t) = s
      BY <1>1, <1>5
    <3> QED BY <2>1, <2>5, <2>6, <2>7, <3>1, <3>2, Geometry DEF At
  <2>9. \A k \in Cells :
          v.buffer[k].ch = IF k = c THEN SPACE ELSE p.buffer[k].ch
    BY <2>4, <2>6, PutentryCell
  <2> QED BY <2>3, <2>8, <2>9
<1>6. CASE ~(x > 0) /\ ~(y > 0)
  <2>1. v = t
    BY <1>1, <1>2, <1>6 DEF Backspace
  <2>2. y = 0 /\ x = 0
    BY <1>1, <1>6
  <2>3. At(t) = 0
    BY <1>1, <2>2, Geometry
  <2> QED BY <2>1, <2>3
<1> QED BY <1>4, <1>5, <1>6

(* Line feed and tab leave the cells alone and move on. *)
LEMMA LineFeedPlace ==
  ASSUME NEW t \in Writing(Rows), NEW v, v = Place(t, LF)
  PROVE  /\ v.buffer = t.buffer /\ At(v) >= At(t)
         /\ At(v) = (t.row + 1) * VGA_WIDTH
<1>1. PICK x \in Columns, y \in Rows, s \in Nat :
        /\ x = t.column /\ y = t.row /\ s = y * VGA_WIDTH
        /\ At(t) = s + x
        /\ x \in Nat /\ x < VGA_WIDTH /\ y \in Nat
        /\ (y + 1) * VGA_WIDTH = s + VGA_WIDTH
  BY AtParts
<1>2. v = NextLine(t)
  BY DEF Place, LF, CR, TAB, BS
<1>3. v.row = y + 1 /\ v.column = 0 /\ v.buffer = t.buffer
  BY <1>1, <1>2 DEF NextLine, Writing
<1>4. At(v) = (y + 1) * VGA_WIDTH + 0
  BY <1>3 DEF At
<1>5. At(v) = s + VGA_WIDTH
  BY <1>1, <1>4, Geometry
<1>6. At(v) = (t.row + 1) * VGA_WIDTH /\ At(v) >= At(t)
  <2>1. s + VGA_WIDTH >= s + x
    <3>1. x \in Nat /\ x < VGA_WIDTH /\ s \in Nat
      BY <1>1
    <3> QED BY <3>1, ScreenSize
  <2> QED BY <1>1, <1>5, <2>1, Zenon
<1> QED BY <1>3, <1>6

LEMMA TabPlace ==
  ASSUME NEW t \in Writing(Rows), NEW v, v = Place(t, TAB)
  PROVE  v.buffer = t.buffer /\ At(v) >= At(t)
<1>1. PICK x \in Columns, y \in Rows, s \in Nat :
        /\ x = t.column /\ y = t.row /\ s = y * VGA_WIDTH
        /\ At(t) = s + x
        /\ x \in Nat /\ x < VGA_WIDTH /\ y \in Nat
        /\ (y + 1) * VGA_WIDTH = s + VGA_WIDTH
  BY AtParts
<1>2. PICK stop \in Nat : stop = ((x + 4) \div 4) * 4
  <2>1. ((x + 4) \div 4) * 4 \in Nat
    BY <1>1
  <2> QED BY <2>1
<1>3. stop > x
  BY <1>1, <1>2
<1>4. v = IF stop >= VGA_WIDTH THEN NextLine(t) ELSE [t EXCEPT !.column = stop]
  BY <1>1, <1>2 DEF Place, Tab, LF, CR, TAB, BS
<1>5. CASE stop >= VGA_WIDTH
  <2>1. v.row = y + 1 /\ v.column = 0 /\ v.buffer = t.buffer
    BY <1>1, <1>4, <1>5 DEF NextLine, Writing
  <2>2. At(v) = (y + 1) * VGA_WIDTH + 0
    BY <2>1 DEF At
  <2>3. PICK w \in Nat : w = (y + 1) * VGA_WIDTH /\ w = s + VGA_WIDTH
    BY <1>1, ScreenSize
  <2>4. w + 0 >= s + x
    <3>1. x \in Nat /\ x < VGA_WIDTH /\ s \in Nat
      BY <1>1
    <3> QED BY <2>3, <3>1, ScreenSize
  <2> QED BY <1>1, <2>1, <2>2, <2>3, <2>4, Zenon
<1>6. CASE ~(stop >= VGA_WIDTH)
  <2>1. v.row = y /\ v.column = stop /\ v.buffer = t.buffer
    BY <1>1, <1>4, <1>6 DEF Writing
  <2>2. At(v) = s + stop
    BY <1>1, <2>1 DEF At
  <2> QED BY <1>1, <1>3, <2>1, <2>2
<1> QED BY <1>5, <1>6
-----------------------------------------------------------------------------
(* Echo. *)

(* The n cells before the cursor show f[1 .. n]. *)
EndsWith(t, n, f) ==
  /\ n \in Nat /\ n <= At(t)
  /\ \A k \in 1 .. n : t.buffer[At(t) - n + k - 1].ch = f[k]

(* Everything from the cursor on is blank. *)
Blank(t) == \A k \in Cells : k >= At(t) => t.buffer[k].ch = SPACE

LEMMA EchoPrint ==
  ASSUME NEW t \in Writing(Rows), NEW ch \in 32 .. 126,
         NEW n \in Nat, NEW f, EndsWith(t, n, f), f[n + 1] = ch,
         n + 1 <= LastLine
  PROVE  EndsWith(terminal_putchar(t, ch), n + 1, f)
<1>1. ch \in Byte /\ ch \notin {LF, CR, TAB, BS}
  BY DEF Byte, LF, CR, TAB, BS
<1>2. PICK u, v : u = terminal_putchar(t, ch) /\ v = Place(t, ch)
  OBVIOUS
<1>3. PICK d : Moved(v, u, d)
  BY <1>1, <1>2, PutcharMoves
<1>4. PICK c \in Nat : c = At(t) /\ c \in Cells
  BY AtOnScreen
<1>5. PICK e \in Nat : e = At(u)
  BY <1>3, AtOnScreen DEF Moved
<1>6. d \in Nat
  BY <1>3, Geometry DEF Moved
<1>7. /\ At(v) = c + 1
      /\ \A k \in Cells : v.buffer[k].ch = IF k = c THEN ch ELSE t.buffer[k].ch
  BY <1>1, <1>2, <1>4, PrintPlace
<1>8. e + d = c + 1 /\ (d = 0 \/ e >= LastLine)
  BY <1>3, <1>5, <1>7 DEF Moved
<1>9. n + 1 <= e
  <2>1. n <= c
    BY <1>4 DEF EndsWith
  <2> QED BY <1>6, <1>8, <2>1, Geometry
<1>10. ASSUME NEW k \in 1 .. n + 1
       PROVE  u.buffer[e - (n + 1) + k - 1].ch = f[k]
  <2>1. PICK j \in Nat : j = e - (n + 1) + k - 1
    <3>1. e - (n + 1) + k - 1 \in Nat
      BY <1>9
    <3> QED BY <3>1
  <2>2. j + d = c - n + k - 1 /\ j + d <= c /\ j <= j + d
    BY <1>6, <1>8, <2>1
  <2>3. j \in Cells /\ j + d \in Cells
    BY <1>4, <1>6, <2>1, <2>2, Geometry
  <2>4. u.buffer[j].ch = v.buffer[j + d].ch
    BY <1>3, <2>3 DEF Moved
  <2>5. CASE k = n + 1
    <3>1. j + d = c
      BY <1>4, <2>2, <2>5
    <3> QED BY <1>7, <2>1, <2>3, <2>4, <2>5, <3>1
  <2>6. CASE k # n + 1
    <3>1. k \in 1 .. n /\ j + d # c
      BY <1>4, <2>2, <2>6
    <3>2. t.buffer[c - n + k - 1].ch = f[k]
      BY <1>4, <3>1 DEF EndsWith
    <3> QED BY <1>7, <2>1, <2>2, <2>3, <2>4, <3>1, <3>2
  <2> QED BY <2>5, <2>6
<1> QED BY <1>2, <1>5, <1>9, <1>10 DEF EndsWith

(* Nothing scrolls while a character is erased. *)
LEMMA BackspaceMoves ==
  ASSUME NEW t \in Writing(Rows), At(t) > 0,
         NEW u, u = terminal_putchar(t, BS)
  PROVE  /\ u \in Writing(Rows) /\ At(u) = At(t) - 1
         /\ \A k \in Cells : u.buffer[k].ch
              = IF k = At(t) - 1 THEN SPACE ELSE t.buffer[k].ch
<1>1. BS \in Byte
  BY DEF Byte, BS
<1>2. PICK v : v = Place(t, BS)
  OBVIOUS
<1>3. PICK d : Moved(v, u, d)
  BY <1>1, <1>2, PutcharMoves
<1>4. PICK c \in Nat : c = At(t) /\ c \in Cells /\ c > 0
  BY AtOnScreen
<1>5. PICK e \in Nat : e = At(u)
  BY <1>3, AtOnScreen DEF Moved
<1>6. /\ At(v) = c - 1
      /\ \A k \in Cells :
           v.buffer[k].ch = IF k = c - 1 THEN SPACE ELSE t.buffer[k].ch
  BY <1>2, <1>4, BackspacePlace
<1>7. d \in {0, VGA_WIDTH} /\ e + d = c - 1 /\ (d = 0 \/ e >= LastLine)
  BY <1>3, <1>5, <1>6 DEF Moved
<1>8. d = 0 /\ e = c - 1
  BY <1>4, <1>7, Geometry
<1>9. \A k \in Cells : k + 0 = k
  BY Geometry
<1>10. \A k \in Cells : u.buffer[k].ch = v.buffer[k].ch
  BY <1>3, <1>8, <1>9 DEF Moved
<1> QED BY <1>3, <1>4, <1>5, <1>6, <1>8, <1>10 DEF Moved

LEMMA EchoErase ==
  ASSUME NEW t \in Writing(Rows), NEW n \in Nat, NEW f, EndsWith(t, n + 1, f)
  PROVE  EndsWith(terminal_putchar(t, BS), n, f)
<1>1. PICK c \in Nat : c = At(t) /\ c \in Cells
  BY AtOnScreen
<1>2. n + 1 <= c /\ \A k \in 1 .. n + 1 : t.buffer[c - (n + 1) + k - 1].ch = f[k]
  BY <1>1 DEF EndsWith
<1>3. PICK u : u = terminal_putchar(t, BS)
  OBVIOUS
<1>4. /\ At(u) = c - 1
      /\ \A k \in Cells :
           u.buffer[k].ch = IF k = c - 1 THEN SPACE ELSE t.buffer[k].ch
  <2>1. At(t) > 0
    BY <1>1, <1>2
  <2> QED BY <1>1, <1>3, <2>1, BackspaceMoves
<1>5. ASSUME NEW k \in 1 .. n
      PROVE  u.buffer[(c - 1) - n + k - 1].ch = f[k]
  <2>1. PICK j \in Nat : j = c - (n + 1) + k - 1
    <3>1. c - (n + 1) + k - 1 \in Nat
      BY <1>2
    <3> QED BY <3>1
  <2>2. j \in Cells /\ j # c - 1 /\ (c - 1) - n + k - 1 = j
    BY <1>1, <1>2, <2>1, Geometry
  <2>3. t.buffer[j].ch = f[k]
    BY <1>2, <2>1
  <2> QED BY <1>4, <2>2, <2>3
<1> QED BY <1>2, <1>3, <1>4, <1>5 DEF EndsWith

(* Whatever is written, other than a carriage return, what is behind the   *)
(* cursor stays blank.                                                     *)
LEMMA BlankMoves ==
  ASSUME NEW v, NEW u, NEW d, Moved(v, u, d), At(v) \in Nat,
         \A k \in Cells : k >= At(v) => v.buffer[k].ch = SPACE
  PROVE  Blank(u)
<1>1. d \in Nat
  BY Geometry DEF Moved
<1>2. PICK e \in Nat : e = At(u)
  BY AtOnScreen DEF Moved
<1>3. e + d = At(v)
  BY <1>2 DEF Moved
<1>4. ASSUME NEW k \in Cells, k >= e PROVE u.buffer[k].ch = SPACE
  <2>1. k + d >= At(v)
    BY <1>1, <1>2, <1>3, <1>4, Geometry
  <2> QED BY <2>1 DEF Moved
<1> QED BY <1>2, <1>4 DEF Blank

LEMMA BlankPut ==
  ASSUME NEW t \in Writing(Rows), NEW ch \in Byte, ch # CR, Blank(t)
  PROVE  Blank(terminal_putchar(t, ch))
<1>1. PICK u, v : u = terminal_putchar(t, ch) /\ v = Place(t, ch)
  OBVIOUS
<1>2. PICK d : Moved(v, u, d)
  BY <1>1, PutcharMoves
<1>3. PICK c \in Nat : c = At(t) /\ c \in Cells
  BY AtOnScreen
<1>4. d \in Nat /\ At(u) \in Nat /\ At(u) + d = At(v)
  BY <1>2, AtOnScreen, Geometry DEF Moved
<1>5. At(v) \in Nat
  BY <1>4
<1>6. \A k \in Cells : k >= c => t.buffer[k].ch = SPACE
  BY <1>3 DEF Blank
<1>7. \A k \in Cells : k >= At(v) => v.buffer[k].ch = SPACE
  <2>1. CASE ch \notin {LF, CR, TAB, BS}
    <3>1. /\ At(v) = c + 1
          /\ \A k \in Cells : v.buffer[k].ch = IF k = c THEN ch ELSE t.buffer[k].ch
      BY <1>1, <1>3, <2>1, PrintPlace
    <3>2. \A k \in Cells : k >= c + 1 => k >= c /\ k # c
      BY Geometry
    <3> QED BY <1>6, <3>1, <3>2
  <2>2. CASE ch \in {LF, TAB}
    <3>1. v.buffer = t.buffer /\ At(v) >= c
      BY <1>1, <1>3, <2>2, LineFeedPlace, TabPlace
    <3>2. \A k \in Cells : k >= At(v) => k >= c
      BY <1>5, <3>1, Geometry
    <3> QED BY <1>6, <3>1, <3>2
  <2>3. CASE ch = BS /\ c > 0
    <3>1. /\ At(v) = c - 1
          /\ \A k \in Cells :
               v.buffer[k].ch = IF k = c - 1 THEN SPACE ELSE t.buffer[k].ch
      BY <1>1, <1>3, <2>3, BackspacePlace
    <3>2. \A k \in Cells : k >= c - 1 => k >= c \/ k = c - 1
      BY Geometry
    <3> QED BY <1>6, <3>1, <3>2
  <2>4. CASE ch = BS /\ c = 0
    <3>1. v = t
      BY <1>1, <1>3, <2>4, BackspacePlace
    <3> QED BY <1>3, <1>6, <3>1
  <2> QED BY <2>1, <2>2, <2>3, <2>4
<1> QED BY <1>1, <1>2, <1>5, <1>7, BlankMoves

(* Return and line feed together are a line feed. *)
LEMMA BlankCookedPut ==
  ASSUME NEW t \in Writing(Rows), NEW ch \in Byte
  PROVE  /\ CookedPut(t, ch) \in Writing(Rows)
         /\ Blank(t) /\ ch # CR => Blank(CookedPut(t, ch))
<1>0. LF \in Byte /\ CR \in Byte
  BY DEF LF, CR, Byte
<1>1. CASE ch # LF
  <2>1. CookedPut(t, ch) = terminal_putchar(t, ch)
    BY <1>1 DEF CookedPut
  <2>2. CookedPut(t, ch) \in Writing(Rows)
    BY <2>1, PutcharOnScreen DEF OnScreen
  <2> QED BY <2>1, <2>2, BlankPut
<1>2. CASE ch = LF
  <2>1. PICK p \in Writing(Rows) : p = terminal_putchar(t, CR)
    BY <1>0, PutcharOnScreen DEF OnScreen
  <2>2. PICK u \in Writing(Rows) : u = terminal_putchar(p, LF)
    BY <1>0, PutcharOnScreen DEF OnScreen
  <2>3. CookedPut(t, ch) = u
    BY <1>2, <2>1, <2>2 DEF CookedPut
  <2>4. PICK x \in Columns, y \in Rows, s \in Nat :
          /\ x = t.column /\ y = t.row /\ s = y * VGA_WIDTH
          /\ At(t) = s + x /\ s <= LastLine
          /\ x \in Nat /\ x < VGA_WIDTH /\ y \in Nat /\ y < VGA_HEIGHT
          /\ (y + 1) * VGA_WIDTH = s + VGA_WIDTH
    BY AtParts
  <2>5. p.row = y /\ p.buffer = t.buffer
    <3>1. PICK q : q = [t EXCEPT !.column = 0]
      OBVIOUS
    <3>2. q.row = y /\ q.column = 0 /\ q.buffer = t.buffer
      BY <2>4, <3>1 DEF Writing
    <3>3. Place(t, CR) = q
      BY <3>1 DEF Place, LF, CR, TAB, BS
    <3>4. ScrollIfNeeded(q) = q
      BY <2>4, <3>2, ScreenSize DEF ScrollIfNeeded
    <3>5. p = update_cursor(q, 0, y)
      BY <2>1, <3>2, <3>3, <3>4 DEF terminal_putchar
    <3> QED BY <3>1, <3>2, <3>5 DEF update_cursor, Writing
  <2>6. PICK v : v = Place(p, LF)
    OBVIOUS
  <2>7. v.buffer = t.buffer /\ At(v) = s + VGA_WIDTH
    BY <2>4, <2>5, <2>6, LineFeedPlace
  <2>8. PICK d : Moved(v, u, d)
    BY <1>0, <2>2, <2>6, PutcharMoves
  <2>9. ASSUME Blank(t)
        PROVE  \A k \in Cells : k >= At(v) => v.buffer[k].ch = SPACE
    <3>1. PICK w \in Nat : w = VGA_WIDTH /\ x < w
      BY <2>4, Geometry
    <3>2. \A k \in Cells : k \in Nat
      BY Geometry
    <3>3. \A k \in Nat : k >= s + w => k >= s + x
      BY <2>4, <3>1
    <3> QED BY <2>4, <2>7, <2>9, <3>1, <3>2, <3>3 DEF Blank
  <2>10. At(v) \in Nat
    BY <2>7, Geometry
  <2>11. Blank(t) => Blank(u)
    BY <2>8, <2>9, <2>10, BlankMoves
  <2> QED BY <2>2, <2>3, <2>11
<1> QED BY <1>1, <1>2
-----------------------------------------------------------------------------
(* Strings on the console. *)

LEMMA WriteOnScreen ==
  ASSUME NEW t \in Writing(Rows), NEW s \in Seq(Byte)
  PROVE  terminal_write(t, s) \in Writing(Rows)
<1> DEFINE S == [k \in 0 .. Len(s) |-> Writing(Rows)]
<1>1. Len(s) \in Nat /\ \A k \in 1 .. Len(s) : s[k] \in Byte
  OBVIOUS
<1>2. \A k \in 0 .. Len(s) : S[k] = Writing(Rows)
  OBVIOUS
<1> HIDE DEF S
<1>3. t \in S[0]
  BY <1>1, <1>2
<1>4. ASSUME NEW k \in 1 .. Len(s), NEW u \in S[k - 1]
      PROVE  terminal_putchar(u, s[k]) \in S[k]
  <2>1. k \in 0 .. Len(s) /\ k - 1 \in 0 .. Len(s)
    BY <1>1
  <2>2. u \in Writing(Rows)
    BY <1>2, <2>1
  <2>3. terminal_putchar(u, s[k]) \in Writing(Rows)
    BY <1>1, <2>2, PutcharOnScreen DEF OnScreen
  <2> QED BY <1>2, <2>1, <2>3
<1>5. terminal_write(t, s) \in S[Len(s)]
  BY <1>1, <1>3, <1>4, WriteInduction
<1> QED BY <1>1, <1>2, <1>5

LEMMA WriteBlank ==
  ASSUME NEW t \in Writing(Rows), Blank(t), NEW s \in Seq(Byte),
         \A k \in 1 .. Len(s) : s[k] # CR
  PROVE  Blank(terminal_write(t, s))
<1> DEFINE B == {u \in Writing(Rows) : Blank(u)}
           S == [k \in 0 .. Len(s) |-> B]
<1>1. Len(s) \in Nat /\ \A k \in 1 .. Len(s) : s[k] \in Byte
  OBVIOUS
<1>2. \A k \in 0 .. Len(s) : S[k] = B
  OBVIOUS
<1>3. t \in B
  OBVIOUS
<1>4. ASSUME NEW u \in B, NEW ch \in Byte, ch # CR
      PROVE  terminal_putchar(u, ch) \in B
  <2>1. terminal_putchar(u, ch) \in Writing(Rows)
    BY PutcharOnScreen DEF OnScreen
  <2> QED BY <1>4, <2>1, BlankPut
<1>5. terminal_write(t, s) \in B => Blank(terminal_write(t, s))
  OBVIOUS
<1> HIDE DEF S, B
<1>6. ASSUME NEW k \in 1 .. Len(s), NEW u \in S[k - 1]
      PROVE  terminal_putchar(u, s[k]) \in S[k]
  <2>1. k \in 0 .. Len(s) /\ k - 1 \in 0 .. Len(s)
    BY <1>1
  <2> QED BY <1>1, <1>2, <1>4, <2>1
<1>7. t \in S[0] /\ S[Len(s)] = B
  BY <1>1, <1>2, <1>3
<1>8. terminal_write(t, s) \in S[Len(s)]
  BY <1>1, <1>6, <1>7, WriteInduction
<1> QED BY <1>5, <1>7, <1>8

LEMMA CookedOnScreen ==
  ASSUME NEW t \in Writing(Rows), NEW s \in Seq(Byte)
  PROVE  mp_hal_stdout_tx_strn_cooked(t, s) \in Writing(Rows)
<1> DEFINE S == [k \in 0 .. Len(s) |-> Writing(Rows)]
<1>1. Len(s) \in Nat /\ \A k \in 1 .. Len(s) : s[k] \in Byte
  OBVIOUS
<1>2. \A k \in 0 .. Len(s) : S[k] = Writing(Rows)
  OBVIOUS
<1> HIDE DEF S
<1>3. t \in S[0]
  BY <1>1, <1>2
<1>4. ASSUME NEW k \in 1 .. Len(s), NEW u \in S[k - 1]
      PROVE  CookedPut(u, s[k]) \in S[k]
  <2>1. k \in 0 .. Len(s) /\ k - 1 \in 0 .. Len(s)
    BY <1>1
  <2>2. u \in Writing(Rows)
    BY <1>2, <2>1
  <2>3. CookedPut(u, s[k]) \in Writing(Rows)
    BY <1>1, <2>2, BlankCookedPut
  <2> QED BY <1>2, <2>1, <2>3
<1>5. mp_hal_stdout_tx_strn_cooked(t, s) \in S[Len(s)]
  BY <1>1, <1>3, <1>4, CookedInduction
<1> QED BY <1>1, <1>2, <1>5

LEMMA CookedBlank ==
  ASSUME NEW t \in Writing(Rows), Blank(t), NEW s \in Seq(Byte),
         \A k \in 1 .. Len(s) : s[k] # CR
  PROVE  Blank(mp_hal_stdout_tx_strn_cooked(t, s))
<1> DEFINE B == {u \in Writing(Rows) : Blank(u)}
           S == [k \in 0 .. Len(s) |-> B]
<1>1. Len(s) \in Nat /\ \A k \in 1 .. Len(s) : s[k] \in Byte
  OBVIOUS
<1>2. \A k \in 0 .. Len(s) : S[k] = B
  OBVIOUS
<1>3. t \in B
  OBVIOUS
<1>4. ASSUME NEW u \in B, NEW ch \in Byte, ch # CR
      PROVE  CookedPut(u, ch) \in B
  BY <1>4, BlankCookedPut
<1>5. mp_hal_stdout_tx_strn_cooked(t, s) \in B
        => Blank(mp_hal_stdout_tx_strn_cooked(t, s))
  OBVIOUS
<1> HIDE DEF S, B
<1>6. ASSUME NEW k \in 1 .. Len(s), NEW u \in S[k - 1]
      PROVE  CookedPut(u, s[k]) \in S[k]
  <2>1. k \in 0 .. Len(s) /\ k - 1 \in 0 .. Len(s)
    BY <1>1
  <2> QED BY <1>1, <1>2, <1>4, <2>1
<1>7. t \in S[0] /\ S[Len(s)] = B
  BY <1>1, <1>2, <1>3
<1>8. mp_hal_stdout_tx_strn_cooked(t, s) \in S[Len(s)]
  BY <1>1, <1>6, <1>7, CookedInduction
<1> QED BY <1>5, <1>7, <1>8

(* The text written is what the cells before the cursor end with, after    *)
(* what they ended with before.                                            *)
LEMMA EchoWrite ==
  ASSUME NEW t \in Writing(Rows), NEW n \in Nat, NEW f, EndsWith(t, n, f),
         NEW s, NEW m \in Nat, m = Len(s), n + m <= LastLine,
         \A k \in 1 .. m : s[k] \in 32 .. 126 /\ f[n + k] = s[k]
  PROVE  /\ EndsWith(terminal_write(t, s), n + m, f)
         /\ EndsWith(mp_hal_stdout_tx_strn_cooked(t, s), n + m, f)
<1> DEFINE B(k) == {u \in Writing(Rows) : EndsWith(u, n + k, f)}
           S == [k \in 0 .. m |-> B(k)]
<1>1. \A k \in 0 .. m : S[k] = B(k)
  OBVIOUS
<1>2. t \in B(0) /\ \A u \in B(m) : EndsWith(u, n + m, f)
  <2>1. n + 0 = n
    OBVIOUS
  <2> QED BY <2>1
<1>3. ASSUME NEW k \in 1 .. m, NEW u \in B(k - 1)
      PROVE  terminal_putchar(u, s[k]) \in B(k) /\ CookedPut(u, s[k]) \in B(k)
  <2>1. PICK j \in Nat : j = n + (k - 1) /\ n + k = j + 1
    <3>1. n + (k - 1) \in Nat /\ n + k = n + (k - 1) + 1
      OBVIOUS
    <3> QED BY <3>1
  <2>2. PICK ch \in 32 .. 126 : ch = s[k] /\ f[j + 1] = ch
    BY <2>1
  <2>3. u \in Writing(Rows) /\ EndsWith(u, j, f)
    BY <2>1
  <2>4. j + 1 <= LastLine
    BY <2>1, Geometry
  <2>5. EndsWith(terminal_putchar(u, ch), j + 1, f)
    BY <2>2, <2>3, <2>4, EchoPrint
  <2>6. ch \in Byte /\ ch # LF
    BY DEF Byte, LF
  <2>7. terminal_putchar(u, ch) \in Writing(Rows)
    BY <2>3, <2>6, PutcharOnScreen DEF OnScreen
  <2>8. CookedPut(u, ch) = terminal_putchar(u, ch)
    BY <2>6 DEF CookedPut
  <2> QED BY <2>1, <2>2, <2>5, <2>7, <2>8
<1> HIDE DEF B, S
<1>4. \A k \in 1 .. m : \A u \in S[k - 1] :
         terminal_putchar(u, s[k]) \in S[k] /\ CookedPut(u, s[k]) \in S[k]
  <2>1. \A k \in 1 .. m : k \in 0 .. m /\ k - 1 \in 0 .. m
    OBVIOUS
  <2> QED BY <1>1, <1>3, <2>1
<1>5. t \in S[0] /\ S[m] = B(m)
  BY <1>1, <1>2
<1>6. terminal_write(t, s) \in S[Len(s)]
  BY <1>4, <1>5, WriteInduction
<1>7. mp_hal_stdout_tx_strn_cooked(t, s) \in S[Len(s)]
  BY <1>4, <1>5, CookedInduction
<1> QED BY <1>2, <1>5, <1>6, <1>7

LEMMA BackspacesAre ==
  ASSUME NEW m \in Nat, NEW s, s = [k \in 1 .. m |-> BS]
  PROVE  /\ s \in Seq(Byte) /\ Len(s) = m
         /\ \A k \in 1 .. m : s[k] = BS /\ s[k] # CR
<1>1. BS \in Byte /\ BS # CR
  BY DEF BS, CR, Byte
<1> QED BY <1>1

LEMMA EchoErased ==
  ASSUME NEW t \in Writing(Rows), NEW n \in Nat, NEW m \in Nat,
         NEW f, EndsWith(t, n + m, f)
  PROVE  EndsWith(Erased(t, m), n, f)
<1> DEFINE B(k) == {u \in Writing(Rows) : EndsWith(u, n + (m - k), f)}
           S == [k \in 0 .. m |-> B(k)]
<1>0. PICK s : s = [k \in 1 .. m |-> BS]
  OBVIOUS
<1>1. \A k \in 0 .. m : S[k] = B(k)
  OBVIOUS
<1>2. t \in B(0) /\ \A u \in B(m) : EndsWith(u, n, f)
  <2>1. n + (m - 0) = n + m /\ n + (m - m) = n
    OBVIOUS
  <2> QED BY <2>1
<1>3. ASSUME NEW k \in 1 .. m, NEW u \in B(k - 1)
      PROVE  terminal_putchar(u, s[k]) \in B(k)
  <2>1. PICK j \in Nat : j = n + (m - k) /\ n + (m - (k - 1)) = j + 1
    <3>1. n + (m - k) \in Nat /\ n + (m - (k - 1)) = n + (m - k) + 1
      OBVIOUS
    <3> QED BY <3>1
  <2>2. u \in Writing(Rows) /\ EndsWith(u, j + 1, f)
    BY <2>1
  <2>3. EndsWith(terminal_putchar(u, BS), j, f)
    BY <2>2, EchoErase
  <2>4. terminal_putchar(u, BS) \in Writing(Rows)
    <3>1. BS \in Byte
      BY DEF BS, Byte
    <3> QED BY <2>2, <3>1, PutcharOnScreen DEF OnScreen
  <2>5. s[k] = BS
    BY <1>0
  <2> QED BY <2>1, <2>3, <2>4, <2>5
<1> HIDE DEF B, S
<1>4. \A k \in 1 .. m : \A u \in S[k - 1] : terminal_putchar(u, s[k]) \in S[k]
  <2>1. \A k \in 1 .. m : k \in 0 .. m /\ k - 1 \in 0 .. m
    OBVIOUS
  <2> QED BY <1>1, <1>3, <2>1
<1>5. t \in S[0] /\ S[m] = B(m)
  BY <1>1, <1>2
<1>6. Len(s) = m
  BY <1>0, BackspacesAre
<1>7. terminal_write(t, s) \in S[Len(s)]
  BY <1>4, <1>5, <1>6, WriteInduction
<1> QED BY <1>0, <1>2, <1>5, <1>6, <1>7 DEF Erased

LEMMA ErasedBlank ==
  ASSUME NEW t \in Writing(Rows), NEW m \in Nat
  PROVE  /\ Erased(t, m) \in Writing(Rows)
         /\ Blank(t) => Blank(Erased(t, m))
<1>1. PICK s : s = [k \in 1 .. m |-> BS]
  OBVIOUS
<1>2. s \in Seq(Byte) /\ \A k \in 1 .. Len(s) : s[k] # CR
  BY <1>1, BackspacesAre
<1> QED BY <1>1, <1>2, WriteOnScreen, WriteBlank DEF Erased
-----------------------------------------------------------------------------
(* What is edited is what is shown. *)

ShownOf(l, n) == Prompt \o [k \in 1 .. n |-> l[k - 1]]

LEMMA PromptLength ==
  /\ Len(Prompt) \in Nat
  /\ \A k \in 1 .. Len(Prompt) : Prompt[k] \in 32 .. 126
  /\ Prompt \in Seq(Byte)
<1>1. Prompt \in Seq(32 .. 126)
  BY ReadlineAssumption
<1>2. Len(Prompt) \in Nat /\ \A k \in 1 .. Len(Prompt) : Prompt[k] \in 32 .. 126
  <2>1. Len(Prompt) \in Nat
    BY <1>1, LenProperties
  <2>2. DOMAIN Prompt = 1 .. Len(Prompt) /\ Prompt \in [DOMAIN Prompt -> 32 .. 126]
    BY <1>1, LenProperties
  <2> QED BY <2>1, <2>2
<1>3. Prompt = [k \in 1 .. Len(Prompt) |-> Prompt[k]]
  BY <1>1, LenProperties
<1>4. \A k \in 1 .. Len(Prompt) : Prompt[k] \in Byte
  BY <1>2 DEF Byte
<1>5. [k \in 1 .. Len(Prompt) |-> Prompt[k]] \in Seq(Byte)
  BY <1>2, <1>4
<1> QED BY <1>2, <1>3, <1>5

LEMMA ShownIs ==
  ASSUME NEW l \in Line, NEW n \in 0 .. MAX_LEN
  PROVE  /\ Len(ShownOf(l, n)) = Len(Prompt) + n
         /\ \A k \in 1 .. Len(Prompt) : ShownOf(l, n)[k] = Prompt[k]
         /\ \A k \in 1 .. n : ShownOf(l, n)[Len(Prompt) + k] = l[k - 1]
<1>1. PICK s : s = [k \in 1 .. n |-> l[k - 1]]
  OBVIOUS
<1>2. n \in Nat /\ \A k \in 1 .. n : l[k - 1] \in 0 .. 255
  <2>1. n \in Nat
    BY ReadlineSizes
  <2>2. ASSUME NEW k \in 1 .. n PROVE l[k - 1] \in 0 .. 255
    <3>1. k - 1 \in Pos
      BY ReadlineSizes DEF Pos
    <3> QED BY <3>1 DEF Line
  <2> QED BY <2>1, <2>2
<1>3. s \in Seq(Byte) /\ Len(s) = n /\ \A k \in 1 .. n : s[k] = l[k - 1]
  BY <1>1, <1>2 DEF Byte
<1>4. PICK z : z = Prompt \o s
  OBVIOUS
<1>5. /\ Len(z) = Len(Prompt) + Len(s)
      /\ \A k \in 1 .. Len(Prompt) + Len(s) :
           z[k] = IF k <= Len(Prompt) THEN Prompt[k] ELSE s[k - Len(Prompt)]
  BY <1>3, <1>4, PromptLength, ConcatProperties
<1>6. ASSUME NEW k \in 1 .. n PROVE z[Len(Prompt) + k] = l[k - 1]
  <2>1. Len(Prompt) + k \in 1 .. Len(Prompt) + Len(s)
          /\ ~(Len(Prompt) + k <= Len(Prompt))
          /\ (Len(Prompt) + k) - Len(Prompt) = k
    BY <1>3, PromptLength
  <2> QED BY <1>3, <1>5, <2>1
<1>7. ASSUME NEW k \in 1 .. Len(Prompt) PROVE z[k] = Prompt[k]
  <2>1. k \in 1 .. Len(Prompt) + Len(s) /\ k <= Len(Prompt)
    BY <1>2, <1>3, PromptLength
  <2> QED BY <1>5, <2>1
<1>8. z = ShownOf(l, n)
  BY <1>1, <1>4 DEF ShownOf
<1> QED BY <1>3, <1>5, <1>6, <1>7, <1>8

LEMMA EndsAgree ==
  ASSUME NEW t, NEW n, NEW f, NEW g, EndsWith(t, n, f),
         \A k \in 1 .. n : f[k] = g[k]
  PROVE  EndsWith(t, n, g)
BY DEF EndsWith

(* Two lines that agree before n are shown alike. *)
LEMMA ShownAgree ==
  ASSUME NEW t, NEW l1 \in Line, NEW l2 \in Line, NEW n \in 0 .. MAX_LEN,
         NEW n1 \in 0 .. MAX_LEN, NEW n2 \in 0 .. MAX_LEN, n <= n1, n <= n2,
         \A k \in 0 .. n - 1 : l1[k] = l2[k],
         EndsWith(t, Len(Prompt) + n, ShownOf(l1, n1))
  PROVE  EndsWith(t, Len(Prompt) + n, ShownOf(l2, n2))
<1>1. ASSUME NEW k \in 1 .. Len(Prompt) + n
      PROVE  ShownOf(l1, n1)[k] = ShownOf(l2, n2)[k]
  <2>1. CASE k <= Len(Prompt)
    <3>1. k \in 1 .. Len(Prompt)
      BY <2>1, PromptLength
    <3> QED BY <3>1, ShownIs
  <2>2. CASE ~(k <= Len(Prompt))
    <3>1. PICK j \in 1 .. n : k = Len(Prompt) + j
      <4>1. k - Len(Prompt) \in 1 .. n /\ k = Len(Prompt) + (k - Len(Prompt))
        BY <2>2, PromptLength, ReadlineSizes
      <4> QED BY <4>1
    <3>2. j \in 1 .. n1 /\ j \in 1 .. n2 /\ j - 1 \in 0 .. n - 1
      BY ReadlineSizes
    <3>3. l1[j - 1] = l2[j - 1]
      BY <3>2
    <3> QED BY <3>1, <3>2, <3>3, ShownIs
  <2> QED BY <2>1, <2>2
<1> QED BY <1>1, EndsAgree

(* The part of EchoMatchesLine that is about the cells before the cursor. *)
LineIsShown ==
  pc = "reading" => EndsWith(term, Len(Prompt) + i, ShownOf(line, i))

LEMMA EchoParts ==
  ASSUME EditState
  PROVE  /\ EchoMatchesLine <=>
              LineIsShown /\ (pc = "reading" => BlankAhead)
         /\ BlankAhead <=> Blank(term)
<1>1. PICK n \in 0 .. MAX_LEN, l \in Line : n = i /\ l = line
  BY ReadlineSizes DEF EditState, Pos
<1>2. Shown = ShownOf(l, n) /\ Len(Shown) = Len(Prompt) + n
  BY <1>1, ShownIs DEF Shown, ShownOf
<1>3. Len(Prompt) + n \in Nat
  BY PromptLength
<1>4. CursorAt = At(term)
  BY DEF CursorAt, At
<1>5. BlankAhead <=> Blank(term)
  BY <1>4 DEF BlankAhead, Blank
<1>6. EndsWith(term, Len(Prompt) + n, ShownOf(l, n)) <=>
        /\ Len(Shown) <= CursorAt
        /\ \A k \in 1 .. Len(Shown) :
             term.buffer[CursorAt - Len(Shown) + k - 1].ch = Shown[k]
  BY <1>2, <1>3, <1>4 DEF EndsWith
<1> QED BY <1>1, <1>5, <1>6 DEF EchoMatchesLine, LineIsShown, BlankAhead

(* A new console u and line l, n characters long. *)
LEMMA NowShown ==
  ASSUME NEW u, term' = u, NEW l, line' = l, NEW n, i' = n,
         EndsWith(u, Len(Prompt) + n, ShownOf(l, n))
  PROVE  LineIsShown'
BY DEF LineIsShown

LEMMA TailSets ==
  ASSUME NEW l, NEW n, NEW break \in BOOLEAN, LoopTail(l, n, break)
  PROVE  line' = l /\ i' = n
BY DEF LoopTail

(* What a step does to the console: in any case it stays on the screen;    *)
(* if the longest line fits, the line is shown; if no program prints a     *)
(* bare carriage return, nothing is left behind the cursor.                *)
EchoGoesOn ==
  /\ term' \in Writing(Rows)
  /\ LineFitsScreen /\ LineIsShown => LineIsShown'
  /\ OutputHasNoCR /\ Blank(term) => Blank(term')

LEMMA EchoStays ==
  ASSUME term \in Writing(Rows), UNCHANGED term,
         \/ UNCHANGED <<line, i>> /\ pc = "reading"
         \/ pc' # "reading"
  PROVE  EchoGoesOn
BY DEF EchoGoesOn, LineIsShown

LEMMA EnterEchoes ==
  ASSUME term \in Writing(Rows), EditState, pc = "reading", NEW ch, Enter(ch)
  PROVE  EchoGoesOn
<1>1. PICK t \in Writing(Rows) : t = term
  OBVIOUS
<1>2. LF \in Byte /\ LF # CR
  BY DEF LF, CR, Byte
<1>3. PICK u \in Writing(Rows) : u = terminal_putchar(t, LF)
  BY <1>2, PutcharOnScreen DEF OnScreen
<1>4. term' = u
  BY <1>1, <1>3 DEF Enter
<1>5. pc' = "return"
  BY DEF Enter, LoopTail
<1>6. Blank(t) => Blank(u)
  BY <1>2, <1>3, BlankPut
<1> QED BY <1>1, <1>4, <1>5, <1>6 DEF EchoGoesOn, LineIsShown

LEMMA EraseCharEchoes ==
  ASSUME term \in Writing(Rows), EditState, pc = "reading", NEW ch, EraseChar(ch)
  PROVE  EchoGoesOn
<1>1. PICK t \in Writing(Rows) : t = term
  OBVIOUS
<1>2. BS \in Byte /\ BS # CR
  BY DEF BS, CR, Byte
<1>3. PICK u \in Writing(Rows) : u = terminal_putchar(t, BS)
  BY <1>2, PutcharOnScreen DEF OnScreen
<1>4. PICK l \in Line : l = line
  BY ReadingFacts
<1>5. PICK n \in 0 .. MAX_LEN : n = i - 1 /\ n + 1 = i /\ n + 1 \in 0 .. MAX_LEN
  <2>1. i > 0
    BY DEF EraseChar
  <2>2. i - 1 \in 0 .. MAX_LEN /\ (i - 1) + 1 = i /\ (i - 1) + 1 \in 0 .. MAX_LEN
    BY <2>1, ReadingFacts, ReadlineSizes
  <2> QED BY <2>2
<1>6. term' = u /\ line' = l /\ i' = n
  BY <1>1, <1>3, <1>4, <1>5, TailSets DEF EraseChar
<1>7. ASSUME LineIsShown PROVE LineIsShown'
  <2>1. EndsWith(t, Len(Prompt) + (n + 1), ShownOf(l, n + 1))
    BY <1>1, <1>4, <1>5, <1>7 DEF LineIsShown
  <2>2. PICK m \in Nat : m = Len(Prompt) + n
    BY PromptLength
  <2>3. EndsWith(t, m + 1, ShownOf(l, n + 1))
    BY <2>1, <2>2, PromptLength
  <2>4. EndsWith(u, m, ShownOf(l, n + 1))
    BY <1>3, <2>3, EchoErase
  <2>5. n <= n + 1
    BY ReadlineSizes
  <2>6. EndsWith(u, Len(Prompt) + n, ShownOf(l, n))
    <3>1. EndsWith(u, Len(Prompt) + n, ShownOf(l, n + 1))
      BY <2>2, <2>4, Zenon
    <3>2. n <= n /\ \A k \in 0 .. n - 1 : l[k] = l[k]
      BY ReadlineSizes
    <3> QED BY <1>5, <2>5, <3>1, <3>2, ShownAgree, ZenonT(60)
  <2> QED BY <1>6, <2>6, NowShown
<1>8. Blank(t) => Blank(u)
  BY <1>2, <1>3, BlankPut
<1> QED BY <1>1, <1>6, <1>7, <1>8 DEF EchoGoesOn

LEMMA InsertCharEchoes ==
  ASSUME term \in Writing(Rows), EditState, pc = "reading", NEW ch, InsertChar(ch)
  PROVE  EchoGoesOn
<1>1. PICK t \in Writing(Rows) : t = term
  OBVIOUS
<1>2. ch \in 32 .. 126
  BY DEF InsertChar
<1>2a. ch \in Byte /\ ch # CR
  BY <1>2 DEF CR, Byte
<1>3. PICK u \in Writing(Rows) : u = terminal_putchar(t, ch)
  BY <1>2a, PutcharOnScreen DEF OnScreen
<1>4. PICK n \in Nat : n = i /\ n < MAX_LEN - 1
  BY ReadingFacts
<1>5. n \in Pos /\ n \in 0 .. MAX_LEN /\ n + 1 \in 0 .. MAX_LEN
  BY <1>4, ReadlineSizes DEF Pos
<1>6. PICK k \in Line : k = line
  BY ReadingFacts
<1>7. PICK l \in Line : l = [k EXCEPT ![n] = ch]
  <2>1. ch \in 0 .. 255 /\ k \in [Pos -> 0 .. 255]
    BY <1>2 DEF Line
  <2>2. [k EXCEPT ![n] = ch] \in Line
    BY <1>5, <2>1 DEF Line
  <2> QED BY <2>2
<1>8. l[n] = ch /\ \A j \in 0 .. n - 1 : k[j] = l[j]
  BY <1>4, <1>5, <1>7, ReadlineSizes DEF Line, Pos
<1>9. term' = u /\ line' = l /\ i' = n + 1
  BY <1>1, <1>3, <1>4, <1>6, <1>7, TailSets DEF InsertChar
<1>10. ASSUME LineIsShown, LineFitsScreen PROVE LineIsShown'
  <2>1. EndsWith(t, Len(Prompt) + n, ShownOf(k, n))
    BY <1>1, <1>4, <1>6, <1>10 DEF LineIsShown
  <2>2. n <= n /\ n <= n + 1
    BY <1>4
  <2>3. EndsWith(t, Len(Prompt) + n, ShownOf(l, n + 1))
    BY <1>5, <1>8, <2>1, <2>2, ShownAgree
  <2>4. PICK m \in Nat : m = Len(Prompt) + n
    BY <1>4, PromptLength
  <2>5. m + 1 = Len(Prompt) + (n + 1)
    BY <1>4, <2>4, PromptLength
  <2>6. ShownOf(l, n + 1)[m + 1] = ch
    <3>1. n + 1 \in 1 .. n + 1 /\ (n + 1) - 1 = n
      BY <1>4
    <3>2. PICK q : q = ShownOf(l, n + 1)
      OBVIOUS
    <3>3. q[Len(Prompt) + (n + 1)] = l[(n + 1) - 1]
      BY <1>5, <3>1, <3>2, ShownIs
    <3> QED BY <1>8, <2>5, <3>1, <3>2, <3>3
  <2>7. m + 1 <= LastLine
    BY <1>4, <1>10, <2>4, PromptLength, ReadlineSizes, Geometry
       DEF LineFitsScreen, LastLine
  <2>8. EndsWith(u, m + 1, ShownOf(l, n + 1))
    BY <1>2, <1>3, <2>3, <2>4, <2>6, <2>7, EchoPrint
  <2>9. EndsWith(u, Len(Prompt) + (n + 1), ShownOf(l, n + 1))
    BY <2>5, <2>8
  <2> QED BY <1>9, <2>9, NowShown
<1>11. Blank(t) => Blank(u)
  BY <1>2a, <1>3, BlankPut
<1> QED BY <1>1, <1>9, <1>10, <1>11 DEF EchoGoesOn
LEMMA RecallEchoes ==
  ASSUME term \in Writing(Rows), EditState, HistInv, pc = "reading",
         NEW h \in HistoryRows, Recall(h)
  PROVE  EchoGoesOn
<1>1. PICK a \in Line : a = cmd_history[h] /\ Row(a)
  BY DEF HistInv
<1>2. CASE ~Terminated(a)
  <2>1. UNCHANGED term /\ pc' = "undefined"
    BY <1>1, <1>2 DEF Recall
  <2> QED BY <2>1, EchoStays
<1>3. CASE Terminated(a)
  <2>1. PICK n \in Pos : /\ Typed(a, n) /\ EndsAt(a, n)
                         /\ Len(Text(a)) = n
                         /\ \A k \in 1 .. n : Text(a)[k] = a[k - 1]
    BY <1>1, <1>3, RowText
  <2>2. n \in Nat /\ n <= MAX_LEN - 1 /\ n \in 0 .. MAX_LEN
    BY ReadlineSizes DEF Pos
  <2>3. PICK s \in Seq(0 .. 255) : s = Text(a)
    BY TextType DEF Strings
  <2>4. /\ Len(s) = n
        /\ \A k \in 1 .. n : s[k] \in 32 .. 126 /\ s[k] = a[k - 1]
    <3>1. \A k \in 1 .. n : k - 1 \in 0 .. n - 1
      BY <2>2
    <3> QED BY <2>1, <2>3, <3>1 DEF Typed
  <2>5. s \in Seq(Byte) /\ \A k \in 1 .. Len(s) : s[k] # CR
    <3>1. \A k \in 1 .. n : s[k] # CR
      <4>1. CR \notin 32 .. 126
        BY DEF CR
      <4> QED BY <2>4, <4>1
    <3>2. s \in Seq(Byte)
      BY <2>3 DEF Byte
    <3>3. Len(s) = n
      BY <2>4
    <3> QED BY <3>1, <3>2, <3>3
  <2>6. PICK m \in Nat, b \in Line : m = i /\ b = line
    BY ReadingFacts
  <2>7. PICK l : l = [k \in Pos |-> IF k < n THEN s[k + 1] ELSE b[k]]
    OBVIOUS
  <2>8. l \in Line /\ \A k \in 1 .. n : l[k - 1] = s[k]
    <3>1. \A k \in 1 .. n : k - 1 \in Pos /\ k - 1 < n /\ (k - 1) + 1 = k
      BY <2>2, ReadlineSizes DEF Pos
    <3>2. \A k \in Pos : k < n => s[k + 1] \in 0 .. 255
      BY <2>2, <2>4, ReadlineSizes DEF Pos
    <3>3. \A k \in Pos : (IF k < n THEN s[k + 1] ELSE b[k]) \in 0 .. 255
      BY <3>2 DEF Line
    <3>4. l \in Line
      BY <2>7, <3>3 DEF Line
    <3> QED BY <2>7, <3>1, <3>4
  <2>9. PICK t \in Writing(Rows) : t = term
    OBVIOUS
  <2>10. PICK e \in Writing(Rows) : e = Erased(t, m)
    BY ErasedBlank
  <2>11. PICK u \in Writing(Rows) : u = terminal_write(e, s)
    BY <2>5, WriteOnScreen
  <2>12. term' = u /\ line' = l /\ i' = n
    <3>1. /\ term' = terminal_write(Erased(term, i), s)
          /\ LoopTail([k \in Pos |-> IF k < Len(s) THEN s[k + 1] ELSE line[k]],
                      Len(s), FALSE)
      BY <1>1, <1>3, <2>3 DEF Recall
    <3>2. LoopTail(l, n, FALSE)
      BY <2>4, <2>6, <2>7, <3>1
    <3> QED BY <2>6, <2>9, <2>10, <2>11, <3>1, <3>2, TailSets
  <2>13. Blank(t) => Blank(u)
    BY <2>5, <2>10, <2>11, ErasedBlank, WriteBlank
  <2>14. ASSUME LineIsShown, LineFitsScreen PROVE LineIsShown'
    <3>1. PICK p \in Nat : p = Len(Prompt)
      BY PromptLength
    <3>2. EndsWith(t, p + m, ShownOf(b, m))
      BY <2>6, <2>9, <2>14, <3>1 DEF LineIsShown
    <3>3. EndsWith(e, p, ShownOf(b, m))
      BY <2>10, <3>2, EchoErased
    <3>4. EndsWith(e, p, ShownOf(l, n))
      <4>1. m \in 0 .. MAX_LEN
        BY <2>6, ReadingFacts, ReadlineSizes
      <4>2. \A k \in 1 .. p : ShownOf(b, m)[k] = ShownOf(l, n)[k]
        BY <2>2, <2>8, <3>1, <4>1, ShownIs
      <4> QED BY <3>3, <4>2, EndsAgree
    <3>5. \A k \in 1 .. n : s[k] \in 32 .. 126 /\ ShownOf(l, n)[p + k] = s[k]
      BY <2>2, <2>4, <2>8, <3>1, ShownIs
    <3>6. p + n <= LastLine
      BY <2>2, <2>14, <3>1, ReadlineSizes, Geometry DEF LineFitsScreen, LastLine
    <3>7. EndsWith(u, p + n, ShownOf(l, n))
      <4>1. PICK f : f = ShownOf(l, n)
        OBVIOUS
      <4>2. /\ EndsWith(e, p, f) /\ n = Len(s)
            /\ \A k \in 1 .. n : s[k] \in 32 .. 126 /\ f[p + k] = s[k]
        BY <2>4, <3>4, <3>5, <4>1
      <4>3. EndsWith(terminal_write(e, s), p + n, f)
        BY <2>2, <3>6, <4>2, EchoWrite
      <4> QED BY <2>11, <4>1, <4>3
    <3> QED BY <2>12, <3>1, <3>7, NowShown
  <2> QED BY <2>9, <2>12, <2>13, <2>14 DEF EchoGoesOn
<1> QED BY <1>2, <1>3

(* The cursor-down key without a history erases the line. *)
LEMMA EraseLineEchoes ==
  ASSUME term \in Writing(Rows), EditState, pc = "reading",
         term' = Erased(term, i), LoopTail(line, 0, FALSE)
  PROVE  EchoGoesOn
<1>1. PICK t \in Writing(Rows) : t = term
  OBVIOUS
<1>2. PICK m \in Nat, l \in Line : m = i /\ l = line /\ m \in 0 .. MAX_LEN
  <2>1. i \in 0 .. MAX_LEN
    BY ReadingFacts, ReadlineSizes
  <2> QED BY <2>1, ReadingFacts
<1>3. PICK u \in Writing(Rows) : u = Erased(t, m)
  BY ErasedBlank
<1>4. term' = u /\ line' = l /\ i' = 0
  BY <1>1, <1>2, <1>3, TailSets
<1>5. ASSUME LineIsShown PROVE LineIsShown'
  <2>1. PICK p \in Nat : p = Len(Prompt)
    BY PromptLength
  <2>2. EndsWith(t, p + m, ShownOf(l, m))
    BY <1>1, <1>2, <1>5, <2>1 DEF LineIsShown
  <2>3. EndsWith(u, p, ShownOf(l, m))
    BY <1>3, <2>2, EchoErased
  <2>4. 0 \in 0 .. MAX_LEN
    BY ReadlineSizes
  <2>5. \A k \in 1 .. p : ShownOf(l, m)[k] = ShownOf(l, 0)[k]
    BY <1>2, <2>1, <2>4, ShownIs
  <2>6. EndsWith(u, Len(Prompt) + 0, ShownOf(l, 0))
    BY <2>1, <2>3, <2>5, EndsAgree
  <2> QED BY <1>4, <2>6, NowShown
<1>6. Blank(t) => Blank(u)
  BY <1>3, ErasedBlank
<1> QED BY <1>1, <1>4, <1>5, <1>6 DEF EchoGoesOn

LEMMA CharacterEchoes ==
  ASSUME term \in Writing(Rows), EditState, HistInv,
         NEW ch \in Input, nexus_readline(ch)
  PROVE  EchoGoesOn
<1>1. pc = "reading"
  BY DEF nexus_readline
<1>2. ASSUME UNCHANGED term, LoopTail(line, i, FALSE) PROVE EchoGoesOn
  <2>1. UNCHANGED <<line, i>>
    BY <1>2 DEF LoopTail
  <2> QED BY <1>1, <1>2, <2>1, EchoStays
<1>3. CASE BeginEscape(ch) \/ IgnoreChar(ch) \/ EscapeSecond(ch)
  <2>1. UNCHANGED term /\ LoopTail(line, i, FALSE)
    BY <1>3 DEF BeginEscape, IgnoreChar, EscapeSecond
  <2> QED BY <1>2, <2>1
<1>4. CASE EscapeThird(ch)
  <2>1. PICK h \in HistoryRows : h = h_ptr
    BY <1>1, ReadingFacts
  <2>2. (h - 1 + HISTORY_SIZE) % HISTORY_SIZE \in HistoryRows
    <3>1. 1 \in 1 .. HISTORY_SIZE
      BY ReadlineSizes
    <3> QED BY <3>1, RowBefore
  <2>3. (h + 1) % HISTORY_SIZE \in HistoryRows
    BY NextRow
  <2>4. CASE Recall((h_ptr - 1 + HISTORY_SIZE) % HISTORY_SIZE)
    BY <1>1, <2>1, <2>2, <2>4, RecallEchoes
  <2>5. CASE Recall((h_ptr + 1) % HISTORY_SIZE)
    BY <1>1, <2>1, <2>3, <2>5, RecallEchoes
  <2>6. CASE term' = Erased(term, i) /\ LoopTail(line, 0, FALSE)
    BY <1>1, <2>6, EraseLineEchoes
  <2>7. CASE UNCHANGED term /\ LoopTail(line, i, FALSE)
    BY <1>2, <2>7
  <2> QED BY <1>4, <2>4, <2>5, <2>6, <2>7 DEF EscapeThird
<1> QED BY <1>1, <1>3, <1>4, EnterEchoes, EraseCharEchoes, InsertCharEchoes
        DEF nexus_readline

(* The prompt, written through terminal_write or cooked. *)
LEMMA PromptEchoes ==
  ASSUME term \in Writing(Rows), NEW who, NEW g \in Garbage,
         CallReadline(who, g),
         \/ term' = terminal_write(term, Prompt)
         \/ term' = mp_hal_stdout_tx_strn_cooked(term, Prompt)
  PROVE  EchoGoesOn
<1>1. PICK t \in Writing(Rows) : t = term
  OBVIOUS
<1>2. Prompt \in Seq(Byte) /\ \A k \in 1 .. Len(Prompt) : Prompt[k] # CR
  <2>1. CR \notin 32 .. 126
    BY DEF CR
  <2> QED BY <2>1, PromptLength
<1>3. PICK u \in Writing(Rows) :
        /\ term' = u
        /\ u = terminal_write(t, Prompt)
             \/ u = mp_hal_stdout_tx_strn_cooked(t, Prompt)
  <2>1. CASE term' = terminal_write(term, Prompt)
    <3>1. PICK u \in Writing(Rows) : u = terminal_write(t, Prompt)
      BY <1>2, WriteOnScreen
    <3> QED BY <1>1, <2>1, <3>1
  <2>2. CASE term' = mp_hal_stdout_tx_strn_cooked(term, Prompt)
    <3>1. PICK u \in Writing(Rows) : u = mp_hal_stdout_tx_strn_cooked(t, Prompt)
      BY <1>2, CookedOnScreen
    <3> QED BY <1>1, <2>2, <3>1
  <2> QED BY <2>1, <2>2
<1>4. PICK l : l = [k \in Pos |-> g]
  OBVIOUS
<1>5. line' = l /\ i' = 0
  BY <1>4 DEF CallReadline
<1>6. l \in Line /\ 0 \in 0 .. MAX_LEN
  BY <1>4, ReadlineAssumption DEF Line
<1>7. Blank(t) => Blank(u)
  BY <1>2, <1>3, WriteBlank, CookedBlank
<1>8. ASSUME LineFitsScreen PROVE LineIsShown'
  <2>1. PICK p \in Nat : p = Len(Prompt)
    BY PromptLength
  <2>2. PICK f : f = ShownOf(l, 0)
    OBVIOUS
  <2>3. \A k \in 1 .. p : Prompt[k] \in 32 .. 126 /\ f[0 + k] = Prompt[k]
    <3>1. \A k \in 1 .. p : f[k] = Prompt[k]
      BY <1>6, <2>1, <2>2, ShownIs
    <3>2. \A k \in 1 .. p : 0 + k = k
      OBVIOUS
    <3> QED BY <2>1, <3>1, <3>2, PromptLength
  <2>4. EndsWith(t, 0, f)
    BY AtOnScreen DEF EndsWith
  <2>5. 0 + p <= LastLine
    BY <1>8, <2>1, ReadlineSizes, Geometry DEF LineFitsScreen, LastLine
  <2>6. EndsWith(u, 0 + p, f)
    BY <1>3, <2>1, <2>3, <2>4, <2>5, EchoWrite
  <2>7. EndsWith(u, Len(Prompt) + 0, ShownOf(l, 0))
    BY <2>1, <2>2, <2>6
  <2> QED BY <1>3, <1>5, <2>7, NowShown
<1> QED BY <1>1, <1>3, <1>7, <1>8 DEF EchoGoesOn

LEMMA EchoNext ==
  ASSUME term \in Writing(Rows), EditState, HistInv, [Next]_vars
  PROVE  EchoGoesOn
<1>1. CASE \E ch \in Input : nexus_readline(ch)
  BY <1>1, CharacterEchoes
<1>2. CASE ReplPrompt
  BY <1>2, PromptEchoes DEF ReplPrompt, EditState
<1>3. CASE readline
  BY <1>3, PromptEchoes DEF readline
<1>4. CASE PythonPrints
  <2>1. PICK s \in Output : term' = mp_hal_stdout_tx_strn_cooked(term, s)
    BY <1>4 DEF PythonPrints
  <2>2. s \in Seq(Byte)
    BY ReadlineAssumption DEF Byte
  <2>3. PICK t \in Writing(Rows) : t = term
    OBVIOUS
  <2>4. PICK u \in Writing(Rows) : u = mp_hal_stdout_tx_strn_cooked(t, s)
    BY <2>2, CookedOnScreen
  <2>5. term' = u /\ pc' = "python"
    BY <1>4, <2>1, <2>3, <2>4 DEF PythonPrints
  <2>6. OutputHasNoCR /\ Blank(t) => Blank(u)
    BY <2>2, <2>4, CookedBlank DEF OutputHasNoCR
  <2> QED BY <2>3, <2>5, <2>6 DEF EchoGoesOn, LineIsShown
<1>5. CASE PythonEnds \/ Return
  <2>1. UNCHANGED term /\ pc' # "reading"
    BY <1>5 DEF PythonEnds, Return
  <2> QED BY <2>1, EchoStays
<1>6. CASE UNCHANGED vars
  BY <1>6 DEF vars, editVars, EchoGoesOn, LineIsShown
<1> QED BY <1>1, <1>2, <1>3, <1>4, <1>5, <1>6 DEF Next
LEMMA ConsoleInit ==
  ASSUME Init
  PROVE  term \in Writing(Rows) /\ Blank(term)
<1>1. PICK p \in Writing(Rows) : p = PowerOn
  BY PowerOnOnScreen DEF OnScreen
<1>2. PICK t \in Writing(Rows) : t = terminal_initialize(p)
  BY InitializeOnScreen DEF OnScreen
<1>3. term = t
  BY <1>1, <1>2 DEF Init
<1>4. \A k \in Cells : t.buffer[k].ch = SPACE
  <2>1. t.buffer = [k \in Cells |-> vga_entry(SPACE, LIGHT_CYAN)]
    BY <1>2 DEF terminal_initialize, terminal_clear, update_cursor, Writing
  <2> QED BY <2>1 DEF vga_entry
<1> QED BY <1>3, <1>4 DEF Blank

-----------------------------------------------------------------------------
(***************************************************************************)
(* For every line length, history size, prompt, screen and order of keys,  *)
(* prompts and output: nexus_readline's indices stay in its arrays and     *)
(* what it stored before i is printable.  Its copies of a line, and its    *)
(* callers' copies, stay in their arrays too unless one of the lines that  *)
(* the history holds filled line up to a last byte that was not zero.      *)
(***************************************************************************)
THEOREM EditInvariant == Spec => []EditInv
<1>1. Init => EditInv
  BY EditInit, ConsoleInit, EditInvParts
<1>2. EditInv /\ [Next]_vars => EditInv'
  <2> SUFFICES ASSUME term \in Writing(Rows), EditState, HistInv, CopyState, [Next]_vars
               PROVE  (term \in Writing(Rows) /\ EditState /\ HistInv /\ CopyState)'
    BY EditInvParts, PTL
  <2>1. term' \in Writing(Rows)
    BY EchoNext DEF EchoGoesOn
  <2> QED BY <2>1, EditNext, CopyNext
<1> QED BY <1>1, <1>2, PTL DEF Spec

(***************************************************************************)
(* The history ring holds the most recent nonempty lines in order, for     *)
(* every number of rows and however the ring has wrapped.                  *)
(***************************************************************************)
THEOREM HistoryKeepsTheLatest == Spec => []HistoryIsRecent
<1>1. EditInv => HistoryIsRecent
  BY DEF EditInv
<1> QED BY <1>1, EditInvariant, PTL

(***************************************************************************)
(* A line ended by Enter is delivered whole and terminated, however it was *)
(* edited; only a line that filled the array can lack its NUL, and only    *)
(* while the history holds such a line does a copy run past an array.      *)
(***************************************************************************)
THEOREM EnteredLinesAreStrings == Spec => []OnlyFullLinesUnterminated
<1>1. EditInv => OnlyFullLinesUnterminated
  <2> SUFFICES ASSUME EditState, pc = "return" PROVE
        /\ i < MAX_LEN - 1 => Len(Text(line)) = i
        /\ ~Terminated(line) =>
             i = MAX_LEN - 1 /\ line[MAX_LEN - 1] \in Garbage
    BY EditInvParts DEF OnlyFullLinesUnterminated, CopyState
  <2>1. PICK n \in Pos, l \in Line : n = i /\ l = line
    BY DEF EditState
  <2>2. /\ \A k \in 0 .. n - 1 : l[k] # NUL
        /\ n < MAX_LEN - 1 => l[n] = NUL
        /\ l[MAX_LEN - 1] \in Garbage
    BY <2>1 DEF EditState, Typed, NUL
  <2>3. n \in 0 .. MAX_LEN /\ n <= MAX_LEN - 1
    BY ReadlineSizes DEF Pos
  <2>4. n < MAX_LEN - 1 => Len(Text(l)) = n
    BY <2>2, <2>3, TextIs DEF EndsAt
  <2>5. n < MAX_LEN - 1 => Terminated(l)
    BY <2>2 DEF Terminated
  <2> QED BY <2>1, <2>2, <2>3, <2>4, <2>5, ReadlineSizes
<1> QED BY <1>1, EditInvariant, PTL

(***************************************************************************)
(* What is edited is shown: as long as the prompt and the longest line     *)
(* fit above the last row, the cells before the cursor show the prompt and *)
(* the line through erasing, wrapping, scrolling and recalling, whatever a *)
(* program has printed before.                                             *)
(***************************************************************************)
THEOREM EditedLineIsShown ==
  ASSUME LineFitsScreen
  PROVE  Spec => []LineIsShown
<1>1. Init => LineIsShown
  BY DEF Init, LineIsShown
<1>2. EditInv /\ LineIsShown /\ [Next]_vars => LineIsShown'
  BY EditInvParts, EchoNext DEF EchoGoesOn
<1> QED BY <1>1, <1>2, EditInvariant, PTL DEF Spec

(***************************************************************************)
(* And nothing else is: if no program prints a bare carriage return, the   *)
(* screen from the cursor on is blank.                                     *)
(***************************************************************************)
THEOREM EchoIsTheLine ==
  ASSUME LineFitsScreen, OutputHasNoCR
  PROVE  Spec => []EchoMatchesLine
<1>1. Init => Blank(term)
  BY ConsoleInit
<1>2. EditInv /\ Blank(term) /\ [Next]_vars => Blank(term)'
  BY EditInvParts, EchoNext DEF EchoGoesOn, Blank, At
<1>3. EditInv /\ LineIsShown /\ Blank(term) => EchoMatchesLine
  BY EditInvParts, EchoParts
<1>4. LineFitsScreen
  OBVIOUS
<1>5. Spec => []LineIsShown
  BY <1>4, EditedLineIsShown
<1> QED BY <1>1, <1>2, <1>3, <1>5, EditInvariant, PTL DEF Spec

=============================================================================
