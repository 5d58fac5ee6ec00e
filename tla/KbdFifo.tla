------------------------------ MODULE KbdFifo ------------------------------
(***************************************************************************)
(* What the keyboard driver promises its reader: a queue of at most        *)
(* Capacity characters.  One key event offers a burst of characters; those *)
(* that fit are queued in order and the rest of the burst is lost.  A read *)
(* takes the oldest character.                                             *)
(***************************************************************************)
EXTENDS Integers, Sequences

CONSTANTS Capacity, Bursts

VARIABLES q,    \* characters typed and not yet read
          out   \* the character the last read returned

Room == Capacity - Len(q)

(* The characters of a burst that still fit. *)
Accepted(burst) ==
  SubSeq(burst, 1, IF Len(burst) <= Room THEN Len(burst) ELSE Room)

Init == q = << >> /\ out = 0

Key(burst) == q' = q \o Accepted(burst) /\ UNCHANGED out

Read == q # << >> /\ out' = Head(q) /\ q' = Tail(q)

Next == Read \/ \E burst \in Bursts : Key(burst)

Spec == Init /\ [][Next]_<<q, out>>
=============================================================================
