------------------------------ MODULE MCStdin ------------------------------
(* TLC instance of the input path. *)
EXTENDS Stdin, KbdLayout

\* The extended Up arrow: two scancodes, three characters.
MCKeys == {[ext |-> TRUE, sc |-> 72]}

\* A carriage return and a byte that is negative as a char.
MCSerialChars == {CR, 200}
=============================================================================
