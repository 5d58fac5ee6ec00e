---------------------------- MODULE MCKeyboard ----------------------------
(* TLC instance of the keyboard driver. *)
EXTENDS Keyboard, KbdLayout

\* Both shifts, ctrl, caps lock, the keypad's Up, F1, which is a key of no
\* character, and the right ctrl.
DecoderKeys ==
  {[ext |-> FALSE, sc |-> s] : s \in {LSHIFT, RSHIFT, CTRL, CAPS, 72, 59}}
    \cup {[ext |-> TRUE, sc |-> CTRL]}
=============================================================================
