---------------------------- MODULE MCInterrupts ----------------------------
(* TLC instance of the interrupt machinery.  Line 4 is COM1, line 9 hangs  *)
(* on the second PIC; both are masked.                                     *)
EXTENDS Interrupts
=============================================================================
