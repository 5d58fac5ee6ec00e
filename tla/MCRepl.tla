------------------------------- MODULE MCRepl -------------------------------
(* TLC instance of the prompt: __main__ and one other module. *)
EXTENDS Repl
=============================================================================
