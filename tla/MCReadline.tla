----------------------------- MODULE MCReadline -----------------------------
(* TLC instances of the line editor.  The three characters of the arrow    *)
(* sequences are printable and serve as the letters typed as well.         *)
EXTENDS Readline

MCInput == {ESC, LF, BS, BRACKET, UP, DOWN}
MCPrompt == <<62>>
MCOutput == {<<65, LF>>}
=============================================================================
