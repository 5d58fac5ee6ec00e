----------------------------- MODULE MCTerminal -----------------------------
(* TLC instance of the console: wide enough for a tab stop inside a line   *)
(* and one past its end, and low enough to scroll at once.                 *)
EXTENDS Terminal

LetterA == 97
MCChars == {LetterA, BS, TAB, LF, CR}

\* White on black, which kernel_main selects after the banner.
MCColors == {15}
=============================================================================
