--------------------------- MODULE MCTildaButtons ---------------------------
(* The buttons, for TLC: two of them. *)
EXTENDS TildaButtons

CONSTANTS b1, b2

TwoButtons == {b1, b2}
=============================================================================
