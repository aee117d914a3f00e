----------------------------- MODULE MCLiveBuffer -----------------------------
(* A small instance of LiveBuffer for TLC: a page that shows one of two texts, *)
(* of which the server takes only the shorter.                                 *)
EXTENDS LiveBuffer

TwoTexts == {[what |-> "x", bytes |-> 1], [what |-> "y", bytes |-> 2]}
=============================================================================
