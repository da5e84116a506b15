------------------------- MODULE MCCapturableWindow -------------------------
(* Instances of CapturableWindow for TLC. *)
EXTENDS CapturableWindow

CONSTANTS w1, w2

TwoWindows == {w1, w2}
=============================================================================
