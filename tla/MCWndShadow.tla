----------------------------- MODULE MCWndShadow -----------------------------
(* Three sizes, so that a window can grow twice; two places and settings.   *)
EXTENDS WndShadow

MCSizes == 1..3
MCPlaces == 1..2
MCSettings == 1..2
=============================================================================
