----------------------------- MODULE MCTaskTimer -----------------------------
(* Two intervals, so that a wait can last an old one; the counters may      *)
(* pass the limit of one the properties set.                                *)
EXTENDS TaskTimer

MCIntervals == {1000, 2000}
=============================================================================
