------------------------------ MODULE MCTracker ------------------------------
(* Two callers and three rounds: restarts, and a stop that finds the         *)
(* window of the round before.                                              *)
EXTENDS TrackerProperties
=============================================================================
