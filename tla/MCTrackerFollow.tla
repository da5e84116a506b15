--------------------------- MODULE MCTrackerFollow ---------------------------
(* Instances of TrackerFollow for TLC. *)
EXTENDS TrackerFollow

CONSTANTS p1, p2, iconic, monitor, speck, empty

(* A frame of some thickness around any window and around a screen, one of *)
(* none around a console.                                                  *)
MCOptions == [kind : {"window", "console", "screen"}, thick : {TRUE}]
               \cup [kind : {"console"}, thick : {FALSE}]
TwoPlaces == {p1, p2}
=============================================================================
