---------------------------- MODULE MCWindowList ----------------------------
(* Instances of WindowList for TLC. *)
EXTENDS WindowListProperties, TLC

CONSTANTS w1, w2, c1, c2

TwoWindows == {w1, w2}
TwoClients == {c1, c2}
OneWindow == {w1}
Perms == Permutations(TwoWindows) \cup Permutations(TwoClients)
=============================================================================
