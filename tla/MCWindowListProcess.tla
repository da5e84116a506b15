------------------------- MODULE MCWindowListProcess -------------------------
(* Instances of WindowListProcess for TLC. *)
EXTENDS WindowListProcess, TLC

CONSTANTS l1, l2, l3, t1, t2

ThreeLists == {l1, l2, l3}
TwoThreads == {t1, t2}
Perms == Permutations(ThreeLists) \cup Permutations(TwoThreads)
=============================================================================
