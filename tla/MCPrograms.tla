----------------------------- MODULE MCPrograms -----------------------------
(***************************************************************************)
(* An instance for TLC of the components that are small and stand alone:   *)
(* each behaviour is one of the component that program names.              *)
(***************************************************************************)
EXTENDS WindowListProcess, DxPtr, UniquePtr, CaptureGraph, DeviceWin, TLC

CONSTANTS l1, l2, l3, t1, t2,              \* lists and threads
          p1, p2, p3, i1, i2, b1, b2, b3,  \* DxPtrs, objects, counts
          u1, u2, o1, o2                   \* UniquePtrs, objects

ThreeLists == {l1, l2, l3}
TwoThreads == {t1, t2}
ThreePointers == {p1, p2, p3}
TwoInterfaces == {i1, i2}
ThreeBlocks == {b1, b2, b3}
TwoUniques == {u1, u2}
TwoThings == {o1, o2}
MCCpus == [vendor : {"INTEL", "AMD", "OTHER"}, leaf : {"0b", "4", "none"},
           cores : {1, 4}, threads : {1, 2}, mhz : {3000}]

VARIABLE program

Programs == {"WindowLists", "DxPtr", "UniquePtr", "dshow_cap", "DeviceWin"}

MCInit ==
  /\ program \in Programs
  /\ Init /\ DxInit /\ UInit /\ CgInit /\ DwInit

MCNext ==
  /\ UNCHANGED program
  /\ \/ /\ program = "WindowLists" /\ Next
        /\ UNCHANGED <<dxvars, uvars, cgvars, dwvars>>
     \/ /\ program = "DxPtr" /\ DxNext
        /\ UNCHANGED <<vars, uvars, cgvars, dwvars>>
     \/ /\ program = "UniquePtr" /\ UNext
        /\ UNCHANGED <<vars, dxvars, cgvars, dwvars>>
     \/ /\ program = "dshow_cap" /\ CgNext
        /\ UNCHANGED <<vars, dxvars, uvars, dwvars>>
     \/ /\ program = "DeviceWin" /\ DwNext
        /\ UNCHANGED <<vars, dxvars, uvars, cgvars>>

MCSpec ==
  /\ MCInit
  /\ [][MCNext]_<<program, vars, dxvars, uvars, cgvars, dwvars>>
  /\ DwFairness
=============================================================================
