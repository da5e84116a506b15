--------------------------- MODULE WndShadowProofs ---------------------------
(* The shadow stays with its parent, for any sizes, places and settings.    *)
EXTENDS WndShadow, TLAPS

USE DEF Bits, parent, shadow, Live, UpdateToCome, Drawn, Visable, Active, Attached

(* Nothing is shown and nothing is to be painted at first. *)
LEMMA ShadowInit == Init => ShadowInv
<1> SUFFICES ASSUME Init PROVE ShadowInv
  OBVIOUS
<1>1. TypeOK
  <2>1. size \in Sizes /\ region \in Sizes /\ place \in Places /\ m_WndSize \in Nat
          /\ m_Status \in SUBSET Bits /\ settings \in Settings /\ aero \in BOOLEAN
    BY ShadowAssumption DEF Init
  <2>2. m_bUpdate \in BOOLEAN /\ shown \in BOOLEAN /\ visible \in BOOLEAN
          /\ paint \in BOOLEAN /\ composed \in BOOLEAN
    BY <2>1 DEF Init
  <2>3. image \in Image
    BY DEF Init, NoImage, Image
  <2> QED
    BY <2>1, <2>2, <2>3 DEF Init, TypeOK, ScalarsOK
<1>2. StatusInv /\ PlaceInv /\ FreshInv
  BY DEF Init, StatusInv, PlaceInv, FreshInv
<1>3. SizeInv
  BY DEF Init, SizeInv
<1>4. ActiveInv
  BY <1>1 DEF Init, ActiveInv
<1> QED
  BY <1>1, <1>2, <1>3, <1>4 DEF ShadowInv

(* The types, but for the image. *)
LEMMA ScalarsNext == ScalarsOK /\ [Next]_vars => ScalarsOK'
<1> SUFFICES ASSUME ScalarsOK, [Next]_vars PROVE ScalarsOK'
  OBVIOUS
<1> USE ShadowAssumption DEF ScalarsOK, shadow, Show, WM_SIZE
<1>1. ASSUME Create PROVE ScalarsOK'
  BY <1>1 DEF Create, AeroBit
<1>2. ASSUME NEW s \in Sizes, Resize(s) PROVE ScalarsOK'
  BY <1>2 DEF Resize, SizeInvisible, SizeRestored, SizeVisible
<1>3. ASSUME NEW s \in Sizes, Maximize(s) PROVE ScalarsOK'
  BY <1>3 DEF Maximize, SizeHidden, HideShadow
<1>4. ASSUME NEW p \in Places, Move(p) PROVE ScalarsOK'
  BY <1>4 DEF Move
<1>5. ASSUME NEW show \in BOOLEAN, WM_SHOWWINDOW(show) PROVE ScalarsOK'
  BY <1>5 DEF WM_SHOWWINDOW
<1>6. ASSUME Minimize PROVE ScalarsOK'
  <2>1. m_WndSize' \in Nat
    BY <1>6 DEF Minimize
  <2> QED
    BY <1>6, <2>1 DEF Minimize, SizeHidden, HideShadow
<1>7. ASSUME WM_PAINT PROVE ScalarsOK'
  BY <1>7 DEF WM_PAINT
<1>8. ASSUME WM_EXITSIZEMOVE PROVE ScalarsOK'
  BY <1>8 DEF WM_EXITSIZEMOVE
<1>9. ASSUME StyleChanges PROVE ScalarsOK'
  BY <1>9 DEF StyleChanges
<1>10. ASSUME WM_DWMCOMPOSITIONCHANGED PROVE ScalarsOK'
  BY <1>10 DEF WM_DWMCOMPOSITIONCHANGED, AeroBit
<1>11. ASSUME Destroy PROVE ScalarsOK'
  BY <1>11 DEF Destroy
<1>12. ASSUME NEW new \in Settings, Set(new) PROVE ScalarsOK'
  BY <1>12 DEF Set
<1>13. CASE UNCHANGED vars
  BY <1>13 DEF vars
<1> QED
  BY <1>1, <1>2, <1>3, <1>4, <1>5, <1>6, <1>7, <1>8, <1>9, <1>10, <1>11, <1>12, <1>13
  DEF Next, ParentProc
(* An image is unchanged, moved, or made anew by Update. *)
LEMMA ImageStep == [Next]_vars => UNCHANGED image \/ Update \/ image' = [image EXCEPT !.place = place']
<1> DEFINE Step == UNCHANGED image \/ Update \/ image' = [image EXCEPT !.place = place']
<1> SUFFICES ASSUME [Next]_vars PROVE Step
  OBVIOUS
<1>1. CASE Create \/ WM_DWMCOMPOSITIONCHANGED \/ \E show \in BOOLEAN : WM_SHOWWINDOW(show)
  BY <1>1 DEF Create, WM_DWMCOMPOSITIONCHANGED, WM_SHOWWINDOW, Show
<1>2. CASE \E s \in Sizes : Resize(s)
  BY <1>2 DEF Resize, WM_SIZE, SizeInvisible, SizeRestored, SizeVisible
<1>3. CASE Minimize \/ \E s \in Sizes : Maximize(s)
  BY <1>3 DEF Maximize, Minimize, WM_SIZE, SizeHidden
<1>4. CASE \E p \in Places : Move(p)
  BY <1>4 DEF Move
<1>5. CASE WM_PAINT \/ WM_EXITSIZEMOVE \/ StyleChanges \/ Destroy
  BY <1>5 DEF WM_PAINT, WM_EXITSIZEMOVE, StyleChanges, Destroy
<1>6. CASE \E new \in Settings : Set(new)
  BY <1>6 DEF Set
<1>7. CASE UNCHANGED vars
  BY <1>7 DEF vars
<1> QED
  BY <1>1, <1>2, <1>3, <1>4, <1>5, <1>6, <1>7 DEF Next, ParentProc

(* All the types. *)
LEMMA Types == TypeOK /\ [Next]_vars => TypeOK'
<1> SUFFICES ASSUME TypeOK, [Next]_vars PROVE TypeOK'
  OBVIOUS
<1>1. ScalarsOK'
  BY ScalarsNext DEF TypeOK
<1>2. CASE UNCHANGED image
  BY <1>1, <1>2 DEF TypeOK, Image
<1>3. CASE Update
  BY <1>1, <1>3 DEF TypeOK, Image, ScalarsOK, Update
<1>4. CASE image' = [image EXCEPT !.place = place']
  BY <1>1, <1>4 DEF TypeOK, Image, ScalarsOK
<1> QED
  BY <1>2, <1>3, <1>4, ImageStep

(* The bits go with the window, whatever Show has decided. *)
LEMMA StatusInvNext == TypeOK /\ StatusInv /\ [Next]_vars => StatusInv'
<1> SUFFICES ASSUME TypeOK, StatusInv, [Next]_vars PROVE StatusInv'
  OBVIOUS
<1> USE DEF TypeOK, ScalarsOK, StatusInv
<1>1. ASSUME Create PROVE StatusInv'
  BY <1>1 DEF Create, AeroBit, Show
<1>2. ASSUME NEW s \in Sizes, Resize(s) PROVE StatusInv'
  BY <1>2 DEF Resize, WM_SIZE, SizeInvisible, SizeRestored, SizeVisible
<1>3. ASSUME NEW s \in Sizes, Maximize(s) PROVE StatusInv'
  BY <1>3 DEF Maximize, WM_SIZE, SizeHidden, HideShadow
<1>4. ASSUME NEW p \in Places, Move(p) PROVE StatusInv'
  BY <1>4 DEF Move
<1>5. ASSUME NEW show \in BOOLEAN, WM_SHOWWINDOW(show) PROVE StatusInv'
  BY <1>5 DEF WM_SHOWWINDOW, Show
<1>6. ASSUME Minimize PROVE StatusInv'
  BY <1>6 DEF Minimize, WM_SIZE, SizeHidden, HideShadow
<1>7. ASSUME WM_PAINT PROVE StatusInv'
  BY <1>7 DEF WM_PAINT
<1>8. ASSUME WM_EXITSIZEMOVE PROVE StatusInv'
  BY <1>8 DEF WM_EXITSIZEMOVE
<1>9. ASSUME StyleChanges PROVE StatusInv'
  BY <1>9 DEF StyleChanges
<1>10. ASSUME WM_DWMCOMPOSITIONCHANGED PROVE StatusInv'
  BY <1>10 DEF WM_DWMCOMPOSITIONCHANGED, AeroBit, Show
<1>11. ASSUME Destroy PROVE StatusInv'
  BY <1>11 DEF Destroy
<1>12. ASSUME NEW new \in Settings, Set(new) PROVE StatusInv'
  BY <1>12 DEF Set
<1>13. CASE UNCHANGED vars
  BY <1>13 DEF vars
<1> QED
  BY <1>1, <1>2, <1>3, <1>4, <1>5, <1>6, <1>7, <1>8, <1>9, <1>10, <1>11, <1>12, <1>13
  DEF Next, ParentProc

(* What shows the shadow, or moves or sets a visible one, redraws it. *)
LEMMA PlaceInvNext == TypeOK /\ StatusInv /\ PlaceInv /\ [Next]_vars => PlaceInv'
<1> SUFFICES ASSUME TypeOK, StatusInv, PlaceInv, [Next]_vars PROVE PlaceInv'
  OBVIOUS
<1> USE DEF TypeOK, ScalarsOK, Image, StatusInv, PlaceInv
<1>1. ASSUME Create PROVE PlaceInv'
  BY <1>1 DEF Create, AeroBit, Show, Update
<1>2. ASSUME NEW s \in Sizes, Resize(s) PROVE PlaceInv'
  <2>1. phase' = phase /\ place' = place /\ settings' = settings
    BY <1>2 DEF Resize
  <2>2. CASE UNCHANGED image /\ UNCHANGED shown
    BY <2>1, <2>2
  <2>3. CASE Update
    BY <2>3 DEF Update
  <2>4. (UNCHANGED image /\ UNCHANGED shown) \/ Update
    BY <1>2 DEF Resize, WM_SIZE, SizeInvisible, SizeRestored, SizeVisible
  <2> QED
    BY <2>2, <2>3, <2>4
<1>3. ASSUME NEW s \in Sizes, Maximize(s) PROVE PlaceInv'
  BY <1>3 DEF Maximize, WM_SIZE, SizeHidden, HideShadow
<1>4. ASSUME NEW p \in Places, Move(p) PROVE PlaceInv'
  BY <1>4 DEF Move
<1>5. ASSUME NEW show \in BOOLEAN, WM_SHOWWINDOW(show) PROVE PlaceInv'
  <2>1. Live /\ place' = place /\ settings' = settings
    BY <1>5 DEF WM_SHOWWINDOW
  <2>2. CASE UNCHANGED image /\ UNCHANGED shown
    BY <2>1, <2>2
  <2>3. CASE Update
    BY <2>3 DEF Update
  <2>4. CASE ~shown'
    BY <2>4
  <2>5. (UNCHANGED image /\ UNCHANGED shown) \/ Update \/ ~shown'
    BY <1>5 DEF WM_SHOWWINDOW, Show
  <2> QED
    BY <2>2, <2>3, <2>4, <2>5
<1>6. ASSUME Minimize PROVE PlaceInv'
  BY <1>6 DEF Minimize, WM_SIZE, SizeHidden, HideShadow
<1>7. ASSUME WM_PAINT PROVE PlaceInv'
  BY <1>7 DEF WM_PAINT, Update
<1>8. ASSUME WM_EXITSIZEMOVE PROVE PlaceInv'
  BY <1>8 DEF WM_EXITSIZEMOVE, Update
<1>9. ASSUME StyleChanges PROVE PlaceInv'
  BY <1>9 DEF StyleChanges
<1>10. ASSUME WM_DWMCOMPOSITIONCHANGED PROVE PlaceInv'
  BY <1>10 DEF WM_DWMCOMPOSITIONCHANGED, AeroBit, Show, Update
<1>11. ASSUME Destroy PROVE PlaceInv'
  BY <1>11 DEF Destroy
<1>12. ASSUME NEW new \in Settings, Set(new) PROVE PlaceInv'
  BY <1>12 DEF Set, Update
<1>13. CASE UNCHANGED vars
  BY <1>13 DEF vars
<1> QED
  BY <1>1, <1>2, <1>3, <1>4, <1>5, <1>6, <1>7, <1>8, <1>9, <1>10, <1>11, <1>12, <1>13
  DEF Next, ParentProc

(* Before Create nothing is set, and without composition the shadow is active. *)
LEMMA ActiveInvNext == TypeOK /\ ActiveInv /\ [Next]_vars => ActiveInv'
<1> SUFFICES ASSUME TypeOK, ActiveInv, [Next]_vars PROVE ActiveInv'
  OBVIOUS
<1> USE DEF TypeOK, ScalarsOK, ActiveInv
<1>1. ASSUME Create PROVE ActiveInv'
  BY <1>1 DEF Create, AeroBit, Show
<1>2. ASSUME NEW s \in Sizes, Resize(s) PROVE ActiveInv'
  BY <1>2 DEF Resize, WM_SIZE, SizeInvisible, SizeRestored, SizeVisible
<1>3. ASSUME NEW s \in Sizes, Maximize(s) PROVE ActiveInv'
  BY <1>3 DEF Maximize, WM_SIZE, SizeHidden, HideShadow
<1>4. ASSUME NEW p \in Places, Move(p) PROVE ActiveInv'
  BY <1>4 DEF Move
<1>5. ASSUME NEW show \in BOOLEAN, WM_SHOWWINDOW(show) PROVE ActiveInv'
  BY <1>5 DEF WM_SHOWWINDOW, Show
<1>6. ASSUME Minimize PROVE ActiveInv'
  BY <1>6 DEF Minimize, WM_SIZE, SizeHidden, HideShadow
<1>7. ASSUME WM_PAINT PROVE ActiveInv'
  BY <1>7 DEF WM_PAINT
<1>8. ASSUME WM_EXITSIZEMOVE PROVE ActiveInv'
  BY <1>8 DEF WM_EXITSIZEMOVE
<1>9. ASSUME StyleChanges PROVE ActiveInv'
  BY <1>9 DEF StyleChanges
<1>10. ASSUME WM_DWMCOMPOSITIONCHANGED PROVE ActiveInv'
  BY <1>10 DEF WM_DWMCOMPOSITIONCHANGED, AeroBit, Show
<1>11. ASSUME Destroy PROVE ActiveInv'
  BY <1>11 DEF Destroy
<1>12. ASSUME NEW new \in Settings, Set(new) PROVE ActiveInv'
  BY <1>12 DEF Set
<1>13. CASE UNCHANGED vars
  BY <1>13 DEF vars
<1> QED
  BY <1>1, <1>2, <1>3, <1>4, <1>5, <1>6, <1>7, <1>8, <1>9, <1>10, <1>11, <1>12, <1>13
  DEF Next, ParentProc

(* Without composition WM_SIZE records every size. *)
LEMMA SizeInvNext == TypeOK /\ ActiveInv /\ (~composed => SizeInv) /\ [Next]_vars => (~composed => SizeInv)'
<1> SUFFICES ASSUME TypeOK, ActiveInv, (~composed => SizeInv), [Next]_vars PROVE (~composed => SizeInv)'
  OBVIOUS
<1> USE DEF TypeOK, ScalarsOK, ActiveInv, SizeInv
<1>1. ASSUME Create PROVE (~composed => SizeInv)'
  BY <1>1 DEF Create, AeroBit, Show
<1>2. ASSUME NEW s \in Sizes, Resize(s) PROVE (~composed => SizeInv)'
  BY <1>2 DEF Resize, WM_SIZE, SizeInvisible, SizeRestored, SizeVisible
<1>3. ASSUME NEW s \in Sizes, Maximize(s) PROVE (~composed => SizeInv)'
  BY <1>3 DEF Maximize, WM_SIZE, SizeHidden, HideShadow
<1>4. ASSUME NEW p \in Places, Move(p) PROVE (~composed => SizeInv)'
  BY <1>4 DEF Move
<1>5. ASSUME NEW show \in BOOLEAN, WM_SHOWWINDOW(show) PROVE (~composed => SizeInv)'
  BY <1>5 DEF WM_SHOWWINDOW, Show
<1>6. ASSUME Minimize PROVE (~composed => SizeInv)'
  BY <1>6 DEF Minimize, WM_SIZE, SizeHidden, HideShadow
<1>7. ASSUME WM_PAINT PROVE (~composed => SizeInv)'
  BY <1>7 DEF WM_PAINT
<1>8. ASSUME WM_EXITSIZEMOVE PROVE (~composed => SizeInv)'
  BY <1>8 DEF WM_EXITSIZEMOVE
<1>9. ASSUME StyleChanges PROVE (~composed => SizeInv)'
  BY <1>9 DEF StyleChanges
<1>10. ASSUME WM_DWMCOMPOSITIONCHANGED PROVE (~composed => SizeInv)'
  BY <1>10 DEF WM_DWMCOMPOSITIONCHANGED, AeroBit, Show
<1>11. ASSUME Destroy PROVE (~composed => SizeInv)'
  BY <1>11 DEF Destroy
<1>12. ASSUME NEW new \in Settings, Set(new) PROVE (~composed => SizeInv)'
  BY <1>12 DEF Set
<1>13. CASE UNCHANGED vars
  BY <1>13 DEF vars
<1> QED
  BY <1>1, <1>2, <1>3, <1>4, <1>5, <1>6, <1>7, <1>8, <1>9, <1>10, <1>11, <1>12, <1>13
  DEF Next, ParentProc

(* An update that is put off is one that WM_PAINT will make. *)
LEMMA FreshInvNext == TypeOK /\ StatusInv /\ ActiveInv /\ (~composed => SizeInv) /\ FreshInv /\ [Next]_vars => FreshInv'
<1> SUFFICES ASSUME TypeOK, StatusInv, ActiveInv, (~composed => SizeInv), FreshInv, [Next]_vars PROVE FreshInv'
  OBVIOUS
<1> USE ShadowAssumption DEF TypeOK, ScalarsOK, StatusInv, ActiveInv, SizeInv, FreshInv
<1>1. ASSUME Create PROVE FreshInv'
  BY <1>1 DEF Create, AeroBit, Show, Update
<1>2. ASSUME NEW s \in Sizes, Resize(s) PROVE FreshInv'
  BY <1>2 DEF Resize, WM_SIZE, SizeInvisible, SizeRestored, SizeVisible, Update
<1>3. ASSUME NEW s \in Sizes, Maximize(s) PROVE FreshInv'
  BY <1>3 DEF Maximize, WM_SIZE, SizeHidden, HideShadow
<1>4. ASSUME NEW p \in Places, Move(p) PROVE FreshInv'
  BY <1>4 DEF Move
<1>5. ASSUME NEW show \in BOOLEAN, WM_SHOWWINDOW(show) PROVE FreshInv'
  BY <1>5 DEF WM_SHOWWINDOW, Show, Update
<1>6. ASSUME Minimize PROVE FreshInv'
  BY <1>6 DEF Minimize, WM_SIZE, SizeHidden, HideShadow
<1>7. ASSUME WM_PAINT PROVE FreshInv'
  BY <1>7 DEF WM_PAINT, Update
<1>8. ASSUME WM_EXITSIZEMOVE PROVE FreshInv'
  BY <1>8 DEF WM_EXITSIZEMOVE, Update
<1>9. ASSUME StyleChanges PROVE FreshInv'
  BY <1>9 DEF StyleChanges
<1>10. ASSUME WM_DWMCOMPOSITIONCHANGED PROVE FreshInv'
  BY <1>10 DEF WM_DWMCOMPOSITIONCHANGED, AeroBit, Show, Update
<1>11. ASSUME Destroy PROVE FreshInv'
  BY <1>11 DEF Destroy
<1>12. ASSUME NEW new \in Settings, Set(new) PROVE FreshInv'
  BY <1>12 DEF Set, Update
<1>13. CASE UNCHANGED vars
  BY <1>13 DEF vars
<1> QED
  BY <1>1, <1>2, <1>3, <1>4, <1>5, <1>6, <1>7, <1>8, <1>9, <1>10, <1>11, <1>12, <1>13
  DEF Next, ParentProc

(* The parts together. *)
LEMMA ShadowInvNext == ShadowInv /\ [Next]_vars => ShadowInv'
BY Types, StatusInvNext, PlaceInvNext, ActiveInvNext, SizeInvNext, FreshInvNext DEF ShadowInv

(* The inductive invariant of CWndShadow, for any sizes, places, settings  *)
(* and answers of DwmIsCompositionEnabled.                                 *)
THEOREM ShadowSafety == Spec => []ShadowInv
BY ShadowInit, ShadowInvNext, PTL DEF Spec

(* SS_VISABLE tells whether the shadow window is shown, as the handlers of *)
(* ParentProc assume.                                                      *)
THEOREM StatusIsTruth == Spec => []ShownMatchesStatus
<1>1. ShadowInv => ShownMatchesStatus
  BY DEF ShadowInv, StatusInv, ShownMatchesStatus
<1> QED
  BY <1>1, ShadowSafety, PTL

(* A shown shadow is where its parent is and has the current settings,     *)
(* although WM_MOVE and the setters pass over a hidden one.                *)
THEOREM ShadowInPlace == Spec => []ShownInPlace
<1>1. ShadowInv => ShownInPlace
  BY DEF ShadowInv, PlaceInv, ShownInPlace
<1> QED
  BY <1>1, ShadowSafety, PTL

(* As long as composition has been off, the update strategy of WM_SIZE     *)
(* leaves no painted window with a shadow of another size.                 *)
THEOREM ShadowIsFresh == Spec => []FreshShadow
<1>1. ShadowInv => FreshShadow
  BY DEF ShadowInv, FreshInv, FreshShadow
<1> QED
  BY <1>1, ShadowSafety, PTL
=============================================================================
