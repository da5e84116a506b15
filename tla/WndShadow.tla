------------------------------ MODULE WndShadow ------------------------------
(***************************************************************************)
(* CWndShadow (WindowsProject1/WndShadow.cpp): a layered window behind a   *)
(* parent window, driven by the messages of the parent.  The status bits   *)
(* are a set.  The image Update makes is the record of what it was made    *)
(* from: the region and the place of the parent and the settings.  Growing *)
(* a window does not update its region until WM_PAINT, as the source says  *)
(* (lines 246 to 248).                                                     *)
(***************************************************************************)
EXTENDS Naturals

CONSTANTS Sizes, Places, Settings,
          Aero           \* the values DwmIsCompositionEnabled may answer

ASSUME ShadowAssumption == Sizes \subseteq Nat \ {0} /\ Aero \subseteq BOOLEAN

VARIABLES phase,     \* before Create, attached, after WM_DESTROY, after WM_NCDESTROY
          m_Status, m_bUpdate, m_WndSize,
          settings,  \* m_nSize, m_nSharpness, m_nDarkness, m_Color and the offsets
          shown,     \* the shadow window is shown
          image,     \* what the shadow was last made from
          visible, state, size, region, place,  \* the parent window
          paint,     \* the parent is still to get a WM_PAINT
          aero,      \* desktop composition is on
          composed   \* history: composition has been on

shadow == <<m_Status, m_bUpdate, m_WndSize, shown, image>>
parent == <<visible, state, size, region, place, paint>>
vars == <<phase, shadow, settings, parent, aero, composed>>

NoImage == [region |-> 0, place |-> 0, settings |-> 0]

Init ==
  /\ phase = "before"
  /\ m_Status = {}
  /\ m_bUpdate = FALSE
  /\ m_WndSize = 0
  /\ settings \in Settings
  /\ shown = FALSE
  /\ image = NoImage
  /\ visible = FALSE
  /\ state = "normal"
  /\ size \in Sizes
  /\ region = size
  /\ place \in Places
  /\ paint = FALSE
  /\ aero \in Aero
  /\ composed = aero

Visable == "VISABLE" \in m_Status
Active == "ENABLED" \in m_Status /\ "DISABLEDBYAERO" \notin m_Status

(* Update redraws the shadow from the parent as it is now. *)
Update ==
  image' = [region |-> region', place |-> place', settings |-> settings']

(* Show computes the bits and then shows the shadow in any case. *)
Show(status) ==
  /\ m_Status' = (status \cap {"ENABLED", "DISABLEDBYAERO"}) \cup {"VISABLE"} \cup
       IF "ENABLED" \in status /\ "DISABLEDBYAERO" \notin status /\ visible'
       THEN {"PARENTVISIBLE"} ELSE {}
  /\ shown' = TRUE
  /\ Update

AeroBit(on) == IF on THEN {"DISABLEDBYAERO"} ELSE {}

(* For WM_CREATE of the parent, its only use in the repository: the parent *)
(* is not visible yet, normal, and has nothing to paint.  Until then       *)
(* m_Status has no value, and nothing reads it.                            *)
Create ==
  /\ phase = "before"
  /\ phase' = "attached"
  /\ UNCHANGED <<parent, settings, aero, composed, m_bUpdate, m_WndSize>>
  /\ Show({"ENABLED"} \cup AeroBit(aero))

-----------------------------------------------------------------------------
(* ParentProc, message by message.  WM_SIZE comes with the change itself.  *)

HideShadowOnly == shown' = FALSE /\ UNCHANGED m_Status
HideShadow == shown' = FALSE /\ m_Status' = m_Status \ {"VISABLE"}

SizeHidden ==   \* SIZE_MINIMIZED, SIZE_MAXIMIZED
  /\ Active
  /\ HideShadow
  /\ UNCHANGED <<m_bUpdate, image>>

SizeInvisible ==
  /\ Active /\ ~visible
  /\ UNCHANGED <<m_Status, m_bUpdate, shown, image>>

RestoredUpdatesLater ==
  /\ Active /\ visible /\ ~Visable
  /\ m_Status' = m_Status \cup {"PARENTVISIBLE", "VISABLE"}
  /\ shown' = TRUE
  /\ m_bUpdate' = TRUE
  /\ UNCHANGED image

SizeRestored ==
  /\ Active /\ visible /\ ~Visable
  /\ m_Status' = m_Status \cup {"PARENTVISIBLE", "VISABLE"}
  /\ Update
  /\ shown' = TRUE
  /\ m_bUpdate' = TRUE

SizeVisible ==
  /\ Active /\ visible /\ Visable
  /\ m_Status' = m_Status \cup {"PARENTVISIBLE"}
  /\ IF size' > m_WndSize
     THEN m_bUpdate' = TRUE /\ UNCHANGED image
     ELSE Update /\ UNCHANGED m_bUpdate
  /\ UNCHANGED shown

WM_SIZE(lParam) ==
  \/ Active /\ m_WndSize' = lParam
  \/ ~Active /\ UNCHANGED shadow

Attached == phase = "attached"

(* The parent becomes normal with some size, by restoring or resizing; its *)
(* class redraws on either (CS_HREDRAW, CS_VREDRAW).                       *)
Resize(s) ==
  /\ Attached
  /\ state # "normal" \/ s # size
  /\ size' = s
  /\ state' = "normal"
  /\ region' = IF s < size THEN s ELSE region
  /\ paint' = TRUE
  /\ UNCHANGED <<phase, settings, aero, composed, visible, place>>
  /\ WM_SIZE(s)
  /\ Active => SizeInvisible \/ SizeRestored \/ SizeVisible

Minimize ==
  /\ Attached /\ visible /\ state # "minimized"
  /\ state' = "minimized"
  /\ UNCHANGED <<phase, settings, aero, composed, visible, size, region, place, paint>>
  /\ WM_SIZE(0)
  /\ Active => SizeHidden

Maximize(s) ==
  /\ Attached /\ visible /\ state # "maximized" /\ s >= size
  /\ state' = "maximized"
  /\ size' = s
  /\ paint' = TRUE
  /\ UNCHANGED <<phase, settings, aero, composed, visible, region, place>>
  /\ WM_SIZE(s)
  /\ Active => SizeHidden

Move(p) ==   \* WM_MOVE
  /\ Attached /\ p # place
  /\ place' = p
  /\ image' = IF Visable THEN [image EXCEPT !.place = p] ELSE image
  /\ UNCHANGED <<phase, settings, aero, composed, visible, state, size, region, paint,
                 m_Status, m_bUpdate, m_WndSize, shown>>

PaintNothing ==
  /\ paint /\ visible /\ state # "minimized" /\ Attached
  /\ region' = size
  /\ paint' = FALSE
  /\ UNCHANGED <<phase, settings, aero, composed, visible, state, size, place, shadow>>

WM_PAINT ==
  /\ Attached
  /\ paint /\ visible /\ state # "minimized"
  /\ region' = size
  /\ paint' = FALSE
  /\ UNCHANGED <<phase, settings, aero, composed, visible, state, size, place,
                 m_Status, m_WndSize, shown>>
  /\ m_bUpdate' = FALSE
  /\ IF m_bUpdate THEN Update ELSE UNCHANGED image

WM_EXITSIZEMOVE ==
  /\ Attached /\ Visable
  /\ UNCHANGED <<phase, settings, aero, composed, parent, m_Status, m_bUpdate, m_WndSize, shown>>
  /\ Update

(* WM_SHOWWINDOW comes before the parent's style changes. *)
WM_SHOWWINDOW(show) ==
  /\ Attached
  /\ show # visible
  /\ UNCHANGED <<parent, settings, aero, composed, m_WndSize>>
  /\ phase' = IF show THEN "showing" ELSE "hiding"
  /\ \/ ~Active /\ UNCHANGED shadow
     \/ Active /\ ~show /\ shown' = FALSE /\ m_Status' = m_Status \ {"VISABLE", "PARENTVISIBLE"}
        /\ UNCHANGED <<m_bUpdate, image>>
     \/ Active /\ show /\ m_bUpdate' = TRUE /\ Show(m_Status)

StyleChanges ==
  /\ phase \in {"showing", "hiding"}
  /\ phase' = "attached"
  /\ visible' = (phase = "showing")
  /\ paint' = TRUE
  /\ UNCHANGED <<shadow, settings, aero, composed, state, size, region, place>>

WM_DWMCOMPOSITIONCHANGED ==
  /\ Attached
  /\ aero' \in Aero \ {aero}
  /\ composed' = TRUE
  /\ UNCHANGED <<phase, settings, parent, m_bUpdate, m_WndSize>>
  /\ Show((m_Status \ {"DISABLEDBYAERO"}) \cup AeroBit(aero'))

(* WM_DESTROY destroys the shadow; WM_NCDESTROY takes it out of the map.   *)
Destroy ==
  /\ \/ phase = "attached" /\ phase' = "destroyed"
     \/ phase = "destroyed" /\ phase' = "gone"
  /\ shown' = FALSE
  /\ UNCHANGED <<m_Status, m_bUpdate, m_WndSize, image, settings, parent, aero, composed>>

-----------------------------------------------------------------------------
(* SetSize, SetSharpness, SetDarkness, SetPosition and SetColor, with a    *)
(* value in range; one out of range changes nothing.                       *)
Set(new) ==
  /\ phase \in {"before", "attached"} /\ new # settings
  /\ settings' = new
  /\ UNCHANGED <<phase, parent, aero, composed, m_Status, m_bUpdate, m_WndSize, shown>>
  /\ IF Visable THEN Update ELSE UNCHANGED image

ParentProc ==
  \/ \E s \in Sizes : Resize(s) \/ Maximize(s)
  \/ \E p \in Places : Move(p)
  \/ \E show \in BOOLEAN : WM_SHOWWINDOW(show)
  \/ Minimize \/ WM_PAINT \/ WM_EXITSIZEMOVE \/ StyleChanges
  \/ WM_DWMCOMPOSITIONCHANGED \/ Destroy

Next == Create \/ ParentProc \/ \E new \in Settings : Set(new)

Spec == Init /\ [][Next]_vars

-----------------------------------------------------------------------------
(* The inductive invariant: while composition has been off the shadow of a *)
(* visible normal window has its size already, unless a WM_PAINT that will *)
(* update it is still to come.                                             *)
Bits == {"ENABLED", "VISABLE", "PARENTVISIBLE", "DISABLEDBYAERO"}
Live == phase \in {"attached", "showing", "hiding"}
UpdateToCome == m_bUpdate /\ paint
Drawn == image.region = size /\ region = size

Image == [region : Sizes \cup {0}, place : Places \cup {0}, settings : Settings \cup {0}]

ScalarsOK ==
  /\ phase \in {"before", "attached", "showing", "hiding", "destroyed", "gone"}
  /\ m_Status \in SUBSET Bits /\ m_bUpdate \in BOOLEAN /\ m_WndSize \in Nat
  /\ shown \in BOOLEAN /\ settings \in Settings
  /\ visible \in BOOLEAN /\ state \in {"normal", "minimized", "maximized"}
  /\ size \in Sizes /\ region \in Sizes /\ place \in Places /\ paint \in BOOLEAN
  /\ aero \in BOOLEAN /\ composed \in BOOLEAN

TypeOK == ScalarsOK /\ image \in Image

StatusInv == phase = "before" \/ Live => (shown <=> Visable)

PlaceInv == Live /\ shown => image.place = place /\ image.settings = settings

ActiveInv ==
  /\ phase = "before" => m_Status = {} /\ ~visible
  /\ Live => "ENABLED" \in m_Status
  /\ ~composed => ~aero /\ "DISABLEDBYAERO" \notin m_Status

SizeInv ==
  /\ m_WndSize \in {0, size}
  /\ ~paint => region = size

FreshInv ==
  ~composed =>
    /\ phase = "showing" => shown /\ m_bUpdate
    /\ Attached /\ visible /\ state = "normal" =>
         shown /\ (UpdateToCome \/ Drawn)
    /\ Attached /\ visible /\ state # "normal" =>
         ~shown \/ m_bUpdate \/ ~paint

ShadowInv == TypeOK /\ StatusInv /\ PlaceInv /\ ActiveInv /\ (~composed => SizeInv) /\ FreshInv

-----------------------------------------------------------------------------
(* The bit SS_VISABLE, on which every handler decides, is the truth about  *)
(* the shadow window, through hiding, sizing and changes of composition.   *)
ShownMatchesStatus == Live => (shown <=> Visable)

(* A shadow that is shown is where its parent is and looks as it was set,  *)
(* although moves and settings are passed over while it is hidden.         *)
ShownInPlace ==
  Attached /\ shown => image.place = place /\ image.settings = settings

(* The shadow follows its parent: once the parent has been painted, the    *)
(* shadow of a normal visible window is shown, in the window's size.       *)
(* WM_SIZE updates at once or puts the update off until WM_PAINT,          *)
(* depending on a remembered size (WndShadow.cpp, lines 246 to 255).       *)
(* Where composition has ever been on this fails: WM_SIZE, WM_SHOWWINDOW   *)
(* and their bookkeeping are passed over while Aero disables the shadow,   *)
(* and the end of composition shows it whatever the parent's state is.     *)
FreshShadow ==
  Attached /\ visible /\ state = "normal" /\ ~paint
    /\ ~composed
  => shown /\ image.region = size

(* The bits mean what WndShadow.h says of them: line 93, "Shadow is        *)
(* enabled, but do not show because areo is enabled"; line 92, "Parent     *)
(* window is visible, if not, the above one is always false", the one      *)
(* above being SS_VISABLE.                                                 *)
StatusAsDocumented ==
  /\ Attached /\ "DISABLEDBYAERO" \in m_Status => ~shown
  /\ Visable => "PARENTVISIBLE" \in m_Status
=============================================================================
