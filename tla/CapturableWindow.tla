-------------------------- MODULE CapturableWindow --------------------------
(***************************************************************************)
(* Which windows WindowList lets in: IsCapturableWindow, a filter that     *)
(* depends on the window and on the window being captured, a global that   *)
(* SetCurrentCapturedWnd changes while the list exists.                    *)
(***************************************************************************)
CONSTANTS Windows

NULL == "NULL"

(* A window as the filter sees it.  proper: not the shell, visible, a root *)
(* window, with a rectangle that is not empty.  blocked: of a class that   *)
(* IsKnownBlockedWindow names.                                             *)
Window == [proper : BOOLEAN, popup : BOOLEAN, disabled : BOOLEAN,
           blocked : BOOLEAN, owner : Windows \cup {NULL}]

VARIABLES window, gCurrentCapturedWnd

cwvars == <<window, gCurrentCapturedWnd>>

CwTypeOK ==
  /\ window \in [Windows -> Window]
  /\ gCurrentCapturedWnd \in Windows \cup {NULL}

IsPopup(w) == window[w].popup /\ gCurrentCapturedWnd # NULL

IsCapturableWindow(w) ==
  /\ window[w].proper
  /\ IF IsPopup(w)
     THEN window[w].owner # gCurrentCapturedWnd
     ELSE ~window[w].disabled /\ ~window[w].blocked

CwInit ==
  /\ window = [w \in Windows |-> [proper |-> FALSE, popup |-> FALSE, disabled |-> FALSE,
                                blocked |-> FALSE, owner |-> NULL]]
  /\ gCurrentCapturedWnd = NULL

SetCurrentCapturedWnd(w) ==
  /\ gCurrentCapturedWnd' = w
  /\ UNCHANGED window

(* Windows are made of any kind, shown, hidden, enabled, disabled, and     *)
(* change their style and their owner.                                     *)
Restyle(w, looks) ==
  /\ looks.owner # w
  /\ window' = [window EXCEPT ![w] = looks]
  /\ UNCHANGED gCurrentCapturedWnd

CwNext ==
  \/ \E w \in Windows \cup {NULL} : SetCurrentCapturedWnd(w)
  \/ \E w \in Windows, looks \in Window : Restyle(w, looks)

CwSpec == CwInit /\ [][CwNext]_cwvars

-----------------------------------------------------------------------------
(* "All kind of popup window should be filtered [...] An exception is the  *)
(* owner is current captured window", says the comment in the filter.      *)
PopupRule ==
  \A w \in Windows :
    IsPopup(w) /\ IsCapturableWindow(w) => window[w].owner = gCurrentCapturedWnd
=============================================================================
