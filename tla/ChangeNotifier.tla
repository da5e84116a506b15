--------------------------- MODULE ChangeNotifier ---------------------------
(***************************************************************************)
(* What lava::WindowList promises to the code that polls it: a list of     *)
(* distinct windows, and a flag such that while the flag is down the list  *)
(* is the one the latest GetCurrentWindows returned.  A poller may skip    *)
(* GetCurrentWindows as long as WindowsChangedSinceLastGet answers false.  *)
(***************************************************************************)
EXTENDS Sequences, SequencesExt

CONSTANT Windows

VARIABLES list,   \* the windows on offer, oldest first
          dirty,  \* the list may differ from what was last returned
          last    \* what the latest GetCurrentWindows returned

vars == <<list, dirty, last>>

Init ==
  /\ list = <<>>
  /\ dirty \in BOOLEAN
  /\ last = <<>>

(* A window joins the end of the list. *)
Add ==
  \E w \in Windows :
    /\ w \notin ToSet(list)
    /\ list' = Append(list, w)
    /\ dirty' = TRUE
    /\ UNCHANGED last

(* A window leaves the list; the others keep their order. *)
Drop ==
  \E i \in DOMAIN list :
    /\ list' = RemoveAt(list, i)
    /\ dirty' = TRUE
    /\ UNCHANGED last

(* The flag may be raised for other reasons: a new foreground window. *)
Raise ==
  /\ dirty' = TRUE
  /\ UNCHANGED <<list, last>>

(* The list is returned; only now may the flag come down. *)
Get ==
  /\ last' = list
  /\ dirty' \in BOOLEAN
  /\ UNCHANGED list

Next == Add \/ Drop \/ Raise \/ Get

Spec == Init /\ [][Next]_vars
=============================================================================
