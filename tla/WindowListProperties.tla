------------------------ MODULE WindowListProperties ------------------------
(***************************************************************************)
(* What makes WindowList correct, and its refinement of ChangeNotifier.    *)
(***************************************************************************)
EXTENDS WindowList

Fetching == \E c \in Clients : client[c] # "idle"
Busy == worker \in {"add_store", "remove_erase"}

(* windows_ and visible_wnds_ are two indexes of one collection: outside   *)
(* the critical sections of AddWindow and RemoveWindow they hold the same  *)
(* handles, and the vector holds each of them once.                        *)
ListMatchesSet ==
  wnd_list_mutex_ # Worker => /\ IsInjective(windows_)
                              /\ ToSet(windows_) = visible_wnds_

(* RemoveWindow calls windows_.erase(begin() + index) with no test that    *)
(* the search succeeded: it always does.                                   *)
EraseInRange == worker = "remove_erase" => cur \in ToSet(windows_)

(* The vector is never copied by GetCurrentWindows while AddWindow or      *)
(* RemoveWindow changes it.                                                *)
NoConflictingAccess == Busy => \A c \in Clients : client[c] # "copy"

(* GetCurrentWindows clears changed_ before it takes the mutex, so that a  *)
(* window that comes or goes in between is not forgotten: while no call is *)
(* under way and WindowsChangedSinceLastGet answers false, the list is     *)
(* what the latest call returned.                                          *)
NoMissedChange ==
  ~WindowsChangedSinceLastGet /\ ~Fetching /\ ~Busy => windows_ = lastGet

(* WorkProc holds a bare pointer to the object.  Once the destructor has   *)
(* returned, the worker (if there was one) is past its last use of it,     *)
(* provided the event it signals could be created.                         *)
FreedAfterQuit ==
  [][owner = "wait" /\ owner' = "freed" /\ event_quit_ # NULL => worker \in {"none", "done"}]_vars

(* The list is filled by SHOW and UNCLOAKED alone, and the filter is asked *)
(* when the callback runs, not when the event was raised.  With the hook   *)
(* in place, no event waiting and no callback running, every capturable    *)
(* window is in the list, but for those that became capturable in silence: *)
(* before the hook was there, or with no event of theirs on its way, by    *)
(* being enabled, resized, restyled or let in by another captured window.  *)
ShownIsListed ==
  worker = "loop" /\ events = <<>> /\ "wnd" \in hooks =>
    \A w \in Windows : IsCapturableWindow(w) => Listed(w) \/ w \in unreported

(* Provided that the clients stop polling, or at some time pause for good, *)
(* a window shown under the hook gets into the list, unless the filter     *)
(* refuses it again first or the object goes away.                         *)
ShownEventuallyListed ==
  <>[](~Fetching) =>
    \A w \in Windows :
      (IsCapturableWindow(w) /\ w \notin unreported /\ "wnd" \in hooks /\ owner = "live")
        ~> (Listed(w) \/ ~IsCapturableWindow(w) \/ owner # "live")

(* A destructor that finds the worker's message window when it posts       *)
(* WM_QUIT returns.                                                        *)
DestructorReturns == (owner = "post_quit" /\ msg_wnd_) ~> (owner = "freed")

(* Seen through its methods the object is a ChangeNotifier; a call that    *)
(* has cleared changed_ and not copied yet still owes the caller the list. *)
Notifier == INSTANCE ChangeNotifier
              WITH list <- windows_, dirty <- (changed_ \/ Fetching), last <- lastGet

NotifiesChanges == Notifier!Spec

-----------------------------------------------------------------------------
(* The inductive invariant behind the safety properties: who holds the     *)
(* mutex, how the two containers differ inside a critical section, and     *)
(* which of the two flags covers a change that is still under way.         *)

MutexInv ==
  /\ wnd_list_mutex_ = Worker <=> Busy
  /\ \A c \in Clients : wnd_list_mutex_ = c <=> client[c] = "copy"
  /\ owner \in {"enum", "create_thread"} => worker = "none" /\ ~Fetching

ListInv ==
  /\ IsInjective(windows_)
  /\ worker = "remove_erase" => cur \notin visible_wnds_
  /\ worker = "add_store" => cur \notin visible_wnds_
  /\ ToSet(windows_) = IF worker = "remove_erase" THEN visible_wnds_ \cup {cur}
                                                   ELSE visible_wnds_

ChangeInv == ~(changed_ \/ Fetching) => windows_ = lastGet /\ ~Busy

QuitInv ==
  /\ event_quit_ = "set" => worker = "done"
  /\ worker # "none" => owner \notin {"enum", "create_thread"}

IInv == TypeOK /\ QuitInv /\ MutexInv /\ ListInv /\ ChangeInv

(* Why a capturable window is listed: the queue announces it, or its SHOW  *)
(* is being dealt with, or it is listed and no event takes it out.         *)
Pending(w) ==
  \/ Announced(w)
  \/ /\ \A j \in DOMAIN events : events[j].hwnd = w => events[j].event # "DESTROY"
     /\ \/ worker \in {"add", "add_store"} /\ cur = w
        \/ Listed(w) /\ ~(worker = "remove" /\ cur = w)

Unhooked == worker \in {"none", "create", "hook_wnd"}

ReportInv ==
  /\ owner # "enum" => enumLeft = {}
  /\ Unhooked => hooks = {} /\ events = <<>>
  /\ \A w \in Windows : IsCapturableWindow(w) /\ w \notin unreported =>
       /\ Unhooked => Listed(w) \/ w \in enumLeft
       /\ "wnd" \in hooks => Pending(w)
=============================================================================
