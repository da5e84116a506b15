----------------------------- MODULE WindowList -----------------------------
(***************************************************************************)
(* lava::WindowList (window-list/WindowListHelper.h and .cpp): a list of   *)
(* the windows worth capturing, filled by the constructor from EnumWindows *)
(* and kept up to date by a worker thread that listens to WinEvents.       *)
(*                                                                         *)
(* Threads: the owner, which runs the constructor and the destructor; the  *)
(* clients, which call GetCurrentWindows while the object lives; the       *)
(* worker, which runs WorkProc.  The desktop (every other process, and     *)
(* whoever calls SetCurrentCapturedWnd) shows, alters and destroys windows *)
(* at any moment; only some of what it does raises an event that the       *)
(* worker looks at.                                                        *)
(*                                                                         *)
(* changed_ and msg_wnd_ are read and written without the mutex.  Both are *)
(* one aligned word, and the store to changed_ in GetCurrentWindows is     *)
(* followed by the locked instruction of the mutex: their accesses are     *)
(* single steps in program order.                                          *)
(***************************************************************************)
EXTENDS Naturals, Sequences, SequencesExt

CONSTANTS Windows,     \* handles of top-level windows; a handle can be reused
          Clients,     \* threads that poll the list
          ApiResults,  \* what CreateEvent, CreateThread, CreateWindow and
                       \* SetWinEventHook may answer: a set of BOOLEANs
          MaxPending   \* bound: WinEvents waiting for the worker

Worker == "worker"
Free == "free"
NULL == "NULL"

ASSUME ClientsAssumption == Clients \cap {Worker, Free} = {}
ASSUME ApiAssumption == ApiResults \subseteq BOOLEAN
ASSUME PendingAssumption == MaxPending \in Nat

VARIABLES
  msg_wnd_, event_quit_, wnd_hook_, forewnd_change_hook_,
  changed_, windows_, visible_wnds_, wnd_list_mutex_,
  owner,      \* where the owner is
  enumLeft,   \* windows EnumWindows has still to report
  client,     \* where each client is
  worker,     \* where the worker is
  cur,        \* the window the worker adds or removes
  desktop,    \* each handle: absent (no top-level window: none at all, or a
              \* child), refused by the filter (hidden, disabled, empty, of a
              \* blocked class, a popup of the captured window), capturable,
              \* or dying
  hooks,      \* WinEvent hooks installed
  events,     \* WinEvents queued for the worker's callbacks
  posted,     \* messages posted to msg_wnd_
  lastGet,    \* history: what the latest GetCurrentWindows returned
  unreported  \* history: windows that became capturable with no SHOW or
              \* UNCLOAKED, raised then or still waiting, to tell the worker

handles == <<msg_wnd_, event_quit_, wnd_hook_, forewnd_change_hook_>>
list == <<windows_, visible_wnds_>>
system == <<desktop, hooks, events, posted>>
vars == <<handles, changed_, list, wnd_list_mutex_, owner, enumLeft, client,
          worker, cur, system, lastGet, unreported>>

Hooks == {"wnd", "fore"}
WinEvent == [event : {"DESTROY", "SHOW", "FOREGROUND"}, hwnd : Windows]
Verdicts == {"absent", "refused", "capturable"}
Message == [msg : {"WM_UNHOOKWIN", "WM_QUIT"}, hook : Hooks \cup {NULL}]

TypeOK ==
  /\ msg_wnd_ \in BOOLEAN                       \* TRUE: not NULL
  /\ event_quit_ \in {NULL, "reset", "set"}
  /\ wnd_hook_ \in {NULL, "wnd"}
  /\ forewnd_change_hook_ \in {NULL, "fore"}
  /\ changed_ \in BOOLEAN
  /\ windows_ \in Seq(Windows)
  /\ visible_wnds_ \in SUBSET Windows
  /\ wnd_list_mutex_ \in {Free, Worker} \cup Clients
  /\ owner \in {"enum", "create_thread", "live", "unhook_wnd", "post_quit",
                "wait", "freed"}
  /\ enumLeft \in SUBSET Windows
  /\ client \in [Clients -> {"idle", "lock", "copy"}]
  /\ worker \in {"none", "create", "hook_wnd", "hook_fore", "loop", "add",
                 "add_store", "remove", "remove_erase", "quit", "done"}
  /\ cur \in Windows
  /\ desktop \in [Windows -> Verdicts \cup {"dying"}]
  /\ hooks \in SUBSET Hooks
  /\ events \in Seq(WinEvent)
  /\ posted \in Seq(Message)
  /\ lastGet \in Seq(Windows)
  /\ unreported \in SUBSET Windows

(* GetAncestor(hwnd, GA_ROOT) == hwnd: it answers NULL for a window gone.  *)
IsRoot(w) == desktop[w] # "absent"

(* What the filter says now: it asks the window for its style and its      *)
(* rectangle, and compares the captured window, each time it is called.    *)
IsCapturableWindow(w) == desktop[w] = "capturable"

ListedForgotten(w) == FALSE
(* visible_wnds_.find(w) finds it. *)
Listed(w) == w \in visible_wnds_

Init ==
  /\ msg_wnd_ = FALSE
  /\ event_quit_ = NULL
  /\ wnd_hook_ = NULL
  /\ forewnd_change_hook_ = NULL
  /\ changed_ = FALSE
  /\ windows_ = <<>>
  /\ visible_wnds_ = {}
  /\ wnd_list_mutex_ = Free
  /\ owner = "enum"
  /\ client = [c \in Clients |-> "idle"]
  /\ worker = "none"
  /\ cur \in Windows
  /\ desktop \in [Windows -> Verdicts]
  /\ enumLeft = {w \in Windows : IsRoot(w)}
  /\ hooks = {}
  /\ events = <<>>
  /\ posted = <<>>
  /\ lastGet = <<>>
  /\ unreported = {}

-----------------------------------------------------------------------------
(* The constructor, on a GUI thread: on another it throws (IsGUIThread)    *)
(* before it has done anything, and there is no object.                    *)

(* The EnumWindows callback with the AddWindow it calls, in one step:      *)
(* nobody else can reach the object yet.                                   *)
EnumWindow(w) ==
  /\ owner = "enum"
  /\ w \in enumLeft
  /\ enumLeft' = enumLeft \ {w}
  /\ IF IsCapturableWindow(w) /\ ~Listed(w)
     THEN /\ changed_' = TRUE
          /\ windows_' = Append(windows_, w)
          /\ visible_wnds_' = visible_wnds_ \cup {w}
          /\ unreported' = unreported \ {w}
     ELSE UNCHANGED <<changed_, list, unreported>>
  /\ UNCHANGED <<handles, wnd_list_mutex_, owner, client, worker, cur, system,
                 lastGet>>

CreateQuitEvent ==
  /\ owner = "enum"
  /\ enumLeft = {}
  /\ \E ok \in ApiResults : event_quit_' = IF ok THEN "reset" ELSE NULL
  /\ owner' = "create_thread"
  /\ UNCHANGED <<msg_wnd_, wnd_hook_, forewnd_change_hook_, changed_, list,
                 wnd_list_mutex_, enumLeft, client, worker, cur, system,
                 lastGet, unreported>>

(* CreateThread and the end of the constructor, which checks neither. *)
CreateWorkThread ==
  /\ owner = "create_thread"
  /\ \E ok \in ApiResults : worker' = IF ok THEN "create" ELSE "none"
  /\ owner' = "live"
  /\ UNCHANGED <<handles, changed_, list, wnd_list_mutex_, enumLeft, client,
                 cur, system, lastGet, unreported>>

-----------------------------------------------------------------------------
(* The destructor.  Nobody calls a method of an object being destroyed, so *)
(* it starts when the clients are between calls.                           *)

(* PostMessage, which reads msg_wnd_ anew each time: a message for a NULL  *)
(* window goes to the queue of the calling thread, where nobody reads it.  *)
Post(m, here, next) ==
  /\ owner = here
  /\ owner' = next
  /\ posted' = IF msg_wnd_ THEN Append(posted, m) ELSE posted
  /\ UNCHANGED <<handles, changed_, list, wnd_list_mutex_, enumLeft, client,
                 worker, cur, desktop, hooks, events, lastGet, unreported>>

Unhook(hook) == [msg |-> "WM_UNHOOKWIN", hook |-> hook]

PostUnhookFore ==
  /\ \A c \in Clients : client[c] = "idle"
  /\ Post(Unhook(forewnd_change_hook_), "live", "unhook_wnd")

PostUnhookWnd == Post(Unhook(wnd_hook_), "unhook_wnd", "post_quit")

PostQuit == Post([msg |-> "WM_QUIT", hook |-> NULL], "post_quit", "wait")

WaitQuitNoWait ==
  /\ owner = "wait"
  /\ event_quit_' = NULL
  /\ msg_wnd_' = FALSE
  /\ owner' = "freed"
  /\ UNCHANGED <<wnd_hook_, forewnd_change_hook_, changed_, list,
                 wnd_list_mutex_, enumLeft, client, worker, cur, system,
                 lastGet, unreported>>

(* WaitForSingleObject(event_quit_, INFINITE), skipped when CreateEvent    *)
(* failed; then the members are destroyed.                                 *)
WaitQuit ==
  /\ owner = "wait"
  /\ event_quit_ # "reset"
  /\ event_quit_' = NULL
  /\ msg_wnd_' = FALSE
  /\ owner' = "freed"
  /\ UNCHANGED <<wnd_hook_, forewnd_change_hook_, changed_, list,
                 wnd_list_mutex_, enumLeft, client, worker, cur, system,
                 lastGet, unreported>>

-----------------------------------------------------------------------------
(* GetCurrentWindows, called by a client. *)

(* changed_ = false, before the mutex is taken. *)
ClearChanged(c) ==
  /\ owner = "live"
  /\ client[c] = "idle"
  /\ changed_' = FALSE
  /\ client' = [client EXCEPT ![c] = "lock"]
  /\ UNCHANGED <<handles, list, wnd_list_mutex_, owner, enumLeft, worker, cur,
                 system, lastGet, unreported>>

LockForCopyNoLock(c) ==
  /\ client[c] = "lock"
  /\ client' = [client EXCEPT ![c] = "copy"]
  /\ UNCHANGED <<handles, changed_, list, wnd_list_mutex_, owner, enumLeft,
                 worker, cur, system, lastGet, unreported>>

LockForCopy(c) ==
  /\ client[c] = "lock"
  /\ wnd_list_mutex_ = Free
  /\ wnd_list_mutex_' = c
  /\ client' = [client EXCEPT ![c] = "copy"]
  /\ UNCHANGED <<handles, changed_, list, owner, enumLeft, worker, cur, system,
                 lastGet, unreported>>

(* ret = windows_, and the mutex is released. *)
CopyWindows(c) ==
  /\ client[c] = "copy"
  /\ lastGet' = windows_
  /\ wnd_list_mutex_' = Free
  /\ client' = [client EXCEPT ![c] = "idle"]
  /\ UNCHANGED <<handles, changed_, list, owner, enumLeft, worker, cur, system,
                 unreported>>

GetCurrentWindowsClearLast(c) ==
  /\ \/ /\ owner = "live"
        /\ client[c] = "idle"
        /\ wnd_list_mutex_ = Free
        /\ lastGet' = windows_
        /\ client' = [client EXCEPT ![c] = "lock"]
        /\ UNCHANGED changed_
     \/ /\ client[c] = "lock"
        /\ changed_' = FALSE
        /\ client' = [client EXCEPT ![c] = "idle"]
        /\ UNCHANGED lastGet
  /\ UNCHANGED <<handles, list, wnd_list_mutex_, owner, enumLeft, worker, cur,
                 system, unreported>>

GetCurrentWindows(c) == ClearChanged(c) \/ LockForCopy(c) \/ CopyWindows(c)

(* A read of one member. *)
WindowsChangedSinceLastGet == changed_

-----------------------------------------------------------------------------
(* WorkProc, before and after its message loop. *)

CreateMsgWnd ==
  /\ worker = "create"
  /\ msg_wnd_' \in ApiResults
  /\ worker' = "hook_wnd"
  /\ UNCHANGED <<event_quit_, wnd_hook_, forewnd_change_hook_, changed_, list,
                 wnd_list_mutex_, owner, enumLeft, client, cur, system,
                 lastGet, unreported>>

(* The two SetWinEventHook calls. *)
SetHook(hook, result, here, next) ==
  /\ worker = here
  /\ worker' = next
  /\ \E ok \in ApiResults :
       /\ result = IF ok THEN hook ELSE NULL
       /\ hooks' = IF ok THEN hooks \cup {hook} ELSE hooks
  /\ UNCHANGED <<msg_wnd_, event_quit_, changed_, list, wnd_list_mutex_, owner,
                 enumLeft, client, cur, desktop, events, posted, lastGet,
                 unreported>>

HookWindows ==
  /\ SetHook("wnd", wnd_hook_', "hook_wnd", "hook_fore")
  /\ UNCHANGED forewnd_change_hook_

HookForeground ==
  /\ SetHook("fore", forewnd_change_hook_', "hook_fore", "loop")
  /\ UNCHANGED wnd_hook_

(* GetMessage returns a posted message.  WM_QUIT ends the loop; WindowProc *)
(* unhooks what the message names.                                         *)
DispatchPosted ==
  /\ worker = "loop"
  /\ posted # <<>>
  /\ posted' = Tail(posted)
  /\ IF Head(posted).msg = "WM_QUIT"
     THEN worker' = "quit" /\ UNCHANGED hooks
     ELSE hooks' = hooks \ {Head(posted).hook} /\ UNCHANGED worker
  /\ UNCHANGED <<handles, changed_, list, wnd_list_mutex_, owner, enumLeft,
                 client, cur, desktop, events, lastGet, unreported>>

SignalQuitForgotten ==
  /\ worker = "quit"
  /\ worker' = "done"
  /\ hooks' = {}
  /\ events' = <<>>
  /\ posted' = <<>>
  /\ UNCHANGED <<handles, changed_, list, wnd_list_mutex_, owner, enumLeft,
                 client, cur, desktop, lastGet, unreported>>

(* SetEvent(event_quit_) and the end of the thread, which takes its hooks  *)
(* and its queues along.                                                   *)
SignalQuit ==
  /\ worker = "quit"
  /\ event_quit_' = IF event_quit_ = NULL THEN NULL ELSE "set"
  /\ worker' = "done"
  /\ hooks' = {}
  /\ events' = <<>>
  /\ posted' = <<>>
  /\ UNCHANGED <<msg_wnd_, wnd_hook_, forewnd_change_hook_, changed_, list,
                 wnd_list_mutex_, owner, enumLeft, client, cur, desktop,
                 lastGet, unreported>>

-----------------------------------------------------------------------------
(* The WinEvent callbacks, run by GetMessage, out of context: the window   *)
(* is asked for its ancestor and its style when the callback runs, not     *)
(* when the event happened.                                                *)
Ignored(e, w) == ~IsRoot(w) \/ (e = "SHOW" /\ ~IsCapturableWindow(w))

WinEventProc(e, w) ==
  \/ Ignored(e, w) /\ UNCHANGED <<worker, cur, changed_>>
  \/ /\ ~Ignored(e, w)
     /\ \/ e = "DESTROY" /\ worker' = "remove" /\ cur' = w /\ UNCHANGED changed_
        \/ e = "SHOW" /\ worker' = "add" /\ cur' = w /\ UNCHANGED changed_
        \/ e = "FOREGROUND" /\ changed_' = TRUE /\ UNCHANGED <<worker, cur>>

DeliverEvent ==
  /\ worker = "loop"
  /\ events # <<>>
  /\ events' = Tail(events)
  /\ WinEventProc(Head(events).event, Head(events).hwnd)
  /\ UNCHANGED <<handles, list, wnd_list_mutex_, owner, enumLeft, client,
                 desktop, hooks, posted, lastGet, unreported>>

AddFindTryLock ==
  /\ worker = "add"
  /\ IF Listed(cur) \/ wnd_list_mutex_ # Free
     THEN worker' = "loop" /\ UNCHANGED <<changed_, wnd_list_mutex_>>
     ELSE /\ wnd_list_mutex_' = Worker
          /\ changed_' = TRUE
          /\ worker' = "add_store"
  /\ UNCHANGED <<handles, list, owner, enumLeft, client, cur, system, lastGet,
                 unreported>>

(* AddWindow takes the mutex and looks the handle up; a window that is     *)
(* already there changes nothing.                                          *)
AddFind ==
  /\ worker = "add"
  /\ wnd_list_mutex_ = Free
  /\ IF Listed(cur)
     THEN worker' = "loop" /\ UNCHANGED <<changed_, wnd_list_mutex_>>
     ELSE /\ wnd_list_mutex_' = Worker
          /\ changed_' = TRUE
          /\ worker' = "add_store"
  /\ UNCHANGED <<handles, list, owner, enumLeft, client, cur, system, lastGet,
                 unreported>>

AddStore ==
  /\ worker = "add_store"
  /\ windows_' = Append(windows_, cur)
  /\ visible_wnds_' = visible_wnds_ \cup {cur}
  /\ wnd_list_mutex_' = Free
  /\ worker' = "loop"
  /\ UNCHANGED <<handles, changed_, owner, enumLeft, client, cur, system,
                 lastGet, unreported>>

RemoveFindKeepsHandle ==
  /\ worker = "remove"
  /\ wnd_list_mutex_ = Free
  /\ IF Listed(cur)
     THEN /\ wnd_list_mutex_' = Worker
          /\ changed_' = (changed_ \/ cur \in ToSet(windows_))
          /\ worker' = "remove_erase"
     ELSE worker' = "loop" /\ UNCHANGED <<changed_, wnd_list_mutex_>>
  /\ UNCHANGED <<handles, list, owner, enumLeft, client, cur, system, lastGet,
                 unreported>>

RemoveFindSilent ==
  /\ worker = "remove"
  /\ wnd_list_mutex_ = Free
  /\ IF Listed(cur)
     THEN /\ wnd_list_mutex_' = Worker
          /\ visible_wnds_' = visible_wnds_ \ {cur}
          /\ worker' = "remove_erase"
     ELSE worker' = "loop" /\ UNCHANGED <<visible_wnds_, wnd_list_mutex_>>
  /\ UNCHANGED <<handles, changed_, windows_, owner, enumLeft, client, cur,
                 system, lastGet, unreported>>

(* RemoveWindow takes the mutex, erases the handle from the set and looks  *)
(* for it in the vector: the flag goes up where it is found.               *)
RemoveFind ==
  /\ worker = "remove"
  /\ wnd_list_mutex_ = Free
  /\ IF Listed(cur)
     THEN /\ wnd_list_mutex_' = Worker
          /\ visible_wnds_' = visible_wnds_ \ {cur}
          /\ changed_' = (changed_ \/ cur \in ToSet(windows_))
          /\ worker' = "remove_erase"
     ELSE worker' = "loop" /\ UNCHANGED <<visible_wnds_, changed_, wnd_list_mutex_>>
  /\ UNCHANGED <<handles, windows_, owner, enumLeft, client, cur, system,
                 lastGet, unreported>>

(* windows_.erase(begin() + index), index being the first match.  With no  *)
(* match it is size() and the call is undefined: no outcome is given to it *)
(* here, and EraseInRange says that it does not happen.                    *)
RemoveErase ==
  /\ worker = "remove_erase"
  /\ \E i \in DOMAIN windows_ :
       /\ windows_[i] = cur
       /\ \A j \in 1..(i - 1) : windows_[j] # cur
       /\ windows_' = RemoveAt(windows_, i)
  /\ wnd_list_mutex_' = Free
  /\ worker' = "loop"
  /\ UNCHANGED <<handles, changed_, visible_wnds_, owner, enumLeft, client,
                 cur, system, lastGet, unreported>>

-----------------------------------------------------------------------------
(* The desktop.  An event is queued only for an installed hook. *)

Report(hook, e, w) ==
  /\ Len(events) < MaxPending
  /\ events' = IF hook \in hooks THEN Append(events, [event |-> e, hwnd |-> w])
                                 ELSE events

(* The latest the queue says of w is that it was shown. *)
Announced(w) ==
  \E k \in DOMAIN events :
    /\ events[k].event = "SHOW" /\ events[k].hwnd = w
    /\ \A j \in DOMAIN events : j > k /\ events[j].hwnd = w => events[j].event # "DESTROY"

(* EVENT_OBJECT_SHOW and EVENT_OBJECT_UNCLOAKED, whatever the filter is    *)
(* going to say of the window.                                             *)
Show(w, verdict) ==
  /\ desktop[w] # "dying"
  /\ desktop' = [desktop EXCEPT ![w] = verdict]
  /\ Report("wnd", "SHOW", w)

(* Whatever raises neither: a window is hidden, disabled or enabled,       *)
(* emptied or resized, gets another style or parent.                       *)
Alter(w, verdict) ==
  /\ desktop[w] \notin {"dying", verdict}
  /\ desktop' = [desktop EXCEPT ![w] = verdict]
  /\ UNCHANGED events

(* Another captured window: popups are let in and refused, many at once.   *)
SetCurrentCapturedWnd(popups) ==
  /\ \A w \in popups : desktop[w] \in {"refused", "capturable"}
  /\ desktop' = [w \in Windows |->
                   CASE w \notin popups      -> desktop[w]
                     [] IsCapturableWindow(w) -> "refused"
                     [] OTHER                 -> "capturable"]
  /\ UNCHANGED events

(* DestroyWindow reports first, for a child too; the handle of a top-level *)
(* window stays valid a little longer.                                     *)
Destroy(w) ==
  /\ desktop[w] # "dying"
  /\ desktop' = [desktop EXCEPT ![w] = IF IsRoot(w) THEN "dying" ELSE "absent"]
  /\ Report("wnd", "DESTROY", w)

Vanish(w) ==
  /\ desktop[w] = "dying"
  /\ desktop' = [desktop EXCEPT ![w] = "absent"]
  /\ UNCHANGED events

Foreground(w) ==
  /\ "fore" \in hooks
  /\ desktop[w] \in {"refused", "capturable"}
  /\ Report("fore", "FOREGROUND", w)
  /\ UNCHANGED desktop

Desktop ==
  /\ \/ \E w \in Windows, verdict \in {"refused", "capturable"} : Show(w, verdict)
     \/ \E w \in Windows, verdict \in Verdicts : Alter(w, verdict)
     \/ \E popups \in SUBSET Windows : SetCurrentCapturedWnd(popups)
     \/ \E w \in Windows : Destroy(w) \/ Vanish(w) \/ Foreground(w)
  /\ unreported' = {w \in Windows :
                      /\ IsCapturableWindow(w)'
                      /\ ~Announced(w)'
                      /\ IsCapturableWindow(w) => w \in unreported}
  /\ UNCHANGED <<handles, changed_, list, wnd_list_mutex_, owner, enumLeft,
                 client, worker, cur, hooks, posted, lastGet>>

-----------------------------------------------------------------------------
Constructor == (\E w \in Windows : EnumWindow(w)) \/ CreateQuitEvent \/ CreateWorkThread
Destructor == PostUnhookFore \/ PostUnhookWnd \/ PostQuit \/ WaitQuit
AddWindow == AddFind \/ AddStore
RemoveWindow == RemoveFind \/ RemoveErase
WorkProc == CreateMsgWnd \/ HookWindows \/ HookForeground \/ DispatchPosted
              \/ SignalQuit \/ DeliverEvent \/ AddWindow \/ RemoveWindow

Next ==
  \/ Constructor
  \/ Destructor
  \/ \E c \in Clients : GetCurrentWindows(c)
  \/ WorkProc
  \/ Desktop

Spec == Init /\ [][Next]_vars

(* A thread that can run does run: the constructor, a destructor that has  *)
(* started, the worker, a call that has started.  Nothing is owed to a     *)
(* thread that waits for a mutex others keep taking.  GetMessage does not  *)
(* put a posted message off for ever, although it competes with events.    *)
(* Neither the desktop nor a next call is owed.                            *)
Fairness ==
  /\ WF_vars(Constructor)
  /\ WF_vars(PostUnhookWnd \/ PostQuit \/ WaitQuit)
  /\ WF_vars(WorkProc)
  /\ SF_vars(DispatchPosted)
  /\ \A c \in Clients : WF_vars(LockForCopy(c) \/ CopyWindows(c))

FairSpec == Spec /\ Fairness
=============================================================================
