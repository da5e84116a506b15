-------------------------- MODULE WindowListProcess --------------------------
(***************************************************************************)
(* Several WindowLists in one process: what they share is the window class *)
(* of their message windows and the thread-local WindowListForThread, the  *)
(* only way from a WinEvent callback back to its list.                     *)
(***************************************************************************)
CONSTANTS Lists,    \* WindowList objects
          Threads   \* threads that construct and destroy them

nullptr == "nullptr"

ASSUME ListsAssumption == nullptr \notin Lists /\ Lists \cap Threads = {}

VARIABLES list,     \* each list: none, live, destroying, gone
          builder,  \* the thread that constructed it
          worker,   \* where its worker is; the worker of a list is named by it
          WindowListForThread,
          class,    \* is the window class registered?
          wnds,     \* lists whose message window exists
          noWnd     \* lists whose CreateWindow found no class

vars == <<list, builder, worker, WindowListForThread, class, wnds, noWnd>>

TypeOK ==
  /\ list \in [Lists -> {"none", "live", "destroying", "gone"}]
  /\ builder \in [Lists -> Threads \cup {nullptr}]
  /\ worker \in [Lists -> {"none", "register", "create", "loop", "unregister", "exit", "done"}]
  /\ WindowListForThread \in [Lists \cup Threads -> Lists \cup {nullptr}]
  /\ class \in BOOLEAN
  /\ wnds \in SUBSET Lists
  /\ noWnd \in SUBSET Lists

Init ==
  /\ list = [l \in Lists |-> "none"]
  /\ builder = [l \in Lists |-> nullptr]
  /\ worker = [l \in Lists |-> "none"]
  /\ WindowListForThread = [t \in Lists \cup Threads |-> nullptr]
  /\ class = FALSE
  /\ wnds = {}
  /\ noWnd = {}

WorkerStep(l, here, next) ==
  /\ worker[l] = here
  /\ worker' = [worker EXCEPT ![l] = next]

(* The constructor throws if its own thread has a list; on a thread that   *)
(* is no GUI thread it throws before, and leaves nothing (Threads are GUI  *)
(* threads).                                                               *)
Construct(l, t) ==
  /\ list[l] = "none"
  /\ WindowListForThread[t] = nullptr
  /\ list' = [list EXCEPT ![l] = "live"]
  /\ builder' = [builder EXCEPT ![l] = t]
  /\ WorkerStep(l, "none", "register")
  /\ UNCHANGED <<WindowListForThread, class, wnds, noWnd>>

(* WorkProc up to RegisterClassEx, which fails without harm when another   *)
(* list has registered the class.                                          *)
RegisterWndClass(l) ==
  /\ WorkerStep(l, "register", "create")
  /\ WindowListForThread' = [WindowListForThread EXCEPT ![l] = l]
  /\ class' = TRUE
  /\ UNCHANGED <<list, builder, wnds, noWnd>>

CreateMsgWnd(l) ==
  /\ WorkerStep(l, "create", "loop")
  /\ wnds' = IF class THEN wnds \cup {l} ELSE wnds
  /\ noWnd' = IF class THEN noWnd ELSE noWnd \cup {l}
  /\ UNCHANGED <<list, builder, WindowListForThread, class>>

(* The destructor posts WM_QUIT to the message window... *)
Destruct(l) ==
  /\ list[l] = "live"
  /\ list' = [list EXCEPT ![l] = "destroying"]
  /\ UNCHANGED <<builder, worker, WindowListForThread, class, wnds, noWnd>>

(* ...which ends the loop, if there was a window to post it to. *)
LeaveLoop(l) ==
  /\ list[l] = "destroying"
  /\ l \in wnds
  /\ WorkerStep(l, "loop", "unregister")
  /\ WindowListForThread' = [WindowListForThread EXCEPT ![l] = nullptr]
  /\ UNCHANGED <<list, builder, class, wnds, noWnd>>

UnregisterDestroysWindow(l) ==
  /\ WorkerStep(l, "unregister", "exit")
  /\ wnds' = wnds \ {l}
  /\ class' = (class /\ wnds' # {})
  /\ UNCHANGED <<list, builder, WindowListForThread, noWnd>>

(* UnregisterClass fails as long as a window of the class exists; that of  *)
(* the calling worker still does, for WM_QUIT destroys no window.          *)
UnregisterWndClass(l) ==
  /\ WorkerStep(l, "unregister", "exit")
  /\ class' = (class /\ wnds # {})
  /\ UNCHANGED <<list, builder, WindowListForThread, wnds, noWnd>>

(* SetEvent lets the destructor return; the window goes with the thread. *)
ExitWorker(l) ==
  /\ WorkerStep(l, "exit", "done")
  /\ list' = [list EXCEPT ![l] = "gone"]
  /\ wnds' = wnds \ {l}
  /\ UNCHANGED <<builder, WindowListForThread, class, noWnd>>

Next ==
  \E l \in Lists :
    \/ \E t \in Threads : Construct(l, t)
    \/ RegisterWndClass(l)
    \/ CreateMsgWnd(l)
    \/ Destruct(l)
    \/ LeaveLoop(l)
    \/ UnregisterWndClass(l)
    \/ ExitWorker(l)

Spec == Init /\ [][Next]_vars

-----------------------------------------------------------------------------
(* No worker is left without its message window, without which the         *)
(* destructor would wait for ever: no list takes the class away between    *)
(* another's RegisterClassEx, which failed, and its CreateWindow.          *)
EveryWorkerHasWindow == noWnd = {}

(* "WindowList already exists for this thread!", the exception of the      *)
(* constructor: a thread has no two lists at a time.                       *)
OneListPerThread ==
  \A l, m \in Lists :
    {list[l], list[m]} = {"live"} /\ builder[l] = builder[m] => l = m

-----------------------------------------------------------------------------
(* The argument: a worker on its way to CreateWindow sees a class, because *)
(* only a worker whose own window still exists calls UnregisterClass.      *)
ClassInv ==
  /\ TypeOK
  /\ noWnd = {}
  /\ \A l \in Lists :
       /\ worker[l] = "create" => class
       /\ worker[l] = "unregister" => l \in wnds
=============================================================================
