-------------------------- MODULE TrackerLifecycle --------------------------
(***************************************************************************)
(* The life of a TrackerWnd (WindowsProject1/tracker_wnd_win.cc): callers  *)
(* that share it start and stop tracking and drop their references; each   *)
(* start creates a worker thread with a bare pointer to the object, and    *)
(* the worker's window procedure takes a reference of its own.  A worker,  *)
(* its window and its quit event are named by the round they belong to.    *)
(* The process is DPI-aware (start does nothing in one that is not).       *)
(***************************************************************************)
EXTENDS Naturals

CONSTANTS Callers,     \* threads that hold a reference
          MaxRounds    \* bound: starts that begin a round

ASSUME TrackerAssumption == MaxRounds \in Nat /\ Callers \cap (0..MaxRounds) = {}

NULL == 0
Free == 0
Rounds == 1..MaxRounds
Threads == Callers \cup Rounds

VARIABLES object,       \* the heap object behind the shared_ptr
          refs,         \* threads with a reference: callers, and workers through tls_tracker_wnd
          track_wnd_mutex_, tracking_, event_quit_, tracker_wnd_,
          pc,
          signalled,    \* quit events that are set
          windows,      \* windows that exist
          quits,        \* windows with WM_QUIT in their queue
          eventFailed   \* history: a CreateEvent failed

members == <<track_wnd_mutex_, tracking_, event_quit_, tracker_wnd_>>
system == <<signalled, windows, quits>>
vars == <<object, refs, members, pc, system, eventFailed>>

Calling == {"idle", "construct", "unwind", "stop_wait"}
Working == {"none", "begin", "loop", "signal", "exit", "returned", "terminated"}
Destroying == {"dtor", "dtor_wait", "gone"}

TypeOK ==
  /\ object \in {"none", "constructing", "alive", "destroying", "freed", "unwound"}
  /\ refs \subseteq Threads
  /\ track_wnd_mutex_ \in Threads \cup {Free}
  /\ tracking_ \in BOOLEAN
  /\ event_quit_ \in Rounds \cup {NULL}
  /\ tracker_wnd_ \in Rounds \cup {NULL}
  /\ pc \in [Threads -> Calling \cup Working \cup Destroying]
  /\ signalled \subseteq Rounds
  /\ windows \subseteq Rounds
  /\ quits \subseteq Rounds
  /\ eventFailed \in BOOLEAN

Init ==
  /\ object = "none"
  /\ refs = {}
  /\ track_wnd_mutex_ = Free
  /\ tracking_ = FALSE
  /\ event_quit_ = NULL
  /\ tracker_wnd_ = NULL
  /\ pc = [t \in Threads |-> IF t \in Callers THEN "idle" ELSE "none"]
  /\ signalled = {}
  /\ windows = {}
  /\ quits = {}
  /\ eventFailed = FALSE

-----------------------------------------------------------------------------
(* create: without start_on_create the constructor has nothing to do. *)
create(c, start_on_create) ==
  /\ pc[c] = "idle"
  /\ object = "none"
  /\ IF start_on_create
     THEN object' = "constructing" /\ pc' = [pc EXCEPT ![c] = "construct"] /\ UNCHANGED refs
     ELSE object' = "alive" /\ refs' = Callers /\ UNCHANGED pc
  /\ UNCHANGED <<members, system, eventFailed>>

Restartable == TRUE
Startable == ~tracking_

(* The body of start below its test of tracking_, under the mutex.  It     *)
(* ends in a throw, also when CreateEvent or CreateThread failed.          *)
StartRound(r, next) ==
  /\ Startable
  /\ track_wnd_mutex_ = Free
  /\ pc[r] = "none" /\ \A q \in Rounds : q < r => pc[q] # "none"
  /\ tracking_' = TRUE
  /\ \/ event_quit_' = r /\ UNCHANGED eventFailed
     \/ event_quit_' = NULL /\ eventFailed' = TRUE
  /\ \/ pc' = [next EXCEPT ![r] = "begin"]
     \/ pc' = [next EXCEPT ![r] = "returned"]
  /\ UNCHANGED <<refs, track_wnd_mutex_, tracker_wnd_, system>>

start(c) ==
  /\ pc[c] = "idle" /\ c \in refs
  /\ \E r \in Rounds : StartRound(r, pc)
  /\ UNCHANGED object

(* In the constructor the throw goes on: there will be no object. *)
StartInConstructor(c) ==
  /\ pc[c] = "construct"
  /\ \E r \in Rounds : StartRound(r, [pc EXCEPT ![c] = "unwind"])
  /\ UNCHANGED object

Unwind(c) ==
  /\ pc[c] = "unwind"
  /\ object' = "unwound"
  /\ pc' = [pc EXCEPT ![c] = "idle"]
  /\ UNCHANGED <<refs, members, system, eventFailed>>

-----------------------------------------------------------------------------
(* stop, called by a caller or by the destructor on thread t: the message  *)
(* reaches a window that exists; then t waits, with the mutex.             *)
PostQuit(t, waiting, done) ==
  /\ track_wnd_mutex_ = Free
  /\ tracking_
  /\ quits' = quits \cup ({tracker_wnd_} \cap windows)
  /\ IF event_quit_ = NULL
     THEN tracking_' = FALSE /\ UNCHANGED track_wnd_mutex_ /\ pc' = [pc EXCEPT ![t] = done]
     ELSE UNCHANGED tracking_ /\ track_wnd_mutex_' = t /\ pc' = [pc EXCEPT ![t] = waiting]
  /\ UNCHANGED <<refs, event_quit_, tracker_wnd_, signalled, windows, eventFailed>>

NoWait == TRUE
QuitSignalled == event_quit_ \in signalled

WaitQuit(t, waiting, done) ==
  /\ pc[t] = waiting
  /\ QuitSignalled
  /\ event_quit_' = NULL
  /\ tracking_' = FALSE
  /\ track_wnd_mutex_' = Free
  /\ pc' = [pc EXCEPT ![t] = done]
  /\ UNCHANGED <<refs, tracker_wnd_, system, eventFailed>>

stop(c) ==
  /\ UNCHANGED object
  /\ \/ pc[c] = "idle" /\ c \in refs /\ PostQuit(c, "stop_wait", "idle")
     \/ WaitQuit(c, "stop_wait", "idle")

(* The last reference to go takes the destructor with it. *)
Drop(t, done) ==
  /\ refs' = refs \ {t}
  /\ IF refs = {t}
     THEN object' = "destroying" /\ pc' = [pc EXCEPT ![t] = "dtor"]
     ELSE UNCHANGED object /\ pc' = [pc EXCEPT ![t] = done]
  /\ UNCHANGED <<members, eventFailed>>

Release(c) ==
  /\ pc[c] = "idle" /\ c \in refs
  /\ Drop(c, "idle")
  /\ UNCHANGED system

Destructor(t) ==
  \/ /\ pc[t] = "dtor" /\ ~tracking_
     /\ object' = "freed"
     /\ pc' = [pc EXCEPT ![t] = "gone"]
     /\ UNCHANGED <<refs, members, system, eventFailed>>
  \/ /\ pc[t] = "dtor"
     /\ PostQuit(t, "dtor_wait", "gone")
     /\ object' = IF event_quit_ = NULL THEN "freed" ELSE object
  \/ WaitQuit(t, "dtor_wait", "gone") /\ object' = "freed"

-----------------------------------------------------------------------------
(* WorkThreadProc.  What it does with a freed object is undefined. *)

Usable == object \notin {"freed", "unwound"}

(* WM_CREATE stores the window and takes a reference.  Outside the life of *)
(* a shared_ptr getptr throws; a failed CreateWindowEx returns with no     *)
(* SetEvent.                                                               *)
CreateTrackerWindow(r) ==
  /\ pc[r] = "begin" /\ Usable
  /\ \/ /\ object = "alive"
        /\ windows' = windows \cup {r}
        /\ refs' = refs \cup {r}
        /\ tracker_wnd_' = r
        /\ pc' = [pc EXCEPT ![r] = "loop"]
     \/ /\ object # "alive"
        /\ pc' = [pc EXCEPT ![r] = "terminated"]
        /\ UNCHANGED <<windows, refs, tracker_wnd_>>
     \/ /\ tracker_wnd_' = NULL
        /\ pc' = [pc EXCEPT ![r] = "returned"]
        /\ UNCHANGED <<windows, refs>>
  /\ UNCHANGED <<object, track_wnd_mutex_, tracking_, event_quit_, signalled, quits, eventFailed>>

(* GetMessage looks at tracker_wnd_ only; with a window that is gone, or   *)
(* that belongs to another worker, it fails and the loop goes round.       *)
GetMessageQuit(r) ==
  /\ pc[r] = "loop"
  /\ tracker_wnd_ = r /\ r \in quits
  /\ pc' = [pc EXCEPT ![r] = "signal"]
  /\ quits' = quits \ {r}
  /\ UNCHANGED <<object, refs, members, signalled, windows, eventFailed>>

SetNothing == signalled
SetQuit == signalled \cup ({event_quit_} \ {NULL})

(* OnClearResource, then SetEvent on whatever event the object holds. *)
SignalQuit(r) ==
  /\ pc[r] = "signal"
  /\ signalled' = SetQuit
  /\ pc' = [pc EXCEPT ![r] = "exit"]
  /\ UNCHANGED <<object, refs, members, windows, quits, eventFailed>>

(* The thread ends: its tls_tracker_wnd and its window go. *)
ExitThread(r) ==
  /\ pc[r] = "exit"
  /\ Drop(r, "returned")
  /\ windows' = windows \ {r}
  /\ quits' = quits \ {r}
  /\ UNCHANGED signalled

WorkThreadProc(r) ==
  CreateTrackerWindow(r) \/ GetMessageQuit(r) \/ SignalQuit(r) \/ ExitThread(r) \/ Destructor(r)

(* WM_CLOSE from outside destroys the window and what is queued for it. *)
CloseWindow(r) ==
  /\ pc[r] = "loop" /\ r \in windows
  /\ windows' = windows \ {r}
  /\ quits' = quits \ {r}
  /\ UNCHANGED <<object, refs, members, pc, signalled, eventFailed>>

-----------------------------------------------------------------------------
Running == \A r \in Rounds : pc[r] # "terminated"

Call(c) ==
  \/ \E start_on_create \in BOOLEAN : create(c, start_on_create)
  \/ start(c) \/ StartInConstructor(c) \/ Unwind(c) \/ stop(c) \/ Release(c) \/ Destructor(c)

Next ==
  /\ Running
  /\ \/ \E c \in Callers : Call(c)
     \/ \E r \in Rounds : WorkThreadProc(r) \/ CloseWindow(r)

Spec == Init /\ [][Next]_vars

(* Threads are scheduled, and a wait on a set event ends. *)
FairSpec ==
  /\ Spec
  /\ \A c \in Callers : WF_vars(Running /\ WaitQuit(c, "stop_wait", "idle") /\ UNCHANGED object)
                        /\ WF_vars(Running /\ (StartInConstructor(c) \/ Unwind(c) \/ Destructor(c)))
  /\ \A r \in Rounds : WF_vars(Running /\ WorkThreadProc(r))
=============================================================================
