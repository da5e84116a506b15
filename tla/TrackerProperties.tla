-------------------------- MODULE TrackerProperties --------------------------
(* What a TrackerWnd should keep to, and the invariant the proofs use. *)
EXTENDS TrackerLifecycle

(* A worker that still uses the object through its bare pointer. *)
Uses(r) == pc[r] \in {"begin", "loop", "signal"}

(* When tracking_ is false again, the worker of every earlier round is     *)
(* through with the object: stop waits for the event the worker sets last. *)
StoppedMeansQuit == ~tracking_ /\ ~eventFailed => \A r \in Rounds : ~Uses(r)

(* The destructor, on whatever thread the last reference goes, does not    *)
(* free the object under a worker.                                         *)
NoUseAfterFree == object = "freed" /\ ~eventFailed => \A r \in Rounds : ~Uses(r)

(* Until an event cannot be created, what callers and workers do together  *)
(* is what Tracking promises.                                              *)
Round == INSTANCE Tracking WITH tracking <- tracking_,
                                begun <- {r \in Rounds : pc[r] # "none"},
                                users <- {r \in Rounds : Uses(r)},
                                freed <- object = "freed"

TracksInRounds ==
  Round!TrackingInit /\ [][eventFailed' \/ Round!TrackingNext]_(Round!tvars)

(* Two rounds of tracking never share tracker_wnd_: a worker that waits    *)
(* for messages waits for those of its own window.                         *)
OwnWindow ==
  \A r \in Rounds : pc[r] = "loop" /\ ~eventFailed => tracker_wnd_ = r

(* A stop whose WM_QUIT is in the queue of a worker in its message loop    *)
(* returns, unless somebody closes that window.                           *)
QuitStops ==
  \A c \in Callers, r \in Rounds :
    pc[c] = "stop_wait" /\ pc[r] = "loop" /\ r \in quits /\ ~eventFailed
      ~> pc[c] # "stop_wait" \/ (pc[r] = "loop" /\ r \notin windows)

(* "Quit the tracking window message queue. i.e. Make GetMessage return 0  *)
(* to quit": a stop that waits for a worker in its message loop gets it to *)
(* leave the loop (tracker_wnd_win.cc, lines 104 to 106).                  *)
StopQuitsQueue ==
  \A c \in Callers, r \in Rounds :
    pc[c] = "stop_wait" /\ event_quit_ = r /\ pc[r] = "loop"
      ~> pc[c] # "stop_wait" \/ r \notin windows

(* "start to track when TrackerWnd created": create with start_on_create   *)
(* ends with an object that tracks (tracker_wnd_win.h, line 39).           *)
CreateStartsTracking ==
  [][object = "constructing" /\ object' # object
       => object' = "alive" /\ tracking_']_vars

-----------------------------------------------------------------------------
(* The inductive invariant.  While every event could be created, the       *)
(* event of the current round names the only worker that may be busy, and  *)
(* it is set only when that worker is through.                             *)
RoundInv ==
  \A r \in Rounds :
    /\ Uses(r) => tracking_ /\ event_quit_ = r
    /\ r \in signalled => ~Uses(r) /\ pc[r] # "none"
    /\ pc[r] = "loop" => tracker_wnd_ = r

(* Whoever waits in stop has the mutex, and the round it waits for stays   *)
(* the current one.                                                        *)
Waits(t) == pc[t] \in {"stop_wait", "dtor_wait"}

StopInv ==
  \A t \in Threads :
    /\ Waits(t) <=> track_wnd_mutex_ = t
    /\ Waits(t) => tracking_ /\ event_quit_ # NULL

(* Nobody can start a round of an object that is on its way out, and one   *)
(* thread only takes it there.                                             *)
Destroys(t) == pc[t] \in {"dtor", "dtor_wait"}

ObjectInv ==
  /\ object = "freed" => ~tracking_
  /\ object # "alive" => refs = {}
  /\ \A t \in Threads :
       /\ pc[t] \in {"construct", "unwind"} => object \in {"constructing", "unwound"}
       /\ Destroys(t) => object = "destroying" /\ \A u \in Threads : Destroys(u) => u = t

TrackerInv == TypeOK /\ ObjectInv /\ StopInv /\ (~eventFailed => RoundInv)
=============================================================================
