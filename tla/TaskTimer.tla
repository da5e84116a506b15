------------------------------ MODULE TaskTimer ------------------------------
(***************************************************************************)
(* The Timer of tasktimer/tasktimer.cpp: its owner calls start, stop,      *)
(* setInterval and the destructor, a second thread runs run().  Flags are  *)
(* written and the condition is notified without the mutex, so that a      *)
(* notification can fall between a read of a flag and the wait, and be     *)
(* lost.                                                                   *)
(***************************************************************************)
EXTENDS Naturals

CONSTANTS Intervals,  \* the intervals the owner asks for
          MaxCount    \* bound on the two counters below

ASSUME CountAssumption == MaxCount \in Nat

VARIABLES m_cancel, m_interval,
          user,          \* where the owner is
          thread,        \* where the timer thread is
          waitInterval,  \* the interval of the thread's latest wait
          stopped,       \* history: stop was called since the last start
          lateTriggers,  \* history: triggers since then
          staleWaits     \* history: waits of an old interval that ended since m_interval was set

owner == <<m_cancel, m_interval, user>>
history == <<stopped, lateTriggers, staleWaits>>
vars == <<owner, thread, waitInterval, history>>

TypeOK ==
  /\ m_cancel \in BOOLEAN
  /\ m_interval \in Intervals
  /\ user \in {"idle", "start", "stop", "setInterval", "destroy", "join", "destroyed", "terminated"}
  /\ thread \in {"none", "test", "wait_for", "waiting", "woken", "trigger", "returned"}
  /\ waitInterval \in Intervals
  /\ stopped \in BOOLEAN
  /\ lateTriggers \in Nat
  /\ staleWaits \in Nat

(* The constructor sets m_interval to 0; nothing reads it before start. *)
Init ==
  /\ m_cancel = FALSE
  /\ m_interval \in Intervals
  /\ user = "idle"
  /\ thread = "none"
  /\ waitInterval = m_interval
  /\ stopped = FALSE
  /\ lateTriggers = 0
  /\ staleWaits = 0

-----------------------------------------------------------------------------
(* The owner. *)

(* m_thread holds a thread from its start to the join of the destructor. *)
joinable == thread # "none"

start(interval) ==
  /\ user = "idle"
  /\ m_interval' = interval
  /\ m_cancel' = FALSE
  /\ user' = "start"
  /\ stopped' = FALSE
  /\ lateTriggers' = 0
  /\ staleWaits' = 0
  /\ UNCHANGED <<thread, waitInterval>>

(* std::thread can throw; assigning to a joinable m_thread terminates. *)
Launch ==
  /\ user = "start"
  /\ \/ user' = "idle" /\ UNCHANGED thread
     \/ ~joinable /\ user' = "idle" /\ thread' = "test"
     \/ joinable /\ user' = "terminated" /\ UNCHANGED thread
  /\ UNCHANGED <<m_cancel, m_interval, waitInterval, history>>

NotifyOnly == UNCHANGED m_cancel
SetCancel == m_cancel' = TRUE

stop ==
  /\ user = "idle"
  /\ SetCancel
  /\ user' = "stop"
  /\ stopped' = TRUE
  /\ UNCHANGED <<m_interval, thread, waitInterval, lateTriggers, staleWaits>>

setInterval(interval) ==
  /\ user = "idle"
  /\ m_interval' = interval
  /\ user' = "setInterval"
  /\ staleWaits' = 0
  /\ UNCHANGED <<m_cancel, thread, waitInterval, stopped, lateTriggers>>

DestroyNoJoin ==
  /\ user = "idle"
  /\ m_cancel' = (joinable \/ m_cancel)
  /\ user' = "destroyed"
  /\ UNCHANGED <<m_interval, thread, waitInterval, history>>

(* The destructor calls stop and then join when m_thread is joinable. *)
Destroy ==
  /\ user = "idle"
  /\ IF joinable
     THEN SetCancel /\ user' = "destroy" /\ stopped' = TRUE
     ELSE UNCHANGED <<m_cancel, stopped>> /\ user' = "destroyed"
  /\ UNCHANGED <<m_interval, thread, waitInterval, lateTriggers, staleWaits>>

(* m_cv.notify_all reaches a thread that waits, and no other. *)
notify_all ==
  /\ user \in {"stop", "setInterval", "destroy"}
  /\ user' = IF user = "destroy" THEN "join" ELSE "idle"
  /\ thread' = IF thread = "waiting" THEN "woken" ELSE thread
  /\ UNCHANGED <<m_cancel, m_interval, waitInterval, history>>

join ==
  /\ user = "join"
  /\ thread = "returned"
  /\ user' = "destroyed"
  /\ UNCHANGED <<m_cancel, m_interval, thread, waitInterval, history>>

-----------------------------------------------------------------------------
(* run(), on the timer thread; it dies with the process. *)

Thread(here, next) ==
  /\ user # "terminated"
  /\ thread = here
  /\ thread' = next
  /\ UNCHANGED owner

TestKeepsInterval ==
  /\ Thread("test", IF m_cancel THEN "returned" ELSE "wait_for")
  /\ UNCHANGED <<waitInterval, history>>

(* The loop test, then the read of m_interval for the next wait. *)
TestCancel ==
  /\ Thread("test", IF m_cancel THEN "returned" ELSE "wait_for")
  /\ waitInterval' = m_interval
  /\ UNCHANGED history

WaitFor == Thread("wait_for", "waiting") /\ UNCHANGED <<waitInterval, history>>

NoTimeout == Thread("waiting", "woken") /\ FALSE /\ UNCHANGED <<waitInterval, history>>

(* The interval is over, or the wait ends for no reason. *)
Timeout ==
  /\ Thread("waiting", "woken")
  /\ staleWaits < MaxCount
  /\ staleWaits' = IF waitInterval = m_interval THEN staleWaits ELSE staleWaits + 1
  /\ UNCHANGED <<waitInterval, stopped, lateTriggers>>

TestAfterWait ==
  /\ Thread("woken", IF m_cancel THEN "test" ELSE "trigger")
  /\ UNCHANGED <<waitInterval, history>>

Trigger ==
  /\ Thread("trigger", "test")
  /\ lateTriggers < MaxCount
  /\ lateTriggers' = IF stopped THEN lateTriggers + 1 ELSE lateTriggers
  /\ UNCHANGED <<waitInterval, stopped, staleWaits>>

-----------------------------------------------------------------------------
run == TestCancel \/ WaitFor \/ Timeout \/ TestAfterWait \/ Trigger

Next ==
  \/ \E interval \in Intervals : start(interval) \/ setInterval(interval)
  \/ Launch \/ stop \/ Destroy \/ notify_all \/ join
  \/ run

Spec == Init /\ [][Next]_vars

(* A call that has begun goes on and the timer thread is scheduled; a wait *)
(* ends, at the latest with its interval.                                  *)
FairSpec == Spec /\ WF_vars(Launch) /\ WF_vars(notify_all) /\ WF_vars(join) /\ WF_vars(run)

-----------------------------------------------------------------------------
(* After stop() the timer fires at most once more: the flag is tested      *)
(* after every wait, and a thread past that test fires and then leaves the *)
(* loop.                                                                   *)
AtMostOneLateTrigger == lateTriggers <= 1

(* After setInterval() at most one wait still lasts the old interval, even *)
(* when the notification is lost: every wait reads m_interval again.       *)
AtMostOneStaleWait == staleWaits <= 1

(* The destructor does not return while the thread can still use the       *)
(* mutex, the condition or the flags of the object.                        *)
NoThreadAfterDestroy == user = "destroyed" => thread \in {"none", "returned"}

(* The destructor returns: a notification that falls before the wait is    *)
(* lost, and then the end of the interval takes its place.                 *)
DestructorReturns == user = "destroy" ~> user = "destroyed"

(* Why the three invariants above hold together: a thread that fired late  *)
(* is about to leave the loop, and one that outwaited an old interval has  *)
(* read the new one before it waits again.                                 *)
LateThreadLeaves ==
  /\ stopped => m_cancel
  /\ lateTriggers > 0 => lateTriggers = 1 /\ stopped /\ thread \in {"test", "returned"}

StaleThreadRereads ==
  staleWaits > 0 =>
    /\ staleWaits = 1
    /\ thread \in {"wait_for", "waiting"} => waitInterval = m_interval

TimerInv ==
  /\ TypeOK
  /\ LateThreadLeaves
  /\ StaleThreadRereads
  /\ NoThreadAfterDestroy
=============================================================================
