--------------------------- MODULE TaskTimerProofs ---------------------------
(* The safety of TaskTimer for any set of intervals, by one invariant.      *)
EXTENDS TaskTimer, TLAPS

(* The constructed timer satisfies TimerInv. *)
LEMMA TimerInvInit == Init => TimerInv
<1> SUFFICES ASSUME Init PROVE TimerInv
  OBVIOUS
<1>1. TypeOK
  BY DEF Init, TypeOK
<1>2. LateThreadLeaves /\ StaleThreadRereads
  BY DEF Init, LateThreadLeaves, StaleThreadRereads
<1> QED
  BY <1>1, <1>2 DEF Init, TimerInv, NoThreadAfterDestroy

(* Every step of the owner and of run() preserves TimerInv. *)
LEMMA TimerInvNext == TimerInv /\ [Next]_vars => TimerInv'
<1> SUFFICES ASSUME TimerInv, [Next]_vars PROVE TimerInv'
  OBVIOUS
<1> USE DEF TimerInv, TypeOK, LateThreadLeaves, StaleThreadRereads, NoThreadAfterDestroy,
            vars, owner, history, joinable, SetCancel
<1>1. ASSUME NEW interval \in Intervals, start(interval) PROVE TimerInv'
  <2>1. lateTriggers' = 0 /\ staleWaits' = 0 /\ user' = "start" /\ m_cancel' = FALSE
    BY <1>1 DEF start
  <2>2. /\ stopped' = FALSE /\ m_interval' = interval
        /\ thread' = thread /\ waitInterval' = waitInterval
    BY <1>1 DEF start
  <2>3. TypeOK'
    BY <2>1, <2>2
  <2>4. ~stopped'
    BY <2>2
  <2>5. LateThreadLeaves' /\ StaleThreadRereads'
    BY <2>1, <2>4
  <2>6. QED
    BY <2>1, <2>3, <2>5
<1>2. ASSUME NEW interval \in Intervals, setInterval(interval) PROVE TimerInv'
  BY <1>2 DEF setInterval
<1>3. CASE Launch
  BY <1>3 DEF Launch
<1>4. CASE stop
  BY <1>4 DEF stop
<1>5. CASE Destroy
  BY <1>5 DEF Destroy
<1>6. CASE notify_all
  BY <1>6 DEF notify_all
<1>7. CASE join
  BY <1>7 DEF join
<1>8. CASE TestCancel
  BY <1>8 DEF TestCancel, Thread
<1>9. CASE WaitFor
  BY <1>9 DEF WaitFor, Thread
<1>10. CASE Timeout
  BY <1>10 DEF Timeout, Thread
<1>11. CASE TestAfterWait
  BY <1>11 DEF TestAfterWait, Thread
<1>12. CASE Trigger
  BY <1>12 DEF Trigger, Thread
<1>13. CASE UNCHANGED vars
  BY <1>13
<1>14. QED
  BY <1>1, <1>2, <1>3, <1>4, <1>5, <1>6, <1>7, <1>8, <1>9, <1>10, <1>11, <1>12, <1>13
     DEF Next, run

(* TimerInv holds of every reachable state. *)
THEOREM TimerSafety == Spec => []TimerInv
BY TimerInvInit, TimerInvNext, PTL DEF Spec

(* After stop() "Timer triggered" is printed at most once more.             *)
THEOREM OneLateTrigger == Spec => []AtMostOneLateTrigger
<1>1. TimerInv => AtMostOneLateTrigger
  BY DEF TimerInv, TypeOK, LateThreadLeaves, AtMostOneLateTrigger
<1> QED
  BY <1>1, TimerSafety, PTL

(* After setInterval() at most one wait still lasts an old interval.        *)
THEOREM OneStaleWait == Spec => []AtMostOneStaleWait
<1>1. TimerInv => AtMostOneStaleWait
  BY DEF TimerInv, TypeOK, StaleThreadRereads, AtMostOneStaleWait
<1> QED
  BY <1>1, TimerSafety, PTL

(* The destructor of Timer does not return before run() has.                *)
THEOREM ThreadJoined == Spec => []NoThreadAfterDestroy
<1>1. TimerInv => NoThreadAfterDestroy
  BY DEF TimerInv
<1> QED
  BY <1>1, TimerSafety, PTL

-----------------------------------------------------------------------------
(* The safety of DestructorReturns.                                        *)

InDestructor == user \in {"destroy", "join"}

(* The destructor has told the thread to leave, and has it to wait for.    *)
Destructing == InDestructor => m_cancel /\ thread # "none"

(* How many steps of run() the destructor has yet to wait for at most, and *)
(* one more for its own notification.                                      *)
LastSteps ==
  [trigger |-> 2, wait_for |-> 4, waiting |-> 3, woken |-> 2, test |-> 1, returned |-> 0]

StepsLeft == LastSteps[thread] + (IF user = "destroy" THEN 1 ELSE 0)

(* Once the destructor has set m_cancel there is no way back: every step   *)
(* of the destructor and of the thread, whether it waits, misses the       *)
(* notification or has just tested the flag, brings the return nearer.     *)
DestructorAdvances ==
  [][InDestructor =>
       user' = "destroyed" \/ (InDestructor' /\ StepsLeft' < StepsLeft)]_vars

LEMMA DestructingNext == TimerInv /\ Destructing /\ [Next]_vars => Destructing'
<1> SUFFICES ASSUME TimerInv, Destructing, [Next]_vars PROVE Destructing'
  OBVIOUS
<1> USE DEF InDestructor, Destructing, joinable, SetCancel
<1>1. ASSUME NEW interval \in Intervals, start(interval) \/ setInterval(interval) PROVE Destructing'
  BY <1>1 DEF start, setInterval
<1>2. CASE Launch \/ stop \/ Destroy \/ notify_all \/ join
  BY <1>2 DEF Launch, stop, Destroy, notify_all, join
<1>3. CASE run
  BY <1>3 DEF run, TestCancel, WaitFor, Timeout, TestAfterWait, Trigger, Thread, owner
<1>4. CASE UNCHANGED vars
  BY <1>4 DEF vars, owner
<1>5. QED
  BY <1>1, <1>2, <1>3, <1>4 DEF Next

(* The thread is never in the way of the destructor for more than four of  *)
(* its own steps, one of which is the end of the interval.                 *)
THEOREM DestructorComesNearer == Spec => DestructorAdvances
<1>1. ASSUME TimerInv, Destructing, Destructing', [Next]_vars,
             InDestructor, ~UNCHANGED vars
      PROVE  user' = "destroyed" \/ (InDestructor' /\ StepsLeft' < StepsLeft)
  <2> USE DEF InDestructor, StepsLeft, LastSteps
  <2>1. m_cancel /\ thread \in {"test", "wait_for", "waiting", "woken", "trigger", "returned"}
    BY <1>1 DEF Destructing, TimerInv, TypeOK
  <2>2. CASE run
    <3>1. user' = user
      BY <2>2 DEF run, TestCancel, WaitFor, Timeout, TestAfterWait, Trigger, Thread, owner
    <3>2. LastSteps[thread'] < LastSteps[thread]
      BY <2>1, <2>2 DEF run, TestCancel, WaitFor, Timeout, TestAfterWait, Trigger, Thread
    <3>3. QED
      BY <1>1, <2>1, <2>2, <3>1, <3>2
      DEF run, TestCancel, WaitFor, Timeout, TestAfterWait, Trigger, Thread
  <2>3. CASE notify_all
    BY <1>1, <2>1, <2>3 DEF notify_all
  <2>4. CASE join
    BY <2>4 DEF join
  <2>5. QED
    BY <1>1, <2>2, <2>3, <2>4 DEF Next, start, setInterval, Launch, stop, Destroy
<1>2. TimerInv /\ TimerInv' /\ Destructing /\ Destructing' /\ [Next]_vars =>
        [InDestructor =>
           user' = "destroyed" \/ (InDestructor' /\ StepsLeft' < StepsLeft)]_vars
  BY <1>1
<1>3. Init => Destructing
  BY DEF Init, Destructing, InDestructor
<1>4. QED
  BY <1>2, <1>3, DestructingNext, TimerSafety, PTL DEF Spec, DestructorAdvances
=============================================================================
