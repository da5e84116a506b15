---------------------------- MODULE TrackerProofs ----------------------------
(* The safety of TrackerLifecycle for any callers and any number of rounds. *)
EXTENDS TrackerProperties, TLAPS

(* Callers and rounds have different names. *)
LEMMA Names ==
  /\ Rounds \subseteq Nat /\ 0 \notin Rounds
  /\ \A c \in Callers, r \in Rounds : c # r
BY TrackerAssumption DEF Rounds

(* There is no object yet. *)
LEMMA TrackerInit == Init => TrackerInv
<1> SUFFICES ASSUME Init PROVE TrackerInv
  OBVIOUS
<1>1. TypeOK
  BY DEF Init, TypeOK, Threads, NULL, Free, Calling, Working, Destroying
<1>2. ObjectInv
  BY DEF Init, ObjectInv, Destroys, Threads
<1>3. RoundInv
  BY Names DEF Init, RoundInv, Uses, Threads
<1>4. StopInv
  BY TrackerAssumption DEF Init, StopInv, Waits, Threads, Rounds, Free
<1> QED
  BY <1>1, <1>2, <1>3, <1>4 DEF TrackerInv

(* The steps of a caller or of a worker keep the types. *)
LEMMA TrackerTypes == TypeOK /\ [Next]_vars => TypeOK'
<1> SUFFICES ASSUME TypeOK, [Next]_vars PROVE TypeOK'
  OBVIOUS
<1> USE DEF TypeOK, Threads, Calling, Working, Destroying, members, system, NULL, Free
<1>1. ASSUME NEW c \in Callers, NEW b \in BOOLEAN, create(c, b) PROVE TypeOK'
  BY <1>1 DEF create
<1>2. ASSUME NEW c \in Callers, start(c) PROVE TypeOK'
  BY <1>2 DEF start, StartRound
<1>3. ASSUME NEW c \in Callers, StartInConstructor(c) PROVE TypeOK'
  BY <1>3 DEF StartInConstructor, StartRound
<1>4. ASSUME NEW c \in Callers, Unwind(c) PROVE TypeOK'
  BY <1>4 DEF Unwind
<1>5. ASSUME NEW c \in Callers, stop(c) PROVE TypeOK'
  BY <1>5 DEF stop, PostQuit, WaitQuit
<1>6. ASSUME NEW c \in Callers, Release(c) PROVE TypeOK'
  BY <1>6 DEF Release, Drop
<1>7. ASSUME NEW t \in Threads, Destructor(t) PROVE TypeOK'
  BY <1>7 DEF Destructor, PostQuit, WaitQuit
<1>8. ASSUME NEW r \in Rounds, CreateTrackerWindow(r) PROVE TypeOK'
  BY <1>8 DEF CreateTrackerWindow
<1>9. ASSUME NEW r \in Rounds, GetMessageQuit(r) PROVE TypeOK'
  BY <1>9 DEF GetMessageQuit
<1>10. ASSUME NEW r \in Rounds, SignalQuit(r) PROVE TypeOK'
  BY <1>10 DEF SignalQuit, SetQuit
<1>11. ASSUME NEW r \in Rounds, ExitThread(r) PROVE TypeOK'
  BY <1>11 DEF ExitThread, Drop
<1>12. ASSUME NEW r \in Rounds, CloseWindow(r) PROVE TypeOK'
  BY <1>12 DEF CloseWindow
<1>13. CASE UNCHANGED vars
  BY <1>13 DEF vars
<1> QED
  BY <1>1, <1>2, <1>3, <1>4, <1>5, <1>6, <1>7, <1>8, <1>9, <1>10, <1>11, <1>12, <1>13
  DEF Next, Call, WorkThreadProc

(* An object is freed once tracking has stopped and nobody can restart it. *)
LEMMA ObjectInvNext == TypeOK /\ ObjectInv /\ [Next]_vars => ObjectInv'
<1> SUFFICES ASSUME TypeOK, ObjectInv, [Next]_vars PROVE ObjectInv'
  OBVIOUS
<1> USE Names DEF TypeOK, ObjectInv, Destroys, Threads, members, system
<1>1. ASSUME NEW c \in Callers, NEW b \in BOOLEAN, create(c, b) PROVE ObjectInv'
  BY <1>1 DEF create
<1>2. ASSUME NEW c \in Callers, start(c) PROVE ObjectInv'
  BY <1>2 DEF start, StartRound, Startable
<1>3. ASSUME NEW c \in Callers, StartInConstructor(c) PROVE ObjectInv'
  BY <1>3 DEF StartInConstructor, StartRound, Startable
<1>4. ASSUME NEW c \in Callers, Unwind(c) PROVE ObjectInv'
  BY <1>4 DEF Unwind
<1>5. ASSUME NEW c \in Callers, stop(c) PROVE ObjectInv'
  BY <1>5 DEF stop, PostQuit, WaitQuit
<1>6. ASSUME NEW c \in Callers, Release(c) PROVE ObjectInv'
  BY <1>6 DEF Release, Drop
<1>7. ASSUME NEW t \in Threads, Destructor(t) PROVE ObjectInv'
  BY <1>7 DEF Destructor, PostQuit, WaitQuit
<1>8. ASSUME NEW r \in Rounds, CreateTrackerWindow(r) PROVE ObjectInv'
  BY <1>8 DEF CreateTrackerWindow
<1>9. ASSUME NEW r \in Rounds, GetMessageQuit(r) PROVE ObjectInv'
  BY <1>9 DEF GetMessageQuit
<1>10. ASSUME NEW r \in Rounds, SignalQuit(r) PROVE ObjectInv'
  BY <1>10 DEF SignalQuit, SetQuit
<1>11. ASSUME NEW r \in Rounds, ExitThread(r) PROVE ObjectInv'
  BY <1>11 DEF ExitThread, Drop
<1>12. ASSUME NEW r \in Rounds, CloseWindow(r) PROVE ObjectInv'
  BY <1>12 DEF CloseWindow
<1>13. CASE UNCHANGED vars
  BY <1>13 DEF vars
<1> QED
  BY <1>1, <1>2, <1>3, <1>4, <1>5, <1>6, <1>7, <1>8, <1>9, <1>10, <1>11, <1>12,
     <1>13 DEF Next, Call, WorkThreadProc

(* The mutex is with the one that waits, and nobody moves the round then.  *)
LEMMA StopInvNext == TypeOK /\ StopInv /\ [Next]_vars => StopInv'
<1> SUFFICES ASSUME TypeOK, StopInv, [Next]_vars PROVE StopInv'
  OBVIOUS
<1>0. Free \notin Threads
  BY TrackerAssumption, Names DEF Threads, Free
<1> USE <1>0 DEF TypeOK, StopInv, Waits, Threads, members, system
<1>1. ASSUME NEW c \in Callers, NEW b \in BOOLEAN, create(c, b) PROVE StopInv'
  BY <1>1 DEF create
<1>2. ASSUME NEW c \in Callers, start(c) PROVE StopInv'
  BY <1>2 DEF start, StartRound
<1>3. ASSUME NEW c \in Callers, StartInConstructor(c) PROVE StopInv'
  BY <1>3 DEF StartInConstructor, StartRound
<1>4. ASSUME NEW c \in Callers, Unwind(c) PROVE StopInv'
  BY <1>4 DEF Unwind
<1>5. ASSUME NEW c \in Callers, stop(c) PROVE StopInv'
  BY <1>5 DEF stop, PostQuit, WaitQuit
<1>6. ASSUME NEW c \in Callers, Release(c) PROVE StopInv'
  BY <1>6 DEF Release, Drop
<1>7. ASSUME NEW t \in Threads, Destructor(t) PROVE StopInv'
  BY <1>7 DEF Destructor, PostQuit, WaitQuit
<1>8. ASSUME NEW r \in Rounds, CreateTrackerWindow(r) PROVE StopInv'
  BY <1>8 DEF CreateTrackerWindow
<1>9. ASSUME NEW r \in Rounds, GetMessageQuit(r) PROVE StopInv'
  BY <1>9 DEF GetMessageQuit
<1>10. ASSUME NEW r \in Rounds, SignalQuit(r) PROVE StopInv'
  BY <1>10 DEF SignalQuit
<1>11. ASSUME NEW r \in Rounds, ExitThread(r) PROVE StopInv'
  BY <1>11 DEF ExitThread, Drop
<1>12. ASSUME NEW r \in Rounds, CloseWindow(r) PROVE StopInv'
  BY <1>12 DEF CloseWindow
<1>13. CASE UNCHANGED vars
  BY <1>13 DEF vars
<1> QED
  BY <1>1, <1>2, <1>3, <1>4, <1>5, <1>6, <1>7, <1>8, <1>9, <1>10, <1>11, <1>12,
     <1>13 DEF Next, Call, WorkThreadProc

(* A new round has an event of its own, and no worker of another is busy.  *)
LEMMA StartRoundKeeps ==
  ASSUME TypeOK, ~eventFailed => RoundInv, ~eventFailed',
         NEW r \in Rounds, NEW next \in [Threads -> Calling \cup Working \cup Destroying],
         \A q \in Rounds : next[q] = pc[q],
         StartRound(r, next)
  PROVE  RoundInv'
<1>1. /\ tracking_' = TRUE /\ event_quit_' = r /\ pc[r] = "none"
      /\ signalled' = signalled /\ tracker_wnd_' = tracker_wnd_
  BY DEF StartRound, system
<1>2. \A q \in Rounds : q # r => pc'[q] = pc[q]
  BY DEF StartRound, Threads
<1>3. pc'[r] \in {"begin", "returned"}
  BY DEF StartRound, Threads
<1>4. ~eventFailed /\ ~tracking_
  BY DEF StartRound, Startable
<1>5. RoundInv
  BY <1>4
<1>6. \A q \in Rounds : ~Uses(q)
  BY <1>4, <1>5 DEF RoundInv
<1>7. \A q \in Rounds : Uses(q)' => q = r
  BY <1>2, <1>6 DEF Uses
<1>8. r \notin signalled
  BY <1>1, <1>5 DEF RoundInv
<1>9. ASSUME NEW q \in Rounds
      PROVE  /\ Uses(q)' => tracking_' /\ event_quit_' = q
             /\ q \in signalled' => ~Uses(q)' /\ pc'[q] # "none"
             /\ pc'[q] = "loop" => tracker_wnd_' = q
  <2>1. CASE q = r
    BY <1>1, <1>3, <1>8, <2>1 DEF Uses
  <2>2. CASE q # r
    BY <1>1, <1>2, <1>5, <1>6, <1>7, <2>2 DEF RoundInv, Uses
  <2> QED
    BY <2>1, <2>2
<1> QED
  BY <1>9 DEF RoundInv, Uses

(* The steps of callers and workers keep RoundInv. *)
LEMMA RoundInvNext ==
  TypeOK /\ (~eventFailed => RoundInv) /\ [Next]_vars => (~eventFailed => RoundInv)'
<1> SUFFICES ASSUME TypeOK, ~eventFailed => RoundInv, [Next]_vars, ~eventFailed'
             PROVE RoundInv'
  OBVIOUS
<1>a. ~eventFailed => RoundInv
  OBVIOUS
<1> USE Names DEF TypeOK, RoundInv, Uses, Threads, members, system, NULL
<1>1. ASSUME NEW c \in Callers, NEW b \in BOOLEAN, create(c, b) PROVE RoundInv'
  BY <1>1 DEF create
<1>2. ASSUME NEW c \in Callers, start(c) PROVE RoundInv'
  <2>1. PICK r \in Rounds : StartRound(r, pc)
    BY <1>2 DEF start
  <2> QED
    BY <2>1, StartRoundKeeps
<1>3. ASSUME NEW c \in Callers, StartInConstructor(c) PROVE RoundInv'
  <2> DEFINE next == [pc EXCEPT ![c] = "unwind"]
  <2>1. PICK r \in Rounds : StartRound(r, next)
    BY <1>3 DEF StartInConstructor
  <2>2. /\ next \in [Threads -> Calling \cup Working \cup Destroying]
        /\ \A q \in Rounds : next[q] = pc[q]
    BY DEF Calling
  <2> HIDE DEF next
  <2> QED
    BY <2>1, <2>2, StartRoundKeeps
<1>4. ASSUME NEW c \in Callers, Unwind(c) PROVE RoundInv'
  BY <1>4 DEF Unwind
<1>5. ASSUME NEW c \in Callers, stop(c) PROVE RoundInv'
  BY <1>5 DEF stop, PostQuit, WaitQuit, QuitSignalled
<1>6. ASSUME NEW c \in Callers, Release(c) PROVE RoundInv'
  BY <1>6 DEF Release, Drop
<1>7. ASSUME NEW t \in Threads, Destructor(t) PROVE RoundInv'
  BY <1>7 DEF Destructor, PostQuit, WaitQuit, QuitSignalled
<1>8. ASSUME NEW r \in Rounds, CreateTrackerWindow(r) PROVE RoundInv'
  BY <1>8 DEF CreateTrackerWindow
<1>9. ASSUME NEW r \in Rounds, GetMessageQuit(r) PROVE RoundInv'
  BY <1>9 DEF GetMessageQuit
<1>10. ASSUME NEW r \in Rounds, SignalQuit(r) PROVE RoundInv'
  BY <1>10 DEF SignalQuit, SetQuit
<1>11. ASSUME NEW r \in Rounds, ExitThread(r) PROVE RoundInv'
  BY <1>11 DEF ExitThread, Drop
<1>12. ASSUME NEW r \in Rounds, CloseWindow(r) PROVE RoundInv'
  BY <1>12 DEF CloseWindow
<1>13. CASE UNCHANGED vars
  BY <1>13 DEF vars
<1> QED
  BY <1>1, <1>2, <1>3, <1>4, <1>5, <1>6, <1>7, <1>8, <1>9, <1>10, <1>11, <1>12,
     <1>13 DEF Next, Call, WorkThreadProc

(* TrackerInv holds of every reachable state. *)
THEOREM TrackerSafety == Spec => []TrackerInv
<1>1. TrackerInv /\ [Next]_vars => TrackerInv'
  BY TrackerTypes, ObjectInvNext, StopInvNext, RoundInvNext DEF TrackerInv
<1> QED
  BY TrackerInit, <1>1, PTL DEF Spec

(* When stop has returned, the worker of the round is through.            *)
THEOREM StopEndsRound == Spec => []StoppedMeansQuit
<1>1. TrackerInv => StoppedMeansQuit
  BY DEF TrackerInv, RoundInv, StoppedMeansQuit
<1> QED
  BY <1>1, TrackerSafety, PTL

(* The destructor of TrackerWnd never frees the object under a worker.     *)
THEOREM DestructorIsLast == Spec => []NoUseAfterFree
<1>1. TrackerInv => NoUseAfterFree
  BY DEF TrackerInv, ObjectInv, RoundInv, NoUseAfterFree
<1> QED
  BY <1>1, TrackerSafety, PTL

(* Each worker waits for the messages of its own window.                   *)
THEOREM WindowPerRound == Spec => []OwnWindow
<1>1. TrackerInv => OwnWindow
  BY DEF TrackerInv, RoundInv, OwnWindow
<1> QED
  BY <1>1, TrackerSafety, PTL

-----------------------------------------------------------------------------
(* Steps that Tracking does not see. *)
LEMMA Unseen ==
  ASSUME tracking_' = tracking_, object' = "freed" <=> object = "freed",
         \A r \in Rounds : (Uses(r)' <=> Uses(r)) /\ (pc'[r] # "none" <=> pc[r] # "none")
  PROVE  UNCHANGED Round!tvars
  BY DEF Round!tvars

(* A round that somebody starts is the next of Tracking. *)
LEMMA StartBegins ==
  ASSUME TypeOK, RoundInv, object # "freed", object' # "freed",
         NEW r \in Rounds, NEW next \in [Threads -> Calling \cup Working \cup Destroying],
         \A q \in Rounds : next[q] = pc[q],
         StartRound(r, next)
  PROVE  Round!Begin(r)
<1>1. ~tracking_ /\ tracking_' = TRUE /\ pc[r] = "none" /\ pc'[r] \in {"begin", "returned"}
  BY DEF StartRound, Startable, Threads
<1>2. \A q \in Rounds : ~Uses(q)
  BY <1>1 DEF RoundInv
<1>3. \A q \in Rounds : q # r => pc'[q] = pc[q]
  BY DEF StartRound, Threads
<1>4. {q \in Rounds : Uses(q)'} \in {{}, {r}}
  <2>1. \A q \in Rounds : Uses(q)' => q = r
    BY <1>2, <1>3 DEF Uses
  <2>2. QED
    BY <2>1
<1>5. {q \in Rounds : pc'[q] # "none"} = {q \in Rounds : pc[q] # "none"} \cup {r}
  BY <1>1, <1>3
<1>6. {q \in Rounds : Uses(q)} = {}
  BY <1>2
<1>7. QED
  BY <1>1, <1>4, <1>5, <1>6 DEF Round!Begin

(* A worker leaves the object. *)
LEMMA WorkerLeaves ==
  ASSUME TypeOK, NEW r \in Rounds, Uses(r), ~Uses(r)', pc'[r] # "none",
         \A q \in Rounds : q # r => pc'[q] = pc[q],
         UNCHANGED <<object, tracking_>>
  PROVE  Round!Leave(r)
<1>1. {q \in Rounds : Uses(q)'} = {q \in Rounds : Uses(q)} \ {r}
  BY DEF Uses
<1>2. {q \in Rounds : pc'[q] # "none"} = {q \in Rounds : pc[q] # "none"}
  BY DEF Uses
<1>3. QED
  BY <1>1, <1>2 DEF Round!Leave

(* The end of a round, of the object, or of both. *)
LEMMA EndOrFree ==
  ASSUME TypeOK, \A r \in Rounds : ~Uses(r) /\ ~Uses(r)' /\ (pc'[r] # "none" <=> pc[r] # "none"),
         object # "freed", tracking_ \/ object' = "freed", tracking_' = FALSE
  PROVE  Round!End \/ Round!Free
<1>1. {r \in Rounds : Uses(r)} = {} /\ {r \in Rounds : Uses(r)'} = {}
  OBVIOUS
<1>2. {r \in Rounds : pc'[r] # "none"} = {r \in Rounds : pc[r] # "none"}
  OBVIOUS
<1>3. tracking_ \in BOOLEAN
  BY DEF TypeOK
<1>4. CASE tracking_
  BY <1>1, <1>2, <1>4 DEF Round!End
<1>5. CASE ~tracking_
  BY <1>1, <1>2, <1>3, <1>5 DEF Round!Free
<1>6. QED
  BY <1>4, <1>5

(* stop, by whichever thread: its message changes nothing that Tracking    *)
(* sees unless there is no event to wait for, and the wait ends the round. *)
LEMMA StopEnds ==
  ASSUME TypeOK, StopInv, RoundInv, NEW t \in Threads, NEW waiting, NEW done,
         pc[t] \notin {"none", "begin", "loop", "signal"},
         waiting \notin {"none", "begin", "loop", "signal"},
         done \notin {"none", "begin", "loop", "signal"},
         PostQuit(t, waiting, done) \/ (WaitQuit(t, waiting, done) /\ Waits(t))
  PROVE  /\ \A r \in Rounds : (Uses(r)' <=> Uses(r)) /\ (pc'[r] # "none" <=> pc[r] # "none")
         /\ \/ tracking_' = tracking_ /\ event_quit_ # NULL
            \/ /\ tracking_ /\ tracking_' = FALSE
               /\ \A r \in Rounds : ~Uses(r)
<1>1. TypeOK /\ StopInv
  OBVIOUS
<1>2. pc' \in {[pc EXCEPT ![t] = waiting], [pc EXCEPT ![t] = done]}
  BY DEF PostQuit, WaitQuit
<1>3. \A r \in Rounds : (Uses(r)' <=> Uses(r)) /\ (pc'[r] # "none" <=> pc[r] # "none")
  BY <1>1, <1>2 DEF Uses, TypeOK, Threads
<1>4. CASE PostQuit(t, waiting, done)
  BY <1>1, <1>3, <1>4, Names DEF PostQuit, RoundInv, NULL
<1>5. CASE WaitQuit(t, waiting, done) /\ Waits(t)
  <2>1. event_quit_ \in signalled /\ tracking_ /\ tracking_' = FALSE
    BY <1>1, <1>5 DEF WaitQuit, QuitSignalled, StopInv
  <2>2. \A r \in Rounds : ~Uses(r)
    BY <1>1, <2>1 DEF RoundInv, TypeOK
  <2>3. QED
    BY <1>3, <2>1, <2>2
<1>6. QED
  BY <1>4, <1>5

(* Every step, until an event cannot be created, is one of Tracking. *)
LEMMA TracksNext ==
  ASSUME TrackerInv, TrackerInv', [Next]_vars, ~eventFailed'
  PROVE  [Round!TrackingNext]_(Round!tvars)
<1>0. TypeOK /\ ObjectInv /\ StopInv /\ RoundInv /\ TypeOK' /\ ObjectInv' /\ RoundInv'
  <2>1. ~eventFailed
    BY DEF vars, Next, Call, WorkThreadProc, create, start, StartInConstructor, StartRound, Unwind,
           stop, PostQuit, WaitQuit, Release, Drop, Destructor, CreateTrackerWindow, GetMessageQuit,
           SignalQuit, ExitThread, CloseWindow
  <2>2. QED
    BY <2>1 DEF TrackerInv
<1>1. ASSUME NEW c \in Callers, NEW b \in BOOLEAN, create(c, b)
      PROVE  UNCHANGED Round!tvars
  BY <1>0, <1>1, Names, Unseen DEF create, Uses, TypeOK, Threads, members
<1>2. ASSUME NEW c \in Callers, start(c) PROVE Round!TrackingNext
  <2>1. PICK r \in Rounds : StartRound(r, pc)
    BY <1>2 DEF start
  <2>2. object # "freed" /\ object' # "freed"
    BY <1>0, <1>2 DEF start, ObjectInv
  <2>3. Round!Begin(r)
    BY <1>0, <2>1, <2>2, StartBegins DEF TypeOK
  <2>4. QED
    BY <2>3 DEF Round!TrackingNext
<1>3. ASSUME NEW c \in Callers, StartInConstructor(c) PROVE Round!TrackingNext
  <2> DEFINE next == [pc EXCEPT ![c] = "unwind"]
  <2>1. PICK r \in Rounds : StartRound(r, next)
    BY <1>3 DEF StartInConstructor
  <2>2. /\ next \in [Threads -> Calling \cup Working \cup Destroying]
        /\ \A q \in Rounds : next[q] = pc[q]
    BY <1>0, Names DEF TypeOK, Calling, Threads
  <2>3. object # "freed" /\ object' # "freed"
    BY <1>0, <1>3 DEF StartInConstructor, ObjectInv, Threads
  <2> HIDE DEF next
  <2>4. Round!Begin(r)
    BY <1>0, <2>1, <2>2, <2>3, StartBegins
  <2>5. QED
    BY <2>4 DEF Round!TrackingNext
<1>4. ASSUME NEW c \in Callers, Unwind(c) PROVE UNCHANGED Round!tvars
  <2>1. object # "freed" /\ object' # "freed"
    BY <1>0, <1>4 DEF Unwind, ObjectInv, Threads
  <2>2. QED
    BY <1>0, <1>4, <2>1, Names, Unseen DEF Unwind, Uses, TypeOK, Threads, members
<1>5. ASSUME NEW c \in Callers, stop(c) PROVE [Round!TrackingNext]_(Round!tvars)
  <2>1. pc[c] \in {"idle", "stop_wait"} /\ object' = object
        /\ (PostQuit(c, "stop_wait", "idle") \/ (WaitQuit(c, "stop_wait", "idle") /\ Waits(c)))
    BY <1>5 DEF stop, WaitQuit, Waits
  <2>2. /\ \A r \in Rounds : (Uses(r)' <=> Uses(r)) /\ (pc'[r] # "none" <=> pc[r] # "none")
        /\ \/ tracking_' = tracking_
           \/ tracking_ /\ tracking_' = FALSE /\ \A r \in Rounds : ~Uses(r)
    <3>1. c \in Threads /\ pc[c] \notin {"none", "begin", "loop", "signal"}
      BY <2>1 DEF Threads
    <3>2. /\ "stop_wait" \notin {"none", "begin", "loop", "signal"}
          /\ "idle" \notin {"none", "begin", "loop", "signal"}
      OBVIOUS
    <3>3. QED
      BY <1>0, <2>1, <3>1, <3>2, StopEnds, Zenon
  <2>3. CASE tracking_' = tracking_
    BY <2>1, <2>2, <2>3, Unseen
  <2>4. CASE tracking_ /\ tracking_' = FALSE /\ \A r \in Rounds : ~Uses(r)
    <3>1. object # "freed"
      BY <1>0, <2>4 DEF ObjectInv
    <3>2. QED
      BY <1>0, <2>2, <2>4, <3>1, EndOrFree DEF Round!TrackingNext
  <2>5. QED
    BY <2>2, <2>3, <2>4
<1>6. ASSUME NEW c \in Callers, Release(c) PROVE UNCHANGED Round!tvars
  BY <1>0, <1>6, Names, Unseen DEF Release, Drop, Uses, TypeOK, ObjectInv, Threads, members
<1>7. ASSUME NEW t \in Threads, Destructor(t) PROVE [Round!TrackingNext]_(Round!tvars)
  <2>1. Destroys(t) /\ object = "destroying"
    BY <1>0, <1>7 DEF Destructor, WaitQuit, Destroys, ObjectInv
  <2>2. CASE pc[t] = "dtor" /\ ~tracking_ /\ object' = "freed" /\ pc' = [pc EXCEPT ![t] = "gone"]
             /\ UNCHANGED members
    <3>1. \A r \in Rounds : ~Uses(r) /\ ~Uses(r)' /\ (pc'[r] # "none" <=> pc[r] # "none")
      BY <1>0, <2>2 DEF RoundInv, Uses, TypeOK, Threads
    <3>2. tracking_' = FALSE
      BY <1>0, <2>2 DEF members, TypeOK
    <3>3. QED
      BY <1>0, <2>1, <2>2, <3>1, <3>2, EndOrFree DEF Round!TrackingNext
  <2>3. CASE \/ /\ PostQuit(t, "dtor_wait", "gone")
                /\ object' = (IF event_quit_ = NULL THEN "freed" ELSE object)
             \/ WaitQuit(t, "dtor_wait", "gone") /\ object' = "freed"
    <3>1. /\ pc[t] \notin {"none", "begin", "loop", "signal"}
          /\ "dtor_wait" \notin {"none", "begin", "loop", "signal"}
          /\ "gone" \notin {"none", "begin", "loop", "signal"}
      BY <2>1 DEF Destroys
    <3>2. PostQuit(t, "dtor_wait", "gone") \/ (WaitQuit(t, "dtor_wait", "gone") /\ Waits(t))
      BY <2>3 DEF WaitQuit, Waits
    <3>3. /\ \A r \in Rounds : (Uses(r)' <=> Uses(r)) /\ (pc'[r] # "none" <=> pc[r] # "none")
          /\ \/ tracking_' = tracking_ /\ event_quit_ # NULL
             \/ tracking_ /\ tracking_' = FALSE /\ \A r \in Rounds : ~Uses(r)
      BY <1>0, <3>1, <3>2, StopEnds, Zenon
    <3>4. CASE tracking_ /\ tracking_' = FALSE /\ \A r \in Rounds : ~Uses(r)
      <4>1. \A r \in Rounds : ~Uses(r) /\ ~Uses(r)' /\ (pc'[r] # "none" <=> pc[r] # "none")
        BY <3>3, <3>4
      <4>2. object # "freed"
        BY <2>1
      <4>3. QED
        BY <1>0, <3>4, <4>1, <4>2, EndOrFree DEF Round!TrackingNext
    <3>5. CASE tracking_' = tracking_ /\ event_quit_ # NULL
      <4>1. CASE object' = object
        BY <3>3, <3>5, <4>1, Unseen
      <4>2. ~WaitQuit(t, "dtor_wait", "gone")
        <5>1. SUFFICES ASSUME WaitQuit(t, "dtor_wait", "gone") PROVE FALSE
          OBVIOUS
        <5>2. Waits(t) /\ tracking_' = FALSE
          BY <5>1 DEF WaitQuit, Waits
        <5>3. tracking_ = TRUE
          BY <1>0, <5>2 DEF StopInv, TypeOK
        <5>4. QED
          BY <3>5, <5>2, <5>3
      <4>3. QED
        BY <2>3, <3>5, <4>1, <4>2
    <3>6. QED
      BY <3>3, <3>4, <3>5
  <2>4. QED
    BY <1>7, <2>2, <2>3 DEF Destructor
<1>8. ASSUME NEW r \in Rounds, CreateTrackerWindow(r) PROVE [Round!TrackingNext]_(Round!tvars)
  <2>1. /\ pc[r] = "begin" /\ pc'[r] \in {"loop", "terminated", "returned"}
        /\ \A q \in Rounds : q # r => pc'[q] = pc[q]
        /\ UNCHANGED <<object, tracking_>>
    BY <1>0, <1>8 DEF CreateTrackerWindow, TypeOK, Threads
  <2>2. CASE pc'[r] = "loop"
    BY <2>1, <2>2, Unseen DEF Uses
  <2>3. CASE pc'[r] # "loop"
    BY <1>0, <2>1, <2>3, WorkerLeaves DEF Uses, Round!TrackingNext
  <2>4. QED
    BY <2>2, <2>3
<1>9. ASSUME NEW r \in Rounds, GetMessageQuit(r) PROVE UNCHANGED Round!tvars
  BY <1>0, <1>9, Unseen DEF GetMessageQuit, Uses, TypeOK, Threads, members
<1>10. ASSUME NEW r \in Rounds, SignalQuit(r) PROVE Round!TrackingNext
  <2>1. /\ pc[r] = "signal" /\ pc'[r] = "exit"
        /\ \A q \in Rounds : q # r => pc'[q] = pc[q]
        /\ UNCHANGED <<object, tracking_>>
    BY <1>0, <1>10 DEF SignalQuit, TypeOK, Threads, members
  <2>2. QED
    BY <1>0, <2>1, WorkerLeaves DEF Uses, Round!TrackingNext
<1>11. ASSUME NEW r \in Rounds, ExitThread(r) PROVE UNCHANGED Round!tvars
  BY <1>0, <1>11, Names, Unseen DEF ExitThread, Drop, Uses, TypeOK, ObjectInv, Threads, members
<1>12. ASSUME NEW r \in Rounds, CloseWindow(r) PROVE UNCHANGED Round!tvars
  BY <1>12, Unseen DEF CloseWindow, Uses, members
<1>13. CASE UNCHANGED vars
  BY <1>13, Unseen DEF vars, Uses, members
<1>14. ASSUME NEW c \in Callers, Call(c) PROVE [Round!TrackingNext]_(Round!tvars)
  <2>1. c \in Threads
    BY DEF Threads
  <2>2. QED
    BY <1>1, <1>2, <1>3, <1>4, <1>5, <1>6, <1>7, <1>14, <2>1 DEF Call
<1>15. ASSUME NEW r \in Rounds, WorkThreadProc(r) PROVE [Round!TrackingNext]_(Round!tvars)
  <2>1. r \in Threads
    BY DEF Threads
  <2>2. QED
    BY <1>7, <1>8, <1>9, <1>10, <1>11, <1>15, <2>1 DEF WorkThreadProc
<1> QED
  BY <1>12, <1>13, <1>14, <1>15 DEF Next

(* A TrackerWnd keeps to the rounds of Tracking until an event cannot be   *)
(* created: the next round, and the end of the object, wait for the worker *)
(* of the last.                                                            *)
THEOREM TrackerRefines == Spec => TracksInRounds
<1>1. Init => Round!TrackingInit
  BY Names DEF Init, Round!TrackingInit, Uses, Threads
<1>2. TrackerInv /\ TrackerInv' /\ [Next]_vars
        => [eventFailed' \/ Round!TrackingNext]_(Round!tvars)
  BY TracksNext
<1>3. QED
  BY <1>1, <1>2, TrackerSafety, PTL DEF Spec, TracksInRounds

(* A WM_QUIT that caller c waits for is on its way: in the queue of the    *)
(* worker whose event c waits for, taken from there, or answered.          *)
QuitOnItsWay(c) ==
  /\ pc[c] = "stop_wait"
  /\ \/ \E r \in Rounds : event_quit_ = r /\ pc[r] = "loop" /\ r \in quits
     \/ \E r \in Rounds : event_quit_ = r /\ pc[r] = "signal"
     \/ event_quit_ \in signalled

(* A stop whose message reached the worker never has to wait for another:  *)
(* whatever the other threads do, the message stays on its way until stop  *)
(* is through, unless somebody closes the worker's window.                 *)
QuitIsKept ==
  [][\A c \in Callers :
       QuitOnItsWay(c) /\ ~eventFailed =>
         \/ QuitOnItsWay(c)'
         \/ pc'[c] # "stop_wait"
         \/ \E r \in Rounds : pc'[r] = "loop" /\ r \notin windows']_vars

(* Nobody takes the event from under a stop that waits for it.             *)
LEMMA EventIsHeld ==
  ASSUME TypeOK, StopInv, StopInv', [Next]_vars, NEW c \in Callers,
         pc[c] = "stop_wait", pc'[c] = "stop_wait"
  PROVE  event_quit_' = event_quit_
<1>1. c \in Threads /\ Waits(c) /\ Waits(c)'
  BY DEF Threads, Waits
<1>2. track_wnd_mutex_ = c /\ track_wnd_mutex_ # Free
  BY <1>1, TrackerAssumption DEF StopInv, Free
<1>3. ASSUME NEW t \in Threads, NEW waiting, NEW done,
             PostQuit(t, waiting, done)
      PROVE  FALSE
  BY <1>2, <1>3 DEF PostQuit
<1>4. ASSUME NEW t \in Threads, WaitQuit(t, "stop_wait", "idle") PROVE FALSE
  <2>1. t = c
    BY <1>2, <1>4 DEF WaitQuit, StopInv, Waits
  <2>2. QED
    BY <1>1, <1>4, <2>1 DEF WaitQuit, TypeOK
<1>5. ASSUME NEW t \in Threads, WaitQuit(t, "dtor_wait", "gone") PROVE FALSE
  <2>1. t = c
    BY <1>2, <1>5 DEF WaitQuit, StopInv, Waits
  <2>2. QED
    BY <1>5, <2>1 DEF WaitQuit
<1>6. ASSUME NEW t \in Threads, Destructor(t) PROVE event_quit_' = event_quit_
  BY <1>3, <1>5, <1>6 DEF Destructor, members
<1>7. ASSUME NEW d \in Callers, Call(d) PROVE event_quit_' = event_quit_
  <2>1. d \in Threads
    BY DEF Threads
  <2>2. ASSUME NEW r \in Rounds, NEW next, StartRound(r, next) PROVE FALSE
    BY <1>2, <2>2 DEF StartRound
  <2>3. QED
    BY <1>3, <1>4, <1>6, <1>7, <2>1, <2>2
    DEF Call, create, start, StartInConstructor, Unwind, stop, Release, Drop, members
<1>8. ASSUME NEW r \in Rounds, WorkThreadProc(r) \/ CloseWindow(r) PROVE event_quit_' = event_quit_
  <2>1. r \in Threads
    BY DEF Threads
  <2>2. QED
    BY <1>6, <1>8, <2>1
    DEF WorkThreadProc, CreateTrackerWindow, GetMessageQuit, SignalQuit, ExitThread, Drop,
        CloseWindow, members
<1> QED
  BY <1>7, <1>8 DEF Next, vars, members

(* What a step does to a worker in its loop, to one that is about to set   *)
(* its event, and to the event.                                            *)
LEMMA QuitStep ==
  ASSUME TypeOK, StopInv, RoundInv, [Next]_vars, NEW c \in Callers, pc[c] = "stop_wait",
         NEW r \in Rounds, event_quit_ = r
  PROVE  /\ pc[r] = "loop" /\ r \in quits =>
              \/ pc'[r] = "loop" /\ (r \in quits' \/ r \notin windows')
              \/ pc'[r] = "signal"
         /\ pc[r] = "signal" => pc'[r] = "signal" \/ r \in signalled'
         /\ r \in signalled => r \in signalled'
<1> USE DEF TypeOK
<1>1. c \in Threads /\ r \in Threads /\ c # r /\ track_wnd_mutex_ = c /\ c # Free /\ r # NULL
  BY Names, TrackerAssumption DEF Threads, StopInv, Waits, Free, NULL
<1>2. ASSUME NEW t \in Threads, Destructor(t)
      PROVE  /\ pc[r] \in {"loop", "signal"} => pc'[r] = pc[r]
             /\ r \in quits => r \in quits'
             /\ signalled' = signalled
  <2>1. /\ pc[t] \in {"dtor", "dtor_wait"}
        /\ \E done \in {"gone", "dtor_wait"} : pc' = [pc EXCEPT ![t] = done]
    <3>1. CASE pc[t] = "dtor" /\ PostQuit(t, "dtor_wait", "gone")
      BY <3>1 DEF PostQuit
    <3>2. CASE WaitQuit(t, "dtor_wait", "gone")
      BY <3>2 DEF WaitQuit
    <3>3. QED
      BY <1>2, <3>1, <3>2 DEF Destructor
  <2>2. (r \in quits => r \in quits') /\ signalled' = signalled
    BY <1>2 DEF Destructor, PostQuit, WaitQuit, system
  <2>3. QED
    BY <2>1, <2>2
<1>3. ASSUME NEW d \in Callers, Call(d)
      PROVE  /\ pc[r] \in {"loop", "signal"} => pc'[r] = pc[r]
             /\ r \in quits => r \in quits'
             /\ signalled' = signalled
  <2>1. d \in Threads /\ d # r
    BY Names DEF Threads
  <2>2. ASSUME NEW q \in Rounds, NEW next, StartRound(q, next) PROVE FALSE
    BY <1>1, <2>2 DEF StartRound
  <2>3. QED
    BY <1>1, <1>2, <1>3, <2>1, <2>2
    DEF Call, create, start, StartInConstructor, Unwind, stop, PostQuit, WaitQuit, Release, Drop, system
<1>4. ASSUME NEW q \in Rounds, CreateTrackerWindow(q) \/ ExitThread(q)
      PROVE  /\ pc[r] \in {"loop", "signal"} => pc'[r] = pc[r]
             /\ r \in quits /\ pc[r] = "loop" => r \in quits'
             /\ signalled' = signalled
  <2>1. q \in Threads
    BY DEF Threads
  <2>2. QED
    BY <1>1, <1>4, <2>1 DEF CreateTrackerWindow, ExitThread, Drop
<1>5. ASSUME NEW q \in Rounds, GetMessageQuit(q) \/ SignalQuit(q) \/ CloseWindow(q)
      PROVE  /\ pc[r] = "loop" /\ r \in quits =>
                  \/ pc'[r] = "loop" /\ (r \in quits' \/ r \notin windows')
                  \/ pc'[r] = "signal"
             /\ pc[r] = "signal" => pc'[r] = "signal" \/ r \in signalled'
             /\ r \in signalled => r \in signalled'
  <2>1. q \in Threads
    BY DEF Threads
  <2>2. CASE GetMessageQuit(q)
    BY <1>1, <2>1, <2>2 DEF GetMessageQuit, members
  <2>3. CASE SignalQuit(q)
    BY <1>1, <2>1, <2>3 DEF SignalQuit, SetQuit, members
  <2>4. CASE CloseWindow(q)
    BY <1>1, <2>1, <2>4 DEF CloseWindow, members
  <2>5. QED
    BY <1>5, <2>2, <2>3, <2>4
<1>6. CASE UNCHANGED vars
  BY <1>6 DEF vars, system
<1>7. ASSUME NEW q \in Rounds, WorkThreadProc(q) \/ CloseWindow(q)
      PROVE  /\ pc[r] = "loop" /\ r \in quits =>
                  \/ pc'[r] = "loop" /\ (r \in quits' \/ r \notin windows')
                  \/ pc'[r] = "signal"
             /\ pc[r] = "signal" => pc'[r] = "signal" \/ r \in signalled'
             /\ r \in signalled => r \in signalled'
  <2>1. q \in Threads
    BY DEF Threads
  <2>2. QED
    BY <1>2, <1>4, <1>5, <1>7, <2>1 DEF WorkThreadProc
<1> QED
  BY <1>3, <1>6, <1>7 DEF Next

(* The safety of QuitStops: a stop that its property is about starts with  *)
(* its message on the way, and keeps it.                                   *)
THEOREM QuitIsNotLost == Spec => QuitIsKept
<1>1. ASSUME TrackerInv, TrackerInv', [Next]_vars, NEW c \in Callers, QuitOnItsWay(c), ~eventFailed,
             pc'[c] = "stop_wait",
             \A r \in Rounds : ~(pc'[r] = "loop" /\ r \notin windows')
      PROVE  QuitOnItsWay(c)'
  <2>1. TypeOK /\ StopInv /\ StopInv' /\ RoundInv /\ pc[c] = "stop_wait"
    BY <1>1 DEF TrackerInv, QuitOnItsWay
  <2>2. event_quit_' = event_quit_
    BY <1>1, <2>1, EventIsHeld
  <2>3. event_quit_ \in Rounds
    BY <2>1 DEF StopInv, Waits, Threads, TypeOK, NULL
  <2>4. /\ pc[event_quit_] = "loop" /\ event_quit_ \in quits =>
              \/ pc'[event_quit_] = "loop" /\ (event_quit_ \in quits' \/ event_quit_ \notin windows')
              \/ pc'[event_quit_] = "signal"
        /\ pc[event_quit_] = "signal" => pc'[event_quit_] = "signal" \/ event_quit_ \in signalled'
        /\ event_quit_ \in signalled => event_quit_ \in signalled'
    BY <1>1, <2>1, <2>3, QuitStep
  <2>5. QED
    BY <1>1, <2>2, <2>3, <2>4 DEF QuitOnItsWay
<1>2. TrackerInv /\ TrackerInv' /\ [Next]_vars =>
        [\A c \in Callers :
           QuitOnItsWay(c) /\ ~eventFailed =>
             \/ QuitOnItsWay(c)'
             \/ pc'[c] # "stop_wait"
             \/ \E r \in Rounds : pc'[r] = "loop" /\ r \notin windows']_vars
  BY <1>1
<1>3. QED
  BY <1>2, TrackerSafety, PTL DEF Spec, QuitIsKept
=============================================================================
