------------------------- MODULE TrackerFollowProofs -------------------------
(***************************************************************************)
(* What TLC finds of the frame with two places and three events, for any   *)
(* number of places, any delay and any length of the event queue.          *)
(***************************************************************************)
EXTENDS TrackerFollow, TLAPS, SequenceTheorems

(* An event that leaves the queue without being a HIDE or a DESTROY leaves *)
(* those behind it in the queue.                                           *)
LEMMA LeavingTail ==
  ASSUME TypeOK, events # <<>>, Leaving, Head(events) \notin {"HIDE", "DESTROY"},
         events' = Tail(events)
  PROVE  Leaving'
<1>1. PICK i \in DOMAIN events : events[i] \in {"HIDE", "DESTROY"}
  BY DEF Leaving
<1>2. i \in 2..Len(events)
  BY <1>1 DEF TypeOK
<1>3. i - 1 \in DOMAIN Tail(events) /\ Tail(events)[i - 1] = events[i]
  BY <1>2 DEF TypeOK
<1>4. QED
  BY <1>1, <1>3 DEF Leaving

(* What Raise does to the queue. *)
LEMMA RaiseEvents ==
  ASSUME TypeOK, NEW types \in Seq(EventTypes), types # <<>>, Raise(types)
  PROVE  /\ events' \in Seq(EventTypes)
         /\ armed' \in BOOLEAN
         /\ Leaving => Leaving'
         /\ ~Hooked => events' = events
         /\ Hooked /\ (\E i \in DOMAIN types : types[i] \in {"HIDE", "DESTROY"}) => Leaving'
<1>1. events' \in Seq(EventTypes) /\ armed' \in BOOLEAN
  BY DEF TypeOK, Raise
<1>2. CASE ~Hooked
  BY <1>1, <1>2 DEF Raise, Leaving
<1>3. CASE Hooked
  <2>1. events' = events \o types
    BY <1>3 DEF Raise
  <2>2. \A i \in DOMAIN events : i \in DOMAIN events' /\ events'[i] = events[i]
    BY <2>1 DEF TypeOK
  <2>3. \A i \in DOMAIN types : Len(events) + i \in DOMAIN events' /\ events'[Len(events) + i] = types[i]
    BY <2>1 DEF TypeOK
  <2>4. Leaving => Leaving'
    BY <2>2 DEF Leaving
  <2>5. QED
    BY <1>1, <1>3, <2>3, <2>4 DEF Leaving
<1>4. QED
  BY <1>2, <1>3

(* However the worker shows, hides and places the frame, it has a place. *)
LEMMA FrameType ==
  ASSUME TypeOK, Hide \/ Sync \/ ShowTrackerWindow \/ UNCHANGED frame
  PROVE  frame' \in [shown : BOOLEAN, rect : Rects]
<1>1. frame \in [shown : BOOLEAN, rect : Rects] /\ wnd \in Window
  BY DEF TypeOK
<1>2. GetWindowScaledRect \in Rects
  BY <1>1 DEF GetWindowScaledRect, Rects, Window
<1>3. (~IsZoomed /\ IsWindowVisible) \in BOOLEAN
  BY <1>1 DEF IsZoomed, IsWindowVisible, Window
<1>4. (IF IsRectEmpty(GetWindowScaledRect) THEN frame.rect ELSE GetWindowScaledRect) \in Rects
  BY <1>1, <1>2
<1>5. CASE Sync
  BY <1>3, <1>4, <1>5 DEF Sync
<1>6. CASE ShowTrackerWindow
  BY <1>1, <1>3, <1>6 DEF ShowTrackerWindow
<1>7. CASE Hide \/ UNCHANGED frame
  BY <1>1, <1>7 DEF Hide
<1>8. QED
  BY <1>5, <1>6, <1>7

(* A change of the window that raises its events.  The frame and what the  *)
(* worker remembers of the window stay as they are.                        *)
LEMMA ChangeKeepsInv ==
  ASSUME FollowInv, NEW w \in Window, NEW types \in Seq(EventTypes), types # <<>>,
         NEW byHook \in BOOLEAN, NEW byTimer \in BOOLEAN,
         Change(w, types), Noticed(byHook, byTimer),
         wnd.visible /\ ~w.visible =>
           \E i \in DOMAIN types : types[i] \in {"HIDE", "DESTROY"}
  PROVE  FollowInv'
<1>1. TypeOK /\ Raise(types) /\ wnd' = w
  BY DEF FollowInv, Change
<1>2. /\ events' \in Seq(EventTypes)
      /\ armed' \in BOOLEAN
      /\ Leaving => Leaving'
      /\ ~Hooked => events' = events
      /\ Hooked /\ (\E i \in DOMAIN types : types[i] \in {"HIDE", "DESTROY"}) => Leaving'
  BY <1>1, RaiseEvents
<1>3. UNCHANGED <<options_, phase, frame, members, active>>
  BY <1>1 DEF Raise
<1>4. TypeOK'
  BY <1>1, <1>2, <1>3 DEF TypeOK, members, console, Noticed
<1>5. HiddenNotFramed'
  <2>1. Hooked' = Hooked
    BY <1>3 DEF Hooked, IsConsole
  <2>2. ~silent' => ~silent
    BY <1>1 DEF Noticed, TypeOK
  <2>3. QED
    BY <1>1, <1>2, <1>3, <2>1, <2>2 DEF FollowInv, HiddenNotFramed
<1>6. ConsoleFramed'
  BY <1>1, <1>3 DEF FollowInv, ConsoleFramed, IsConsole, IsRectEmpty, members, console, Noticed, TypeOK
<1>7. events' # <<>> => Hooked'
  BY <1>2, <1>3 DEF FollowInv, Hooked, IsConsole
<1>8. QED
  BY <1>1, <1>3, <1>4, <1>5, <1>6, <1>7
     DEF FollowInv, IsConsole, IsRectEmpty, members, console, Noticed, TypeOK

(* A change that leaves the window visible, or not, as it was. *)
LEMMA QuietChange ==
  ASSUME FollowInv, NEW w \in Window, w.visible = wnd.visible,
         NEW types \in Seq(EventTypes), types # <<>>,
         NEW byHook \in BOOLEAN, NEW byTimer \in BOOLEAN,
         Change(w, types), Noticed(byHook, byTimer)
  PROVE  FollowInv'
  BY ChangeKeepsInv

(* What the desktop does to the window, and what it only reports of it.    *)
LEMMA DesktopKeepsInv == ASSUME FollowInv, Desktop PROVE FollowInv'
<1> USE DEF EventTypes
<1>0. wnd \in Window /\ wnd.visible \in BOOLEAN
  BY DEF FollowInv, TypeOK, Window
<1>1. CASE BeginDrag
  <2>1. /\ [wnd EXCEPT !.dragging = TRUE] \in Window
        /\ [wnd EXCEPT !.dragging = TRUE].visible = wnd.visible
    BY <1>0 DEF Window
  <2>2. <<"MOVESIZESTART">> \in Seq(EventTypes) /\ <<"MOVESIZESTART">> # <<>>
    OBVIOUS
  <2>3. QED
    BY <1>1, <2>1, <2>2, QuietChange DEF BeginDrag
<1>2. CASE Drag
  <2>1. PICK p \in Places :
          Change([wnd EXCEPT !.place = p, !.show = "normal"], <<"LOCATIONCHANGE">>)
    BY <1>2 DEF Drag
  <2>2. /\ [wnd EXCEPT !.place = p, !.show = "normal"] \in Window
        /\ [wnd EXCEPT !.place = p, !.show = "normal"].visible = wnd.visible
    BY <1>0 DEF Window
  <2>3. <<"LOCATIONCHANGE">> \in Seq(EventTypes) /\ <<"LOCATIONCHANGE">> # <<>>
    OBVIOUS
  <2>4. QED
    BY <1>2, <2>1, <2>2, <2>3, QuietChange DEF Drag
<1>3. CASE EndDrag
  <2>1. /\ [wnd EXCEPT !.dragging = FALSE] \in Window
        /\ [wnd EXCEPT !.dragging = FALSE].visible = wnd.visible
    BY <1>0 DEF Window
  <2>2. /\ [wnd EXCEPT !.dragging = FALSE, !.show = "maximized"] \in Window
        /\ [wnd EXCEPT !.dragging = FALSE, !.show = "maximized"].visible = wnd.visible
    BY <1>0 DEF Window
  <2>3. <<"MOVESIZEEND">> \in Seq(EventTypes) /\ <<"MOVESIZEEND">> # <<>>
    OBVIOUS
  <2>4. /\ <<"LOCATIONCHANGE", "MOVESIZEEND">> \in Seq(EventTypes)
        /\ <<"LOCATIONCHANGE", "MOVESIZEEND">> # <<>>
    OBVIOUS
  <2>5. QED
    BY <1>3, <2>1, <2>2, <2>3, <2>4, QuietChange DEF EndDrag
<1>4. CASE Minimize
  <2>1. /\ [wnd EXCEPT !.show = "minimized"] \in Window
        /\ [wnd EXCEPT !.show = "minimized"].visible = wnd.visible
    BY <1>0 DEF Window
  <2>2. /\ <<"MINIMIZESTART", "LOCATIONCHANGE">> \in Seq(EventTypes)
        /\ <<"MINIMIZESTART", "LOCATIONCHANGE">> # <<>>
    OBVIOUS
  <2>3. QED
    BY <1>4, <2>1, <2>2, QuietChange DEF Minimize
<1>5. CASE Restore
  <2>1. PICK show \in {"normal", "maximized"} :
          Change([wnd EXCEPT !.show = show], <<"LOCATIONCHANGE", "MINIMIZEEND">>)
    BY <1>5 DEF Restore
  <2>2. /\ [wnd EXCEPT !.show = show] \in Window
        /\ [wnd EXCEPT !.show = show].visible = wnd.visible
    BY <1>0 DEF Window
  <2>3. /\ <<"LOCATIONCHANGE", "MINIMIZEEND">> \in Seq(EventTypes)
        /\ <<"LOCATIONCHANGE", "MINIMIZEEND">> # <<>>
    OBVIOUS
  <2>4. QED
    BY <1>5, <2>1, <2>2, <2>3, QuietChange DEF Restore
<1>6. CASE ShowOrHide
  <2> DEFINE type == IF wnd.visible THEN "HIDE" ELSE "SHOW"
  <2>1. [wnd EXCEPT !.visible = ~wnd.visible] \in Window
    BY <1>0 DEF Window
  <2>2. Change([wnd EXCEPT !.visible = ~wnd.visible], <<type>>) /\ Noticed(TRUE, FALSE)
    BY <1>6 DEF ShowOrHide
  <2>3. <<type>> \in Seq(EventTypes) /\ <<type>> # <<>>
    OBVIOUS
  <2>4. wnd.visible => \E i \in DOMAIN <<type>> : <<type>>[i] \in {"HIDE", "DESTROY"}
    OBVIOUS
  <2> HIDE DEF type
  <2>5. QED
    BY <2>1, <2>2, <2>3, <2>4, ChangeKeepsInv
<1>7. CASE Destroy
  <2> DEFINE types == IF wnd.visible THEN <<"HIDE", "DESTROY">> ELSE <<"DESTROY">>
             w == [wnd EXCEPT !.visible = FALSE, !.show = "destroyed", !.dragging = FALSE]
  <2>1. w \in Window
    BY <1>0 DEF Window
  <2>2. Change(w, types) /\ Noticed(TRUE, TRUE)
    BY <1>7 DEF Destroy
  <2>3. types \in Seq(EventTypes) /\ types # <<>>
    <3>1. <<"HIDE", "DESTROY">> \in Seq(EventTypes) /\ <<"HIDE", "DESTROY">> # <<>>
      OBVIOUS
    <3>2. <<"DESTROY">> \in Seq(EventTypes) /\ <<"DESTROY">> # <<>>
      OBVIOUS
    <3>3. QED
      BY <3>1, <3>2
  <2>4. 1 \in DOMAIN types /\ types[1] \in {"HIDE", "DESTROY"}
    OBVIOUS
  <2> HIDE DEF types, w
  <2>5. QED
    BY <2>1, <2>2, <2>3, <2>4, ChangeKeepsInv
<1>8. CASE MoveWindow
  <2>1. PICK p \in Places, show \in {"normal", "maximized"} :
          Change([wnd EXCEPT !.place = p, !.show = show], <<"LOCATIONCHANGE">>)
    BY <1>8 DEF MoveWindow
  <2>2. /\ [wnd EXCEPT !.place = p, !.show = show] \in Window
        /\ [wnd EXCEPT !.place = p, !.show = show].visible = wnd.visible
    BY <1>0 DEF Window
  <2>3. Noticed(armed, TRUE) /\ armed \in BOOLEAN
    BY <1>8 DEF MoveWindow, FollowInv, TypeOK
  <2>4. <<"LOCATIONCHANGE">> \in Seq(EventTypes) /\ <<"LOCATIONCHANGE">> # <<>>
    OBVIOUS
  <2>5. QED
    BY <2>1, <2>2, <2>3, <2>4, QuietChange
<1>9. CASE Noise
  <2>1. PICK type \in EventTypes : Hooked /\ Raise(<<type>>) /\ wnd' = wnd
    BY <1>9 DEF Noise, Change
  <2>2. <<type>> \in Seq(EventTypes) /\ <<type>> # <<>> /\ TypeOK
    BY DEF FollowInv
  <2>3. /\ events' \in Seq(EventTypes)
        /\ armed' \in BOOLEAN
        /\ Leaving => Leaving'
    BY <2>1, <2>2, RaiseEvents
  <2>4. UNCHANGED <<wnd, options_, phase, frame, members, active, silent>>
    BY <1>9, <2>1 DEF Noise, Raise
  <2>5. TypeOK'
    BY <2>3, <2>4 DEF FollowInv, TypeOK, members, console
  <2>6. Hooked'
    BY <2>1, <2>4 DEF Hooked, IsConsole
  <2>7. QED
    BY <2>1, <2>3, <2>4, <2>5, <2>6
       DEF FollowInv, HiddenNotFramed, ConsoleFramed, Hooked, IsConsole
<1>10. CASE Activate
  BY <1>10 DEF Activate, FollowInv, TypeOK, HiddenNotFramed, ConsoleFramed, Leaving, Hooked,
               IsConsole, IsRectEmpty, GetWindowScaledRect, members, console
<1>11. QED
  BY <1>1, <1>2, <1>3, <1>4, <1>5, <1>6, <1>7, <1>8, <1>9, <1>10 DEF Desktop

-----------------------------------------------------------------------------
(* The hook's events, each handled with the window as it is by then. *)
LEMMA HookKeepsInv == ASSUME FollowInv, WinEventHookProc PROVE FollowInv'
<1> USE DEF FollowInv, HandleEvent, IsConsole, Hooked, IsRectEmpty, members, console
<1>1. /\ events # <<>>
      /\ events' = Tail(events)
      /\ events' \in Seq(EventTypes)
      /\ UNCHANGED <<wnd, options_, phase, console, gui, active, armed>>
  BY DEF WinEventHookProc, OnHide, OnMoveSizeStart, OnShow, OnFocus, OnStateChange,
         OnCaptureStart, OnLocationChange, TypeOK
<1>2. frame \in [shown : BOOLEAN, rect : Rects] /\ GetWindowScaledRect \in Rects
  BY DEF TypeOK, GetWindowScaledRect, Rects, Window
<1>3. /\ frame' \in [shown : BOOLEAN, rect : Rects]
      /\ enable_location_check_' \in BOOLEAN
      /\ silent' \in BOOLEAN
  <2>1. Hide \/ Sync \/ ShowTrackerWindow \/ UNCHANGED frame
    BY DEF WinEventHookProc, OnHide, OnMoveSizeStart, OnShow, OnFocus, OnStateChange,
           OnCaptureStart, OnLocationChange
  <2>2. frame' \in [shown : BOOLEAN, rect : Rects]
    BY <2>1, FrameType
  <2>3. QED
    BY <2>2 DEF WinEventHookProc, OnHide, OnMoveSizeStart, OnShow, OnFocus, OnStateChange,
                OnCaptureStart, OnLocationChange, TypeOK
<1>4. TypeOK'
  BY <1>1, <1>3 DEF TypeOK
<1>5. HiddenNotFramed'
  <2>1. CASE ~frame'.shown \/ frame'.shown = (~IsZoomed /\ IsWindowVisible)
    BY <1>1, <2>1 DEF HiddenNotFramed, IsWindowVisible, TypeOK, Window
  <2>2. CASE frame' = frame /\ silent' = silent /\ Head(events) \notin {"HIDE", "DESTROY"}
    BY <1>1, <2>2, LeavingTail DEF HiddenNotFramed
  <2>3. QED
    BY <1>2, <2>1, <2>2
       DEF WinEventHookProc, OnHide, OnMoveSizeStart, OnShow, OnFocus, OnStateChange,
           OnCaptureStart, OnLocationChange, Hide, Sync, ShowTrackerWindow
<1>6. Hooked /\ Hooked'
  BY <1>1
<1>7. QED
  BY <1>4, <1>5, <1>6 DEF ConsoleFramed

(* The console timer, and the beginning and the end of the tracking. *)
LEMMA TickKeepsInv == ASSUME FollowInv, OnTimerConsoleSizeDetect PROVE FollowInv'
<1> USE DEF FollowInv, Tick, IsConsole, Hooked, IsRectEmpty, members, console
<1>1. /\ events = <<>> /\ phase = "following" /\ options_.kind = "console"
      /\ UNCHANGED <<wnd, options_, phase, events, enable_location_check_, active, armed>>
      /\ GetWindowScaledRect \in Rects
  BY DEF OnTimerConsoleSizeDetect, TickEmpty, TickMoving, TickWaits, TickStopped,
         TypeOK, GetWindowScaledRect, Rects, Window
<1>2. MaxDelay \in Nat \ {0} /\ 0..MaxDelay \subseteq Int
  BY FollowAssumption
<1>3. TypeOK'
  <2>1. CASE TickEmpty
    BY <1>1, <2>1 DEF TickEmpty, Hide, TypeOK
  <2>2. CASE TickMoving
    <3>1. frame' \in [shown : BOOLEAN, rect : Rects]
      BY <2>2, FrameType DEF TickMoving
    <3>2. console_hide_' \in BOOLEAN
      BY <2>2 DEF TickMoving, TypeOK
    <3>3. QED
      BY <1>1, <1>2, <2>2, <3>1, <3>2 DEF TickMoving, TypeOK
  <2>3. CASE TickWaits
    BY <1>1, <1>2, <2>3 DEF TickWaits, CountDown, TypeOK
  <2>4. CASE TickStopped
    <3>1. frame' \in [shown : BOOLEAN, rect : Rects]
      BY <2>4, FrameType DEF TickStopped
    <3>2. console_moving_count_' \in 0..MaxDelay
      BY <1>2, <2>4 DEF TickStopped, CountDown, TypeOK
    <3>3. gui' \in BOOLEAN /\ silent' \in BOOLEAN
      BY <2>4 DEF TickStopped, TypeOK
    <3>4. QED
      BY <1>1, <2>4, <3>1, <3>2, <3>3 DEF TickStopped, TypeOK
  <2>5. QED
    BY <2>1, <2>2, <2>3, <2>4 DEF OnTimerConsoleSizeDetect
<1>4. QED
  <2>0. GetWindowScaledRect' = GetWindowScaledRect
    BY <1>1 DEF GetWindowScaledRect
  <2>1. CASE TickEmpty
    BY <1>1, <1>3, <2>0, <2>1 DEF TickEmpty, Hide, HiddenNotFramed, ConsoleFramed, TypeOK
  <2>2. CASE TickMoving
    BY <1>1, <1>3, <2>0, <2>2 DEF TickMoving, Hide, HiddenNotFramed, ConsoleFramed, TypeOK
  <2>3. CASE TickWaits
    BY <1>1, <1>3, <2>0, <2>3 DEF TickWaits, HiddenNotFramed, ConsoleFramed
  <2>4. CASE TickStopped
    BY <1>1, <1>3, <2>0, <2>4
       DEF TickStopped, Standing, Sync, ShowTrackerWindow, HiddenNotFramed, ConsoleFramed, TypeOK
  <2>5. QED
    BY <2>1, <2>2, <2>3, <2>4 DEF OnTimerConsoleSizeDetect

LEMMA NewFrame ==
  /\ [shown |-> FALSE, rect |-> Empty] \in [shown : BOOLEAN, rect : Rects]
  /\ <<>> \in Seq(EventTypes)
  BY DEF Rects

LEMMA PhaseKeepsInv ==
  ASSUME FollowInv,
         \/ OnTrackerWindowCreate \/ OnTrackerMonitor \/ InstallEventHook
         \/ InstallTimerForConsole \/ OnClearResource \/ OnDisplayChange
  PROVE  FollowInv'
<1> USE DEF FollowInv, IsConsole, Hooked, IsRectEmpty, members, console
<1>1. CASE OnTrackerWindowCreate
  <2>1. /\ phase = "create" /\ events = <<>> /\ frame = [shown |-> FALSE, rect |-> Empty]
        /\ wnd \in Window
    BY <1>1 DEF OnTrackerWindowCreate, TypeOK
  <2>2. GetWindowScaledRect' = GetWindowScaledRect /\ GetWindowScaledRect \in Rects
    BY <1>1, <2>1 DEF OnTrackerWindowCreate, GetWindowScaledRect, Rects, Window
  <2>3. /\ phase' \in {"install", "idle"}
        /\ frame' \in {frame, [shown |-> TRUE, rect |-> GetWindowScaledRect]}
        /\ frame'.shown => wnd.visible
    BY <1>1, <2>1 DEF OnTrackerWindowCreate, Hide
  <2>4. silent' \in BOOLEAN
    BY <1>1, <2>1 DEF OnTrackerWindowCreate, Window
  <2>5. TypeOK'
    <3>1. frame' \in [shown : BOOLEAN, rect : Rects]
      <4>1. [shown |-> TRUE, rect |-> GetWindowScaledRect] \in [shown : BOOLEAN, rect : Rects]
        BY <2>2
      <4>2. QED
        BY <2>1, <2>3, <4>1, NewFrame
    <3>2. QED
      BY <1>1, <2>3, <2>4, <3>1 DEF OnTrackerWindowCreate, TypeOK
  <2>6. QED
    BY <1>1, <2>1, <2>2, <2>3, <2>5
       DEF OnTrackerWindowCreate, HiddenNotFramed, ConsoleFramed
<1>2. CASE OnTrackerMonitor
  BY <1>2 DEF OnTrackerMonitor, TypeOK, Rects, HiddenNotFramed, ConsoleFramed
<1>3. CASE InstallEventHook
  BY <1>3 DEF InstallEventHook, TypeOK, HiddenNotFramed, ConsoleFramed
<1>4. CASE InstallTimerForConsole
  BY <1>4 DEF InstallTimerForConsole, TypeOK, Rects, HiddenNotFramed, ConsoleFramed,
              GetWindowScaledRect
<1>5. CASE OnClearResource
  <2>1. TypeOK'
    BY <1>5, NewFrame DEF OnClearResource, TypeOK
  <2>2. QED
    BY <1>5, <2>1 DEF OnClearResource, HiddenNotFramed, ConsoleFramed
<1>6. CASE OnDisplayChange
  <2>1. TypeOK'
    BY <1>6 DEF OnDisplayChange, TypeOK
  <2>2. Leaving' = Leaving /\ GetWindowScaledRect' = GetWindowScaledRect
    BY <1>6 DEF OnDisplayChange, Leaving, GetWindowScaledRect
  <2>3. QED
    BY <1>6, <2>1, <2>2 DEF OnDisplayChange, HiddenNotFramed, ConsoleFramed
<1>7. QED
  BY <1>1, <1>2, <1>3, <1>4, <1>5, <1>6

-----------------------------------------------------------------------------
LEMMA FollowInit == ASSUME Init PROVE FollowInv
<1>1. wnd \in Window
  BY DEF Init, Window
<1>2. MaxDelay \in 0..MaxDelay
  BY FollowAssumption
<1>3. TypeOK
  BY <1>1, <1>2, NewFrame DEF Init, TypeOK, Rects
<1>4. QED
  BY <1>3 DEF Init, FollowInv, HiddenNotFramed, ConsoleFramed, Hooked

LEMMA FollowStutter == ASSUME FollowInv, UNCHANGED vars PROVE FollowInv'
  BY DEF vars, members, console, FollowInv, TypeOK, HiddenNotFramed, ConsoleFramed, Leaving,
         Hooked, IsConsole, IsRectEmpty, GetWindowScaledRect

(* The invariant of FollowInv, for any desktop and any queue. *)
THEOREM FollowSafety == Spec => []FollowInv
<1>1. FollowInv /\ [Next]_vars => FollowInv'
  <2> SUFFICES ASSUME FollowInv, [Next]_vars PROVE FollowInv'
    OBVIOUS
  <2>1. QED
    BY FollowStutter, DesktopKeepsInv, HookKeepsInv, TickKeepsInv, PhaseKeepsInv DEF Next
<1>2. QED
  BY FollowInit, <1>1, PTL DEF Spec

(* A hook's frame that may still be trusted is around a visible window, or *)
(* the event that takes it away is in the queue, however long the worker   *)
(* is about its events.                                                    *)
THEOREM FrameGoesWithWindow == Spec => []HiddenNotFramed
<1>1. FollowInv => HiddenNotFramed
  BY DEF FollowInv
<1>2. QED
  BY <1>1, FollowSafety, PTL

(* For any delay, a console that stands still has its frame around it.     *)
THEOREM FrameAroundConsole == Spec => []ConsoleFramed
<1>1. FollowInv => ConsoleFramed
  BY DEF FollowInv
<1>2. QED
  BY <1>1, FollowSafety, PTL

-----------------------------------------------------------------------------
(* What becomes of the events in the queue when the first is handled...    *)
LEMMA HandledQueue ==
  ASSUME TypeOK, events # <<>>, events' = Tail(events)
  PROVE  /\ Len(events') = Len(events) - 1
         /\ Len(events) \in Nat \ {0}
         /\ \A i \in DOMAIN events' : i \in 1..Len(events') /\ i + 1 \in DOMAIN events
         /\ \A i \in DOMAIN events : i # 1 => i - 1 \in DOMAIN events'
         /\ \A i \in 1..Len(events') : events'[i] = events[i + 1]
  BY DEF TypeOK

(* ...and when others come behind them. *)
LEMMA RaisedQueue ==
  ASSUME TypeOK, NEW types \in Seq(EventTypes), Hooked, Raise(types)
  PROVE  /\ Len(events') = Len(events) + Len(types)
         /\ Len(events) \in Nat /\ Len(types) \in Nat
         /\ \A i \in DOMAIN events : i \in DOMAIN events' /\ events'[i] = events[i]
         /\ \A i \in DOMAIN types : /\ Len(events) + i \in DOMAIN events'
                                    /\ events'[Len(events) + i] = types[i]
         /\ \A i \in DOMAIN events' : i \in DOMAIN events \/ i - Len(events) \in DOMAIN types
<1>1. events' = events \o types
  BY DEF Raise
<1>2. QED
  BY <1>1 DEF TypeOK

LEMMA FollowedHandled ==
  ASSUME TypeOK, events # <<>>, events' = Tail(events), NEW type, NEW by, Followed(type, by)
  PROVE  /\ Followed(type, by)'
         /\ Head(events) = type => \E j \in DOMAIN events' : events'[j] = by
<1>1. ASSUME NEW i \in DOMAIN events' , events'[i] = type
      PROVE  \E j \in DOMAIN events' : i < j /\ events'[j] = by
  <2>1. i + 1 \in DOMAIN events /\ events[i + 1] = type /\ i \in Nat
    BY <1>1, HandledQueue
  <2>2. PICK j \in DOMAIN events : i + 1 < j /\ events[j] = by
    BY <2>1 DEF Followed
  <2>3. j \in Nat /\ j - 1 \in DOMAIN events' /\ events'[j - 1] = events[j] /\ i < j - 1
    BY <2>1, <2>2, HandledQueue DEF TypeOK
  <2>4. QED
    BY <2>2, <2>3
<1>2. ASSUME Head(events) = type
      PROVE  \E j \in DOMAIN events' : events'[j] = by
  <2>1. 1 \in DOMAIN events /\ events[1] = type
    BY <1>2 DEF TypeOK
  <2>2. PICK j \in DOMAIN events : 1 < j /\ events[j] = by
    BY <2>1 DEF Followed
  <2>3. j \in Nat /\ j - 1 \in DOMAIN events' /\ events'[j - 1] = events[j]
    BY <2>2, HandledQueue DEF TypeOK
  <2>4. QED
    BY <2>2, <2>3
<1>3. QED
  BY <1>1, <1>2 DEF Followed

LEMMA FollowedRaised ==
  ASSUME TypeOK, NEW types \in Seq(EventTypes), Hooked, Raise(types), NEW type, NEW by,
         \A k \in DOMAIN types : types[k] # type,
         Followed(type, by) \/ \E k \in DOMAIN types : types[k] = by
  PROVE  Followed(type, by)'
<1>1. SUFFICES ASSUME NEW i \in DOMAIN events', events'[i] = type
               PROVE  \E j \in DOMAIN events' : i < j /\ events'[j] = by
  BY DEF Followed
<1>2. i \in DOMAIN events /\ events[i] = type /\ i \in 1..Len(events)
  <2>1. i \in DOMAIN events \/ i - Len(events) \in DOMAIN types
    BY RaisedQueue
  <2>2. CASE i - Len(events) \in DOMAIN types
    <3>1. i \in Int /\ Len(events) + (i - Len(events)) = i
      BY RaisedQueue DEF TypeOK, Raise
    <3>2. types[i - Len(events)] = type
      BY <1>1, <2>2, <3>1, RaisedQueue
    <3>3. QED
      BY <2>2, <3>2
  <2>3. QED
    BY <1>1, <2>1, <2>2, RaisedQueue DEF TypeOK
<1>3. CASE Followed(type, by)
  BY <1>2, <1>3, RaisedQueue DEF Followed
<1>4. ASSUME NEW k \in DOMAIN types, types[k] = by
      PROVE  \E j \in DOMAIN events' : i < j /\ events'[j] = by
  <2>1. Len(events) + k \in DOMAIN events' /\ events'[Len(events) + k] = by /\ i < Len(events) + k
    BY <1>2, <1>4, RaisedQueue
  <2>2. QED
    BY <2>1
<1>5. QED
  BY <1>3, <1>4

(* An event that comes up next enables the check, ends it or lets it be;   *)
(* for those behind it nothing changes.                                    *)
LEMMA EnabledHandled ==
  ASSUME TypeOK, events # <<>>, events' = Tail(events),
         Head(events) \in Enabling => enable_location_check_',
         Head(events) \notin Disabling => (enable_location_check_ => enable_location_check_'),
         NEW j \in 1..Len(events), EnabledAt(j + 1)
  PROVE  EnabledAt(j)'
<1>1. Head(events) = events[1] /\ Len(events) \in Nat /\ j \in Nat
  BY DEF TypeOK
<1>2. \A k \in 1..(j - 1) : events'[k] = events[k + 1] /\ k + 1 \in 2..j /\ k \in Int
  BY <1>1, HandledQueue
<1>3. (j + 1) - 1 = j
  BY <1>1
<1>4. CASE enable_location_check_ /\ \A k \in 1..j : events[k] \notin Disabling
  <2>1. events[1] \notin Disabling
    BY <1>1, <1>4
  <2>2. \A k \in 1..(j - 1) : events'[k] \notin Disabling
    BY <1>1, <1>2, <1>4
  <2>3. QED
    BY <1>1, <1>4, <2>1, <2>2 DEF EnabledAt
<1>5. ASSUME NEW i \in 1..j, events[i] \in Enabling,
             \A k \in (i + 1)..j : events[k] \notin Disabling
      PROVE  EnabledAt(j)'
  <2>1. CASE i = 1
    <3>1. enable_location_check_'
      BY <1>1, <1>5, <2>1
    <3>2. \A k \in 1..(j - 1) : k + 1 \in (i + 1)..j
      BY <1>1, <2>1
    <3>3. \A k \in 1..(j - 1) : events'[k] \notin Disabling
      BY <1>2, <1>5, <3>2
    <3>4. QED
      BY <3>1, <3>3 DEF EnabledAt
  <2>2. CASE i # 1
    <3>1. i - 1 \in 1..(j - 1) /\ events'[i - 1] = events[i] /\ (i - 1) + 1 = i
      BY <1>1, <1>2, <2>2
    <3>2. \A k \in i..(j - 1) : k \in 1..(j - 1) /\ k + 1 \in (i + 1)..j
      BY <1>1
    <3>3. \A k \in i..(j - 1) : events'[k] \notin Disabling
      BY <1>2, <1>5, <3>2
    <3>4. QED
      BY <1>5, <3>1, <3>3 DEF EnabledAt
  <2>3. QED
    BY <2>1, <2>2
<1>6. QED
  BY <1>3, <1>4, <1>5 DEF EnabledAt

LEMMA EnabledRaised ==
  ASSUME TypeOK, NEW types \in Seq(EventTypes), Hooked, Raise(types),
         NEW j \in 1..(Len(events) + 1), EnabledAt(j)
  PROVE  EnabledAt(j)'
<1>1. Len(events) \in Nat /\ enable_location_check_' = enable_location_check_
  BY DEF TypeOK, Raise, members
<1>2. \A k \in 1..(j - 1) : events'[k] = events[k]
  BY <1>1, RaisedQueue DEF TypeOK
<1>3. CASE enable_location_check_ /\ \A k \in 1..(j - 1) : events[k] \notin Disabling
  BY <1>1, <1>2, <1>3 DEF EnabledAt
<1>4. ASSUME NEW i \in 1..(j - 1), events[i] \in Enabling,
             \A k \in (i + 1)..(j - 1) : events[k] \notin Disabling
      PROVE  EnabledAt(j)'
  <2>1. \A k \in (i + 1)..(j - 1) : k \in 1..(j - 1)
    BY <1>1
  <2>2. QED
    BY <1>2, <1>4, <2>1 DEF EnabledAt
<1>5. QED
  BY <1>3, <1>4 DEF EnabledAt

(* The check that armed speaks of: it is enabled behind the last event. *)
LEMMA ArmedRaised ==
  ASSUME TypeOK, NEW types \in Seq(EventTypes), types # <<>>, Hooked, Raise(types), armed',
         armed => EnabledAt(Len(events) + 1)
  PROVE  EnabledAt(Len(events) + 1)' 
<1> DEFINE n == Len(events)
           m == Len(types)
<1>1. n \in Nat /\ m \in Nat \ {0} /\ Len(events') = n + m
  BY RaisedQueue DEF TypeOK
<1>2. \A k \in 1..m : n + k \in DOMAIN events' /\ events'[n + k] = types[k]
  BY RaisedQueue
<1>3. CASE types[m] \in Enabling
  <2>1. n + m \in 1..(Len(events') + 1 - 1) /\ events'[n + m] \in Enabling
    BY <1>1, <1>2, <1>3
  <2>2. \A k \in (n + m + 1)..(Len(events') + 1 - 1) : events'[k] \notin Disabling
    BY <1>1
  <2> HIDE DEF n, m
  <2>3. QED
    BY <2>1, <2>2 DEF EnabledAt
<1>4. CASE armed /\ \A k \in DOMAIN types : types[k] \notin Disabling
  <2>1. EnabledAt(n + 1) /\ enable_location_check_' = enable_location_check_
    BY <1>4 DEF Raise, members
  <2>2. \A k \in 1..n : events'[k] = events[k]
    BY RaisedQueue DEF TypeOK
  <2>3. \A k \in (n + 1)..(n + m) : events'[k] \notin Disabling
    <3>1. SUFFICES ASSUME NEW k \in (n + 1)..(n + m) PROVE events'[k] \notin Disabling
      OBVIOUS
    <3>2. k - n \in 1..m /\ n + (k - n) = k /\ 1..m = DOMAIN types
      BY <1>1
    <3>3. QED
      BY <1>2, <1>4, <3>2
  <2>4. (n + 1) - 1 = n /\ (Len(events') + 1) - 1 = n + m
    BY <1>1
  <2> HIDE DEF n, m
  <2>5. CASE enable_location_check_ /\ \A k \in 1..n : events[k] \notin Disabling
    <3>1. \A k \in 1..(n + m) : events'[k] \notin Disabling
      BY <1>1, <2>2, <2>3, <2>5
    <3>2. QED
      BY <2>1, <2>4, <2>5, <3>1 DEF EnabledAt
  <2>6. ASSUME NEW i \in 1..n, events[i] \in Enabling,
               \A k \in (i + 1)..n : events[k] \notin Disabling
        PROVE  EnabledAt(Len(events) + 1)'
    <3>1. i \in 1..(n + m) /\ events'[i] \in Enabling
      BY <1>1, <2>2, <2>6
    <3>2. \A k \in (i + 1)..(n + m) : events'[k] \notin Disabling
      <4>1. \A k \in (i + 1)..(n + m) : k \in (i + 1)..n \/ k \in (n + 1)..(n + m)
        BY <1>1
      <4>2. \A k \in (i + 1)..n : events'[k] \notin Disabling
        BY <1>1, <2>2, <2>6
      <4>3. QED
        BY <2>3, <4>1, <4>2
    <3>3. QED
      BY <2>4, <3>1, <3>2 DEF EnabledAt
  <2>7. QED
    BY <2>1, <2>4, <2>5, <2>6 DEF EnabledAt
<1>5. QED
  BY <1>3, <1>4 DEF Raise

-----------------------------------------------------------------------------
(* An event that corrects the frame does so also when those before it have *)
(* been handled, and when others come behind it.                           *)
LEMMA CorrectedHandled ==
  ASSUME TypeOK, events # <<>>, events' = Tail(events), wnd' = wnd,
         Head(events) \in Enabling => enable_location_check_',
         Head(events) \notin Disabling => (enable_location_check_ => enable_location_check_'),
         NEW j \in DOMAIN events, j # 1, Corrects(j)
  PROVE  Corrected'
<1>1. j - 1 \in DOMAIN events' /\ events'[j - 1] = events[j] /\ (j - 1) + 1 = j
  BY HandledQueue DEF TypeOK
<1>2. j - 1 \in 1..Len(events)
  BY <1>1 DEF TypeOK
<1>3. EnabledAt(j) => EnabledAt(j - 1)'
  BY <1>1, <1>2, EnabledHandled
<1>4. Corrects(j - 1)'
  BY <1>1, <1>3 DEF Corrects
<1>5. QED
  BY <1>1, <1>4 DEF Corrected

LEMMA CorrectedRaised ==
  ASSUME TypeOK, NEW types \in Seq(EventTypes), Hooked, Raise(types), wnd'.show = wnd.show,
         Corrected
  PROVE  Corrected'
<1>1. PICK j \in DOMAIN events : Corrects(j)
  BY DEF Corrected
<1>2. j \in DOMAIN events' /\ events'[j] = events[j] /\ j \in 1..(Len(events) + 1)
  BY RaisedQueue DEF TypeOK
<1>3. EnabledAt(j) => EnabledAt(j)'
  BY <1>2, EnabledRaised
<1>4. QED
  BY <1>1, <1>2, <1>3 DEF Corrects, Corrected

(* Events that correct the frame when they come to be handled. *)
Correcting(types, show) ==
  \/ \E k \in DOMAIN types : types[k] \in {"SHOW", "MINIMIZEEND", "MOVESIZEEND"}
  \/ show = "minimized" /\ \E k \in DOMAIN types : types[k] = "MINIMIZESTART"
  \/ armed /\ types = <<"LOCATIONCHANGE">>

LEMMA CorrectingRaised ==
  ASSUME TypeOK, NEW types \in Seq(EventTypes), Hooked, Raise(types),
         Correcting(types, wnd'.show), armed => EnabledAt(Len(events) + 1)
  PROVE  Corrected'
<1>1. \A k \in DOMAIN types : /\ Len(events) + k \in DOMAIN events'
                              /\ events'[Len(events) + k] = types[k]
  BY RaisedQueue
<1>2. ASSUME NEW k \in DOMAIN types,
             \/ types[k] \in {"SHOW", "MINIMIZEEND", "MOVESIZEEND"}
             \/ wnd'.show = "minimized" /\ types[k] = "MINIMIZESTART"
      PROVE  Corrected'
  BY <1>1, <1>2 DEF Corrected, Corrects
<1>3. CASE armed /\ types = <<"LOCATIONCHANGE">>
  <2>1. 1 \in DOMAIN types /\ types[1] = "LOCATIONCHANGE"
    BY <1>3
  <2>2. EnabledAt(Len(events) + 1)
    BY <1>3
  <2>3. Len(events) + 1 \in 1..(Len(events) + 1)
    BY RaisedQueue
  <2>4. PICK j \in 1..(Len(events) + 1) : j = Len(events) + 1
    BY <2>3
  <2>5. EnabledAt(j)'
    BY <2>2, <2>4, EnabledRaised
  <2>6. j \in DOMAIN events' /\ events'[j] = "LOCATIONCHANGE"
    BY <1>1, <2>1, <2>4
  <2>7. QED
    BY <2>5, <2>6 DEF Corrected, Corrects
<1>4. QED
  BY <1>2, <1>3 DEF Correcting

(* What the worker's handling of an event leaves of the queue. *)
LEMMA HookKeepsQueue ==
  ASSUME FollowInv, QueueInv, WinEventHookProc
  PROVE  /\ QueueInv'
         /\ events # <<>> /\ events' = Tail(events)
         /\ UNCHANGED <<wnd, options_, phase>>
         /\ Head(events) \in Enabling => enable_location_check_'
         /\ Head(events) \notin Disabling => (enable_location_check_ => enable_location_check_')
<1>1. TypeOK
  BY DEF FollowInv
<1>2. /\ events # <<>> /\ events' = Tail(events)
      /\ UNCHANGED <<wnd, options_, phase, armed>>
  BY DEF WinEventHookProc, OnHide, OnMoveSizeStart, OnShow, OnFocus, OnStateChange,
         OnCaptureStart, OnLocationChange, HandleEvent
<1>3. /\ Head(events) \in Enabling => enable_location_check_'
      /\ Head(events) \notin Disabling => (enable_location_check_ => enable_location_check_')
  BY DEF WinEventHookProc, OnHide, OnMoveSizeStart, OnShow, OnFocus, OnStateChange,
         OnCaptureStart, OnLocationChange, HandleEvent, Enabling, Disabling
<1>4. \A type, by : Followed(type, by) => Followed(type, by)'
  BY <1>1, <1>2, FollowedHandled
<1>5. (\A i \in DOMAIN events : events[i] # "DESTROY")
        => \A i \in DOMAIN events' : events'[i] # "DESTROY"
  BY <1>1, <1>2, HandledQueue
<1>6. armed' => Hooked' /\ EnabledAt(Len(events) + 1)'
  <2>1. SUFFICES ASSUME armed PROVE Hooked /\ EnabledAt(Len(events) + 1)'
    BY <1>2 DEF Hooked, IsConsole
  <2>2. Len(events') + 1 = Len(events) /\ Len(events) \in 1..Len(events)
    BY <1>1, <1>2, HandledQueue
  <2>3. Hooked /\ EnabledAt(Len(events) + 1)
    BY <2>1 DEF QueueInv
  <2>4. PICK j \in 1..Len(events) : j = Len(events)
    BY <2>2
  <2>5. EnabledAt(j)'
    BY <1>1, <1>2, <1>3, <2>3, <2>4, EnabledHandled
  <2>6. j = Len(events') + 1
    BY <2>2, <2>4
  <2>7. QED
    BY <2>3, <2>5, <2>6
<1>7. QED
  BY <1>2, <1>3, <1>4, <1>5, <1>6 DEF QueueInv

(* A handled event leaves the frame of a visible window right, or an event *)
(* behind it in the queue will: the window is looked at as it is by then,  *)
(* and what hides or keeps the frame wrongly is not the last that is known *)
(* of the window.                                                          *)
LEMMA HookSettles == ASSUME SettleInv, WinEventHookProc PROVE SettleInv'
<1> USE DEF HandleEvent
<1>1. FollowInv /\ QueueInv /\ TypeOK /\ wnd \in Window
  BY DEF SettleInv, FollowInv, TypeOK
<1>2. /\ QueueInv'
      /\ events # <<>> /\ events' = Tail(events)
      /\ UNCHANGED <<wnd, options_, phase>>
      /\ Head(events) \in Enabling => enable_location_check_'
      /\ Head(events) \notin Disabling => (enable_location_check_ => enable_location_check_')
  BY <1>1, HookKeepsQueue
<1>3. FollowInv'
  BY <1>1, HookKeepsInv
<1>4. Hooked /\ Hooked' /\ Head(events) = events[1] /\ 1 \in DOMAIN events
  BY <1>1, <1>2 DEF FollowInv, Hooked, IsConsole, TypeOK
<1>5. SUFFICES ASSUME wnd.visible, ~wnd.dragging, ~silent' PROVE Framed' \/ Corrected'
  BY <1>2, <1>3, <1>4 DEF SettleInv, Hooked
<1>6. wnd.show \in {"normal", "minimized", "maximized"}
  BY <1>1, <1>5 DEF QueueInv, Window
<1>7. \A type, by : Followed(type, by) /\ Head(events) = type
                      => \E j \in DOMAIN events' : events'[j] = by
  BY <1>1, <1>2, FollowedHandled
<1>8. ASSUME ~silent, Head(events) \notin {"SHOW", "MINIMIZEEND", "MOVESIZEEND", "MINIMIZESTART"},
             ~(Head(events) = "LOCATIONCHANGE" /\ enable_location_check_),
             frame' = frame \/ Corrected
      PROVE  Framed' \/ Corrected'
  <2>1. CASE Corrected
    <3>1. PICK j \in DOMAIN events : Corrects(j)
      BY <2>1 DEF Corrected
    <3>2. j # 1
      BY <1>4, <1>8, <3>1 DEF Corrects, EnabledAt
    <3>3. QED
      BY <1>1, <1>2, <3>1, <3>2, CorrectedHandled
  <2>2. CASE Framed /\ frame' = frame
    BY <1>2, <2>2 DEF Framed, IsZoomed, GetWindowScaledRect
  <2>3. QED
    BY <1>4, <1>5, <1>8, <2>1, <2>2 DEF SettleInv
<1>9. CASE OnHide
  <2>1. Head(events) # "CARETHIDE" /\ ~silent /\ frame' = [frame EXCEPT !.shown = FALSE]
    BY <1>1, <1>5, <1>9 DEF OnHide, Hide, TypeOK
  <2>2. Head(events) # "DESTROY"
    BY <1>1, <1>4, <1>6 DEF QueueInv
  <2>3. CASE Head(events) = "HIDE"
    <3>1. \E j \in DOMAIN events' : events'[j] = "SHOW"
      BY <1>1, <1>5, <1>7, <2>3 DEF QueueInv
    <3>2. QED
      BY <3>1 DEF Corrected, Corrects
  <2>4. CASE Head(events) = "MINIMIZESTART" /\ wnd.show = "minimized"
    BY <1>1, <1>2, <2>1, <2>4 DEF Framed, TypeOK
  <2>5. CASE Head(events) = "MINIMIZESTART" /\ wnd.show # "minimized"
    <3>1. \E j \in DOMAIN events' : events'[j] = "MINIMIZEEND"
      BY <1>1, <1>6, <1>7, <2>5 DEF QueueInv
    <3>2. QED
      BY <3>1 DEF Corrected, Corrects
  <2>6. QED
    BY <1>9, <2>1, <2>2, <2>3, <2>4, <2>5 DEF OnHide
<1>10. CASE OnMoveSizeStart
  <2>1. \E j \in DOMAIN events' : events'[j] = "MOVESIZEEND"
    BY <1>1, <1>5, <1>6, <1>7, <1>10 DEF QueueInv, OnMoveSizeStart
  <2>2. QED
    BY <2>1 DEF Corrected, Corrects
<1>11. ASSUME Sync PROVE Framed'
  <2>1. GetWindowScaledRect # Empty \/ wnd.show = "normal"
    BY <1>6, FollowAssumption DEF GetWindowScaledRect
  <2>2. GetWindowScaledRect # Empty
    BY <1>1, <1>6, <2>1, FollowAssumption DEF GetWindowScaledRect, Window
  <2>3. frame' = [shown |-> ~IsZoomed, rect |-> GetWindowScaledRect]
    BY <1>1, <1>5, <1>11, <2>2 DEF Sync, IsRectEmpty, IsWindowVisible, IsZoomed, Window
  <2>4. GetWindowScaledRect' = GetWindowScaledRect /\ IsZoomed' = IsZoomed
    BY <1>2 DEF GetWindowScaledRect, IsZoomed
  <2>5. QED
    BY <1>2, <2>3, <2>4 DEF Framed, IsZoomed
<1>12. CASE OnShow
  BY <1>11, <1>12 DEF OnShow
<1>13. CASE OnFocus
  <2>1. Head(events) = "FOCUS" /\ ~silent
        /\ frame' = [frame EXCEPT !.shown = ~IsZoomed /\ IsWindowVisible]
    BY <1>5, <1>13 DEF OnFocus, ShowTrackerWindow
  <2>2. CASE wnd.show = "minimized"
    <3>1. \E j \in DOMAIN events' : events'[j] = "MINIMIZESTART"
      BY <1>1, <1>7, <2>1, <2>2 DEF QueueInv
    <3>2. QED
      BY <1>2, <2>2, <3>1 DEF Corrected, Corrects
  <2>3. CASE Corrected
    BY <1>8, <2>1, <2>3
  <2>4. CASE Framed /\ wnd.show # "minimized"
    <3>1. frame'.shown = ~IsZoomed /\ frame'.rect = frame.rect
      BY <1>1, <1>5, <2>1 DEF TypeOK, IsWindowVisible, IsZoomed
    <3>2. GetWindowScaledRect' = GetWindowScaledRect /\ IsZoomed' = IsZoomed
      BY <1>2 DEF GetWindowScaledRect, IsZoomed
    <3>3. wnd.show = "normal" \/ IsZoomed
      BY <1>6, <2>4 DEF IsZoomed
    <3>4. QED
      BY <1>2, <2>4, <3>1, <3>2, <3>3 DEF Framed, IsZoomed
  <2>5. QED
    BY <1>4, <1>5, <2>1, <2>2, <2>3, <2>4 DEF SettleInv
<1>14. CASE OnStateChange \/ OnCaptureStart
  BY <1>5, <1>8, <1>14 DEF OnStateChange, OnCaptureStart
<1>15. CASE OnLocationChange
  <2>1. CASE ~enable_location_check_
    BY <1>5, <1>8, <1>15, <2>1 DEF OnLocationChange
  <2>2. CASE enable_location_check_ /\ IsZoomed
    <3>1. frame'.shown = FALSE
      BY <1>1, <1>15, <2>2 DEF OnLocationChange, Hide, TypeOK
    <3>2. QED
      BY <1>2, <2>2, <3>1 DEF Framed, IsZoomed
  <2>3. CASE enable_location_check_ /\ ~IsZoomed
    BY <1>5, <1>11, <1>15, <2>3 DEF OnLocationChange, IsWindowVisible
  <2>4. QED
    BY <2>1, <2>2, <2>3
<1>16. QED
  BY <1>9, <1>10, <1>12, <1>13, <1>14, <1>15 DEF WinEventHookProc

-----------------------------------------------------------------------------
(* A change of the window whose events tell of it: an event that would     *)
(* mislead the worker comes with none, or is no longer the last word.      *)
Tells(w, types) ==
  /\ w.show = "destroyed" => ~w.visible
  /\ w.show = "minimized" => ~w.dragging
  /\ w.visible =>
       /\ \A k \in DOMAIN types : types[k] # "HIDE"
       /\ wnd.visible \/ \E k \in DOMAIN types : types[k] = "SHOW"
  /\ w.show \in {"normal", "maximized"} =>
       /\ \A k \in DOMAIN types : types[k] # "MINIMIZESTART"
       /\ wnd.show \in {"normal", "maximized"} \/ \E k \in DOMAIN types : types[k] = "MINIMIZEEND"
  /\ ~w.dragging /\ w.show # "destroyed" =>
       /\ \A k \in DOMAIN types : types[k] # "MOVESIZESTART"
       /\ ~wnd.dragging \/ \E k \in DOMAIN types : types[k] = "MOVESIZEEND"
  /\ w.show = "minimized" =>
       /\ \A k \in DOMAIN types : types[k] # "FOCUS"
       /\ wnd.show = "minimized" \/ \E k \in DOMAIN types : types[k] = "MINIMIZESTART"
  /\ w.show # "destroyed" => \A k \in DOMAIN types : types[k] # "DESTROY"

LEMMA ChangeKeepsQueue ==
  ASSUME FollowInv, QueueInv, NEW w \in Window, NEW types \in Seq(EventTypes), types # <<>>,
         Change(w, types), Tells(w, types)
  PROVE  QueueInv'
<1>1. TypeOK /\ Raise(types) /\ wnd' = w /\ wnd.show # "destroyed"
  BY DEF FollowInv, Change
<1>2. Hooked' = Hooked
  BY <1>1 DEF Raise, Hooked, IsConsole
<1>3. CASE ~Hooked
  <2>1. events' = <<>> /\ ~armed'
    BY <1>1, <1>3 DEF FollowInv, QueueInv, Raise
  <2>2. \A type, by : Followed(type, by)'
    BY <2>1 DEF Followed
  <2>3. QED
    BY <1>1, <2>1, <2>2 DEF QueueInv, Tells
<1>4. CASE Hooked
  <2>1. \A type, by : /\ \A k \in DOMAIN types : types[k] # type
                      /\ Followed(type, by) \/ \E k \in DOMAIN types : types[k] = by
                      => Followed(type, by)'
    BY <1>1, <1>4, FollowedRaised
  <2>2. w.visible => Followed("HIDE", "SHOW")'
    BY <1>1, <2>1 DEF QueueInv, Tells
  <2>3. w.show \in {"normal", "maximized"} => Followed("MINIMIZESTART", "MINIMIZEEND")'
    BY <1>1, <2>1 DEF QueueInv, Tells
  <2>4. ~w.dragging /\ w.show # "destroyed" => Followed("MOVESIZESTART", "MOVESIZEEND")'
    BY <1>1, <2>1 DEF QueueInv, Tells
  <2>5. w.show = "minimized" => Followed("FOCUS", "MINIMIZESTART")' /\ ~w.dragging
    BY <1>1, <2>1 DEF QueueInv, Tells
  <2>6. w.show # "destroyed" => \A i \in DOMAIN events' : events'[i] # "DESTROY"
    <3>1. SUFFICES ASSUME w.show # "destroyed", NEW i \in DOMAIN events'
                   PROVE  events'[i] # "DESTROY"
      OBVIOUS
    <3>2. \A k \in DOMAIN types : types[k] # "DESTROY"
      BY <3>1 DEF Tells
    <3>3. CASE i \in DOMAIN events
      BY <1>1, <1>4, <3>3, RaisedQueue DEF QueueInv
    <3>4. CASE i - Len(events) \in DOMAIN types
      <4>1. Len(events) + (i - Len(events)) = i
        BY <1>1, <1>4 DEF TypeOK, Raise
      <4>2. QED
        BY <1>1, <1>4, <3>2, <3>4, <4>1, RaisedQueue
    <3>5. QED
      BY <1>1, <1>4, <3>3, <3>4, RaisedQueue
  <2>7. armed' => Hooked' /\ EnabledAt(Len(events) + 1)'
    BY <1>1, <1>2, <1>4, ArmedRaised DEF QueueInv
  <2>8. QED
    BY <1>1, <2>2, <2>3, <2>4, <2>5, <2>6, <2>7 DEF QueueInv, Tells
<1>5. QED
  BY <1>3, <1>4

(* A change that the hook notices brings an event that corrects the frame. *)
LEMMA ChangeSettles ==
  ASSUME SettleInv, NEW w \in Window, NEW types \in Seq(EventTypes), types # <<>>,
         NEW byHook \in BOOLEAN, NEW byTimer \in BOOLEAN,
         Change(w, types), Noticed(byHook, byTimer), Tells(w, types),
         byHook /\ w.visible /\ ~w.dragging => Correcting(types, w.show), FollowInv'
  PROVE  SettleInv'
<1>1. FollowInv /\ QueueInv /\ TypeOK /\ Raise(types) /\ wnd' = w
  BY DEF SettleInv, FollowInv, Change
<1>2. QueueInv'
  BY <1>1, ChangeKeepsQueue
<1>3. Hooked' = Hooked /\ phase' = phase /\ IsConsole' = IsConsole
  BY <1>1 DEF Raise, Hooked, IsConsole
<1>4. phase = "install" => silent'
  BY DEF Noticed
<1>5. Hooked /\ ~silent' => byHook
  BY DEF Hooked, Noticed
<1>6. Hooked /\ w.visible /\ ~w.dragging /\ ~silent' => Corrected'
  BY <1>1, <1>5, CorrectingRaised DEF QueueInv
<1>7. QED
  BY <1>1, <1>2, <1>3, <1>4, <1>6 DEF SettleInv

(* The desktop changes the window as its events tell. *)
LEMMA DesktopSettles == ASSUME SettleInv, Desktop PROVE SettleInv'
<1> USE DEF EventTypes
<1>0. /\ FollowInv /\ QueueInv /\ TypeOK /\ FollowInv'
      /\ wnd \in Window /\ armed \in BOOLEAN
  BY DesktopKeepsInv DEF SettleInv, FollowInv, TypeOK
<1>1. CASE BeginDrag
  <2> DEFINE w == [wnd EXCEPT !.dragging = TRUE]
             types == <<"MOVESIZESTART">>
  <2>1. /\ w \in Window /\ w.show = wnd.show /\ w.visible = wnd.visible
        /\ w.dragging = TRUE
    BY <1>0 DEF Window
  <2>2. /\ types \in Seq(EventTypes) /\ types # <<>>
        /\ \A k \in DOMAIN types : types[k] = "MOVESIZESTART"
    OBVIOUS
  <2>3. Change(w, types) /\ Noticed(TRUE, TRUE) /\ wnd.show \in {"normal", "maximized"}
    BY <1>1 DEF BeginDrag
  <2> HIDE DEF w, types
  <2>4. Tells(w, types)
    BY <2>1, <2>2, <2>3 DEF Tells
  <2>5. QED
    BY <1>0, <2>1, <2>2, <2>3, <2>4, ChangeSettles
<1>2. CASE Drag
  <2>1. PICK p \in Places :
          Change([wnd EXCEPT !.place = p, !.show = "normal"], <<"LOCATIONCHANGE">>)
    BY <1>2 DEF Drag
  <2> DEFINE w == [wnd EXCEPT !.place = p, !.show = "normal"]
             types == <<"LOCATIONCHANGE">>
  <2>2. /\ w \in Window /\ w.show = "normal" /\ w.visible = wnd.visible
        /\ w.dragging = wnd.dragging
    BY <1>0 DEF Window
  <2>3. /\ types \in Seq(EventTypes) /\ types # <<>>
        /\ \A k \in DOMAIN types : types[k] = "LOCATIONCHANGE"
    OBVIOUS
  <2>4. Change(w, types) /\ wnd.show # "destroyed"
    BY <2>1 DEF Change
  <2>5. Noticed(TRUE, TRUE) /\ wnd.dragging /\ wnd.show \in {"normal", "maximized"}
    BY <1>0, <1>2, <2>4 DEF Drag, QueueInv, Window
  <2> HIDE DEF w, types
  <2>6. Tells(w, types)
    BY <2>2, <2>3, <2>5 DEF Tells
  <2>7. QED
    BY <1>0, <2>2, <2>3, <2>4, <2>5, <2>6, ChangeSettles
<1>3. CASE EndDrag
  <2>1. PICK w \in {[wnd EXCEPT !.dragging = FALSE],
                    [wnd EXCEPT !.dragging = FALSE, !.show = "maximized"]},
             types \in {<<"MOVESIZEEND">>, <<"LOCATIONCHANGE", "MOVESIZEEND">>} :
          Change(w, types)
    BY <1>3 DEF EndDrag
  <2>2. w \in Window /\ w.show \in {wnd.show, "maximized"} /\ w.visible = wnd.visible
    BY <1>0, <2>1 DEF Window
  <2>3. /\ types \in Seq(EventTypes) /\ types # <<>>
        /\ \A k \in DOMAIN types : types[k] \in {"LOCATIONCHANGE", "MOVESIZEEND"}
        /\ \E k \in DOMAIN types : types[k] = "MOVESIZEEND"
    <3>1. CASE types = <<"MOVESIZEEND">>
      BY <3>1
    <3>2. CASE types = <<"LOCATIONCHANGE", "MOVESIZEEND">>
      <4>1. 2 \in DOMAIN types /\ types[2] = "MOVESIZEEND"
        BY <3>2
      <4>2. QED
        BY <3>2, <4>1
    <3>3. QED
      BY <2>1, <3>1, <3>2
  <2>4. Noticed(TRUE, TRUE) /\ wnd.show \in {"normal", "maximized"}
    BY <1>0, <1>3, <2>1 DEF EndDrag, QueueInv, Window, Change
  <2>5. Tells(w, types) /\ Correcting(types, w.show)
    BY <1>0, <2>2, <2>3, <2>4 DEF Tells, Correcting
  <2>6. QED
    BY <1>0, <2>1, <2>2, <2>3, <2>4, <2>5, ChangeSettles
<1>4. CASE Minimize
  <2> DEFINE w == [wnd EXCEPT !.show = "minimized"]
             types == <<"MINIMIZESTART", "LOCATIONCHANGE">>
  <2>1. /\ w \in Window /\ w.show = "minimized" /\ w.visible = wnd.visible
        /\ w.dragging = wnd.dragging
    BY <1>0 DEF Window
  <2>2. /\ types \in Seq(EventTypes) /\ types # <<>>
        /\ \A k \in DOMAIN types : types[k] \in {"MINIMIZESTART", "LOCATIONCHANGE"}
        /\ 1 \in DOMAIN types /\ types[1] = "MINIMIZESTART"
    OBVIOUS
  <2>3. Change(w, types) /\ Noticed(TRUE, TRUE) /\ wnd.visible /\ ~wnd.dragging
    BY <1>4 DEF Minimize
  <2> HIDE DEF w, types
  <2>4. Tells(w, types) /\ Correcting(types, w.show)
    BY <2>1, <2>2, <2>3 DEF Tells, Correcting
  <2>5. QED
    BY <1>0, <2>1, <2>2, <2>3, <2>4, ChangeSettles
<1>5. CASE Restore
  <2>1. PICK show \in {"normal", "maximized"} :
          Change([wnd EXCEPT !.show = show], <<"LOCATIONCHANGE", "MINIMIZEEND">>)
    BY <1>5 DEF Restore
  <2> DEFINE w == [wnd EXCEPT !.show = show]
             types == <<"LOCATIONCHANGE", "MINIMIZEEND">>
  <2>2. /\ w \in Window /\ w.show \in {"normal", "maximized"} /\ w.visible = wnd.visible
        /\ w.dragging = wnd.dragging
    BY <1>0 DEF Window
  <2>3. /\ types \in Seq(EventTypes) /\ types # <<>>
        /\ \A k \in DOMAIN types : types[k] \in {"LOCATIONCHANGE", "MINIMIZEEND"}
        /\ 2 \in DOMAIN types /\ types[2] = "MINIMIZEEND"
    OBVIOUS
  <2>4. Change(w, types) /\ Noticed(TRUE, TRUE) /\ wnd.show = "minimized" /\ ~wnd.dragging
    BY <1>0, <1>5, <2>1 DEF Restore, QueueInv
  <2> HIDE DEF w, types
  <2>5. Tells(w, types) /\ Correcting(types, w.show)
    BY <2>2, <2>3, <2>4 DEF Tells, Correcting
  <2>6. QED
    BY <1>0, <2>2, <2>3, <2>4, <2>5, ChangeSettles
<1>6. CASE ShowOrHide
  <2> DEFINE w == [wnd EXCEPT !.visible = ~wnd.visible]
             types == <<IF wnd.visible THEN "HIDE" ELSE "SHOW">>
  <2>1. /\ w \in Window /\ w.show = wnd.show /\ w.visible = ~wnd.visible
        /\ w.dragging = wnd.dragging
    BY <1>0 DEF Window
  <2>2. /\ types \in Seq(EventTypes) /\ types # <<>>
        /\ \A k \in DOMAIN types : types[k] = IF wnd.visible THEN "HIDE" ELSE "SHOW"
        /\ 1 \in DOMAIN types
    OBVIOUS
  <2>3. Change(w, types) /\ Noticed(TRUE, FALSE) /\ wnd.show # "destroyed"
    BY <1>6 DEF ShowOrHide, Change
  <2> HIDE DEF w, types
  <2>4. Tells(w, types) /\ (w.visible => Correcting(types, w.show))
    BY <1>0, <2>1, <2>2, <2>3 DEF Tells, Correcting, QueueInv
  <2>5. QED
    BY <1>0, <2>1, <2>2, <2>3, <2>4, ChangeSettles
<1>7. CASE Destroy
  <2> DEFINE w == [wnd EXCEPT !.visible = FALSE, !.show = "destroyed", !.dragging = FALSE]
             types == IF wnd.visible THEN <<"HIDE", "DESTROY">> ELSE <<"DESTROY">>
  <2>1. w \in Window /\ w.show = "destroyed" /\ ~w.visible
    BY <1>0 DEF Window
  <2>2. types \in Seq(EventTypes) /\ types # <<>>
    <3>1. <<"HIDE", "DESTROY">> \in Seq(EventTypes) /\ <<"HIDE", "DESTROY">> # <<>>
      OBVIOUS
    <3>2. <<"DESTROY">> \in Seq(EventTypes) /\ <<"DESTROY">> # <<>>
      OBVIOUS
    <3>3. QED
      BY <3>1, <3>2
  <2>3. Change(w, types) /\ Noticed(TRUE, TRUE)
    BY <1>7 DEF Destroy
  <2> HIDE DEF w, types
  <2>4. Tells(w, types)
    BY <2>1 DEF Tells
  <2>5. QED
    BY <1>0, <2>1, <2>2, <2>3, <2>4, ChangeSettles
<1>8. CASE MoveWindow
  <2>1. PICK p \in Places, show \in {"normal", "maximized"} :
          Change([wnd EXCEPT !.place = p, !.show = show], <<"LOCATIONCHANGE">>)
    BY <1>8 DEF MoveWindow
  <2> DEFINE w == [wnd EXCEPT !.place = p, !.show = show]
             types == <<"LOCATIONCHANGE">>
  <2>2. /\ w \in Window /\ w.show \in {"normal", "maximized"} /\ w.visible = wnd.visible
        /\ w.dragging = wnd.dragging
    BY <1>0 DEF Window
  <2>3. /\ types \in Seq(EventTypes) /\ types # <<>>
        /\ \A k \in DOMAIN types : types[k] = "LOCATIONCHANGE"
    OBVIOUS
  <2>4. Change(w, types) /\ Noticed(armed, TRUE) /\ ~wnd.dragging /\ wnd.show # "minimized"
        /\ wnd.show # "destroyed"
    BY <1>8, <2>1 DEF MoveWindow, Change
  <2>5. wnd.show \in {"normal", "maximized"}
    BY <1>0, <2>4 DEF Window
  <2>6. armed => Correcting(types, w.show)
    BY DEF Correcting
  <2> HIDE DEF w, types
  <2>7. Tells(w, types)
    BY <2>2, <2>3, <2>4, <2>5 DEF Tells
  <2>8. QED
    BY <1>0, <2>2, <2>3, <2>4, <2>6, <2>7, ChangeSettles
<1>9. CASE Noise
  <2>1. PICK type \in {"FOCUS", "STATECHANGE", "LOCATIONCHANGE", "SHOW", "CAPTURESTART",
                       "CAPTUREEND", "CARETHIDE"} :
          /\ type = "FOCUS" => wnd.show # "minimized"
          /\ Hooked /\ Change(wnd, <<type>>)
    BY <1>9 DEF Noise
  <2> DEFINE types == <<type>>
  <2>2. /\ types \in Seq(EventTypes) /\ types # <<>>
        /\ \A k \in DOMAIN types : types[k] = type
    OBVIOUS
  <2>3. Change(wnd, types) /\ Hooked /\ silent' = silent
    BY <1>9, <2>1 DEF Noise
  <2> HIDE DEF types
  <2>4. Tells(wnd, types)
    BY <1>0, <2>1, <2>2, <2>3 DEF Tells, QueueInv, Change
  <2>5. QueueInv'
    BY <1>0, <2>2, <2>3, <2>4, ChangeKeepsQueue
  <2>6. wnd' = wnd /\ frame' = frame /\ phase' = phase /\ options_' = options_ /\ Raise(types)
    BY <2>3 DEF Change, Raise
  <2>7. Corrected => Corrected'
    BY <1>0, <2>2, <2>3, <2>6, CorrectedRaised
  <2>8. Framed' = Framed /\ Hooked' = Hooked
    BY <2>6 DEF Framed, IsZoomed, GetWindowScaledRect, Hooked, IsConsole
  <2>9. QED
    BY <1>0, <2>3, <2>5, <2>6, <2>7, <2>8 DEF SettleInv, IsConsole, Hooked
<1>10. CASE Activate
  <2>1. UNCHANGED <<wnd, options_, phase, frame, events, enable_location_check_, armed, silent>>
    BY <1>10 DEF Activate, members
  <2>2. /\ Framed' = Framed /\ Corrected' = Corrected /\ QueueInv' = QueueInv
        /\ Hooked' = Hooked /\ IsConsole' = IsConsole
    BY <2>1 DEF Framed, Corrected, Corrects, EnabledAt, QueueInv, Followed, IsZoomed, Hooked,
                GetWindowScaledRect, IsConsole
  <2>3. QED
    BY <1>0, <2>1, <2>2 DEF SettleInv
<1>11. QED
  BY <1>1, <1>2, <1>3, <1>4, <1>5, <1>6, <1>7, <1>8, <1>9, <1>10 DEF Desktop

(* The timer belongs to consoles, which have no hook; before there is one, *)
(* and after, no event is in the queue.                                    *)
LEMMA TickSettles == ASSUME SettleInv, OnTimerConsoleSizeDetect PROVE SettleInv'
<1>1. /\ phase = "following" /\ IsConsole
      /\ UNCHANGED <<wnd, options_, phase, events, enable_location_check_, armed>>
  BY DEF OnTimerConsoleSizeDetect, TickEmpty, TickMoving, TickWaits, TickStopped, Tick
<1>2. FollowInv' /\ QueueInv
  BY TickKeepsInv DEF SettleInv
<1>3. QueueInv'
  BY <1>1, <1>2 DEF QueueInv, Followed, EnabledAt, Hooked, IsConsole
<1>4. QED
  BY <1>1, <1>2, <1>3 DEF SettleInv, Hooked, IsConsole

LEMMA PhaseSettles ==
  ASSUME SettleInv,
         \/ OnTrackerWindowCreate \/ OnTrackerMonitor \/ InstallEventHook
         \/ InstallTimerForConsole \/ OnClearResource \/ OnDisplayChange
  PROVE  SettleInv'
<1>0. FollowInv' /\ FollowInv /\ QueueInv /\ TypeOK
  BY PhaseKeepsInv DEF SettleInv, FollowInv
<1>1. CASE OnTrackerMonitor
  <2>1. /\ events = <<>> /\ events' = <<>> /\ ~armed /\ ~armed' /\ wnd' = wnd /\ phase' = "idle"
    BY <1>0, <1>1 DEF OnTrackerMonitor, FollowInv, QueueInv, Hooked
  <2>2. QueueInv'
    BY <1>0, <2>1 DEF QueueInv, Followed
  <2>3. QED
    BY <1>0, <2>1, <2>2 DEF SettleInv, Hooked
<1>2. CASE OnTrackerWindowCreate
  <2>1. /\ phase = "create" /\ events = <<>> /\ events' = <<>> /\ ~armed /\ ~armed'
        /\ wnd' = wnd /\ options_' = options_
    BY <1>0, <1>2 DEF OnTrackerWindowCreate, FollowInv, QueueInv, Hooked
  <2>2. QueueInv' /\ ~Hooked'
    BY <1>0, <1>2, <2>1 DEF QueueInv, Followed, Hooked, OnTrackerWindowCreate
  <2>3. phase' = "install" /\ wnd.visible => Framed'
    <3>1. SUFFICES ASSUME phase' = "install", wnd.visible PROVE Framed'
      OBVIOUS
    <3>2. \/ /\ wnd.show = "normal"
             /\ frame' = [shown |-> TRUE, rect |-> GetWindowScaledRect]
          \/ wnd.show # "normal" /\ Hide
      BY <1>2, <3>1 DEF OnTrackerWindowCreate
    <3>3. GetWindowScaledRect' = GetWindowScaledRect
      BY <2>1 DEF GetWindowScaledRect
    <3>4. QED
      BY <1>0, <2>1, <3>2, <3>3 DEF Framed, Hide, IsZoomed, TypeOK
  <2>4. QED
    BY <1>0, <2>1, <2>2, <2>3 DEF SettleInv
<1>3. CASE InstallEventHook
  <2>1. /\ phase = "install" /\ ~IsConsole /\ events = <<>> /\ events' = <<>>
        /\ ~armed /\ ~armed' /\ UNCHANGED <<wnd, options_, frame, silent>>
        /\ phase' \in {"following", "idle"}
    BY <1>0, <1>3 DEF InstallEventHook, FollowInv, QueueInv, Hooked
  <2>2. QueueInv'
    BY <1>0, <2>1 DEF QueueInv, Followed
  <2>3. Framed' = Framed
    BY <2>1 DEF Framed, IsZoomed, GetWindowScaledRect
  <2>4. QED
    BY <1>0, <2>1, <2>2, <2>3 DEF SettleInv
<1>4. CASE OnClearResource
  <2>1. events' = <<>> /\ ~armed' /\ phase' = "create" /\ wnd' = wnd
    BY <1>4 DEF OnClearResource
  <2>2. QueueInv'
    BY <1>0, <2>1 DEF QueueInv, Followed
  <2>3. QED
    BY <1>0, <2>1, <2>2 DEF SettleInv, Hooked
<1>5. CASE OnDisplayChange
  <2>1. /\ UNCHANGED <<wnd, options_, phase, frame, events, armed, silent>>
        /\ enable_location_check_' /\ phase # "install"
    BY <1>5 DEF OnDisplayChange
  <2>2. \A j : EnabledAt(j) => EnabledAt(j)'
    BY <2>1 DEF EnabledAt
  <2>3. QueueInv' /\ (Corrected => Corrected')
    BY <1>0, <2>1, <2>2 DEF QueueInv, Followed, Hooked, IsConsole, Corrected, Corrects
  <2>4. Framed' = Framed /\ Hooked' = Hooked
    BY <2>1 DEF Framed, IsZoomed, GetWindowScaledRect, Hooked, IsConsole
  <2>5. QED
    BY <1>0, <2>1, <2>3, <2>4 DEF SettleInv
<1>6. CASE InstallTimerForConsole
  <2>1. /\ phase = "install" /\ IsConsole /\ IsConsole' /\ events = <<>> /\ events' = <<>>
        /\ ~armed /\ ~armed' /\ wnd' = wnd /\ phase' \in {"following", "idle"}
    BY <1>0, <1>6 DEF InstallTimerForConsole, FollowInv, QueueInv, Hooked, IsConsole
  <2>2. QueueInv'
    BY <1>0, <2>1 DEF QueueInv, Followed
  <2>3. QED
    BY <1>0, <2>1, <2>2 DEF SettleInv, Hooked
<1>7. QED
  BY <1>1, <1>2, <1>3, <1>4, <1>5, <1>6

-----------------------------------------------------------------------------
(* What the worker is behind with it catches up: SettleInv holds whatever  *)
(* the desktop does and in whatever order the events come up.              *)
THEOREM SettleSafety == Spec => []SettleInv
<1>1. Init => SettleInv
  <2> SUFFICES ASSUME Init PROVE SettleInv
    OBVIOUS
  <2>1. FollowInv
    BY FollowInit
  <2>2. QueueInv
    BY DEF Init, QueueInv, Followed
  <2>3. QED
    BY <2>1, <2>2 DEF Init, SettleInv, Hooked
<1>2. SettleInv /\ [Next]_vars => SettleInv'
  <2> SUFFICES ASSUME SettleInv, [Next]_vars PROVE SettleInv'
    OBVIOUS
  <2>1. CASE UNCHANGED vars
    <3>1. UNCHANGED <<wnd, options_, phase, frame, events, members, active, armed, silent>>
      BY <2>1 DEF vars
    <3>2. UNCHANGED enable_location_check_
      BY <3>1 DEF members
    <3>3. FollowInv'
      BY <2>1, FollowStutter DEF SettleInv
    <3>4. /\ Framed' = Framed /\ Corrected' = Corrected /\ QueueInv' = QueueInv
          /\ Hooked' = Hooked /\ IsConsole' = IsConsole
      BY <3>1, <3>2 DEF Framed, Corrected, Corrects, EnabledAt, QueueInv, Followed, IsZoomed,
                        Hooked, GetWindowScaledRect, IsConsole
    <3>5. QED
      BY <3>1, <3>3, <3>4 DEF SettleInv
  <2>2. QED
    BY <2>1, DesktopSettles, HookSettles, TickSettles, PhaseSettles DEF Next
<1>3. QED
  BY <1>1, <1>2, PTL DEF Spec

(* When the worker has handled all events of a window that nobody drags,   *)
(* its frame is around it as it is: shown around a visible window in its   *)
(* normal state, at the window's rectangle wherever it is shown, and not   *)
(* shown around one that is hidden, maximised or gone.                     *)
THEOREM FrameSettlesDown == Spec => []FrameSettles
<1>1. SettleInv => FrameSettles
  <2> SUFFICES ASSUME SettleInv, Hooked, events = <<>>, ~wnd.dragging, ~silent
               PROVE  /\ wnd.visible /\ wnd.show = "normal" => frame.shown
                      /\ frame.shown => wnd.visible /\ ~IsZoomed /\ frame.rect = GetWindowScaledRect
    BY DEF FrameSettles
  <2>1. ~Corrected /\ ~Leaving
    BY DEF Corrected, Leaving
  <2>2. frame.shown => wnd.visible
    BY <2>1 DEF SettleInv, FollowInv, HiddenNotFramed
  <2>3. wnd.visible => Framed
    BY <2>1 DEF SettleInv
  <2>4. QED
    BY <2>2, <2>3 DEF Framed
<1>2. QED
  BY <1>1, SettleSafety, PTL
=============================================================================
