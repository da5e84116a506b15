---------------------------- MODULE TrackerFollow ----------------------------
(***************************************************************************)
(* How the frame of a TrackerWnd follows the tracked window: for most      *)
(* windows by WinEvents, which the worker handles some time after they     *)
(* were raised and by looking at the window as it is then; for consoles by *)
(* a timer; not at all for a screen.  Z-order and drawing are left out.    *)
(***************************************************************************)
EXTENDS Integers, Sequences

CONSTANTS Places,       \* where a window can be when it is in its normal state
          Iconic,       \* where Windows keeps minimised windows
          Monitor,      \* the rectangle of a maximised one
          Speck,        \* the thickness of the frame around no rectangle
          Empty,        \* a rectangle for which IsRectEmpty holds
          Options,      \* Options and windows: is it a console, has the frame a thickness
          MaxDelay,     \* kMaxTimesMovingDelay
          MaxEvents     \* bound of the event queue

ASSUME FollowAssumption ==
  /\ Empty \notin Places \cup {Iconic, Monitor, Speck}
  /\ Options \subseteq [kind : {"window", "console", "screen"}, thick : BOOLEAN]
  /\ MaxDelay \in Nat \ {0}

VARIABLES wnd,        \* the tracked window, as the desktop has it
          options_,
          phase,      \* of the tracking: create, install, following, idle
          frame,      \* tracker_wnd_: is it shown, and where
          events,     \* WinEvents raised for the hook and not handled
          enable_location_check_, console_hide_, console_moving_count_, rc_console_,
          active,     \* hwndActive of the tracked thread is the window...
          gui,        \* ...and was so in gui_thread_info_
          armed,      \* history: the next location change will be followed
          silent      \* history: the window changed and nothing tells the worker

console == <<console_hide_, console_moving_count_, rc_console_>>
members == <<enable_location_check_, console, gui>>
vars == <<wnd, options_, phase, frame, events, members, active, armed, silent>>

IsConsole == options_.kind = "console"

Rects == Places \cup {Iconic, Monitor, Speck, Empty}

EventTypes == {"SHOW", "HIDE", "DESTROY", "FOCUS", "STATECHANGE", "LOCATIONCHANGE",
               "MINIMIZESTART", "MINIMIZEEND", "MOVESIZESTART", "MOVESIZEEND",
               "CAPTURESTART", "CAPTUREEND", "CARETHIDE"}

Window == [visible : BOOLEAN, show : {"normal", "minimized", "maximized", "destroyed"},
           place : Places, dragging : BOOLEAN]

TypeOK ==
  /\ wnd \in Window
  /\ options_ \in Options
  /\ phase \in {"create", "install", "following", "idle"}
  /\ frame \in [shown : BOOLEAN, rect : Rects]
  /\ events \in Seq(EventTypes)
  /\ enable_location_check_ \in BOOLEAN
  /\ console_hide_ \in BOOLEAN
  /\ console_moving_count_ \in 0..MaxDelay
  /\ rc_console_ \in Rects
  /\ active \in BOOLEAN
  /\ gui \in BOOLEAN
  /\ armed \in BOOLEAN
  /\ silent \in BOOLEAN

Init ==
  /\ wnd \in [visible : {TRUE}, show : {"normal"}, place : Places, dragging : {FALSE}]
  /\ options_ \in Options
  /\ phase = "create"
  /\ frame = [shown |-> FALSE, rect |-> Empty]
  /\ events = <<>>
  /\ enable_location_check_ = FALSE
  /\ console_hide_ = FALSE
  /\ console_moving_count_ = MaxDelay
  /\ rc_console_ = Empty
  /\ active = FALSE
  /\ gui = FALSE
  /\ armed = FALSE
  /\ silent = FALSE

-----------------------------------------------------------------------------
(* What the worker reads and does. *)

IsZoomed == wnd.show = "maximized"
IsWindowVisible == wnd.visible

(* DwmGetWindowAttribute fails for a dead window and leaves rect as it was. *)
GetWindowScaledRect ==
  CASE wnd.show = "normal"    -> wnd.place
    [] wnd.show = "minimized" -> Iconic
    [] wnd.show = "maximized" -> Monitor
    [] OTHER                  -> IF options_.thick THEN Speck ELSE Empty

HideNothing == UNCHANGED frame

IsRectEmpty(rc) == rc = Empty

ShowAnyway == frame' = [frame EXCEPT !.shown = ~IsZoomed]

Hide == frame' = [frame EXCEPT !.shown = FALSE]

ShowTrackerWindow == frame' = [frame EXCEPT !.shown = ~IsZoomed /\ IsWindowVisible]

SyncZoomed == frame' = [shown |-> IsWindowVisible, rect |-> GetWindowScaledRect]

(* UpdateSizeAndPos and ShowTrackerWindow. *)
Sync ==
  frame' = [shown |-> ~IsZoomed /\ IsWindowVisible,
            rect |-> IF IsRectEmpty(GetWindowScaledRect) THEN frame.rect ELSE GetWindowScaledRect]

(* The window as it is before the hook or the timer is there to watch it. *)
OnTrackerWindowCreate ==
  /\ phase = "create" /\ options_.kind # "screen"
  /\ IF wnd.show = "destroyed"
     THEN phase' = "idle" /\ UNCHANGED frame
     ELSE /\ phase' = "install"
          /\ IF wnd.show = "normal" /\ wnd.visible
             THEN frame' = [shown |-> TRUE, rect |-> GetWindowScaledRect]
             ELSE Hide
  /\ silent' = (IsConsole /\ ~wnd.visible)
  /\ UNCHANGED <<wnd, options_, events, members, active, armed>>

(* The frame of a screen, which nothing changes until the window ends.     *)
(* A window's options come without a monitor, and a screen's with one, or  *)
(* with a window to take the monitor of: no other options are made.        *)
OnTrackerMonitor ==
  /\ phase = "create" /\ options_.kind = "screen"
  /\ phase' = "idle"
  /\ frame' = [shown |-> TRUE, rect |-> Monitor]
  /\ UNCHANGED <<wnd, options_, events, members, active, armed, silent>>

(* A hook or a timer that Windows does not grant is not asked for again.   *)
InstallEventHook ==
  /\ phase = "install" /\ ~IsConsole
  /\ phase' \in {"following", "idle"}
  /\ UNCHANGED <<wnd, options_, frame, events, members, active, armed, silent>>

InstallTimerForConsole ==
  /\ phase = "install" /\ IsConsole
  /\ phase' \in {"following", "idle"}
  /\ rc_console_' = Empty
  /\ UNCHANGED <<wnd, options_, frame, events, enable_location_check_, console_hide_,
                 console_moving_count_, gui, active, armed, silent>>

(* WM_QUIT, OnClearResource; the members outlive the window, and a later   *)
(* start makes another one of no size.                                     *)
OnClearResource ==
  /\ phase \in {"following", "idle"}
  /\ phase' = "create"
  /\ frame' = [shown |-> FALSE, rect |-> Empty]
  /\ events' = <<>>
  /\ armed' = FALSE
  /\ silent' = FALSE
  /\ UNCHANGED <<wnd, options_, members, active>>

(* WM_DISPLAYCHANGE and WM_DPICHANGED *)
OnDisplayChange ==
  /\ phase \in {"following", "idle"}
  /\ enable_location_check_' = TRUE
  /\ UNCHANGED <<wnd, options_, phase, frame, events, console, gui, active, armed, silent>>

-----------------------------------------------------------------------------
(* WinEventHookProc, one action per group of cases. *)

HandleEvent(types) ==
  /\ events # <<>>
  /\ Head(events) \in types
  /\ events' = Tail(events)
  /\ UNCHANGED <<wnd, options_, phase, console, gui, active, armed>>

OnHide ==
  /\ HandleEvent({"DESTROY", "HIDE", "CARETHIDE", "MINIMIZESTART"})
  /\ Hide
  /\ silent' = (silent \/ Head(events) = "CARETHIDE")
  /\ UNCHANGED enable_location_check_

OnMoveSizeStart ==
  /\ HandleEvent({"MOVESIZESTART"})
  /\ Hide
  /\ enable_location_check_' = FALSE
  /\ UNCHANGED silent

OnShow ==
  /\ HandleEvent({"SHOW", "MINIMIZEEND", "MOVESIZEEND"})
  /\ Sync
  /\ silent' = FALSE
  /\ UNCHANGED enable_location_check_

OnFocus ==
  /\ HandleEvent({"FOCUS"})
  /\ ShowTrackerWindow
  /\ UNCHANGED <<enable_location_check_, silent>>

OnStateChange ==
  /\ HandleEvent({"STATECHANGE", "CAPTUREEND"})
  /\ enable_location_check_' = TRUE
  /\ UNCHANGED <<frame, silent>>

OnCaptureStart ==
  /\ HandleEvent({"CAPTURESTART"})
  /\ enable_location_check_' = FALSE
  /\ UNCHANGED <<frame, silent>>

(* The check stays enabled when the window is maximised or not visible. *)
OnLocationChange ==
  /\ HandleEvent({"LOCATIONCHANGE"})
  /\ IF enable_location_check_
     THEN /\ IF IsZoomed \/ ~IsWindowVisible
             THEN Hide /\ UNCHANGED enable_location_check_
             ELSE Sync /\ enable_location_check_' = FALSE
          /\ silent' = FALSE
     ELSE UNCHANGED <<frame, enable_location_check_, silent>>

WinEventHookProc ==
  OnHide \/ OnMoveSizeStart \/ OnShow \/ OnFocus \/ OnStateChange \/ OnCaptureStart
    \/ OnLocationChange

-----------------------------------------------------------------------------
(* OnTimerConsoleSizeDetect, one action per way through it. *)

Tick(condition) ==
  /\ phase = "following" /\ IsConsole
  /\ condition
  /\ UNCHANGED <<wnd, options_, phase, events, enable_location_check_, active, armed>>

Standing == GetWindowScaledRect = rc_console_
Delayed == console_moving_count_ > 1

CountNothing == UNCHANGED console_moving_count_

(* --console_moving_count_, which the code lets fall for ever *)
CountDown ==
  console_moving_count_' = IF console_moving_count_ = 0 THEN 0 ELSE console_moving_count_ - 1

TickEmpty ==
  /\ Tick(IsRectEmpty(GetWindowScaledRect))
  /\ Hide
  /\ UNCHANGED <<console, gui, silent>>

TickMoving ==
  /\ Tick(~IsRectEmpty(GetWindowScaledRect) /\ ~Standing)
  /\ IF ~console_hide_ /\ ~IsRectEmpty(rc_console_)
     THEN Hide /\ console_hide_' = TRUE
     ELSE UNCHANGED <<frame, console_hide_>>
  /\ console_moving_count_' = MaxDelay
  /\ rc_console_' = GetWindowScaledRect
  /\ UNCHANGED <<gui, silent>>

TickWaits ==
  /\ Tick(~IsRectEmpty(GetWindowScaledRect) /\ Standing /\ Delayed)
  /\ CountDown
  /\ UNCHANGED <<frame, console_hide_, rc_console_, gui, silent>>

TickOnlyShows ==
  /\ Tick(~IsRectEmpty(GetWindowScaledRect) /\ Standing /\ ~Delayed)
  /\ CountDown
  /\ console_hide_' = FALSE
  /\ ShowTrackerWindow
  /\ silent' = (silent /\ ~console_hide_)
  /\ UNCHANGED <<rc_console_, gui>>

(* GetGUIThreadInfo fails when the window, and its thread with it, is gone. *)
GuiChanged == wnd.show # "destroyed" /\ active # gui

TickStopped ==
  /\ Tick(~IsRectEmpty(GetWindowScaledRect) /\ Standing /\ ~Delayed)
  /\ CountDown
  /\ console_hide_' = FALSE
  /\ IF console_hide_ THEN Sync ELSE IF GuiChanged THEN ShowTrackerWindow ELSE UNCHANGED frame
  /\ gui' = IF GuiChanged THEN active ELSE gui
  /\ silent' = (silent /\ ~console_hide_)
  /\ UNCHANGED rc_console_

OnTimerConsoleSizeDetect == TickEmpty \/ TickMoving \/ TickWaits \/ TickStopped

-----------------------------------------------------------------------------
(* The desktop.  A change of the window comes with the events that Windows *)
(* raises for it, in that order; without a hook they are lost.             *)

(* The events that enable the location check, and those that end it. *)
Enabling == {"STATECHANGE", "CAPTUREEND"}
Disabling == {"LOCATIONCHANGE", "CAPTURESTART", "MOVESIZESTART"}

Hooked == phase = "following" /\ ~IsConsole

Raise(types) ==
  /\ Hooked => Len(events) + Len(types) <= MaxEvents
  /\ events' = IF Hooked THEN events \o types ELSE events
  /\ armed' = \/ Hooked /\ types[Len(types)] \in Enabling
              \/ armed /\ \A i \in DOMAIN types : types[i] \notin Disabling
  /\ UNCHANGED <<options_, phase, frame, members, active>>

Change(w, types) ==
  /\ wnd.show # "destroyed"
  /\ wnd' = w
  /\ Raise(types)

(* A change passes unnoticed before the hook or the timer is installed; a  *)
(* timer misses what does not move the window, and takes the rectangle of  *)
(* its first tick for the one the frame was given.                         *)
Noticed(byHook, byTimer) ==
  silent' = (silent \/ phase = "install"
               \/ IF IsConsole THEN ~byTimer \/ IsRectEmpty(rc_console_) ELSE ~byHook)

(* The mouse takes the window by its title bar, and leaves it somewhere,   *)
(* or at the edge of the screen that maximises it.                         *)
BeginDrag ==
  /\ wnd.visible /\ wnd.show \in {"normal", "maximized"} /\ ~wnd.dragging
  /\ Change([wnd EXCEPT !.dragging = TRUE], <<"MOVESIZESTART">>)
  /\ Noticed(TRUE, TRUE)

Drag ==
  /\ wnd.dragging
  /\ \E p \in Places : Change([wnd EXCEPT !.place = p, !.show = "normal"], <<"LOCATIONCHANGE">>)
  /\ Noticed(TRUE, TRUE)

EndDrag ==
  /\ wnd.dragging
  /\ \/ Change([wnd EXCEPT !.dragging = FALSE], <<"MOVESIZEEND">>)
     \/ Change([wnd EXCEPT !.dragging = FALSE, !.show = "maximized"],
               <<"LOCATIONCHANGE", "MOVESIZEEND">>)
  /\ Noticed(TRUE, TRUE)

Minimize ==
  /\ wnd.visible /\ wnd.show \in {"normal", "maximized"} /\ ~wnd.dragging
  /\ Change([wnd EXCEPT !.show = "minimized"], <<"MINIMIZESTART", "LOCATIONCHANGE">>)
  /\ Noticed(TRUE, TRUE)

Restore ==
  /\ wnd.show = "minimized"
  /\ \E show \in {"normal", "maximized"} :
       Change([wnd EXCEPT !.show = show], <<"LOCATIONCHANGE", "MINIMIZEEND">>)
  /\ Noticed(TRUE, TRUE)

ShowOrHide ==
  /\ Change([wnd EXCEPT !.visible = ~wnd.visible], <<IF wnd.visible THEN "HIDE" ELSE "SHOW">>)
  /\ Noticed(TRUE, FALSE)

Destroy ==
  /\ Change([wnd EXCEPT !.visible = FALSE, !.show = "destroyed", !.dragging = FALSE],
            IF wnd.visible THEN <<"HIDE", "DESTROY">> ELSE <<"DESTROY">>)
  /\ Noticed(TRUE, TRUE)

(* The title bar's maximise and restore button raises STATECHANGE when it  *)
(* is pressed, a double click CAPTUREEND, and the location changes some    *)
(* time after.  A program that calls SetWindowPos raises nothing before.   *)
MoveWindow ==
  /\ ~wnd.dragging
  /\ wnd.show # "minimized"
  /\ \E p \in Places, show \in {"normal", "maximized"} :
       Change([wnd EXCEPT !.place = p, !.show = show], <<"LOCATIONCHANGE">>)
  /\ Noticed(armed, TRUE)

(* Events that come with the handle of the window and no change of it:     *)
(* of its caret, its buttons, its menus.                                   *)
Noise ==
  /\ \E type \in {"FOCUS", "STATECHANGE", "LOCATIONCHANGE", "SHOW",
                  "CAPTURESTART", "CAPTUREEND", "CARETHIDE"} :
       /\ type = "FOCUS" => wnd.show # "minimized"
       /\ Hooked /\ Change(wnd, <<type>>)
  /\ UNCHANGED silent

Activate ==
  /\ IsConsole
  /\ active' = ~active
  /\ UNCHANGED <<wnd, options_, phase, frame, events, members, armed, silent>>

Desktop ==
  BeginDrag \/ Drag \/ EndDrag \/ Minimize \/ Restore \/ ShowOrHide \/ Destroy
    \/ MoveWindow \/ Noise \/ Activate

-----------------------------------------------------------------------------
Next ==
  \/ OnTrackerWindowCreate \/ OnTrackerMonitor \/ InstallEventHook 
  \/ InstallTimerForConsole \/ OnClearResource \/ OnDisplayChange
  \/ WinEventHookProc
  \/ OnTimerConsoleSizeDetect
  \/ Desktop

Spec == Init /\ [][Next]_vars

(* The timer ticks and hooked events are delivered; the desktop does as it *)
(* likes.                                                                  *)
FairSpec == Spec /\ WF_vars(OnTimerConsoleSizeDetect) /\ WF_vars(WinEventHookProc)

-----------------------------------------------------------------------------
(* Between a change of the window and the handling of its events the frame *)
(* may be wrong; when the worker is through with them it is around a       *)
(* window in its normal state, and around no other than a minimised one,   *)
(* whatever came in between.                                               *)
FrameSettles ==
  Hooked /\ events = <<>> /\ ~wnd.dragging /\ ~silent =>
    /\ wnd.visible /\ wnd.show = "normal" => frame.shown
    /\ frame.shown => wnd.visible /\ ~IsZoomed /\ frame.rect = GetWindowScaledRect

(* An event of a hidden or destroyed window that is still in the queue may *)
(* not bring the frame back, unless one comes after it that hides it.      *)
Leaving == \E i \in DOMAIN events : events[i] \in {"HIDE", "DESTROY"}

HiddenNotFramed == Hooked /\ frame.shown /\ ~silent => wnd.visible \/ Leaving

(* A console that the timer takes to stand still has its frame around it,  *)
(* or one that was never given a size.                                     *)
ConsoleFramed ==
  phase = "following" /\ IsConsole /\ ~silent /\ ~console_hide_ /\ ~IsRectEmpty(rc_console_)
    => frame.rect \in {rc_console_, Empty}

(* The frame of a window that is no longer visible goes away.              *)
FrameLeaves ==
  Hooked /\ ~wnd.visible /\ ~silent ~> ~Hooked \/ wnd.visible \/ silent \/ ~frame.shown

(* A frame that the timer hid because its console moved comes back when    *)
(* the console stands still.                                               *)
ConsoleReappears ==
  \A p \in Places :
    phase = "following" /\ IsConsole /\ console_hide_ /\ GetWindowScaledRect = p
      ~> phase # "following" \/ ~console_hide_ \/ GetWindowScaledRect # p

-----------------------------------------------------------------------------
(* The inductive invariant.  Until the hook or the first tick is there,    *)
(* a frame that nothing has made silent is that of the window as it is.    *)
FollowInv ==
  /\ TypeOK
  /\ HiddenNotFramed
  /\ ConsoleFramed
  /\ events # <<>> => Hooked
  /\ phase = "create" => frame = [shown |-> FALSE, rect |-> Empty]
  /\ phase = "install" /\ frame.shown /\ ~silent => wnd.visible
  /\ IsConsole /\ ~silent
       /\ (phase = "install" \/ (phase = "following" /\ IsRectEmpty(rc_console_)))
       => frame.rect \in {GetWindowScaledRect, Empty}

(* The rest is what FrameSettles needs.  The frame as it should be around  *)
(* a window that is visible.                                               *)
Framed ==
  /\ wnd.show = "normal" => frame.shown
  /\ frame.shown => ~IsZoomed /\ frame.rect = GetWindowScaledRect

(* The location check will be enabled when the worker comes to event j. *)
EnabledAt(j) ==
  \/ enable_location_check_ /\ \A k \in 1..(j - 1) : events[k] \notin Disabling
  \/ \E i \in 1..(j - 1) :
       events[i] \in Enabling /\ \A k \in (i + 1)..(j - 1) : events[k] \notin Disabling

(* Handling event j makes the frame right, whatever it is by then. *)
Corrects(j) ==
  \/ events[j] \in {"SHOW", "MINIMIZEEND", "MOVESIZEEND"}
  \/ events[j] = "MINIMIZESTART" /\ wnd.show = "minimized"
  \/ events[j] = "LOCATIONCHANGE" /\ EnabledAt(j)

Corrected == \E j \in DOMAIN events : Corrects(j)

(* Every event of the one type has one of the other behind it. *)
Followed(type, by) ==
  \A i \in DOMAIN events :
    events[i] = type => \E j \in DOMAIN events : i < j /\ events[j] = by

(* What the events in the queue tell of the window as it is. *)
QueueInv ==
  /\ wnd.visible => Followed("HIDE", "SHOW")
  /\ wnd.show \in {"normal", "maximized"} => Followed("MINIMIZESTART", "MINIMIZEEND")
  /\ ~wnd.dragging /\ wnd.show # "destroyed" => Followed("MOVESIZESTART", "MOVESIZEEND")
  /\ wnd.show = "minimized" => Followed("FOCUS", "MINIMIZESTART") /\ ~wnd.dragging
  /\ wnd.show # "destroyed" => \A i \in DOMAIN events : events[i] # "DESTROY"
  /\ wnd.show = "destroyed" => ~wnd.visible
  /\ armed => Hooked /\ EnabledAt(Len(events) + 1)

(* A frame that is wrong around a visible window is wrong until an event   *)
(* in the queue corrects it.                                               *)
SettleInv ==
  /\ FollowInv
  /\ QueueInv
  /\ Hooked /\ wnd.visible /\ ~wnd.dragging /\ ~silent => Framed \/ Corrected
  /\ phase = "install" /\ ~IsConsole /\ wnd.visible /\ ~silent => Framed
=============================================================================
