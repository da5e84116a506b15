-------------------------- MODULE WindowListProofs --------------------------
(***************************************************************************)
(* Proofs about WindowList for every set of windows and of clients, and    *)
(* whatever the system calls answer.                                       *)
(***************************************************************************)
EXTENDS WindowListProperties, SequenceLemmas

USE DEF NULL, Free, Worker, handles, list, system

(* Every operation keeps every variable in its type. *)
LEMMA TypePreserved == TypeOK /\ [Next]_vars => TypeOK'
<1> SUFFICES ASSUME TypeOK, [Next]_vars PROVE TypeOK'
  OBVIOUS
<1> USE DEF TypeOK
<1>1. ASSUME NEW w \in Windows, EnumWindow(w) PROVE TypeOK'
  <2>1. Append(windows_, w) \in Seq(Windows)
    BY AppendProperties
  <2>2. /\ changed_' \in BOOLEAN /\ windows_' \in Seq(Windows)
        /\ visible_wnds_' \in SUBSET Windows /\ unreported' \in SUBSET Windows
    <3>1. CASE IsCapturableWindow(w) /\ ~Listed(w)
      <4>1. /\ changed_' = TRUE /\ windows_' = Append(windows_, w)
            /\ visible_wnds_' = visible_wnds_ \cup {w} /\ unreported' = unreported \ {w}
        BY <1>1, <3>1 DEF EnumWindow
      <4>2. QED
        BY <2>1, <4>1
    <3>2. CASE ~(IsCapturableWindow(w) /\ ~Listed(w))
      BY <1>1, <3>2 DEF EnumWindow
    <3>3. QED
      BY <3>1, <3>2
  <2>3. QED
    BY <1>1, <2>2 DEF EnumWindow
<1>2. CASE CreateQuitEvent
  BY <1>2 DEF CreateQuitEvent
<1>3. CASE CreateWorkThread
  BY <1>3 DEF CreateWorkThread
<1>4. CASE PostUnhookFore \/ PostUnhookWnd \/ PostQuit
  <2>1. \A m \in Message : Append(posted, m) \in Seq(Message)
    BY AppendProperties
  <2>2. \A h \in Hooks \cup {NULL} : Unhook(h) \in Message
    BY DEF Unhook, Message
  <2>3. [msg |-> "WM_QUIT", hook |-> NULL] \in Message
    BY DEF Message
  <2>4. CASE PostUnhookFore
    BY <2>1, <2>2, <2>4 DEF PostUnhookFore, Post, Hooks
  <2>5. CASE PostUnhookWnd
    BY <2>1, <2>2, <2>5 DEF PostUnhookWnd, Post, Hooks
  <2>6. CASE PostQuit
    BY <2>1, <2>3, <2>6 DEF PostQuit, Post
  <2>7. QED
    BY <1>4, <2>4, <2>5, <2>6
<1>5. CASE WaitQuit
  BY <1>5 DEF WaitQuit
<1>6. ASSUME NEW c \in Clients, ClearChanged(c) PROVE TypeOK'
  BY <1>6 DEF ClearChanged
<1>7. ASSUME NEW c \in Clients, LockForCopy(c) PROVE TypeOK'
  BY <1>7 DEF LockForCopy
<1>8. ASSUME NEW c \in Clients, CopyWindows(c) PROVE TypeOK'
  BY <1>8 DEF CopyWindows
<1>9. CASE CreateMsgWnd
  BY <1>9, ApiAssumption DEF CreateMsgWnd
<1>10. CASE HookWindows
  BY <1>10 DEF HookWindows, SetHook, Hooks
<1>11. CASE HookForeground
  BY <1>11 DEF HookForeground, SetHook, Hooks
<1>12. CASE DispatchPosted
  <2>1. posted # <<>> => Tail(posted) \in Seq(Message)
    BY HeadTailProperties
  <2>2. QED
    BY <1>12, <2>1 DEF DispatchPosted
<1>13. CASE SignalQuit
  BY <1>13, EmptySeq DEF SignalQuit
<1>14. CASE DeliverEvent
  <2>1. events # <<>> /\ events' = Tail(events)
    BY <1>14 DEF DeliverEvent
  <2>2. Head(events) \in WinEvent /\ events' \in Seq(WinEvent)
    BY <2>1, HeadTailProperties
  <2>3. Head(events).hwnd \in Windows
    BY <2>2 DEF WinEvent
  <2>4. /\ worker' \in {worker, "remove", "add"}
        /\ cur' \in {cur, Head(events).hwnd}
        /\ changed_' \in BOOLEAN
    BY <1>14 DEF DeliverEvent, WinEventProc
  <2>5. UNCHANGED <<handles, list, wnd_list_mutex_, owner, enumLeft, client,
                    desktop, hooks, posted, lastGet, unreported>>
    BY <1>14 DEF DeliverEvent
  <2>6. QED
    BY <2>2, <2>3, <2>4, <2>5
<1>15. CASE AddFind
  BY <1>15 DEF AddFind
<1>16. CASE AddStore
  <2>1. Append(windows_, cur) \in Seq(Windows)
    BY AppendProperties
  <2>2. QED
    BY <1>16, <2>1 DEF AddStore
<1>17. CASE RemoveFind
  BY <1>17 DEF RemoveFind
<1>18. CASE RemoveErase
  <2>1. \A i \in DOMAIN windows_ : RemoveAt(windows_, i) \in Seq(Windows)
    BY RemoveAtElements, LenProperties
  <2>2. QED
    BY <1>18, <2>1 DEF RemoveErase
<1>19. CASE Desktop
  <2>1. \A w \in Windows : \A e \in {"DESTROY", "SHOW", "FOREGROUND"} :
          Append(events, [event |-> e, hwnd |-> w]) \in Seq(WinEvent)
    BY AppendProperties DEF WinEvent
  <2> DEFINE Desk == desktop' \in [Windows -> Verdicts \cup {"dying"}] /\ events' \in Seq(WinEvent)
  <2>2. Desk
    <3>1. ASSUME NEW w \in Windows, NEW verdict \in {"refused", "capturable"}, Show(w, verdict)
          PROVE  Desk
      BY <2>1, <3>1 DEF Show, Report, Verdicts
    <3>2. ASSUME NEW w \in Windows, NEW verdict \in Verdicts, Alter(w, verdict) PROVE Desk
      BY <3>2 DEF Alter
    <3>3. ASSUME NEW popups \in SUBSET Windows, SetCurrentCapturedWnd(popups) PROVE Desk
      BY <3>3 DEF SetCurrentCapturedWnd, Verdicts
    <3>4. ASSUME NEW w \in Windows, Destroy(w) PROVE Desk
      BY <2>1, <3>4 DEF Destroy, Report, Verdicts
    <3>5. ASSUME NEW w \in Windows, Vanish(w) \/ Foreground(w) PROVE Desk
      BY <2>1, <3>5 DEF Vanish, Foreground, Report, Verdicts
    <3>6. QED
      BY <1>19, <3>1, <3>2, <3>3, <3>4, <3>5 DEF Desktop
  <2>3. unreported' \in SUBSET Windows
    BY <1>19 DEF Desktop
  <2>4. QED
    BY <1>19, <2>2, <2>3 DEF Desktop
<1>20. CASE UNCHANGED vars
  BY <1>20 DEF vars
<1>21. QED
  BY <1>1, <1>2, <1>3, <1>4, <1>5, <1>6, <1>7, <1>8, <1>9, <1>10, <1>11, <1>12,
     <1>13, <1>14, <1>15, <1>16, <1>17, <1>18, <1>19, <1>20
  DEF Next, Constructor, Destructor, GetCurrentWindows, WorkProc, AddWindow, RemoveWindow

(* The strengthened invariant holds at the start. *)
LEMMA InitInvariant == Init => IInv
<1> SUFFICES ASSUME Init PROVE IInv
  OBVIOUS
<1>1. TypeOK
  BY EmptySeq DEF Init, TypeOK, IsRoot
<1>2. MutexInv
  BY ClientsAssumption DEF Init, MutexInv, Busy, Fetching
<1>3. IsInjective(<<>>) /\ ToSet(<<>>) = {}
  BY DEF IsInjective, ToSet
<1>4. ListInv /\ ChangeInv /\ QuitInv
  BY <1>3 DEF Init, ListInv, ChangeInv, QuitInv, Busy
<1>5. QED
  BY <1>1, <1>2, <1>4 DEF IInv

(* Every step of every thread keeps the strengthened invariant. *)
LEMMA InvariantPreserved == IInv /\ [Next]_vars => IInv'
<1> SUFFICES ASSUME IInv, [Next]_vars PROVE IInv'
  OBVIOUS
<1> DEFINE Inv == MutexInv /\ ListInv /\ ChangeInv /\ QuitInv
<1>0. TypeOK /\ TypeOK' /\ Inv
  BY TypePreserved DEF IInv
<1> SUFFICES Inv'
  BY <1>0 DEF IInv
<1>a. \A c \in Clients : c # Worker /\ c # Free
  BY ClientsAssumption
<1> USE <1>0, <1>a DEF TypeOK, MutexInv, ListInv, ChangeInv, QuitInv, Busy, Fetching
<1>1. ASSUME NEW w \in Windows, EnumWindow(w) PROVE Inv'
  <2>1. CASE IsCapturableWindow(w) /\ ~Listed(w)
    <3>1. windows_' = Append(windows_, w) /\ visible_wnds_' = visible_wnds_ \cup {w}
      BY <1>1, <2>1 DEF EnumWindow
    <3>2. worker = "none"
      BY <1>1 DEF EnumWindow
    <3>3. IsInjective(windows_') /\ ToSet(windows_') = visible_wnds_'
      BY <2>1, <3>1, <3>2, AppendDistinct DEF Listed
    <3>4. QED
      BY <1>1, <2>1, <3>2, <3>3 DEF EnumWindow
  <2>2. CASE ~(IsCapturableWindow(w) /\ ~Listed(w))
    BY <1>1, <2>2 DEF EnumWindow
  <2>3. QED
    BY <2>1, <2>2
<1>2. CASE CreateQuitEvent
  BY <1>2 DEF CreateQuitEvent
<1>3. CASE CreateWorkThread
  BY <1>3 DEF CreateWorkThread
<1>4. CASE PostUnhookFore \/ PostUnhookWnd \/ PostQuit
  BY <1>4 DEF PostUnhookFore, PostUnhookWnd, PostQuit, Post
<1>5. CASE WaitQuit
  BY <1>5 DEF WaitQuit
<1>6. ASSUME NEW c \in Clients, ClearChanged(c) PROVE Inv'
  BY <1>6 DEF ClearChanged
<1>7. ASSUME NEW c \in Clients, LockForCopy(c) PROVE Inv'
  BY <1>7 DEF LockForCopy
<1>8. ASSUME NEW c \in Clients, CopyWindows(c) PROVE Inv'
  BY <1>8 DEF CopyWindows
<1>9. CASE CreateMsgWnd
  BY <1>9 DEF CreateMsgWnd
<1>10. CASE HookWindows \/ HookForeground
  BY <1>10 DEF HookWindows, HookForeground, SetHook
<1>11. CASE DispatchPosted
  BY <1>11 DEF DispatchPosted
<1>12. CASE SignalQuit
  BY <1>12 DEF SignalQuit
<1>13. CASE DeliverEvent
  BY <1>13 DEF DeliverEvent, WinEventProc
<1>14. CASE AddFind
  BY <1>14 DEF AddFind, Listed
<1>15. CASE AddStore
  <2>1. IsInjective(windows_') /\ ToSet(windows_') = visible_wnds_'
    BY <1>15, AppendDistinct DEF AddStore
  <2>2. QED
    BY <1>15, <2>1 DEF AddStore
<1>16. CASE RemoveFind
  BY <1>16 DEF RemoveFind, Listed
<1>17. CASE RemoveErase
  <2>1. PICK i \in DOMAIN windows_ : windows_[i] = cur /\ windows_' = RemoveAt(windows_, i)
    BY <1>17 DEF RemoveErase
  <2>2. IsInjective(RemoveAt(windows_, i)) /\ ToSet(RemoveAt(windows_, i)) = ToSet(windows_) \ {cur}
    BY <2>1, RemoveDistinct
  <2>3. ToSet(windows_) = visible_wnds_ \cup {cur} /\ cur \notin visible_wnds_
    BY <1>17 DEF RemoveErase
  <2>4. IsInjective(windows_') /\ ToSet(windows_') = visible_wnds_
    BY <2>1, <2>2, <2>3
  <2>5. QED
    BY <1>17, <2>4 DEF RemoveErase
<1>18. CASE Desktop
  BY <1>18 DEF Desktop
<1>19. CASE UNCHANGED vars
  BY <1>19 DEF vars
<1>20. QED
  BY <1>1, <1>2, <1>3, <1>4, <1>5, <1>6, <1>7, <1>8, <1>9, <1>10, <1>11, <1>12,
     <1>13, <1>14, <1>15, <1>16, <1>17, <1>18, <1>19
  DEF Next, Constructor, Destructor, GetCurrentWindows, WorkProc, AddWindow, RemoveWindow

(* IInv holds in every reachable state. *)
THEOREM Invariance == Spec => []IInv
<1>1. Init => IInv
  BY InitInvariant
<1>2. IInv /\ [Next]_vars => IInv'
  BY InvariantPreserved
<1>3. QED
  BY <1>1, <1>2, PTL DEF Spec

(* Type correctness of WindowList. *)
THEOREM TypeCorrectness == Spec => []TypeOK
<1>1. IInv => TypeOK
  BY DEF IInv
<1>2. QED
  BY <1>1, Invariance, PTL

(* AddWindow and RemoveWindow keep windows_ and visible_wnds_ two indexes  *)
(* of one collection.                                                      *)
THEOREM ListConsistency == Spec => []ListMatchesSet
<1>1. IInv => ListMatchesSet
  BY DEF IInv, MutexInv, ListInv, Busy, ListMatchesSet
<1>2. QED
  BY <1>1, Invariance, PTL

(* The unchecked index RemoveWindow erases at is always valid. *)
THEOREM EraseIsDefined == Spec => []EraseInRange
<1>1. IInv => EraseInRange
  BY DEF IInv, ListInv, EraseInRange
<1>2. QED
  BY <1>1, Invariance, PTL

(* GetCurrentWindows never copies a vector that is being changed. *)
THEOREM DataRaceFreedom == Spec => []NoConflictingAccess
<1>1. IInv => NoConflictingAccess
  BY ClientsAssumption DEF IInv, MutexInv, NoConflictingAccess
<1>2. QED
  BY <1>1, Invariance, PTL

(* A poller that sees changed_ false has the current list, although the    *)
(* flag is cleared and read outside the mutex.                             *)
THEOREM ChangesAreNotMissed == Spec => []NoMissedChange
<1>1. IInv => NoMissedChange
  BY DEF IInv, ChangeInv, NoMissedChange, WindowsChangedSinceLastGet
<1>2. QED
  BY <1>1, Invariance, PTL

(* The destructor's wait on event_quit_ keeps the worker's bare pointer to *)
(* the object valid for as long as it is used.                             *)
THEOREM NoUseAfterFree == Spec => FreedAfterQuit
<1> DEFINE Step == owner = "wait" /\ owner' = "freed" /\ event_quit_ # NULL
                     => worker \in {"none", "done"}
<1>1. ASSUME IInv, [Next]_vars PROVE Step
  <2>1. SUFFICES ASSUME owner = "wait", owner' = "freed", event_quit_ # NULL
                 PROVE  worker = "done"
    OBVIOUS
  <2>2. event_quit_ # "reset"
    BY <1>1, <2>1
    DEF Next, vars, Constructor, EnumWindow, CreateQuitEvent, CreateWorkThread,
        Destructor, PostUnhookFore, PostUnhookWnd, PostQuit, Post, WaitQuit,
        GetCurrentWindows, ClearChanged, LockForCopy, CopyWindows, WorkProc,
        CreateMsgWnd, HookWindows, HookForeground, SetHook, DispatchPosted,
        SignalQuit, DeliverEvent, AddWindow, AddFind, AddStore, RemoveWindow,
        RemoveFind, RemoveErase, Desktop
  <2>3. QED
    BY <1>1, <2>1, <2>2 DEF IInv, TypeOK, QuitInv
<1>2. QED
  BY <1>1, Invariance, PTL DEF Spec, FreedAfterQuit

-----------------------------------------------------------------------------
(* The refinement of ChangeNotifier. *)

Dirty == changed_ \/ Fetching

(* The instance has the sequence operators under names of its own. *)
LEMMA SameOperators ==
  /\ \A s : Notifier!ToSet(s) = ToSet(s)
  /\ \A s, i : Notifier!RemoveAt(s, i) = RemoveAt(s, i)
BY DEF Notifier!ToSet, ToSet, Notifier!RemoveAt, RemoveAt

(* What a step does to the abstract state decides which abstract step it   *)
(* is; raising the flag and leaving everything alone are the two common    *)
(* outcomes.                                                               *)
LEMMA RaiseOrStutter ==
  ASSUME UNCHANGED <<windows_, lastGet>>, Dirty' = TRUE \/ Dirty' = Dirty
  PROVE  [Notifier!Next]_(Notifier!vars)
<1>1. CASE Dirty' = TRUE
  BY <1>1 DEF Notifier!Next, Notifier!Raise, Dirty
<1>2. CASE Dirty' = Dirty
  BY <1>2 DEF Notifier!vars, Dirty
<1>3. QED
  BY <1>1, <1>2

(* A step of WindowList is a step of ChangeNotifier or leaves it alone. *)
LEMMA StepRefines ==
  ASSUME IInv, IInv', [Next]_vars
  PROVE  [Notifier!Next]_(Notifier!vars)
<1> DEFINE Abstract == [Notifier!Next]_(Notifier!vars)
<1>0. Dirty \in BOOLEAN /\ (Dirty <=> changed_ \/ Fetching)
  BY DEF IInv, TypeOK, Dirty
<1>1. ASSUME UNCHANGED <<windows_, lastGet, changed_, client>> PROVE Abstract
  <2>1. Dirty' = Dirty
    BY <1>1 DEF Dirty, Fetching
  <2>2. QED
    BY <1>1, <2>1, RaiseOrStutter
<1>2. ASSUME NEW w \in Windows, w \notin ToSet(windows_), Dirty' = TRUE,
             windows_' = Append(windows_, w), lastGet' = lastGet
      PROVE  Abstract
  <2>1. (changed_ \/ Fetching)' = TRUE
    BY <1>2 DEF Dirty
  <2>2. Notifier!Add
    BY <1>2, <2>1, SameOperators, Zenon DEF Notifier!Add
  <2>3. QED
    BY <2>2 DEF Notifier!Next
<1>3. ASSUME NEW w \in Windows, EnumWindow(w) PROVE Abstract
  <2>1. CASE IsCapturableWindow(w) /\ ~Listed(w)
    <3>1. worker = "none" /\ w \notin ToSet(windows_)
      BY <1>3, <2>1 DEF EnumWindow, Listed, IInv, MutexInv, ListInv
    <3>2. /\ changed_' = TRUE
          /\ windows_' = Append(windows_, w)
          /\ lastGet' = lastGet
      BY <1>3, <2>1 DEF EnumWindow
    <3>3. QED
      BY <1>2, <3>1, <3>2 DEF Dirty
  <2>2. CASE ~(IsCapturableWindow(w) /\ ~Listed(w))
    BY <1>1, <1>3, <2>2 DEF EnumWindow
  <2>3. QED
    BY <2>1, <2>2
<1>4. ASSUME NEW c \in Clients, ClearChanged(c) PROVE Abstract
  <2>1. client'[c] = "lock"
    BY <1>4 DEF ClearChanged, IInv, TypeOK
  <2>2. Dirty' = TRUE
    BY <2>1 DEF Dirty, Fetching
  <2>3. QED
    BY <1>4, <2>2, RaiseOrStutter DEF ClearChanged
<1>5. ASSUME NEW c \in Clients, LockForCopy(c) PROVE Abstract
  <2>1. client'[c] = "copy"
    BY <1>5 DEF LockForCopy, IInv, TypeOK
  <2>2. Dirty' = TRUE
    BY <2>1 DEF Dirty, Fetching
  <2>3. QED
    BY <1>5, <2>2, RaiseOrStutter DEF LockForCopy
<1>6. ASSUME NEW c \in Clients, CopyWindows(c) PROVE Abstract
  <2>1. lastGet' = windows_ /\ windows_' = windows_
    BY <1>6 DEF CopyWindows
  <2>2. (changed_ \/ Fetching)' \in BOOLEAN
    BY DEF IInv, TypeOK
  <2>3. QED
    BY <2>1, <2>2 DEF Notifier!Next, Notifier!Get
<1>7. CASE DeliverEvent
  <2>1. Dirty' = TRUE \/ Dirty' = Dirty
    BY <1>7 DEF DeliverEvent, WinEventProc, Dirty, Fetching
  <2>2. QED
    BY <1>7, <2>1, RaiseOrStutter DEF DeliverEvent
<1>8. CASE AddFind
  <2>1. Dirty' = TRUE \/ Dirty' = Dirty
    BY <1>8 DEF AddFind, Dirty, Fetching
  <2>2. QED
    BY <1>8, <2>1, RaiseOrStutter DEF AddFind
<1>9. CASE AddStore
  <2>1. cur \in Windows /\ cur \notin ToSet(windows_) /\ Dirty
    BY <1>0, <1>9 DEF AddStore, IInv, TypeOK, ListInv, ChangeInv, Busy
  <2>2. windows_' = Append(windows_, cur) /\ lastGet' = lastGet /\ Dirty' = TRUE
    BY <1>9, <2>1 DEF AddStore, Dirty, Fetching
  <2>3. QED
    BY <1>2, <2>1, <2>2
<1>10. CASE RemoveFind
  <2>1. Dirty' = TRUE \/ Dirty' = Dirty
    BY <1>10 DEF RemoveFind, Dirty, Fetching, IInv, TypeOK
  <2>2. QED
    BY <1>10, <2>1, RaiseOrStutter DEF RemoveFind
<1>11. CASE RemoveErase
  <2>1. Dirty
    BY <1>0, <1>11 DEF RemoveErase, IInv, ChangeInv, Busy
  <2>2. Dirty' = TRUE /\ lastGet' = lastGet
    BY <1>11, <2>1 DEF RemoveErase, Dirty, Fetching
  <2>3. PICK i \in DOMAIN windows_ : windows_' = RemoveAt(windows_, i)
    BY <1>11 DEF RemoveErase
  <2>4. (changed_ \/ Fetching)' = TRUE
    BY <2>2 DEF Dirty
  <2>5. Notifier!Drop
    BY <2>2, <2>3, <2>4, SameOperators, Zenon DEF Notifier!Drop
  <2>6. QED
    BY <2>5 DEF Notifier!Next
<1>12. CASE CreateQuitEvent \/ CreateWorkThread \/ PostUnhookFore \/ PostUnhookWnd
              \/ PostQuit \/ WaitQuit \/ CreateMsgWnd \/ HookWindows
              \/ HookForeground \/ DispatchPosted \/ SignalQuit \/ Desktop
              \/ UNCHANGED vars
  <2>1. UNCHANGED <<windows_, lastGet, changed_, client>>
    BY <1>12
    DEF CreateQuitEvent, CreateWorkThread, PostUnhookFore, PostUnhookWnd,
        PostQuit, Post, WaitQuit, CreateMsgWnd, HookWindows, HookForeground,
        SetHook, DispatchPosted, SignalQuit, Desktop, vars
  <2>2. QED
    BY <1>1, <2>1
<1>13. QED
  BY <1>3, <1>4, <1>5, <1>6, <1>7, <1>8, <1>9, <1>10, <1>11, <1>12
  DEF Next, Constructor, Destructor, GetCurrentWindows, WorkProc, AddWindow, RemoveWindow

(* To its pollers the object, with its threads, its mutex and its          *)
(* unsynchronised flag, is a ChangeNotifier.                               *)
THEOREM Refinement == Spec => NotifiesChanges
<1>1. Init => Notifier!Init
  BY DEF Init, Notifier!Init
<1>2. IInv /\ IInv' /\ [Next]_vars => [Notifier!Next]_(Notifier!vars)
  BY StepRefines
<1>3. QED
  BY <1>1, <1>2, Invariance, PTL DEF Spec, NotifiesChanges, Notifier!Spec

-----------------------------------------------------------------------------
(* Every window the hook can see is listed. *)

LEMMA ReportInit == Init => ReportInv
  BY DEF Init, ReportInv, Unhooked, IsCapturableWindow, IsRoot

(* Steps that leave the queue, the worker and the set alone. *)
LEMMA PendingStays ==
  ASSUME NEW w \in Windows, Pending(w),
         events' = events, worker' = worker, cur' = cur, visible_wnds_' = visible_wnds_
  PROVE  Pending(w)'
  BY DEF Pending, Announced, Listed

(* An event of another kind, or of another window, joins the queue. *)
LEMMA PendingJoins ==
  ASSUME TypeOK, NEW w \in Windows, Pending(w), NEW e \in WinEvent,
         events' = Append(events, e), e.hwnd = w => e.event # "DESTROY",
         worker' = worker, cur' = cur, visible_wnds_' = visible_wnds_
  PROVE  Pending(w)'
<1>1. /\ events \in Seq(WinEvent) /\ Len(events) \in Nat
      /\ DOMAIN events = 1..Len(events) /\ DOMAIN events' = 1..(Len(events) + 1)
      /\ \A k \in 1..Len(events) : events'[k] = events[k]
      /\ events'[Len(events) + 1] = e
  BY AppendProperties, LenProperties DEF TypeOK
<1>2. CASE \E k \in DOMAIN events :
             /\ events[k].event = "SHOW" /\ events[k].hwnd = w
             /\ \A j \in DOMAIN events : j > k /\ events[j].hwnd = w => events[j].event # "DESTROY"
  <2>1. PICK k \in DOMAIN events :
             /\ events[k].event = "SHOW" /\ events[k].hwnd = w
             /\ \A j \in DOMAIN events : j > k /\ events[j].hwnd = w => events[j].event # "DESTROY"
    BY <1>2
  <2>2. /\ k \in DOMAIN events' /\ events'[k].event = "SHOW" /\ events'[k].hwnd = w
        /\ \A j \in DOMAIN events' : j > k /\ events'[j].hwnd = w => events'[j].event # "DESTROY"
    BY <1>1, <2>1
  <2>3. QED
    BY <2>2 DEF Pending, Announced
<1>3. CASE \A j \in DOMAIN events : events[j].hwnd = w => events[j].event # "DESTROY"
  <2>1. \A j \in DOMAIN events' : events'[j].hwnd = w => events'[j].event # "DESTROY"
    BY <1>1, <1>3
  <2>2. CASE \E k \in DOMAIN events :
             /\ events[k].event = "SHOW" /\ events[k].hwnd = w
             /\ \A j \in DOMAIN events : j > k /\ events[j].hwnd = w => events[j].event # "DESTROY"
    BY <1>2, <2>2
  <2>3. CASE \/ worker \in {"add", "add_store"} /\ cur = w
             \/ Listed(w) /\ ~(worker = "remove" /\ cur = w)
    BY <2>1, <2>3 DEF Pending, Announced, Listed
  <2>4. QED
    BY <2>2, <2>3 DEF Pending, Announced
<1>4. QED
  BY <1>2, <1>3 DEF Pending, Announced

(* The worker takes the first event: a SHOW of w leads to AddWindow, and a *)
(* DESTROY of w is followed by a SHOW as long as w is shown.               *)
LEMMA PendingDelivered ==
  ASSUME TypeOK, NEW w \in Windows, Pending(w), IsCapturableWindow(w), DeliverEvent
  PROVE  Pending(w)'
<1> DEFINE e == Head(events)
<1>1. /\ events \in Seq(WinEvent) /\ events # <<>> /\ Len(events) \in Nat \ {0}
      /\ events' = Tail(events) /\ e = events[1] /\ e \in WinEvent
      /\ DOMAIN events = 1..Len(events) /\ DOMAIN events' = 1..(Len(events) - 1)
      /\ \A k \in 1..(Len(events) - 1) : events'[k] = events[k + 1]
  BY HeadTailProperties, LenProperties, EmptySeq DEF TypeOK, DeliverEvent
<1>2. worker = "loop" /\ visible_wnds_' = visible_wnds_ /\ WinEventProc(e.event, e.hwnd)
  BY DEF DeliverEvent, list
<1>3. IsRoot(w)
  BY DEF IsCapturableWindow, IsRoot
<1>4. worker' = "remove" /\ cur' = w => e.event = "DESTROY" /\ e.hwnd = w
  BY <1>2 DEF WinEventProc
<1>5. CASE \E k \in DOMAIN events :
             /\ events[k].event = "SHOW" /\ events[k].hwnd = w
             /\ \A j \in DOMAIN events : j > k /\ events[j].hwnd = w => events[j].event # "DESTROY"
  <2>1. PICK k \in DOMAIN events :
             /\ events[k].event = "SHOW" /\ events[k].hwnd = w
             /\ \A j \in DOMAIN events : j > k /\ events[j].hwnd = w => events[j].event # "DESTROY"
    BY <1>5
  <2>2. CASE k = 1
    <3>1. worker' = "add" /\ cur' = w
      BY <1>1, <1>2, <1>3, <2>1, <2>2 DEF WinEventProc, Ignored
    <3>2. \A j \in DOMAIN events' : events'[j].hwnd = w => events'[j].event # "DESTROY"
      BY <1>1, <2>1, <2>2
    <3>3. QED
      BY <3>1, <3>2 DEF Pending, Announced
  <2>3. CASE k # 1
    <3>1. /\ k - 1 \in DOMAIN events' /\ events'[k - 1].event = "SHOW" /\ events'[k - 1].hwnd = w
          /\ \A j \in DOMAIN events' : j > k - 1 /\ events'[j].hwnd = w => events'[j].event # "DESTROY"
      BY <1>1, <2>1, <2>3
    <3>2. QED
      BY <3>1 DEF Pending, Announced
  <2>4. QED
    BY <2>2, <2>3
<1>6. CASE /\ \A j \in DOMAIN events : events[j].hwnd = w => events[j].event # "DESTROY"
           /\ Listed(w)
  <2>1. \A j \in DOMAIN events' : events'[j].hwnd = w => events'[j].event # "DESTROY"
    BY <1>1, <1>6
  <2>2. ~(worker' = "remove" /\ cur' = w)
    BY <1>1, <1>4, <1>6
  <2>3. QED
    BY <1>2, <1>6, <2>1, <2>2 DEF Pending, Announced, Listed
<1>7. QED
  BY <1>2, <1>5, <1>6 DEF Pending, Announced

(* AddWindow and RemoveWindow finish what the worker is at. *)
LEMMA PendingWorked ==
  ASSUME TypeOK, NEW w \in Windows, Pending(w), AddWindow \/ RemoveWindow
  PROVE  Pending(w)'
<1>1. events' = events /\ cur' = cur
  BY DEF AddWindow, AddFind, AddStore, RemoveWindow, RemoveFind, RemoveErase, system
<1>2. worker \in {"add", "add_store"} /\ cur = w =>
        worker' = "add_store" \/ (worker' = "loop" /\ Listed(w)')
  BY DEF AddWindow, AddFind, AddStore, RemoveWindow, RemoveFind, RemoveErase, Listed, list
<1>3. Listed(w) /\ ~(worker = "remove" /\ cur = w) =>
        Listed(w)' /\ worker' \in {"loop", "add_store", "remove_erase"}
  BY DEF AddWindow, AddFind, AddStore, RemoveWindow, RemoveFind, RemoveErase, Listed, list
<1>4. QED
  BY <1>1, <1>2, <1>3 DEF Pending, Announced

(* The desktop: a window that becomes capturable is announced, or in       *)
(* unreported; one that stays capturable is not destroyed.                 *)
LEMMA ReportDesktop == ASSUME TypeOK, ReportInv, Desktop PROVE ReportInv'
<1> USE DEF IsCapturableWindow
<1>1. /\ UNCHANGED <<owner, enumLeft, worker, cur, hooks>>
      /\ visible_wnds_' = visible_wnds_
  BY DEF Desktop, list
<1> DEFINE Queued ==
             \/ events' = events
             \/ /\ hooks # {}
                /\ \E v \in Windows, e \in {"DESTROY", "SHOW", "FOREGROUND"} :
                     /\ events' = Append(events, [event |-> e, hwnd |-> v])
                     /\ e = "DESTROY" => desktop'[v] # "capturable"
<1>2. Queued
  <2>1. ASSUME NEW v \in Windows, NEW verdict \in {"refused", "capturable"}, Show(v, verdict)
        PROVE  Queued
    BY <2>1 DEF Show, Report
  <2>2. ASSUME NEW v \in Windows, Destroy(v) PROVE Queued
    BY <2>2 DEF Destroy, Report, TypeOK
  <2>3. ASSUME NEW v \in Windows, Vanish(v) \/ Foreground(v) PROVE Queued
    BY <2>3 DEF Vanish, Foreground, Report
  <2>4. QED
    BY <2>1, <2>2, <2>3 DEF Desktop, Alter, SetCurrentCapturedWnd
<1>3. Unhooked => events' = events /\ events = <<>> /\ "wnd" \notin hooks
  BY <1>2 DEF ReportInv
<1>4. ASSUME NEW w \in Windows, desktop'[w] = "capturable", w \notin unreported'
      PROVE  /\ Unhooked => Listed(w) \/ w \in enumLeft
             /\ "wnd" \in hooks => Pending(w)'
  <2>1. CASE Announced(w)'
    <3>1. events' # <<>>
      BY <2>1 DEF Announced
    <3>2. QED
      BY <1>3, <2>1, <3>1 DEF Pending
  <2>2. CASE ~Announced(w)'
    <3>1. desktop[w] = "capturable" /\ w \notin unreported
      BY <1>4, <2>2 DEF Desktop
    <3>2. /\ Unhooked => Listed(w) \/ w \in enumLeft
          /\ "wnd" \in hooks => Pending(w)
      BY <3>1 DEF ReportInv
    <3>3. ASSUME events' # events
          PROVE  \E e \in WinEvent :
                   events' = Append(events, e) /\ (e.hwnd = w => e.event # "DESTROY")
      <4>1. PICK v \in Windows, h \in {"DESTROY", "SHOW", "FOREGROUND"} :
                 /\ events' = Append(events, [event |-> h, hwnd |-> v])
                 /\ h = "DESTROY" => desktop'[v] # "capturable"
        BY <1>2, <3>3
      <4>2. v = w => h # "DESTROY"
        BY <1>4, <4>1
      <4> DEFINE e == [event |-> h, hwnd |-> v]
      <4>3. e \in WinEvent /\ events' = Append(events, e) /\ e.hwnd = v /\ e.event = h
        BY <4>1 DEF WinEvent
      <4> HIDE DEF e
      <4>4. QED
        BY <4>2, <4>3
    <3>4. "wnd" \in hooks => Pending(w)'
      BY <1>1, <3>2, <3>3, PendingJoins, PendingStays
    <3>5. QED
      BY <3>2, <3>4
  <2>3. QED
    BY <2>1, <2>2
<1>5. QED
  BY <1>1, <1>3, <1>4 DEF ReportInv, Unhooked, Listed

LEMMA ReportNext == ASSUME IInv, ReportInv, [Next]_vars PROVE ReportInv'
<1>0. TypeOK /\ (owner = "enum" => worker = "none")
  BY DEF IInv, MutexInv
<1>1. ASSUME NEW v \in Windows, EnumWindow(v) PROVE ReportInv'
  <2>1. /\ owner' = "enum" /\ Unhooked' /\ hooks' = {} /\ events' = <<>>
        /\ Unhooked /\ desktop' = desktop /\ enumLeft' = enumLeft \ {v}
    BY <1>0, <1>1 DEF EnumWindow, ReportInv, Unhooked, system
  <2>2. ASSUME NEW w \in Windows, IsCapturableWindow(w)', w \notin unreported'
        PROVE  Listed(w)' \/ w \in enumLeft'
    <3>1. IsCapturableWindow(w)
      BY <2>1, <2>2 DEF IsCapturableWindow
    <3>2. CASE w = v
      BY <1>1, <3>1, <3>2 DEF EnumWindow, Listed, list
    <3>3. CASE w # v
      <4>1. w \notin unreported /\ (Listed(w) => Listed(w)')
        BY <1>1, <2>2, <3>3 DEF EnumWindow, Listed, list
      <4>2. QED
        BY <2>1, <3>1, <3>3, <4>1 DEF ReportInv
    <3>4. QED
      BY <3>2, <3>3
  <2>3. QED
    BY <2>1, <2>2 DEF ReportInv
<1>2. ASSUME events' = events, worker' = worker, cur' = cur, visible_wnds_' = visible_wnds_,
             hooks' = hooks, desktop' = desktop, unreported' = unreported,
             enumLeft' = enumLeft, owner' # "enum" => enumLeft = {}
      PROVE  ReportInv'
  BY <1>2, PendingStays DEF ReportInv, Unhooked, Listed, IsCapturableWindow
<1>3. CASE CreateQuitEvent
  BY <1>2, <1>3 DEF CreateQuitEvent, system, list
<1>4. CASE PostUnhookFore \/ PostUnhookWnd \/ PostQuit
  BY <1>2, <1>4 DEF PostUnhookFore, PostUnhookWnd, PostQuit, Post, list, ReportInv
<1>5. CASE WaitQuit
  BY <1>2, <1>5 DEF WaitQuit, system, list, ReportInv
<1>6. ASSUME NEW c \in Clients, GetCurrentWindows(c) PROVE ReportInv'
  BY <1>2, <1>6 DEF GetCurrentWindows, ClearChanged, LockForCopy, CopyWindows, system, list, ReportInv
<1>7. CASE CreateWorkThread \/ CreateMsgWnd
  <2>1. UNCHANGED <<hooks, events, desktop, unreported, enumLeft, visible_wnds_>>
    BY <1>7 DEF CreateWorkThread, CreateMsgWnd, system, list
  <2>2. Unhooked /\ (owner' # "enum" => enumLeft' = {})
    BY <1>0, <1>7, <2>1 DEF CreateWorkThread, CreateMsgWnd, ReportInv, Unhooked, MutexInv, IInv
  <2>3. QED
    BY <2>1, <2>2 DEF ReportInv, Listed, IsCapturableWindow
<1>8. CASE HookWindows
  <2>1. /\ UNCHANGED <<events, desktop, unreported, enumLeft, visible_wnds_, owner>>
        /\ worker' = "hook_fore" /\ Unhooked
    BY <1>8 DEF HookWindows, SetHook, list, Unhooked
  <2>2. events = <<>> /\ enumLeft = {}
    BY <1>0, <1>8, <2>1 DEF HookWindows, SetHook, ReportInv
  <2>3. ASSUME NEW w \in Windows, IsCapturableWindow(w)', w \notin unreported' PROVE Pending(w)'
    BY <2>1, <2>2, <2>3 DEF ReportInv, Pending, Announced, Listed, IsCapturableWindow
  <2>4. QED
    BY <2>1, <2>2, <2>3 DEF ReportInv, Unhooked
<1>9. CASE HookForeground \/ DispatchPosted
  <2>1. /\ UNCHANGED <<events, desktop, unreported, enumLeft, visible_wnds_, owner, cur>>
        /\ worker \in {"hook_fore", "loop"} /\ worker' \in {"loop", "quit"}
        /\ "wnd" \in hooks' => "wnd" \in hooks
    BY <1>9 DEF HookForeground, DispatchPosted, SetHook, list
  <2>2. ASSUME NEW w \in Windows, Pending(w) PROVE Pending(w)'
    BY <2>1, <2>2 DEF Pending, Announced, Listed
  <2>3. QED
    BY <2>1, <2>2 DEF ReportInv, Unhooked, IsCapturableWindow
<1>10. CASE SignalQuit
  BY <1>10 DEF SignalQuit, ReportInv, Unhooked
<1>11. CASE DeliverEvent
  <2>1. /\ UNCHANGED <<hooks, desktop, unreported, enumLeft, owner>>
        /\ worker = "loop" /\ worker' \in {"loop", "add", "remove"}
    BY <1>11 DEF DeliverEvent, WinEventProc
  <2>2. QED
    BY <1>0, <1>11, <2>1, PendingDelivered DEF ReportInv, Unhooked, IsCapturableWindow
<1>12. CASE AddWindow \/ RemoveWindow
  <2>1. /\ UNCHANGED <<hooks, desktop, unreported, enumLeft, owner, events>>
        /\ ~Unhooked /\ ~Unhooked'
    BY <1>12 DEF AddWindow, AddFind, AddStore, RemoveWindow, RemoveFind, RemoveErase, system, Unhooked
  <2>2. QED
    BY <1>0, <1>12, <2>1, PendingWorked DEF ReportInv, IsCapturableWindow
<1>13. CASE Desktop
  BY <1>0, <1>13, ReportDesktop
<1>14. CASE UNCHANGED vars
  BY <1>2, <1>14 DEF vars, system, list, ReportInv
<1>15. QED
  BY <1>1, <1>3, <1>4, <1>5, <1>6, <1>7, <1>8, <1>9, <1>10, <1>11, <1>12, <1>13, <1>14
  DEF Next, Constructor, Destructor, WorkProc

(* Once the worker has dealt with its events, the only capturable windows  *)
(* the list lacks are those that became capturable with no event of theirs *)
(* on its way, for any number of windows, clients and events, any outcome  *)
(* of the calls, and verdicts of the filter that change at any time.       *)
THEOREM ShownWindowsAreListed == Spec => []ShownIsListed
<1>1. ReportInv => ShownIsListed
  BY DEF ReportInv, ShownIsListed, Pending, Announced
<1>2. IInv /\ ReportInv /\ [Next]_vars => ReportInv'
  BY ReportNext
<1>3. QED
  BY <1>1, <1>2, ReportInit, Invariance, PTL DEF Spec
-----------------------------------------------------------------------------
(* The safety of DestructorReturns.                                        *)

(* The WM_QUIT of the destructor is in the queue of a worker that is not   *)
(* through, or has been taken from it, or nobody waits for what it does.   *)
QuitPosted == \E k \in DOMAIN posted : posted[k].msg = "WM_QUIT"

QuitComing ==
  \/ QuitPosted /\ worker \notin {"none", "create", "quit", "done"}
  \/ worker = "quit"
  \/ event_quit_ # "reset"

(* A destructor that finds the message window gets its WM_QUIT to the      *)
(* worker, and from then on nothing takes it away and nothing gets in      *)
(* front of it: the worker reads it, or the wait is over.                  *)
QuitIsDelivered ==
  [][/\ owner = "post_quit" /\ owner' = "wait" /\ msg_wnd_ => QuitComing'
     /\ owner = "wait" /\ QuitComing =>
          owner' = "freed" \/ (QuitComing' /\ Len(posted') <= Len(posted))]_vars

(* There is a message window only if the worker has come to create it, and *)
(* no worker leaves its loop before the destructor told it to.             *)
PostedInv ==
  /\ worker \in {"none", "create"} => ~msg_wnd_
  /\ owner \notin {"wait", "freed"} => ~QuitPosted /\ worker \notin {"quit", "done"}

LEMMA PostedInit == Init => PostedInv
  BY DEF Init, PostedInv, QuitPosted

(* What a message more, or one less, changes about WM_QUIT.                *)
LEMMA QuitAppended ==
  ASSUME NEW q \in Seq(Message), NEW m \in Message
  PROVE  (\E k \in DOMAIN Append(q, m) : Append(q, m)[k].msg = "WM_QUIT")
           <=> (m.msg = "WM_QUIT" \/ \E k \in DOMAIN q : q[k].msg = "WM_QUIT")
<1>1. /\ Append(q, m) \in Seq(Message) /\ Len(q) \in Nat
      /\ DOMAIN Append(q, m) = 1..(Len(q) + 1) /\ DOMAIN q = 1..Len(q)
      /\ Append(q, m)[Len(q) + 1] = m
      /\ \A k \in 1..Len(q) : Append(q, m)[k] = q[k]
  BY AppendProperties, LenProperties
<1>2. QED
  BY <1>1

LEMMA QuitTaken ==
  ASSUME NEW q \in Seq(Message), q # <<>>
  PROVE  /\ Len(Tail(q)) <= Len(q)
         /\ (\E k \in DOMAIN q : q[k].msg = "WM_QUIT")
              <=> (Head(q).msg = "WM_QUIT" \/ \E k \in DOMAIN Tail(q) : Tail(q)[k].msg = "WM_QUIT")
<1>1. /\ Len(q) \in Nat /\ Len(q) >= 1 /\ DOMAIN q = 1..Len(q) /\ Head(q) = q[1]
      /\ Len(Tail(q)) = Len(q) - 1 /\ DOMAIN Tail(q) = 1..(Len(q) - 1)
      /\ \A k \in 1..(Len(q) - 1) : Tail(q)[k] = q[k + 1]
  BY HeadTailProperties, EmptySeq, LenProperties
<1>2. \A k \in 2..Len(q) : k - 1 \in 1..(Len(q) - 1) /\ q[k] = Tail(q)[k - 1]
  BY <1>1
<1>3. ASSUME NEW k \in 1..Len(q), q[k].msg = "WM_QUIT", Head(q).msg # "WM_QUIT"
      PROVE  \E j \in DOMAIN Tail(q) : Tail(q)[j].msg = "WM_QUIT"
  <2>1. k \in 2..Len(q)
    BY <1>1, <1>3
  <2>2. QED
    BY <1>1, <1>2, <1>3, <2>1
<1>4. ASSUME NEW j \in DOMAIN Tail(q), Tail(q)[j].msg = "WM_QUIT"
      PROVE  \E k \in DOMAIN q : q[k].msg = "WM_QUIT"
  <2>1. j + 1 \in DOMAIN q /\ q[j + 1] = Tail(q)[j]
    BY <1>1, <1>4
  <2>2. QED
    BY <1>4, <2>1
<1>5. Head(q).msg = "WM_QUIT" => \E k \in DOMAIN q : q[k].msg = "WM_QUIT"
  BY <1>1
<1>6. QED
  BY <1>1, <1>3, <1>4, <1>5

(* The step of the worker that takes a message.                            *)
LEMMA DispatchedQuit ==
  ASSUME TypeOK, DispatchPosted
  PROVE  /\ UNCHANGED <<owner, event_quit_, msg_wnd_>> /\ worker = "loop"
         /\ Len(posted') <= Len(posted)
         /\ worker' = "quit" \/ (worker' = "loop" /\ (QuitPosted' <=> QuitPosted))
         /\ worker' = "quit" => QuitPosted
<1>1. posted \in Seq(Message) /\ posted # <<>> /\ posted' = Tail(posted)
  BY DEF TypeOK, DispatchPosted
<1>2. /\ Len(Tail(posted)) <= Len(posted)
      /\ QuitPosted <=> (Head(posted).msg = "WM_QUIT" \/ QuitPosted')
  BY <1>1, QuitTaken DEF QuitPosted
<1>3. QED
  BY <1>1, <1>2 DEF DispatchPosted

(* Every other step leaves WM_QUIT where it is, but for the end of the     *)
(* worker.                                                                 *)
LEMMA OtherSteps ==
  ASSUME TypeOK, IInv, [Next]_vars, ~DispatchPosted, ~SignalQuit,
         ~PostUnhookFore, ~PostUnhookWnd, ~PostQuit, ~WaitQuit
  PROVE  /\ posted' = posted
         /\ owner' = owner \/ (owner \in {"enum", "create_thread"} /\ owner' \in {"create_thread", "live"})
         /\ \/ worker' = worker
            \/ worker = "none" /\ worker' = "create" /\ owner = "create_thread"
            \/ worker \notin {"none", "quit", "done"} /\ worker' \notin {"none", "create", "quit", "done"}
         /\ event_quit_' = event_quit_ \/ owner = "enum"
         /\ msg_wnd_' = msg_wnd_ \/ (worker = "create" /\ worker' = "hook_wnd")
<1> DEFINE Same == UNCHANGED <<posted, owner, worker, event_quit_, msg_wnd_>>
<1>1. ASSUME NEW w \in Windows, EnumWindow(w) PROVE Same
  BY <1>1 DEF EnumWindow
<1>2. CASE CreateQuitEvent
  BY <1>2 DEF CreateQuitEvent
<1>3. CASE CreateWorkThread
  <2>1. worker = "none"
    BY <1>3 DEF CreateWorkThread, IInv, MutexInv
  <2>2. QED
    BY <1>3, <2>1 DEF CreateWorkThread
<1>4. ASSUME NEW c \in Clients, GetCurrentWindows(c) PROVE Same
  BY <1>4 DEF GetCurrentWindows, ClearChanged, LockForCopy, CopyWindows
<1>5. CASE CreateMsgWnd \/ HookWindows \/ HookForeground
  BY <1>5 DEF CreateMsgWnd, HookWindows, HookForeground, SetHook
<1>6. CASE DeliverEvent \/ AddWindow \/ RemoveWindow
  BY <1>6 DEF DeliverEvent, WinEventProc, AddWindow, AddFind, AddStore, RemoveWindow, RemoveFind, RemoveErase
<1>7. CASE Desktop
  <2>1. Same
    BY <1>7 DEF Desktop
  <2>2. QED
    BY <2>1
<1>8. CASE UNCHANGED vars
  <2>1. Same
    BY <1>8 DEF vars
  <2>2. QED
    BY <2>1
<1>9. CASE Constructor
  BY <1>1, <1>2, <1>3, <1>9 DEF Constructor
<1>10. CASE WorkProc
  BY <1>5, <1>6, <1>10 DEF WorkProc
<1>11. QED
  BY <1>4, <1>7, <1>8, <1>9, <1>10 DEF Next, Destructor

LEMMA PostedNext == ASSUME IInv, PostedInv, [Next]_vars PROVE PostedInv'
<1>0. TypeOK
  BY DEF IInv
<1>1. CASE DispatchPosted
  BY <1>0, <1>1, DispatchedQuit DEF PostedInv
<1>2. CASE SignalQuit \/ WaitQuit
  BY <1>2 DEF SignalQuit, WaitQuit, PostedInv, QuitPosted
<1>3. CASE PostUnhookFore \/ PostUnhookWnd \/ PostQuit
  <2>1. PICK m \in Message :
             /\ m.msg = "WM_QUIT" => owner' = "wait"
             /\ owner' # "freed" /\ owner \notin {"wait", "freed"}
             /\ posted' \in {posted, Append(posted, m)} /\ UNCHANGED <<worker, msg_wnd_>>
    <3>1. \A h \in Hooks \cup {NULL} : Unhook(h) \in Message /\ Unhook(h).msg # "WM_QUIT"
      BY DEF Unhook, Message
    <3>2. [msg |-> "WM_QUIT", hook |-> NULL] \in Message
      BY DEF Message
    <3>3. wnd_hook_ \in Hooks \cup {NULL} /\ forewnd_change_hook_ \in Hooks \cup {NULL}
      BY <1>0 DEF TypeOK, Hooks
    <3>4. CASE PostUnhookFore \/ PostUnhookWnd
      BY <3>1, <3>3, <3>4 DEF PostUnhookFore, PostUnhookWnd, Post
    <3>5. CASE PostQuit
      BY <3>2, <3>5 DEF PostQuit, Post
    <3>6. QED
      BY <1>3, <3>4, <3>5
  <2>2. posted \in Seq(Message)
    BY <1>0 DEF TypeOK
  <2>3. QuitPosted' => m.msg = "WM_QUIT" \/ QuitPosted
    BY <2>1, <2>2, QuitAppended DEF QuitPosted
  <2>4. QED
    BY <2>1, <2>3 DEF PostedInv
<1>4. ASSUME ~DispatchPosted, ~SignalQuit, ~PostUnhookFore, ~PostUnhookWnd, ~PostQuit, ~WaitQuit
      PROVE  PostedInv'
  BY <1>0, <1>4, OtherSteps DEF PostedInv, QuitPosted
<1>5. QED
  BY <1>1, <1>2, <1>3, <1>4

(* For any windows and clients: the WM_QUIT of a destructor that saw the   *)
(* message window is not lost, whatever events and messages are in front.  *)
THEOREM QuitArrives == Spec => QuitIsDelivered
<1>1. ASSUME IInv, PostedInv, [Next]_vars, owner = "post_quit", owner' = "wait", msg_wnd_
      PROVE  QuitComing'
  <2>1. TypeOK
    BY <1>1 DEF IInv
  <2>2. PostQuit
    BY <1>1, <2>1, OtherSteps, DispatchedQuit
    DEF PostUnhookFore, PostUnhookWnd, Post, SignalQuit, WaitQuit
  <2>3. posted' = Append(posted, [msg |-> "WM_QUIT", hook |-> NULL]) /\ worker' = worker
    BY <1>1, <2>2 DEF PostQuit, Post
  <2>4. [msg |-> "WM_QUIT", hook |-> NULL] \in Message /\ posted \in Seq(Message)
    BY <2>1 DEF Message, TypeOK
  <2>5. QuitPosted'
    BY <2>3, <2>4, QuitAppended DEF QuitPosted
  <2>6. worker \notin {"none", "create", "quit", "done"}
    BY <1>1 DEF PostedInv
  <2>7. QED
    BY <2>3, <2>5, <2>6 DEF QuitComing
<1>2. ASSUME IInv, [Next]_vars, owner = "wait", QuitComing
      PROVE  owner' = "freed" \/ (QuitComing' /\ Len(posted') <= Len(posted))
  <2>1. TypeOK /\ Len(posted) \in Nat
    BY <1>2, LenProperties DEF IInv, TypeOK
  <2>2. CASE DispatchPosted
    BY <1>2, <2>1, <2>2, DispatchedQuit DEF QuitComing
  <2>3. CASE SignalQuit
    <3>1. QuitComing' /\ posted' = <<>>
      BY <2>3 DEF SignalQuit, QuitComing
    <3>2. QED
      BY <2>1, <3>1
  <2>4. CASE WaitQuit
    BY <2>4 DEF WaitQuit
  <2>5. ~PostUnhookFore /\ ~PostUnhookWnd /\ ~PostQuit
    BY <1>2 DEF PostUnhookFore, PostUnhookWnd, PostQuit, Post
  <2>6. ASSUME ~DispatchPosted, ~SignalQuit, ~WaitQuit PROVE QuitComing' /\ Len(posted') <= Len(posted)
    BY <1>2, <2>1, <2>5, <2>6, OtherSteps DEF QuitComing, QuitPosted
  <2>7. QED
    BY <2>2, <2>3, <2>4, <2>6
<1>3. IInv /\ PostedInv /\ [Next]_vars =>
        [/\ owner = "post_quit" /\ owner' = "wait" /\ msg_wnd_ => QuitComing'
         /\ owner = "wait" /\ QuitComing =>
              owner' = "freed" \/ (QuitComing' /\ Len(posted') <= Len(posted))]_vars
  BY <1>1, <1>2
<1>4. IInv /\ PostedInv /\ [Next]_vars => PostedInv'
  BY PostedNext
<1>5. QED
  BY <1>3, <1>4, PostedInit, Invariance, PTL DEF Spec, QuitIsDelivered
=============================================================================
