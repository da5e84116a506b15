# A verification project for will.practice

The repository is a Visual Studio solution of some 35 small Windows programs
and libraries, each exploring one technique: window tracking, capture lists,
drop shadows, timers, COM capture graphs, hooks, Direct3D frames. It has no
tests of its own code. This project models the parts that keep state and can be
in the wrong one: threads, message loops, hooks, reference counts and COM
lifetimes. It checks those models with TLC and proves the central results with
TLAPS.

* [1. Inventory](#1-inventory)
* [2. Plan](#2-plan)
* [3. Modules](#3-modules)
* [4. Runs](#4-runs)
* [5. Proofs](#5-proofs)
* [6. What the models say about the code](#6-what-the-models-say-about-the-code)
* [7. Abstractions and what is not modelled](#7-abstractions-and-what-is-not-modelled)

## 1. Inventory

| Component | Source | State | Operations | What is hard |
|---|---|---|---|---|
| **WindowList** | `window-list/WindowListHelper.*` | `windows_`, `visible_wnds_`, `changed_`, `msg_wnd_`, two hooks, `event_quit_`, a mutex, a thread-local back pointer | constructor (EnumWindows), destructor, `GetCurrentWindows`, `WindowsChangedSinceLastGet`, `AddWindow`, `RemoveWindow`, `WorkProc`, `WindowProc` | a flag outside the lock; a worker with a bare pointer; out-of-context events that ask a window that may be gone; destruction before the worker has its window |
| **TrackerWnd, lifecycle** | `WindowsProject1/tracker_wnd_win.*` | `tracking_`, `tracker_wnd_`, `event_quit_`, `track_wnd_mutex_` (recursive), the worker's own reference | constructor, `start`, `stop`, destructor, `WorkThreadProc`, `WndProc` | `stop` waits while it holds the mutex; the worker may have no window yet; a stale window handle on the next round; `start` throws after the worker runs |
| **TrackerWnd, following** | same | hooks, timer, console rectangle and counters | `OnTrackerWindowCreate`, `OnTrackerMonitor`, `WinEventHookProc`, `ShowTrackerWindow`, `UpdateSizeAndPos`, `OnTimerConsoleSizeDetect`, `OnClearResource` | events handled late, by looking at the window as it has become; one event that arms the next; a console that only a timer watches |
| **CWndShadow** | `WindowsProject1/WndShadow.*` | `m_Status` bits, `m_bUpdate`, size, colour, the map of shadows | `Initialize`, `Create`, `ParentProc`, `Show`, `Update`, `MakeShadow`, setters | status bits that must agree with each other and with the owner window; DWM composition switching |
| **Timer** | `tasktimer/tasktimer.cpp` | `m_cancel`, `m_interval`, a mutex, a condition variable, a thread | `start`, `stop`, `setInterval`, `run`, destructor | flags outside the lock, lost notifications, a restart while the thread is joinable |
| **DxPtr** | `Dx11/util/DxPtr.h` | pointer and shared count | copy, move, assign, `operator&`, destruction | counts of pointers that are empty, moved from, or refilled through `operator&` |
| **UniquePtr** | `smart_pointer/UniquePtr.h` | pointer | constructors, `reset`, `release`, move assignment, destruction | one object, one owner, with a client that holds what `release` returns |
| **dshow_cap** | `dshow_cap/dshow_cap.cpp` | five global COM pointers that are never cleared | `InitCaptureGraphBuilder`, `do_capture`, `select_device`, `start_preview`, `start_capture`, `do_stop`, `WndProc` | menu commands in any order; calls whose failure is not looked at |
| **DeviceWin** | `wmi-info/device_win.*` | COM services, cached answers | constructor, `GetCpuCores`, `GetCpuClock`, score functions | COM released on each exit path; a buffer whose size is a guess and that grows in a loop |
| **Microphone permission** | `wmi-info/wmi-info.cpp` | COM apartment | `CheckMicrophonePermissions` | COM initialised and not uninitialised |
| **WindowsProject1** | `WindowsProject1/WindowsProject1.cpp` | an event | `WndProc`, `testAPI` | the thread that would drive a TrackerWnd, and the shadow, are switched off (`WindowsProject1.cpp:493`, comments in `WM_CREATE`) |
| **Injector and hooks** | `inject-dll`, `DXHook`, `api-hooking`, `main-proj` | handles, remote memory, patched import tables | install, uninstall | each handle on each exit path |
| **Direct3D samples** | `Dx11`, `DirectX11Sample`, `dx9demo`, `d3d9driver` | devices, views | `Init` chains, render loops | calls that go on after a failure |
| **Small tools** | `cpu*`, `__cpuid`, `memcolloection`, `allmodulelist`, `resource-consumer`, `window_on_pt`, `WindowStyleModifier`, `recursivecall`, `seh-cpp-exception*`, `stl_learning`, `cpp_templates_learning`, `cpp_test`, `winrt-auth`, `ppt_page_fetch`, `pure-console`, `intel-asm`, `dshow-cap-by-grab`, `clean.py` | little or none | one pass from input to output | nothing concurrent |
| **Vendored** | `crashpad_test/include`, `crashpad_test/util`, `Dx11/dxerr`, `packages` | | | third-party headers and sources |

How they interact: TrackerWnd and CWndShadow are the parts WindowsProject1 is
made to try out, WindowList the part that window-list is (this commit has the calls of all
three switched off; those of WindowList are comments in `window-list.cpp:166-178`, behind
the `return` of line 134); DxPtr is used by the Dx11 renderer; DeviceWin and
the permission check share the wmi-info program. Beyond that the programs do not
call each other: each component interacts with Windows (messages, WinEvents,
waits) and with the threads that own it.

## 2. Plan

Done:

1. `WindowList` with its abstract specification `ChangeNotifier`: the component
   with most concurrency. Inductive invariant, safety theorems, refinement,
   liveness. Around it `WindowListProcess` (what several lists share) and
   `CapturableWindow` (the filter).
2. `TaskTimer`: the condition variable protocol, with spurious wakeups and lost
   notifications; its bounds proved.
3. `TrackerLifecycle`: start, stop, destructor and worker, with its abstract
   specification `Tracking`; its safety and the refinement proved.
4. `WndShadow`: the status machine; its invariants proved.
5. `TrackerFollow`: the WinEvent switch and the console timer of TrackerWnd, against
   a desktop that moves, drags, minimises, maximises, hides and destroys the window;
   its safety proved, that the frame settles included; its progress checked.
6. `CaptureGraph` (dshow_cap): the references behind the COM pointers under any
   order of the menu commands and any failing call; its invariant proved.
7. `Ownership`, what a smart pointer promises, and `DxPtr` and `UniquePtr`, each
   shown and proved to implement it.
8. `DeviceWin`: what the constructor holds at each exit, the cached answers and the
   loop around the buffer; its safety proved, its progress checked.
9. The safety that the liveness properties rest on: that a WM_QUIT once sent is not lost,
   and that loops come nearer to their end; proved.

Left: nothing that keeps state and that a model would tell more about than its
source does. Section 7 says what was looked at and left out, and why.

## 3. Modules

| Module | What it is | Code |
|---|---|---|
| `ChangeNotifier` | what a poller of WindowList relies on: a list, a flag, atomic operations | the interface in `WindowListHelper.h` |
| `WindowList` | WindowList step by step, with its worker, its pollers and the desktop | `WindowListHelper.cpp` 83-258 |
| `WindowListProperties` | its properties, the refinement mapping, the inductive invariant | |
| `WindowListProofs`, `SequenceLemmas` | the theorems; lemmas on `Append`, `RemoveAt`, injective sequences | |
| `WindowListProcess` | window class and thread-local shared by several lists | `WindowListHelper.cpp` 80-225 |
| `CapturableWindow` | the rule of the filter and the captured window it depends on; checked against its comment | `WindowListHelper.cpp` 10-78, 146-149 |
| `TaskTimer`, `TaskTimerProofs` | the Timer: owner and timer thread | `tasktimer.cpp` |
| `Tracking` | what the owners of a TrackerWnd rely on: rounds one after the other | the interface in `tracker_wnd_win.h` |
| `TrackerLifecycle`, `TrackerProperties`, `TrackerProofs` | rounds of tracking shared by callers; their refinement of `Tracking` | `tracker_wnd_win.cc` 41-204 |
| `TrackerFollow`, `TrackerFollowProofs` | the frame and the window it follows: hook, timer, desktop | `tracker_wnd_win.cc` 118-621 |
| `WndShadow`, `WndShadowProofs` | the shadow and the messages of its parent | `WndShadow.cpp` 159-378, 597-680 |
| `Ownership` | what a smart pointer promises | |
| `DxPtr`, `UniquePtr`, `OwnershipProofs` | the pointers and their clients; invariants and refinement | `DxPtr.h`, `UniquePtr.h` |
| `CaptureGraph` | the camera program: its menu and its COM references | `dshow_cap.cpp` 21-26, 113-413 |
| `DeviceWin` | the query of the processor | `device_win.cc` 69-515 |
| `ReleaseProofs` | the theorems of `WindowListProcess`, `CaptureGraph` and `DeviceWin` | |
| `MCPrograms` | one instance of the components that stand alone | |
| other `MC...` | finite instances for TLC | |

How state and actions correspond:

* **WindowList.** Members keep their names. `owner`, `client[c]` and `worker` are
  program counters. One action is what a thread does between two points where
  another thread can see it: `GetCurrentWindows` is `ClearChanged` (the store
  before the lock), `LockForCopy`, `CopyWindows`; `AddWindow` and `RemoveWindow`
  are split inside their critical sections, so that a reader without the lock
  would see the half-made change. `Desktop` is every other process, and whoever
  calls `SetCurrentCapturedWnd`: windows are shown, destroyed and changed in any other
  way the filter looks at, handles are reused, and events are queued for the hooks that
  are installed. `desktop[w]` is what the filter would say of a window now (`absent`,
  `refused`, `capturable`); `Show` raises the event that line 195 waits for, `Alter` and
  `SetCurrentCapturedWnd` change the verdict and raise none. `WinEventProc` asks about a window when it *runs*, as
  an out-of-context hook does. `DispatchPosted` is `WindowProc` with `WM_UNHOOKWIN`
  and the end of the loop with `WM_QUIT`. `unreported` and `lastGet` are history
  variables; `unreported` are the windows that became capturable in silence.
* **TaskTimer.** `user` and `thread` are program counters; `notify_all` is a step
  of its own after the write of the flag, and reaches the thread only while it
  waits. `Timeout` is the end of the interval or a spurious wakeup.
* **TrackerLifecycle.** A worker, its window and its quit event carry the number
  of the round that created them, so that a stale handle can be told from the
  current one. `refs` is the set of threads that hold the `shared_ptr`: the
  callers, and workers through `tls_tracker_wnd`. `PostQuit` and `WaitQuit` are
  `stop`, which the destructor calls too. A worker that would use a freed object
  has no step there: that it can get there is what NoUseAfterFree excludes.
* **WndShadow.** `m_Status` is the set of bits that are on. `image` records from
  which region, place and settings `Update` last drew. Each message is one action
  with the change of the parent that sends it. `composed` is a history variable.
* **TrackerFollow.** `wnd` is the tracked window as the desktop has it, `frame` the
  worker's window. Every change of the desktop queues the WinEvents Windows raises
  for it, when the hook is there; `WinEventHookProc` takes the first and asks the
  window as it is then. Cases of the switch that do the same are one action
  (`OnHide`, `OnShow`, ...). Each way through `OnTimerConsoleSizeDetect` is an action
  (`TickEmpty`, `TickMoving`, `TickWaits`, `TickStopped`). Rectangles are model values
  named for where they come from. `armed` (a location change will be followed) and
  `silent` (the window changed in a way that nothing tells the worker of) are history
  variables; `silent` is what the properties except, and section 6 lists what sets it.
* **DxPtr, UniquePtr.** One action per member function, with any object. A count is a
  block that `new int` gave; `Fill` is `operator&` in the hands of a function that
  makes an object; `crashed` ends the behaviour where a null count is dereferenced.
  `misused` is a history variable: `operator&` was used on a pointer that was not
  empty or shared its count. What does not compile has no action: assignment of an rvalue
  to a `DxPtr`, and `swap` of two `UniquePtr`s.
* **CaptureGraph.** The global pointers keep their names and their stale values. `refs`
  counts the program's references to each object, `filters` what the graph holds; an
  object is alive by the one or the other. `CreateBuilder`, `CreateGraph` and their
  failures are the ways through `InitCaptureGraphBuilder`. `start_capture` is one camera through
  `select_device`, `start_preview` and `start_capture`; `BindFails`, `NoStreamConfig`
  and `AddFilterFails` are the failures on that way that change what is held. `dead`
  ends the behaviour where a null or dangling pointer is called through.
* **DeviceWin.** `at` names the call the constructor, or `GetCpuClock`, makes next; each
  call either `Gets` something or `Returns` after a release. `field` runs over the four
  queries. `CoresKnown` is what `GetCpuCores` leaves in the cache, from WMI or CPUID.

## 4. Runs

| Run | Bounds | What it shows |
|---|---|---|
| `windowlist_safety` | 2 windows, 2 pollers, 1 event waiting, every system call may fail | the vector and the set agree outside critical sections; `erase` is in range; nobody copies during a change; no change is missed by a poller that trusts the flag; the destructor does not return before the worker's last use; the object implements `ChangeNotifier`; the proof's invariant |
| `windowlist_liveness` | 1 window, 2 pollers, 3 events waiting | with events dealt with, every capturable window is listed, also when a handle was destroyed and reused meanwhile, but for those that became capturable with no SHOW or UNCLOAKED to tell of it; a shown window reaches the list if the pollers come to a stop; a destructor that found the message window returns |
| `windowlist_one_per_thread` | 3 lists, 2 threads | violated: one thread constructs two lists |
| `capturable_popups` | 2 windows | violated: the filter does the reverse of its comment |
| `task_timer` | 2 intervals, counters to 3 | at most one trigger after `stop`, at most one wait of an old interval after `setInterval`, no thread after the destructor, and the destructor returns |
| `tracker_lifecycle` | 2 callers, 3 rounds | a returned `stop` has seen the end of its worker; nothing is freed under a worker; a stop whose message arrived returns; callers and workers together implement `Tracking`; the proof's invariant, in which each worker waits on its own window |
| `tracker_stop` | same | violated: a `stop` that comes before the window waits for ever |
| `tracker_create` | same | violated: `create` with `start_on_create` never returns an object |
| `tracker_follow` | 2 places, 3 events waiting, delay of 2 ticks; windows, consoles with and without a frame's thickness, a screen | with the events handled, the frame is around a window in its normal state and around no other than a minimised one; a hidden window's frame goes, and stays away however the events interleave; a console's frame is where the console stands, and comes back when it stops |
| `shadow_status` | 3 sizes, 2 places, 2 settings, composition on and off | `SS_VISABLE` is the truth about the window; a shown shadow is in place and as set; without composition, of the right size after a paint |
| `shadow_bits` | same | violated: `Show` does not keep the meaning the header gives the bits |
| `small_programs` | 3 lists in 2 threads; 3 DxPtrs, 2 objects, 3 counts; 2 UniquePtrs, 2 objects; 3 cameras; machines of three makers, with and without each CPUID leaf, 1 and 4 cores | each worker finds the window class, whichever worker unregisters it; no DxPtr dangles and none loses its object without a misuse, and both pointers implement `Ownership`; the camera program's initialisation holds builder and graph or nothing; once a camera is bound, captures and one stop go through no bad pointer unless a call failed, and leave what they must; the query holds nothing when its constructor returns, and `GetCpuClock` returns and reads its own buffer on a machine with cores |

The components of `small_programs` have no variable in common and share a run because
each alone is small: `program` says which of them a behaviour is of, and the others
stand still. Their invariants hold of all of them in every state.

Why the bounds are enough. Two windows are the least that give the vector an order
and an index other than the first; two pollers compete for the mutex and can each
lie between the store to `changed_` and the copy. One waiting event already lets
the desktop change between an event and its callback; two are needed for
destroy-and-reuse before the first is looked at, and a third for what comes after it, which
is why the liveness run has three. Three lists let one leave while a second is between registering the class and
creating its window and a third is alive. The timer's counters go up to 3, past the
limit of 1 that is claimed. Three rounds let a stop find the window of the round
before the last. Three sizes let a window grow twice, so that the remembered size
can be between two others. Two places let a window move away and come back, and so
stand at the place an old event was about; three events let a change be queued behind
both events of the change before it; a delay of two ticks has a tick that waits and one
that acts. Three DxPtrs let two share a count while a third owns another object; three
blocks give each a count of its own. Three cameras let one be neither the first
nor the last. Machines with 1 and 4 cores divide by one and by more; the buffer's loop is
bounded by the code's own limit.

Fairness. Safety runs assume none. `WindowList!FairSpec`: a thread that can run
does run (weak fairness of the constructor, a destructor that has begun, the worker, a
call that has begun); a message queue does not put a posted message off for ever while
events come (strong fairness of `DispatchPosted`). Nothing is promised of the mutex, for
`std::mutex` may let one thread wait while others keep taking it: that a shown window
gets listed has as its premise that the clients stop calling `GetCurrentWindows`. The
desktop and a next call are owed to nobody. `TaskTimer!FairSpec`: a call that has begun goes on, the
thread is scheduled, `wait_for` ends with its interval. `TrackerLifecycle!FairSpec`:
threads are scheduled and a wait on an event that is set ends; no caller has to call
anything. `GetMessage` is only as fair as its thread: it returns a queued `WM_QUIT`.
`TrackerFollow!FairSpec`: the timer ticks and hooked events are delivered, as the
worker's message loop does both and nothing else; the desktop does as it likes.
`DeviceWin!DwFairness`: the system answers each `CallNtPowerInformation`, and the loop
goes on.

Deadlock is not checked where a system may stop: a destroyed timer, a freed tracker,
a destroyed parent or tracked window, a program that has ended, and a `stop` that waits for ever (see section 6).

## 5. Proofs

For every value of the constants, checked by TLAPS:

* `WindowListProofs`: `TypeCorrectness`, `ListConsistency`, `EraseIsDefined`,
  `DataRaceFreedom`, `ChangesAreNotMissed`, `NoUseAfterFree`, `Refinement`. All rest
  on `IInv`, for any windows and clients, any failures and any queue length. None of
  the properties is inductive alone: that the list and the set agree needs `MutexInv`
  (who is in a critical section) and, inside one, how they differ (`ListInv`);
  that the flag covers every change needs that a call which has lowered the flag and
  not copied yet still owes the list (`ChangeInv`). `Refinement` maps `list` to
  `windows_`, `last` to `lastGet` and `dirty` to `changed_` or a call under way: the
  store to `changed_` is then a stutter, and the copy is the abstract `Get`.
* `ShownWindowsAreListed` (`WindowListProofs`), for any windows, handles reused and a queue
  of any length, from `ReportInv`: of a window that has to be listed the latest event in the
  queue is a SHOW (`Announced`), or its SHOW is being dealt with, or it is in the list and no
  event behind takes it out. What has to be listed is every capturable window that did not
  become so in silence, and the verdict may change at any step, of many windows at once. No induction over the queue is needed: what the invariant says of a sequence
  is shown of its tail and of the sequence with one event more.
* `ReleaseProofs`: `WindowForEveryWorker`, for any lists and threads, from `ClassInv`: only a
  worker whose window exists unregisters the class. `BoundUse`, `StopFrees`, `InitReleases`,
  for any number of cameras, from `CgInv`: the references after the initialisation are those
  of its two pointers, on each of its ways out; as long as no call failed the pointers are
  those of the last camera, and before the first stop every object has the references that the
  cameras so far took. `NothingHeldAtReturn` and `ClockInBuffer`, for any machines, from
  `DwInv`: what is held is a function of where the constructor is, and cores that
  `GetCpuCores` did not find once it never finds, so that a buffer too short for an entry
  was made for no cores.
* `OwnershipProofs`: `ExclusiveOwner`, `DxNeverDangles`, `DxCounts`, `DxLosesNothing`, and the
  refinements `UniqueRefines` and `DxRefines`, for any pointers, objects and counts. `DxInv`
  needs `SharedTogether`: pointers to one object share a count (always), and pointers that
  share a count point to one object (until `operator&` is misused); without the first the last
  owner would not be known, without the second an object could lose its only pointer.
* `TrackerFollowProofs`: `FrameGoesWithWindow` and `FrameAroundConsole`, for any places, delay
  and queue, from `FollowInv`: until the hook or the first tick is there, a frame that nothing
  has made silent is that of the window as it is. `FrameSettlesDown` says that with every event
  handled the frame is around the window, or hidden with it, however late and against whatever
  window the events were handled. It needs `SettleInv`: a frame that is wrong has an event in
  the queue that makes it right (`Corrected`), whatever the events in front of it do. A
  location change corrects only if the check will be enabled when its turn comes, which is
  decided by the last event before it that raises or lowers the flag (`EnabledAt`); `QueueInv`
  says that a start of a drag or a minimise still in the queue has its end behind it as soon as
  the window is through with it. An event handled moves all of this by one place, and an event
  queued leaves it or adds the last place (`HandledQueue` and the lemmas after it).
* `TaskTimerProofs`: `TimerSafety`, `OneLateTrigger`, `OneStaleWait`, `ThreadJoined`,
  from `TimerInv`: a thread that has fired late is about to leave its loop; one that
  outwaited an old interval reads the new one before it waits again.
* `TrackerProofs`: `TrackerSafety`, `StopEndsRound`, `DestructorIsLast`,
  `WindowPerRound`, from `TrackerInv`, for any callers and rounds. While every event
  could be created (`~eventFailed`), the current event names the only worker that may
  be busy, and is set only when that worker is through. Without an event `stop` does
  not wait, and the properties do not hold; they say so. `TrackerRefines`: `tracking` is
  `tracking_`, `begun` the rounds whose worker has been created or failed to be, `users` the
  workers that use the object, `freed` the freed object. A start is `Begin`, the last use of a
  worker `Leave`, the return of `stop` `End`, and the destructor `End`, `Free` or both; all
  else is a stutter. That a wait ends its own round needs `StopInv`: whoever waits has the
  mutex, so that nobody replaces the event; that the object is not freed twice needs
  `ObjectInv`: one thread runs the destructor.
* `WndShadowProofs`: `ShadowSafety`, `StatusIsTruth`, `ShadowInPlace`, `ShadowIsFresh`,
  from `ShadowInv`, for any sizes, places and settings. The size part says that an
  update that `WM_SIZE` puts off is one that a pending `WM_PAINT` will make, and that
  `m_WndSize` is the parent's size or 0, so that comparing with it decides rightly.

Theorems that are the safety of a liveness property. The prover does not do fairness; what
it can show of "A leads to B" is that no step loses the ground won, or that every step of the
ones owed makes a natural number smaller. TLC shows the rest on the instances:

* `QuitArrives` (`WindowListProofs`, for `DestructorReturns`): the destructor that finds the
  message window posts its WM_QUIT to a worker that is alive, for no worker leaves its loop
  before (`PostedInv`); from then on it stays until it is read, and the queue in front of it
  never grows.
* `QuitIsNotLost` (`TrackerProofs`, for `QuitStops`): a WM_QUIT that reached its worker is in
  the queue, being answered, or answered, until `stop` returns or the window is closed;
  `EventIsHeld` says that the event `stop` waits for is not replaced meanwhile.
* `DestructorComesNearer` (`TaskTimerProofs`, for `DestructorReturns`): `StepsLeft` counts the
  steps of the timer thread before the join; a lost notification leaves it to the timeout, a step
  that is counted.
* `ClockComesNearer` (`ReleaseProofs`, for `ClockReturns`): `LoopLeft` is what the buffer has to
  grow to the limit; with cores known the buffer is not empty, so that doubling makes it longer.

Assumptions, each checked by TLC in the runs too: clients are not named as the
worker or as the free mutex; system calls answer TRUE or FALSE; lists, threads and
the null value are distinct; callers and rounds are; sizes are positive numbers; the empty
rectangle is none of the others and the delay is positive; null pointers are no objects and
no counts, DxPtrs are finitely many; machines have cores.

The inductive invariants `TimerInv`, `ShadowInv`, `FollowInv`, `SettleInv`, `ClassInv`, `CgInv`
and `DwInv`, and the type invariants in them, are proved and no longer listed in a run; TLC
found them true of the instances above before they were proved (`SettleInv` with up to four
events waiting). `OwnWindow` is a part of `TrackerInv`, which a run does list.

Only model-checked: that things happen at all (`ShownEventuallyListed`, `DestructorReturns`
of the list and of the timer, `QuitStops`, `FrameLeaves`, `ConsoleReappears`,
`ClockReturns`), for which fairness and ENABLED are needed, out of this prover's reach. Every
invariant and every action property that a run checks is proved.

## 6. What the models say about the code

* **`create` with `start_on_create` fails** (`tracker_create`). `start` ends in
  `throw 2;` (`tracker_wnd_win.cc:93`); from the constructor the exception destroys the
  object, while the worker that was created keeps a pointer to it.
* **A `stop` can wait for ever** (`tracker_stop`). `tracker_wnd_` is set by the worker;
  before that `stop` posts `WM_QUIT` to no window, or to the one of the round before,
  and waits for an event that nobody sets, holding the mutex. `QuitStops` says what
  does hold: a stop whose message arrived returns.
* **The status bits of the shadow do not mean what the header says** (`shadow_bits`).
  `Show` computes whether the shadow may be shown and shows it in any case: for a
  parent that is not visible, and while Aero disables it. The same is the reason why
  `FreshShadow` holds only as long as composition has been off: `WM_SIZE` and
  `WM_SHOWWINDOW` are passed over under Aero, and the end of composition shows and
  draws the shadow of whatever the parent is then, maximised or not painted yet.
* **Two lists in a thread** (`windowlist_one_per_thread`). The constructor throws if
  the thread has a list, but reads a thread-local that only workers set.
* **Popups** (`capturable_popups`). With a captured window, a popup is refused when
  that window owns it and let in otherwise; the comment says the reverse.

Not as disagreements with a text, but visible in the models:

* The destructor of a WindowList hangs when the worker has not created its window yet
  (`DestructorReturns` has that window as its condition); a window shown between
  `EnumWindows` and the hook is not listed, and neither is, until its next SHOW or UNCLOAKED,
  a window that becomes capturable in any other way: enabled again, given a size, restyled, or
  let in by another captured window (`unreported`); a listed window that the filter would now
  refuse stays listed; `Timer::start` on a joinable
  timer ends the process (`Launch`); a tracker whose event could not be created does not
  wait for its worker.
* The frame does not follow everything (`silent`): what the window does between
  `OnTrackerWindowCreate` and the hook, or for a console the first tick, is not noticed; a
  console that is shown or hidden without being moved is not either; of the location changes
  only the first after `enable_location_check_` was raised is followed, and the location
  change of a caret uses it up, for `idObject` is not looked at
  (`tracker_wnd_win.cc:424`); the hiding of the caret hides the frame (`:397`). The frame of
  a screen does not follow a change of the display. `console_hide_` and the count keep
  their values across a restart, and a console that was created hidden can have its frame
  shown, with no size, by a change of focus.
* `operator&` of a `DxPtr` that holds an object, or shares its count, leaks an object
  (`misused`); a copy of, or an assignment from, a `DxPtr` that was moved from dereferences
  null (`crashed`); the assignment of an rvalue, and `UniquePtr::swap`, do not compile.
* A stop with no camera bound goes through the null `pMediaControl` (`dshow_cap.cpp:361`): a
  stop before any capture, and a stop after a capture that found no device of the name the
  program looks for, in which no call failed (`BoundUseIsSafe` has the camera as its condition).
* `do_stop` works once at most: its pointers are not cleared, so that a second stop, or a
  capture after a stop, uses dangling ones. `enum_cap` keeps the stream configuration and with
  it the camera (`StopFreesOneCapture`); every further capture without a stop leaves a renderer
  and a reference to the graph. A camera that cannot be bound is used through null. Exit
  without a stop releases nothing.
* `GetCpuClock` never returns on a machine for which no cores were found as long as the
  system calls the buffer too small: 0 doubles to 0 (`ClockReturns` excepts it). Its `status`
  holds the result of the comparison, so that a failed call counts as an answer of 0 MHz.
  On AMD without WMI the cores are counted from a character of the maker's name
  (`regs_4`); with CPUID leaf 4 the code divides the logical cores, 0 unless WMI told them,
  by the cores, and finds none or the threads of a core.

## 7. Abstractions and what is not modelled

* Windows: a WinEvent hook delivers the events of its time in order; a posted message
  to a window that does not exist is lost; `UnregisterClass` fails while a window of
  the class exists; a thread's windows, hooks and queues end with it; an interval is
  only "over" or not, for time is not modelled.
* `WindowList`: `changed_` and `msg_wnd_` are read and written without the mutex; both
  are one aligned word, so that an access is one step. What `IsCapturableWindow`
  says of a window is a state of the window, which any step of the desktop can change; its rule
  is `CapturableWindow`. The constructor runs on a GUI thread: on another it throws before it
  has done anything. In that module the shell window,
  visibility, root and rectangle tests are one attribute, and so are the blocked classes.
* `TrackerLifecycle`: the process is DPI-aware (in one that is not `start` does nothing). What the
  worker does with its window apart from the lifecycle is `TrackerFollow`, in which a round
  begins and ends with `OnTrackerWindowCreate` and `OnClearResource`.
  Callers hold references of their own; `NonUIThread`, which would share one global
  among threads, is not started in this commit.
* `WndShadow`: `Create` is called for the parent's WM_CREATE, its only use in the repository:
  the parent is then invisible, normal and has nothing to paint. `FreshShadow` rests on it: of
  a visible parent that has grown and not been painted, `Create` would draw the region of
  before. `m_Status`, which the constructor leaves without a value, starts empty: nothing reads
  it before `Create` assigns it. A size is one number, so that "wider or higher" is "greater"; the region
  of a window that grew is the old one until `WM_PAINT`, as the source says at
  `WndShadow.cpp:246`; no setter is called after `WM_DESTROY`; `Initialize` and the
  pixels of `MakeShadow` are left out.
* `TrackerFollow`: z-order and drawing are left out. The options are of the three kinds the
  header's samples make: a window without a monitor, a screen with a monitor or with a window
  to take it from. A hook or a timer that is refused leaves the frame as it was created, and
  the properties, which are about a tracking that has one, promise nothing then. A rectangle is compared and tested for
  emptiness, nothing else; `CountDown` stops at 0 where the code counts on below, which it
  compares with `> 1` only. Windows raises the events listed with each action of the desktop;
  a window of another thread raises none once it is destroyed.
* `CaptureGraph`: the graph keeps its filters and the builder its graph, as the DirectShow
  documentation of these interfaces has it; the moniker and its enumerator, released
  where they were got, are left out. `SetFiltergraph`, whose result is not looked at, is taken
  to succeed. `CMyDShow` is a copy that nothing calls.
* `DeviceWin`: `LoadLibrary` of powrprof, which is never freed, the text of the maker's name,
  `GetRam` and the score tables are left out: `GetCpuScore` returns 0 whatever they say, so
  that the level it feeds is constant. `Get`, whose result is not looked at (its VARIANT is
  uninitialised, `device_win.cc:137-138`), is taken to give the value. Where `PowrProf.dll` or
  its function is missing (231-236) `GetCpuClock` answers 0 and changes nothing, which is no
  step. `buf_len` has 32 bits in the code and stays below twice the limit of the loop for any
  number of cores that a machine has.

What is not modelled, and why:

* **Vendored code.** Of the some 113 000 lines of C and C++ in the repository about nine
  tenths are third-party: DirectXMath and the other NuGet packages (`packages`), `dxerr`, the
  crashpad and mini_chromium headers. They are somebody else's programs, and most of
  DirectXMath is vector arithmetic without a state. The repository's own code is some
  11 000 lines, much of it the boilerplate of Visual Studio's templates and of API calls, so
  that the share of all lines that these models cover stays small.
* **Direct3D samples.** Chains of driver calls on one thread, each of which returns when it
  fails or is not looked at; the state is the driver's. `dx9demo` renders through null
  pointers when its initialisation failed (`dx9demo.cpp:61`), wherever it failed. What
  `DxPtr` does for `Dx11` is modelled.
* **Injector and hooks.** One pass of system calls on another process, and patches of
  another program's import table: what matters there is the other program.
* **WindowsProject1, window tools.** Window boilerplate; `testAPI` retries ten times and returns.
* **Processor and memory tools, microphone permission, samples around services, language
  exercises.** One pass from a query to a line of output; no state outlives it.
