# Verification of the Windows process monitor

A kernel driver blocks every process that starts until a user has decided
whether it may run; a DLL carries the decisions between the driver and a GUI,
and installs the driver. This directory holds TLA+ models of that program, the
TLC configurations that check them on small instances and the TLAPS proofs of
what matters most. Paths below are relative to `src/`.

## The system

| Part | Code | State it keeps | Operations |
|---|---|---|---|
| Process gate | `ProcessMonitor/src/ProcessMonitor.cpp`, `ProcessHelper.*`, `Sync.h`, callbacks in `main.cpp` | list of records (name, marker, resume event) under a reader/writer lock; the client's event under `m_lock` | `OnCreateProcess`, `OnLoadProcessImage`, `OnDeleteProcess`, `Reset` |
| Device requests | `ProcessMonitor::ProcessIrp` | none of its own | register event, count, list, allow, block, terminate all, reset |
| Termination | `ProcessMonitor/src/Utils.cpp:14-56` | system threads that have not run yet | `ScheduleProcessTerminate`, the thread |
| Loading, unloading | `ProcessMonitor/src/main.cpp` | device, notify routines, the monitor object, `m_shutdown` | `DriverEntry`, `Initialize`, `StartupProcessManagerList`, `DriverUnload`, `Cleanup` |
| Monitoring session | `ProcessDll/src/ProcessMonitor.cpp` | device handle, `m_notifyEvent`, `m_terminateMonitoring`, the monitoring thread | `Init`, `Reset`, `Dispatch` |
| Service control | `ProcessDll/src/Processdll.cpp`, `ServiceController.cpp` | the service and the driver's file | `Install`, `Start`, `Stop`, `Uninstall`, `GetStatus` |
| Decision dialog | `ProcMonGUI/src/Callbacks.cpp`, `CallBackList.cpp` | the list shown, a countdown of 180 s | `ListCallback`, `OnTimer`, `OnOK` |
| Main window | `ProcMonGUI/src/ProcMonGUIDlg.cpp`, `ErrorDispatcher.cpp`, `ProcMonGUI.cpp` | open message boxes; whether it is enabled; what the UI thread is in the middle of | six buttons, OK and Cancel, the About box, refresh of the status |

How they interact. Windows calls the driver's notify routines in the thread of
the starting process. That thread arms its resume event, sets the client's
event and waits up to four minutes. The monitoring thread of the DLL wakes,
reads how many and which records are still `Clean` ("gray"), calls back into
the GUI, which shows a dialog, sends one rule per process, and asks the driver to
terminate the denied ones. A rule marks the record and sets its resume event;
the thread reads the marker after its wait and, if it is denied, starts a system
thread that terminates the process. `Stop Monitor` ends the monitoring thread
and resets the driver.

What makes it hard:

- a wakeup travels through two events of different kinds and through three
  threads (starting process, monitoring thread, UI thread) without a lock that
  covers it;
- `m_lock` is held shared by both the gate and `AppendRule`, which therefore
  run at the same time;
- pids are reused, and verdicts and terminations are passed on as pids;
- a client may die at any time and tells the driver nothing by it;
- the wait times out, which resets the whole monitor, while the dialog counts
  down on its own;
- handlers of the main window nest, because a message box pumps messages, and
  the dialog of another thread needs the messages the UI thread pumps;
- both that dialog and the About box disable the main window and enable it
  again, and the second to open does not know of the first;
- allocation may fail at each step of the gate;
- loading and unloading race with processes that come and go.

What makes each part correct:

- gate: a blocked process can always be found by a verdict, has somebody to ask,
  is blocked once in its life, gets to run in the end, and ends if it is denied;
- session: the GUI never judges itself, its requests are accepted and fit their
  buffers, stopping sets everybody free and comes back, a denied process ends;
- dialog: it closes, and in time for those who wait;
- window: it hangs in known cases only, and no sequence of clicks closes the
  device under a monitoring thread or leaves two of them at work;
- loading: no running process is missed, nothing uses the monitor after its
  destruction, unloading completes;
- service: a service that is installed can be started.

`PROJECT.json` lists the hazards one by one with their lines, the properties
that cover them and, where there is none, why.

## The modules

    StartGate <--- implemented by --- DriverGate     the promise to one process
                                          |
                                       EXTENDS
                                          v
    DeviceRequests               DriverMonitor       the driver, any clients
           \                        /      \
            v                      v        v
            MonitorSession (driver + GUI)  DriverLifecycle (driver + load, unload)

    CallbackDialog               the dialog against the clock, driver reduced
    DriverService <--- EXTENDS --- GuiWindow         service + window + threads

`MCDriverMonitor`, `MCMonitorSession` and `MCDriverLifecycle` give values to
constants and bound the initial states; the other modules need no values beyond
their configuration. The proofs are in `DriverMonitorProofs`,
`DriverGateProofs`, `MonitorSessionProofs`, `DispatchProofs`,
`DriverLifecycleProofs`, `CallbackDialogProofs`, `DriverServiceProofs` and
`GuiWindowProofs`.

Three modules touch the monitoring thread, each with what its questions need.
`MonitorSession` has the driver in full and one `Init` before each `Reset`.
`GuiWindow` has every sequence of clicks and any number of monitoring threads,
and reduces the driver to an event it may signal. `CallbackDialog` has time.

### DriverMonitor

One action per callback, request or step of one. `thread[p]` is where the
initial thread of `p` is; the values between `naming` and `resumed` are points
inside `OnLoadProcessImage`:

| thread | point in the code | next action |
|---|---|---|
| `naming` | record found, no name stored (line 77) | `AssignImageName` |
| `discard` | the name could not be stored | `DiscardRecord` (88, 102) |
| `named` | before `m_lock` is taken at 108 | `ArmResumeEvent` |
| `armed` | resume event allocated, not initialised (`Sync.h:132`) | `InitResumeEvent` |
| `ready` | event initialised, `m_lock` still held | `NotifyUser` (122) |
| `waiting` | in `resumeEvent.Wait` (127) | `Resume`, `WaitTimeout` |
| `timedout` | `STATUS_TIMEOUT`, before `Reset` (129) | `TimeoutReset` |
| `resumed` | about to read the marker (132) | `ApplyVerdict` |

Locks. A region under an exclusive lock is one action (`Reset`,
`RegisterEvent`, `Delete`, `Add`). Regions under a shared lock are split where
another shared holder can get between: the gate has three steps, `AppendRule`
has two, with `rules` naming the rules in flight. A writer waits for
`MLockFree` or `ListFree`. A shared request waits behind a queued
exclusive one when the lock is held shared, as ERESOURCE does; that is the
guard with `ResetWaiting` and `ListWriterWaiting`. Two rules for the same pid
are taken one after the other. `TerminateBlackMarked` and the two queries are
one step each: they only read, except for events they set, and every process
they visit could as well have been visited at that moment.

`resumeEvent` has four values because a signal on an allocated event
that `KeInitializeEvent` has not reached is lost. On a failed allocation of it
the process goes on without a gate, as in the code. A process may exit before
its image is loaded, a running process loads libraries (`LoadImage` from
`running`), and a terminated one that is in its wait ends only after it.

`Init` is the state after `DriverEntry`. Besides the orderly case it admits what
the enumeration can leave behind: processes without a record, records of
processes that are gone and records without a name.

`Faults` selects the failures: `pool` (allocations), `name` (Windows does not
know the image name), `handle` (the client's event handle does not resolve),
`thread` (`PsCreateSystemThread` fails).

### StartGate and DriverGate

`StartGate` says what the driver promises without records, locks and events: a
process is `free` or `held`; it is held only while somebody listens, leaves only
with a verdict or when the gate was opened for all, and is sentenced if it was
denied. `DriverGate` maps the driver to it: `held` is every place from the
allocation of the resume event to the return of the callback (`HeldThread`), a
process without a verdict whose event is set has been freed, and the sentenced
are those a terminating thread is after. `KeepsPromise` is the promise under
that mapping.

### DeviceRequests

The sizes a client passes and the checks of `ProcessIrp`, for pointers of four
or eight bytes on either side. `FillList` is the loop that writes
the gray records into the buffer, with the count compared after it is raised as
in the code, and `QueryProcesses` what it may have written, over every order in
which the records may be listed. `Allow` and `Block` pass
`sizeof` of a pointer, and the driver compares with `sizeof` of a pointer. The
rule reads only the four bytes of the pid, so this works when both are built
for the same width; a 32-bit client of a 64-bit driver passes four bytes, its
rules are refused, and `Allow` and `Block` swallow that. The runs are
about equal widths; `DispatchProofs` says which results need them and what
happens without.

### MonitorSession

The UI thread (`ui`), the monitoring thread (`monitor`) and the process that
has both, whose pid is `Self`. The client is itself gated when it starts,
registered as a record, and may be terminated or exit at any moment; the next
run of it has a new event object, while the driver may still refer to the old
one. `StartMonitor` .. `Register` are `Init`; `RequestStop`, `Join`,
`ResetDriver` are `Reset`; `Exit` is the destructor, run when `ExitProcess` has
ended the other thread. `Wake` .. `TestTerminate` are the loop of
`MonitoringThreadProc` with `Dispatch` inlined. Every driver effect is an
action of `DriverMonitor`, so nothing about the driver is modelled twice.
`gone` is a ghost that remembers the listed processes that have exited, so that a
verdict on one of them is told apart.

The plain flag `m_terminateMonitoring` is shared without synchronisation; the
calls into the system around each access order them, so it is read as written.
`IoControl` succeeds where `DeviceRequests` says so; the device stays open until
the monitoring thread has been joined.

The dialog of the callback has the main window as its parent and belongs to
another thread. `disabler` is the window that has disabled the main window: the
About box (`OnSysCommand`, `CloseAbout`) or the dialog. While there is one no
button can be clicked (`MainEnabled`). `OpenDialog` and `AskUser`, the closing of
the dialog, send messages that the UI thread has to answer: both need `Pumping`.
A dialog that opens over the About box finds the main window disabled and does
not take charge of it. Closing About then enables the window while the dialog is
still open, and buttons can be clicked; whether such a dialog can close while the
UI thread does not pump depends on which window is active, and both outcomes are
in the model (`AskUserUnattended`).

### DriverLifecycle

`driver` is where the thread in `DriverEntry` or `DriverUnload` is. Processes
are those of `DriverMonitor`; without a registered routine the same step
changes no record. The enumeration visits a snapshot of the pids, queries each,
adds a record and names it, in separate steps, so that the process may exit,
be replaced, or load a library in between; `held` says whether the record it
found is still the one in the list. Opening the device is possible once
`DriverEntry` has returned, and unloading when no handle is open. Removing the
load routine waits for the callbacks that are running.
A `DriverEntry` that fails before the monitor exists gets stuck in front of
`ShutdownMonitor`: what the real code does there is undefined.

### CallbackDialog

One `Tick` is a second. What the threads do in between takes no time, and a tick
waits until what is due has been done, but the steps of the monitoring thread
and of the processes interleave. A process is created (`Arrive`), gets its name
(`AssignImageName`) and comes to the gate (`Gate`). The monitoring thread counts
(`CountGray`), then lists and opens the dialog (`OpenDialog`), or clears the event
(`ClearNotifyEvent`). The list has as many entries as were counted, nameless
processes among them. The dialog counts from `BlackListTimeout` to 0 and closes
with the next tick, `OnOK` hands back the checks, and the rules that `Dispatch`
sends are part of that step (`Decide`). The driver is reduced to who waits, for
how long, and who is gray; `TimeOut` is the Reset of a wait that has run out.
`WaitInterval` is what `Event::Wait` makes of the timeout in unsigned arithmetic.

The ghost `mishaps` remembers what went wrong since the last `Start Monitor`, of
four things that can:

| Mishap | What happened |
|---|---|
| late arrival | a process came to the gate under a dialog it is not in, with too much of the countdown left for the next dialog to end in time |
| left out | a process that waited was not in the dialog, because another took its place in the list after the count, and cannot wait for the next one |
| lost wake-up | the event of a waiting process was cleared after the count |
| early verdict | its verdict came before it began to wait, and the gate does not look |

### DriverService

Each call queries the service, then acts. `service` = `pending` is a driver that
has been told to stop while its device is open. A service that is marked for
deletion goes when it has stopped and the last handle to it is closed. A caller
may crash at each step and the system may restart, starting the service again.
These parts are Windows and marked external in the map.

### GuiWindow

`ui` is what the UI thread is doing. `pump` is a message loop: that of the main
window or that of the message box on top of `boxes`; a box remembers the handler
below it, which goes on when the box is closed (`CloseBox`). A box has no owner,
so the main window stays enabled under it and handlers nest; calls of the DLL
do not, since no box is shown during one. The About box (`OnSysCommand`) is a box
that disables the main window. `disabler` is the monitoring thread whose dialog
has disabled it, which a dialog that opens over the About box does not
(`OpenDialog`, `CloseDialog`, `CloseUnattended`, as in `MonitorSession`). The four service buttons are
`CallBegins` and `CallContinues` of `DriverService` (`OnBnClickedDriver`,
`ServiceCall`), then the box of a failed call, then `RefreshDriverStatus`.
`OnBnClickedStartMonitor`, `RegisterEvent`, `CreateThread` are `Init`, also when
a thread runs: the new `jthread` takes the place of the old one, whose
destructor joins it (`replacing`). `OnBnClickedStopMonitor` to `ResetDriver` are
`Reset`. The window closes once the boxes are closed (`Exit`), an `Init` that
finds no device ends the process (`InitThrows`), and the process may be killed
anywhere. The step that ends it also starts its next run (`Anew`).

## The runs

| Run | Instance | States | Shows |
|---|---|---|---|
| `driver_safety` | 2 pids, 3 creations, all faults | 870 000 | `TypeOK`, `SuspendedIsListed`, `SuspendedHasListener`, `SuspendedIsAtGate`, `GatedOnce`, `KeepsPromise` |
| `driver_liveness` | 2 pids, 1 creation, all faults but `thread` | 53 000 | `VerdictNotInherited`, `SuspendedResumes`, `DeniedEnds` |
| `session_safety` | GUI + 2 pids, 2 creations, `pool` and `name` | 1 025 000 | `SessionTypeOK`, `SelfNeverJudged`, `StoppedMeansFree`, `VerdictsTaken`, `DeniedAreCaught`, `ListFits`, `DialogHoldsOffStop`, `StopIsSeen` |
| `session_liveness` | GUI + 1 pid, 2 creations | 29 000 | `StopCompletes`, `DeniedExits` |
| `lifecycle_safety` | 2 pids, 1 creation, `name` | 1 650 000 | `LifecycleTypeOK`, `RunningIsRecorded`, `SuspendedIsListed`, `MonitorOutlivesUsers` |
| `lifecycle_liveness` | 1 pid, 2 creations, `pool`, failing entries | 34 000 | `UnloadCompletes`, `LoadedIsDriver` |
| `dialog_timeout` | 2 pids, countdown 3, wait 7 | 1 029 000 | `DialogTypeOK`, `GivesUpOnlyAfterMishap`, `DialogCloses` |
| `gui_window` | the GUI as installer, another user, 2 threads, 2 boxes | 44 000 | `ServiceTypeOK`, `ServiceHasBinary`, `GuiTypeOK`, `DeviceIsOpen`, `OneThread`, `JoinedIsTold`, `HungForGood`, `WindowAnswers`, `DialogReturns` |

Bounds. `MaxStarts` bounds the processes created, `MaxTerminators` the pending
terminating threads per pid; both limit a counter and nothing else. Two pids
are the smallest number in which one process is blocked while another arms,
resets or is judged; three creations reuse a pid twice. For `lifecycle_safety` one is enough: a process
present at the start may exit and the created one takes its pid. With the GUI, one more
pid is needed, and two creations let the GUI die and come back. Two event
objects are those of this run of the GUI and of an earlier one that the driver
still refers to. Pids are symmetric where no property is temporal and no pid is special.
In `dialog_timeout` the countdown and the wait are short but related as 180 and
240 seconds are: the second countdown may or may not end in time. 128 unsigned
values leave room for 7 seconds of 10 units and not for twice that. In
`gui_window` two threads are enough for a second start, after which the UI
thread no longer starts any, and two boxes for a handler over a handler over a
handler. The session runs start from an orderly driver, a smaller set of initial states
than `driver_safety` covers. Deadlock is checked except where the bound on
creations ends all activity, or after a failed entry.

Every property has a mutant in `PROJECT.json`, a plausible slip in the code that
breaks it; mutants are marked in the modules.

### What comments say and the code does not do

Four runs end in a counterexample by design. They check what a comment states:

| Run | The statement | What happens |
|---|---|---|
| `session_lost_wakeup` | "Notify user mode library counterpart" | `Dispatch` counts 0, a process announces itself, `Dispatch` resets the event |
| `session_lost_resume` | "Resume suspended process" | a rule finds a process suspended and sets its event, which is allocated but not initialised yet; the initialisation clears it |
| `session_pid_reuse` | "Terminate all black processes." | the terminating thread finds another process under the pid |
| `lifecycle_failed_entry` | "Its safe to call, even if Initialize() failed" | the monitor was never constructed |

In the first two the process itself waits until its timeout: `SuspendedResumes`
holds all the same. The timeout's Reset then resumes everyone else who is blocked
and drops the listener, so monitoring ends for all until the next
`Start Monitor`.

### What hangs

Three things the code does are not excluded by a comment, but a reader should
know of them; the properties are stated around them.

- A click on `Stop Monitor` while the monitoring thread is about to open its
  dialog: the UI thread waits for that thread, which waits for the UI thread to
  answer its messages. A dialog that has disabled the main window holds the
  click off (`DialogHoldsOffStop`). One that opened over the About box does not
  once About is closed, and a stop that meets it waits for a dialog whose
  messages the UI thread does not answer. `StopCompletes`, `WindowAnswers` and
  `DialogReturns` name the two cases (`monitor = "ask"` and a dialog that is not
  the `disabler`; `Hung` and `AwaitsDialog`) and show that there is no other: a
  thread met anywhere else learns of the stop (`StopIsSeen`, `JoinedIsTold`).
- `Start Monitor` while the monitor runs: the UI thread joins a thread that
  nothing asks to end. `HungForGood` says of this and of the stop that meets a
  thread on its way to the dialog that only the end of the process gets the UI
  thread out.
- The driver gives up on the user, which ends the monitoring for all, after a
  wait that runs out although the user, or the countdown, answers every dialog.
  `GivesUpOnlyAfterMishap` names the four ways to get there, and each of them
  alone does lead there. A process that comes in the first 122 of the 180 seconds
  of a dialog is the one that needs no race.

## Fairness

- A thread inside the driver keeps running, and a wait with a timeout ends:
  `LoadStep` is fair for each process. It is strongly fair because a step that
  needs a lock exclusively may be disabled again and again by shared holders,
  while ERESOURCE serves its queue in order.
- A terminated process ends once it is outside the driver (strong for the same
  reason); a system thread that was created runs.
- Session: once `Init` or `Reset` is entered, the UI thread goes through with it;
  the monitoring thread runs. An open dialog closes because its countdown ends
  (`DialogCloses`). What the user decides, whether the callback throws, and when
  a process exits of its own accord, is not fair.
- Dialog: time passes, strongly fair because the work that is due before the
  next second may come up again and again, and that work gets done. Nobody has
  to click.
- Window: the UI thread goes through with what it has begun, since calls of the
  service control manager return; monitoring threads run; a message sent to the
  main window is answered when the UI thread pumps next, which is strong
  fairness of `OpenDialog` and `CloseDialog` because it pumps in between
  handlers only. A dialog that meets a UI thread that does not pump may close but
  need not (`CloseUnattended`, and `AskUserUnattended` in the session). Clicks are not fair, so a box may stay open for ever.
- Loading: the system thread in `DriverEntry` and `DriverUnload` keeps running.
  Nobody has to load, unload, open or close anything.

## The proofs

`DriverMonitorProofs` proves, for any sets of pids and events, any faults and
any bounds, from `ConstantsAssumption`:

- `TypeCorrect`: `Spec => []TypeOK`;
- `DriverInvariant`: `Spec => []DriverInv`, the inductive invariant;
- `BlockedIsListed`, `BlockedHasListener`: the two safety invariants of the gate;
- `PassesGateOnce`: the action property `GatedOnce`;
- `SuspendedAreAtGate`: `SuspendedIsAtGate`, so that `TerminateBlackMarked` resumes
  nobody whom it should terminate;
- `VerdictsAreDropped`: `VerdictNotInherited`, for a driver that starts without
  stale records. The hypothesis `NoStaleRecord` is needed: a record that the
  enumeration adds for a process that has gone takes verdicts for the next one.

Why the invariant has its parts. `SuspendedIsListed` is not inductive: the thread
must have had its record on the whole way to the wait (`CallbackIsListed`), which
holds because only its own failure or its exit deletes a record.
`SuspendedHasListener` needs that a thread between the test of the listener and
the wait keeps the listener registered: it holds `m_lock` shared, and both
`Reset` and `RegisterEvent` want it exclusively (`GateHasListener`); and that
`Reset` resumes everybody who is waiting, which it finds in the list.
`GatedOnce` needs that the event is null until a name is stored and that a
stored name turns later loads away (`NamedAtGate`, `EventStage`). These parts make
up `GateIsSound`. `NameStage`, that a thread about to store a name finds none, is
kept apart: it is what the enumeration breaks, and the gate does not rest on
it. Each step lemma has one case per action.

`DriverGateProofs` proves `DriverKeepsPromise`: `Spec => Promise!Spec`. Besides
`GateIsSound` the step needs that a thread is through its wait only with the
event set, so that it has been judged or freed (`ResumedIsSet`), and that a rule
between its two halves has its verdict on the record (`RuledIsJudged`), so that
its signal frees nobody; `GateInv` joins them. Each action of the driver maps to
one step of `StartGate` or to none.

`MonitorSessionProofs` proves `SessionImplementsDriver`, `SessionSpec => Spec`: the
GUI is one of the clients `DriverMonitor` allows. Every proved property of the
driver therefore holds in every session: `SessionBlockedIsSafe`, and
`SessionKeepsPromise`, which composes the two refinements.
The module also proves `StopSetsFree`: `SessionSpec => []StoppedMeansFree`, that
nobody is blocked once `Stop Monitor` is over. A blocked process has a
listener only where the registration resolved its handle (`m_userModeEvent`), so
`SessionInv` first says that it did so wherever the device is open outside `Init`.
`ResetDriver` then takes the listener away, no step of the system brings one back,
and `SuspendedHasListener`, carried over from the driver, does the rest.

`DispatchProofs` proves what the monitoring thread works on. For any pointer
widths: `SessionTypeCorrect`, `StopIsHeldOff` and `StopIsNoticed`.
`DialogHoldsOffStop` needs that the dialog opens only while the UI thread pumps and
that who has disabled the main window is still open (`DisablerIsOpen`), whatever
the About box does meanwhile; `StopIsSeen` that the flag stays set while the UI
thread waits (`StopIsSet`). For a client of the width of the driver
(`ClientPointer = DriverPointer`): `ClientNeverJudgesItself`,
`VerdictsReachDriver` and `DeniedDoNotSlip`. `SelfNeverJudged` is not inductive:
the list is read from the driver, so the record of the client must carry its
allow rule from `AllowSelf` on (`SelfIsAllowed`), which needs that nobody else
sends rules and that the record of a living client is not dropped.
`VerdictsTaken` needs that the listed processes that are not `gone` still have
their named records (`DispatchLists`). `DeniedAreCaught` then follows from
`VerdictsTaken` and `SuspendedIsAtGate`: TERMINATE_ALL finds a denied process
either suspended, hence before its verdict, or schedules its end. It is stated
for a step in which system threads can be created. What becomes of a client of
another width is `OtherWidthDecidesNothing`: no record is ever judged.

`DriverLifecycleProofs` proves `MonitorIsAlive`: `LifecycleSpec =>
[]MonitorOutlivesUsers`. `MonitorOutlivesUsers` alone is not inductive: what keeps
the monitor is the place of the loading thread, so `LifeInv` relates that place to
the two registered routines, to the open handle of the device, to the rules and
to the instance, and says that no thread is inside a routine before the first is
registered or after both are removed (removing a routine waits for its threads).
`UnloadOnlyDrains` adds that nobody enters a callback while the unload waits.
`LifecycleTypeCorrect` is the type invariant, which carries itself.
`LoadedIsRecorded`, `LifecycleSpec => []RunningIsRecorded`, assumes that
allocations succeed (`"pool" \notin Faults`), without which a process runs on
without a record by design. Its invariant `RecordedInv` follows a process from
before the load: after the snapshot everybody alive is in the list or still to
be visited, and who drops out of the visit because it cannot be queried has
either gone or was created after the routine was registered, and got its record
there.

What is proved of `DriverMonitor` starts after one `DriverEntry`. Three theorems
carry it into every load, also one that begins while a process is already in a
callback or that finds the records of the enumeration:

- `LoadedDriverDrives` (any faults): while the driver stays loaded each step is a
  step of `DriverMonitor`. `RoutineInv` says which routines are in force at
  each point of the load and that without them no gate is left half-way;
- `GateSurvivesLoads`: `SuspendedIsListed` and `SuspendedHasListener` hold at every
  moment of the life cycle, the load and the unload included. `LoadedGateInv`
  keeps `GateIsSound` except after both routines have gone and before the list is
  cleared, when exits go unseen (`Unseen`) and nobody is blocked;
- `LoadedKeepsPromise`: every step of a loaded driver is one that `StartGate`
  allows.

The last two assume `"pool" \notin Faults`, for a reason in the code: a name that
the enumeration cannot store makes it delete the record, although the process
may be in its own callback with it (`DiscardCurrent`). That process then waits
where no verdict finds it, until its timeout; with the fault TLC shows
`SuspendedIsListed` violated in `DriverLifecycle`.

`CallbackDialogProofs` proves `DialogTypeCorrect` and `DriverGivesUpOnlyAfterMishap`
for any number of processes and every countdown and wait that satisfy `TimeAssumption`; `SourceTimes` shows
that 180 and 240 seconds, 10^7 units and 2^32 values do, and `WaitDoesNotWrap`
that `WaitInterval` is then the wait. The invariant says what holds as
long as there has been no mishap: the client has been told of everybody who waits
and they are gray (`WaitingIsDue`), and the time left to each is more than the
dialogs still take, one countdown for those on display, two for those who are not
(`WaitOutlasts`).

`DriverServiceProofs` proves `ServiceTypeCorrect` and `ServiceKeepsBinary` from
`OneInstaller`: at most one of the callers installs and removes the service. Two
could undo each other's work between the query and the act, see the hazards.
The invariant adds the order in which an installer works on file and service.

`GuiWindowProofs` proves, from `OneInstaller`, that the GUI is one of the callers
of `DriverService` (`GuiImplementsService`, so `GuiKeepsBinary`), then
`GuiTypeCorrect`, `DeviceStaysOpen`, `OneThreadAtATime`, `StopTellsJoined` and
`HangsForGood` for any number of monitoring threads and boxes. `ThreadsFollow` is
the core: a living thread is the current one or the one the UI thread waits for,
no thread that a second start waits for has been told to end, one that a
stop waits for has, and the thread that has disabled the main window is in its
dialog.

Model-checked only: everything under fairness (`SuspendedResumes`, `DeniedEnds`,
`StopCompletes`, `DeniedExits`, `UnloadCompletes`, `DialogCloses`,
`WindowAnswers`, `DialogReturns`), which is out of the prover's reach; and
`ListFits`, which is about what a fold over a sequence yields. Of some of
them the part that does not need fairness is a theorem: `StopIsNoticed` of
`StopCompletes`, `DeniedDoNotSlip` of `DeniedExits`, `UnloadOnlyDrains` of
`UnloadCompletes`, `HangsForGood` of the exception in `WindowAnswers`.

## Assumed of Windows

Notify routines run in the thread of the process concerned (image loads) and
removing one waits for running ones; ERESOURCE does not starve writers;
`KeInitializeEvent` overwrites the state of an event; a device created in
`DriverEntry` cannot be opened before that has returned; a pid is reused only
after the exit callback; the main module of a process is not visible before its
image-load callback is over; disabling and enabling a window of another thread
sends it messages, which that thread answers only when it pumps; a message box
without an owner leaves other windows enabled; a modal dialog disables its parent
and enables it again when it closes, unless it found the parent disabled; an
exception that leaves a window
procedure or a thread ends the process.

## Not modelled

- The driver as one state of the window, the service and the clock at once: the
  three modules about the GUI share no variables, and each reduces what the
  others have in full. Unloading by a `Stop` of the service and `DriverUnload` meet
  only in what `DriverService` says of open sessions.
- Contents of requests: image paths and their lengths. The driver copies a name
  into 260 characters whatever its length.
- The words of the status label, painting, MFC start-up, and the first refresh of
  the status, which comes before the window can be clicked.
- Several initial threads of one process: the driver has one callback thread per
  process, the one that loads its image. System processes without loader data,
  which the enumeration cannot query and skips: "running" means a process whose
  main module can be found (`Utils.cpp:137-142`).
- String conversion, tracing, resources, the build. `KernelFileNameToDosName`
  reads through a null pointer when `IoQueryFileDosDeviceName` fails
  (`Utils.cpp:80-84`), which stops the system; the model has the names that come
  out of it, or none. The wrappers of kernel
  mutexes in `Sync.h` are not used by the driver.
- What happens after undefined behaviour: a cleanup of a monitor that was never
  constructed, a terminating thread that outlives the driver, two threads that
  initialise the name of one record at once.

## Plan

1. `DriverMonitor`, its proofs and `MonitorSession` (done).
2. `DriverLifecycle` and `DriverService` (done).
3. `StartGate` and `DriverGate` with the refinement and its proof (done).
4. `DeviceRequests` (done).
5. The dialog in `MonitorSession`, `CallbackDialog`, `GuiWindow` (done).
6. Proofs for `DispatchInv`, `RunningIsRecorded`, `ServiceHasBinary`, the dialog
   and the window (done).
7. Every invariant of the runs as a theorem; the gate and its promise across
   sessions and loads; what a stop, a hang and a client of another width come to
   (done).
8. Open: a promise of the whole session to its user, which `MonitorSession`
   would implement; the promise of `StartGate` as one refinement of the whole life
   cycle, for which the driver would have to say when it opens its gate for good;
   `DialogInv` for a driver that is modelled in full.
