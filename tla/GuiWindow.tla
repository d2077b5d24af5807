------------------------------ MODULE GuiWindow ------------------------------
(***************************************************************************)
(* The GUI process: the main window with its six buttons and the About box  *)
(* of its system menu, the message boxes that report failures, and the     *)
(* monitoring threads that Start Monitor creates, on top of the services   *)
(* of DriverService.                                                       *)
(*                                                                         *)
(* Everything a button does runs in the UI thread, in the middle of a      *)
(* message. A message box pumps messages itself and has no owner, so the   *)
(* main window takes clicks while boxes are open and handlers nest. The    *)
(* About box disables the main window while it is open. So does the dialog *)
(* of a monitoring thread, unless the About box has done it before: then   *)
(* the window is enabled again when About closes, under the open dialog.   *)
(* Opening and closing the dialog sends messages to the main window, which *)
(* wait until the UI thread pumps.                                         *)
(*                                                                         *)
(* What the driver and the dialog make of the processes is MonitorSession  *)
(* and CallbackDialog; here the driver signals an event, and a dispatch    *)
(* finds something to ask or not.                                          *)
(***************************************************************************)
EXTENDS DriverService, Sequences

CONSTANTS
  Gui,               \* the GUI among the callers of the DLL
  MonitoringThread,  \* ids of its monitoring threads
  NoThread,          \* the null pointer
  MaxBoxes           \* bound on open boxes, which the code has not

ASSUME GuiAssumption ==
  /\ Gui \in Caller
  /\ NoThread \notin MonitoringThread
  /\ \A t \in MonitoringThread \cup {NoThread} : MonitoringThread \ {t} # {}
  /\ MaxBoxes \in Nat

VARIABLES
  ui,                     \* what the UI thread is doing
  boxes,                  \* open boxes, last on top: what each reports on, or "about"
  closing,                \* the main window was told to close
  disabler,               \* the thread whose open dialog has disabled the main window
  m_monitoringThread,     \* the thread that Init created last
  joined,                 \* the thread whose destructor the UI thread is in
  thread,                 \* what each monitoring thread is doing
  m_terminateMonitoring,  \* tells a monitoring thread to leave its loop
  m_notifyEvent           \* the event is signaled

uiVars == <<ui, boxes, closing, disabler>>
threadVars == <<m_monitoringThread, joined, thread, m_terminateMonitoring, m_notifyEvent>>
guiVars == <<uiVars, threadVars>>
allVars == <<vars, guiVars>>

UiState == {"pump", "calling", "refreshing", "registering", "creating",
            "replacing", "signalling", "joining", "resetting"}
ThreadState == {"none", "wait", "dispatch", "opening", "dialog", "sending", "loop"}

UiGoto(from, to) == ui = from /\ ui' = to

ThreadGoto(t, from, to) ==
  /\ thread[t] = from
  /\ thread' = [thread EXCEPT ![t] = to]

BoxKind == {"service", "status", "about"}

AboutOpen == \E i \in 1 .. Len(boxes) : boxes[i] = "about"

\* mutant: no dialog disables the main window
MainEnabledAlways == TRUE

\* The main window is disabled by the About box, or by a dialog that found it
\* enabled.
MainEnabled == disabler = NoThread /\ ~AboutOpen

\* A button of the main window can be clicked.
Clickable == ui = "pump" /\ MainEnabled /\ ~closing

-----------------------------------------------------------------------------
(* The buttons of the driver: Install, Start, Stop and Uninstall.           *)

\* ErrorDispatcher::Dispatch shows a box for a call that failed.
Dispatch(call_) ==
  \/ ui' = (IF call_ = "service" THEN "refreshing" ELSE "pump") /\ UNCHANGED boxes
  \/ Len(boxes) < MaxBoxes /\ ui' = "pump" /\ boxes' = Append(boxes, call_)

\* A call that finds nothing to do returns at once.
OnBnClickedDriver ==
  /\ Clickable
  /\ \/ CallBegins(Gui) /\ ui' = "calling" /\ UNCHANGED boxes
     \/ UNCHANGED vars /\ Dispatch("service")
  /\ UNCHANGED <<closing, disabler, threadVars>>

\* mutant: the status is read while the call is under way
ServiceCallAsync ==
  /\ ui = "calling"
  /\ CallContinues(Gui)
  /\ Dispatch("service")
  /\ UNCHANGED <<closing, disabler, threadVars>>

\* The rest of the call, then its error code.
ServiceCall ==
  /\ ui = "calling"
  /\ CallContinues(Gui)
  /\ IF call'[Gui] = "idle" THEN Dispatch("service") ELSE UNCHANGED <<ui, boxes>>
  /\ UNCHANGED <<closing, disabler, threadVars>>

\* GetStatus only reads; it fails when the service control manager does.
RefreshDriverStatus ==
  /\ ui = "refreshing"
  /\ Dispatch("status")
  /\ UNCHANGED <<vars, closing, disabler, threadVars>>

\* The user opens the About box from the system menu.
OnSysCommand ==
  /\ Clickable
  /\ Len(boxes) < MaxBoxes
  /\ boxes' = Append(boxes, "about")
  /\ UNCHANGED <<vars, ui, closing, disabler, threadVars>>

\* The user closes the box on top: the handler below it goes on.
CloseBox ==
  /\ ui = "pump" /\ boxes # <<>>
  /\ boxes' = SubSeq(boxes, 1, Len(boxes) - 1)
  /\ ui' = IF boxes[Len(boxes)] = "service" THEN "refreshing" ELSE "pump"
  /\ UNCHANGED <<vars, closing, disabler, threadVars>>

-----------------------------------------------------------------------------
(* Start Monitor: Init of the DLL, also when a monitoring thread runs.      *)

OnBnClickedStartMonitor ==
  /\ Clickable
  /\ ui' = "registering"
  /\ m_terminateMonitoring' = FALSE
  /\ OpenSession(Gui) \/ (Gui \in sessions /\ UNCHANGED vars)
  /\ UNCHANGED <<boxes, closing, disabler, m_monitoringThread, joined, thread, m_notifyEvent>>

\* The event is reset; the driver signals it if a process is suspended already.
RegisterEvent ==
  /\ UiGoto("registering", "creating")
  /\ m_notifyEvent' \in BOOLEAN
  /\ UNCHANGED <<vars, boxes, closing, disabler, m_monitoringThread, joined, thread,
                 m_terminateMonitoring>>

\* mutant: the thread that is replaced is detached
CreateThreadDetached(t) ==
  /\ UiGoto("creating", "pump")
  /\ ThreadGoto(t, "none", "wait")
  /\ m_monitoringThread' = t
  /\ UNCHANGED <<vars, boxes, closing, disabler, joined, m_terminateMonitoring, m_notifyEvent>>

\* The new thread takes the place of the last one, whose destructor is called.
CreateThread(t) ==
  /\ UiGoto("creating", IF m_monitoringThread = NoThread THEN "pump" ELSE "replacing")
  /\ ThreadGoto(t, "none", "wait")
  /\ m_monitoringThread' = t
  /\ joined' = m_monitoringThread
  /\ UNCHANGED <<vars, boxes, closing, disabler, m_terminateMonitoring, m_notifyEvent>>

-----------------------------------------------------------------------------
(* Stop Monitor: Reset of the DLL.                                          *)

OnBnClickedStopMonitor ==
  /\ Clickable
  /\ ui' = "signalling"
  /\ m_terminateMonitoring' = TRUE
  /\ UNCHANGED <<vars, boxes, closing, disabler, m_monitoringThread, joined, thread, m_notifyEvent>>

\* mutant: the event is not set
SignalTerminateSilent ==
  /\ UiGoto("signalling", "joining")
  /\ joined' = m_monitoringThread
  /\ m_monitoringThread' = NoThread
  /\ UNCHANGED <<vars, boxes, closing, disabler, thread, m_terminateMonitoring, m_notifyEvent>>

\* The event is set, then the pointer is reset, which destroys the thread.
SignalTerminate ==
  /\ UiGoto("signalling", "joining")
  /\ m_notifyEvent' = TRUE
  /\ joined' = m_monitoringThread
  /\ m_monitoringThread' = NoThread
  /\ UNCHANGED <<vars, boxes, closing, disabler, thread, m_terminateMonitoring>>

\* mutant: the thread is detached
JoinNot ==
  /\ ui \in {"joining", "replacing"}
  /\ ui' = IF ui = "joining" /\ Gui \in sessions THEN "resetting" ELSE "pump"
  /\ joined' = NoThread
  /\ UNCHANGED <<vars, boxes, closing, disabler, m_monitoringThread, thread,
                 m_terminateMonitoring, m_notifyEvent>>

\* The destructor of a jthread waits for the thread to end.
Join ==
  /\ joined \in MonitoringThread => thread[joined] = "none"
  /\ ui \in {"joining", "replacing"}
  /\ ui' = IF ui = "joining" /\ Gui \in sessions THEN "resetting" ELSE "pump"
  /\ joined' = NoThread
  /\ UNCHANGED <<vars, boxes, closing, disabler, m_monitoringThread, thread,
                 m_terminateMonitoring, m_notifyEvent>>

\* IOCTL_RESET and CloseHandle.
ResetDriver ==
  /\ UiGoto("resetting", "pump")
  /\ CloseSession(Gui)
  /\ UNCHANGED <<boxes, closing, disabler, threadVars>>

-----------------------------------------------------------------------------
(* A monitoring thread: MonitoringThreadProc and Dispatch.                  *)

Wake(t) ==
  /\ m_notifyEvent
  /\ ThreadGoto(t, "wait", IF m_terminateMonitoring THEN "none" ELSE "dispatch")
  /\ UNCHANGED <<vars, uiVars, m_monitoringThread, joined, m_terminateMonitoring, m_notifyEvent>>

\* There is nobody to ask about, which clears the event, or nobody with a name,
\* or the callback is called.
DispatchGray(t) ==
  /\ Gui \in sessions
  /\ \/ ThreadGoto(t, "dispatch", "loop") /\ m_notifyEvent' = FALSE
     \/ ThreadGoto(t, "dispatch", "loop") /\ UNCHANGED m_notifyEvent
     \/ ThreadGoto(t, "dispatch", "opening") /\ UNCHANGED m_notifyEvent
  /\ UNCHANGED <<vars, uiVars, m_monitoringThread, joined, m_terminateMonitoring>>

\* mutant: the dialog has no parent window
OpenDialogUnparented(t) ==
  /\ ThreadGoto(t, "opening", "dialog")
  /\ UNCHANGED <<vars, uiVars, m_monitoringThread, joined, m_terminateMonitoring, m_notifyEvent>>

\* The main window gets disabled, unless it is already, ...
OpenDialog(t) ==
  /\ ui = "pump"
  /\ ThreadGoto(t, "opening", "dialog")
  /\ disabler' = IF MainEnabled THEN t ELSE disabler
  /\ UNCHANGED <<vars, ui, boxes, closing,
                 m_monitoringThread, joined, m_terminateMonitoring, m_notifyEvent>>

\* ... and enabled again by the dialog that has disabled it, when the user or the
\* countdown closes that.
CloseDialog(t) ==
  /\ ui = "pump"
  /\ ThreadGoto(t, "dialog", "sending")
  /\ disabler' = IF disabler = t THEN NoThread ELSE disabler
  /\ UNCHANGED <<vars, ui, boxes, closing,
                 m_monitoringThread, joined, m_terminateMonitoring, m_notifyEvent>>

\* A dialog that leaves the main window as it is may close without the UI thread,
\* when it is not the active window.
CloseUnattended(t) ==
  /\ ui # "pump" /\ disabler # t
  /\ ThreadGoto(t, "dialog", "sending")
  /\ UNCHANGED <<vars, uiVars, m_monitoringThread, joined, m_terminateMonitoring, m_notifyEvent>>

SendRules(t) ==
  /\ Gui \in sessions
  /\ ThreadGoto(t, "sending", "loop")
  /\ UNCHANGED <<vars, uiVars, m_monitoringThread, joined, m_terminateMonitoring, m_notifyEvent>>

TestTerminate(t) ==
  /\ ThreadGoto(t, "loop", IF m_terminateMonitoring THEN "none" ELSE "wait")
  /\ UNCHANGED <<vars, uiVars, m_monitoringThread, joined, m_terminateMonitoring, m_notifyEvent>>

\* The driver announces a process.
DriverSignals ==
  /\ Gui \in sessions
  /\ m_notifyEvent' = TRUE
  /\ UNCHANGED <<vars, uiVars, m_monitoringThread, joined, thread, m_terminateMonitoring>>

-----------------------------------------------------------------------------
(* The process.                                                             *)

\* The next run of the GUI begins, with its window open.
Anew ==
  /\ ui' = "pump" /\ boxes' = <<>> /\ closing' = FALSE /\ disabler' = NoThread
  /\ m_monitoringThread' = NoThread /\ joined' = NoThread
  /\ thread' = [t \in MonitoringThread |-> "none"]
  /\ m_terminateMonitoring' = FALSE /\ m_notifyEvent' = FALSE

\* The buttons OK and Cancel: the window closes once the handlers below the
\* boxes have returned.
OnBnClickedClose ==
  /\ Clickable
  /\ closing' = TRUE
  /\ UNCHANGED <<vars, ui, boxes, disabler, threadVars>>

\* InitInstance returns: ExitProcess ends the other threads, and the destructor
\* of the ProcessMonitor closes the device.
Exit ==
  /\ closing /\ ui = "pump" /\ boxes = <<>>
  /\ Crash(Gui) /\ Anew

\* OpenDevice throws while the driver is not there, and nobody catches that.
InitThrows ==
  /\ Clickable
  /\ Gui \notin sessions /\ ~Running
  /\ Crash(Gui) /\ Anew

\* The user, or an exception in a thread, ends the process at any moment.
Killed == Crash(Gui) /\ Anew

SystemRestarts == Restart /\ Anew

OtherCaller(c) ==
  /\ c # Gui
  /\ CallerStep(c)
  /\ UNCHANGED guiVars

-----------------------------------------------------------------------------
GuiInit ==
  /\ Init
  /\ ui = "pump" /\ boxes = <<>> /\ closing = FALSE /\ disabler = NoThread
  /\ m_monitoringThread = NoThread /\ joined = NoThread
  /\ thread = [t \in MonitoringThread |-> "none"]
  /\ m_terminateMonitoring = FALSE /\ m_notifyEvent = FALSE

Click ==
  \/ OnBnClickedDriver
  \/ OnBnClickedStartMonitor
  \/ OnBnClickedStopMonitor
  \/ OnBnClickedClose
  \/ OnSysCommand
  \/ CloseBox

UiStep ==
  \/ ServiceCall
  \/ RefreshDriverStatus
  \/ RegisterEvent
  \/ \E t \in MonitoringThread : CreateThread(t)
  \/ SignalTerminate
  \/ Join
  \/ ResetDriver

ThreadStep(t) ==
  \/ Wake(t)
  \/ DispatchGray(t)
  \/ OpenDialog(t)
  \/ CloseDialog(t)
  \/ SendRules(t)
  \/ TestTerminate(t)

ProcessEnds ==
  \/ Exit
  \/ InitThrows
  \/ Killed
  \/ SystemRestarts

GuiNext ==
  \/ Click
  \/ UiStep
  \/ \E t \in MonitoringThread : ThreadStep(t) \/ CloseUnattended(t)
  \/ DriverSignals
  \/ ProcessEnds
  \/ \E c \in Caller : OtherCaller(c)

GuiSpec == GuiInit /\ [][GuiNext]_allVars

\* The threads run, calls of the service control manager return, a message that
\* is sent to the main window is answered when the UI thread pumps next, and a
\* dialog closes itself (CallbackDialog). What the user does is open, and so is
\* whether a dialog closes that meets a UI thread that does not pump.
GuiFairness ==
  /\ WF_allVars(UiStep)
  /\ \A t \in MonitoringThread :
       /\ WF_allVars(ThreadStep(t))
       /\ SF_allVars(OpenDialog(t))
       /\ SF_allVars(CloseDialog(t))

FairGuiSpec == GuiSpec /\ GuiFairness

-----------------------------------------------------------------------------
(* Properties.                                                              *)

\* Every variable holds a value of its type, and a call of the GUI is under way
\* exactly while its UI thread is in it: boxes nest handlers, not calls.
GuiTypeOK ==
  /\ ui \in UiState
  /\ boxes \in Seq(BoxKind) /\ Len(boxes) <= MaxBoxes
  /\ closing \in BOOLEAN
  /\ disabler \in MonitoringThread \cup {NoThread}
  /\ m_monitoringThread \in MonitoringThread \cup {NoThread}
  /\ joined \in MonitoringThread \cup {NoThread}
  /\ thread \in [MonitoringThread -> ThreadState]
  /\ m_terminateMonitoring \in BOOLEAN
  /\ m_notifyEvent \in BOOLEAN
  /\ call[Gui] = "idle" <=> ui # "calling"

\* A monitoring thread never finds the device closed under it, however often the
\* monitor is started and stopped, with boxes open or not: its requests would
\* throw, which ends the process.
DeviceIsOpen == \A t \in MonitoringThread : thread[t] # "none" => Gui \in sessions

\* Two monitoring threads never share the ProcessMonitor object, except after a
\* second Start Monitor, when the UI thread hangs.
OneThread ==
  ui # "replacing" =>
    \A t, u \in MonitoringThread : thread[t] # "none" /\ thread[u] # "none" => t = u

\* The UI thread waits for a thread that will not end: the one that a second
\* Start Monitor replaces and nothing asks to stop, or one that is about to open
\* its dialog when Stop Monitor waits for it.
Hung ==
  \/ ui = "replacing"
  \/ ui = "joining" /\ joined \in MonitoringThread /\ thread[joined] = "opening"

\* Hung is for good: no thread, no click, no box and no other caller gets the UI
\* thread out of it, only the end of the process does.
HungForGood == [][Hung => (Hung' /\ ui' = ui) \/ ProcessEnds]_allVars

\* A thread that Stop Monitor waits for can learn of it, wherever the stop met
\* it: the flag is set for its next test, and in its wait it has a wake-up to
\* come, which no dispatch can have taken.
JoinedIsTold ==
  ui = "joining" /\ joined \in MonitoringThread =>
    m_terminateMonitoring /\ (thread[joined] = "wait" => m_notifyEvent)

\* Stop Monitor waits for a thread that is in its dialog, which it can meet only
\* if the dialog opened over the About box.
AwaitsDialog ==
  /\ ui = "joining" /\ joined \in MonitoringThread
  /\ thread[joined] = "dialog" /\ disabler # joined

\* In every other case the window answers again: no handler hangs, whatever is
\* clicked in which order, over how many boxes, and whatever the threads do.
WindowAnswers == ui # "pump" ~> (ui = "pump" \/ Hung \/ AwaitsDialog)

\* A dialog of a monitoring thread gets its answer through, also with another
\* handler under way and after the About box: the only handlers that can keep the
\* UI thread from its messages for good are those that wait for a thread.
DialogReturns ==
  \A t \in MonitoringThread :
    thread[t] = "dialog" ~> (thread[t] # "dialog" \/ Hung \/ AwaitsDialog)

-----------------------------------------------------------------------------
(* The inductive invariant.                                                 *)

\* Who lives is the current thread, or the one that the UI thread waits for.
LivesFor(t) == thread[t] # "none" => t \in {m_monitoringThread, joined}

\* What Start Monitor and Stop Monitor have done at each of their points. The
\* thread that a second start waits for is alive, and nothing tells it to end.
ThreadsFollow ==
  /\ \A t \in MonitoringThread : LivesFor(t)
  /\ m_monitoringThread # NoThread /\ ui # "signalling" =>
       ~m_terminateMonitoring /\ thread[m_monitoringThread] # "none"
  /\ m_monitoringThread # joined \/ joined = NoThread
  /\ disabler # NoThread => thread[disabler] = "dialog" /\ ui \in {"pump", "refreshing"}
  /\ ui \notin {"joining", "replacing"} => joined = NoThread
  /\ ui = "joining" => m_monitoringThread = NoThread
  /\ ui = "signalling" => m_terminateMonitoring
  /\ ui = "resetting" => m_monitoringThread = NoThread /\ Gui \in sessions
  /\ ui \in {"registering", "creating"} => Gui \in sessions /\ ~m_terminateMonitoring
  /\ ui = "replacing" =>
       /\ joined # NoThread /\ m_monitoringThread # NoThread
       /\ thread[joined] # "none"

GuiInv ==
  /\ GuiTypeOK
  /\ ThreadsFollow
  /\ DeviceIsOpen
  /\ JoinedIsTold
=============================================================================
