---------------------------- MODULE GuiWindowProofs ----------------------------
(***************************************************************************)
(* The GUI is one of the callers DriverService allows, and it never has    *)
(* two monitoring threads, or one without a device, unless a second Start  *)
(* Monitor has stopped it for good.                                        *)
(***************************************************************************)
EXTENDS GuiWindow, DriverServiceProofs

-----------------------------------------------------------------------------
(* The GUI as a caller of the service functions.                            *)

\* What the threads do is no business of the service.
LEMMA ThreadStepOutside ==
  ASSUME NEW t \in MonitoringThread, ThreadStep(t) \/ CloseUnattended(t) PROVE UNCHANGED vars
  BY DEF ThreadStep, Wake, DispatchGray, OpenDialog, CloseDialog, SendRules, TestTerminate,
     CloseUnattended

\* A step of the UI thread is a step of a caller, or none of the service.
LEMMA UiStepIsCall ==
  ASSUME Click \/ UiStep
  PROVE  UNCHANGED vars \/ CallerStep(Gui)
  <1>1. CASE Click
    BY <1>1 DEF Click, OnBnClickedDriver, OnBnClickedStartMonitor, OnBnClickedStopMonitor,
       OnBnClickedClose, OnSysCommand, CloseBox, CallerStep
  <1>2. CASE UiStep
    BY <1>2 DEF UiStep, ServiceCall, RefreshDriverStatus, RegisterEvent, CreateThread,
       SignalTerminate, Join, ResetDriver, CallerStep
  <1>3. QED
    BY <1>1, <1>2

\* Every run of the GUI, with everything that happens around it, is a behaviour
\* of the service and its callers: one call at a time, however handlers nest.
THEOREM GuiImplementsService == GuiSpec => Spec
  <1>1. GuiInit => Init
    BY DEF GuiInit
  <1>2. [GuiNext]_allVars => [Next]_vars
    <2> SUFFICES ASSUME [GuiNext]_allVars PROVE [Next]_vars
      OBVIOUS
    <2>1. ASSUME NEW c \in Caller, CallerStep(c) PROVE Next
      BY <2>1 DEF Next
    <2>2. CASE Click \/ UiStep
      BY <2>1, <2>2, UiStepIsCall, GuiAssumption
    <2>3. CASE \E t \in MonitoringThread : ThreadStep(t) \/ CloseUnattended(t)
      BY <2>3, ThreadStepOutside
    <2>4. CASE DriverSignals
      BY <2>4 DEF DriverSignals
    <2>5. CASE ProcessEnds
      BY <2>1, <2>5, GuiAssumption
      DEF ProcessEnds, Exit, InitThrows, Killed, SystemRestarts, CallerStep, Next
    <2>6. CASE \E c \in Caller : OtherCaller(c)
      BY <2>1, <2>6 DEF OtherCaller
    <2>7. CASE UNCHANGED allVars
      BY <2>7 DEF allVars
    <2>8. QED
      BY <2>2, <2>3, <2>4, <2>5, <2>6, <2>7 DEF GuiNext
  <1>3. QED
    BY <1>1, <1>2, PTL DEF GuiSpec, Spec

\* With the GUI as the only installer a service that is to stay has its file.
THEOREM GuiKeepsBinary ==
    ASSUME OneInstaller PROVE GuiSpec => [](ServiceTypeOK /\ ServiceHasBinary)
  BY GuiImplementsService, ServiceTypeCorrect, ServiceKeepsBinary, PTL

-----------------------------------------------------------------------------
(* The threads.                                                             *)

\* Initially there is no thread, and no call.
LEMMA GuiInvInit == GuiInit => GuiInv
  <1> SUFFICES ASSUME GuiInit PROVE GuiInv
    OBVIOUS
  <1>1. boxes \in Seq(BoxKind) /\ Len(boxes) <= MaxBoxes
    BY GuiAssumption DEF GuiInit
  <1>2. QED
    BY <1>1, GuiAssumption
    DEF GuiInit, Init, GuiInv, GuiTypeOK, ThreadsFollow, LivesFor, DeviceIsOpen, JoinedIsTold,
        UiState, ThreadState

\* The next run of the GUI starts as the first one did.
LEMMA AnewKeeps ==
  ASSUME ServiceTypeOK, ProcessEnds
  PROVE  GuiInv'
  <1>1. Anew
    BY DEF ProcessEnds, Exit, InitThrows, Killed, SystemRestarts
  <1>2. call'[Gui] = "idle"
    BY GuiAssumption
    DEF ProcessEnds, Exit, InitThrows, Killed, SystemRestarts, Crash, Restart, ServiceTypeOK
  <1>3. boxes' \in Seq(BoxKind) /\ Len(boxes') <= MaxBoxes
    BY <1>1, GuiAssumption DEF Anew
  <1>4. QED
    BY <1>1, <1>2, <1>3, GuiAssumption
    DEF Anew, GuiInv, GuiTypeOK, ThreadsFollow, LivesFor, DeviceIsOpen, JoinedIsTold,
        UiState, ThreadState

\* A box more or a box less leaves the boxes well formed.
LEMMA DispatchBoxes ==
  ASSUME GuiInv, NEW c \in BoxKind, Dispatch(c)
  PROVE  /\ boxes' \in Seq(BoxKind) /\ Len(boxes') <= MaxBoxes
         /\ ui' \in {"pump", "refreshing"}
  BY GuiAssumption DEF GuiInv, GuiTypeOK, Dispatch

\* The driver's buttons, the boxes and the close button leave the threads alone.
LEMMA BoxesKeep ==
  ASSUME GuiInv, ServiceTypeOK,
         \/ OnBnClickedDriver \/ ServiceCall \/ RefreshDriverStatus
         \/ OnSysCommand \/ CloseBox \/ OnBnClickedClose
  PROVE  GuiInv'
  <1> USE DEF GuiInv
  <1>1. /\ boxes' \in Seq(BoxKind) /\ Len(boxes') <= MaxBoxes
        /\ ui' \in UiState
        /\ call'[Gui] = "idle" <=> ui' # "calling"
        /\ ui \in {"pump", "calling", "refreshing"}
        /\ ui' \in {"pump", "calling", "refreshing"}
    <2>1. CASE OnBnClickedDriver
      <3>1. CASE CallBegins(Gui) /\ ui' = "calling" /\ UNCHANGED boxes
        BY <2>1, <3>1, GuiAssumption
        DEF OnBnClickedDriver, Clickable, GuiTypeOK, UiState, ServiceTypeOK, CallBegins,
            Install, Start, Stop, Uninstall, Continue
      <3>2. CASE UNCHANGED vars /\ Dispatch("service")
        BY <2>1, <3>2, DispatchBoxes
        DEF OnBnClickedDriver, Clickable, GuiTypeOK, UiState, BoxKind, vars
      <3>3. QED
        BY <2>1, <3>1, <3>2 DEF OnBnClickedDriver
    <2>2. CASE ServiceCall
      <3>1. CASE call'[Gui] = "idle" /\ Dispatch("service")
        BY <2>2, <3>1, DispatchBoxes DEF ServiceCall, UiState, BoxKind
      <3>2. CASE call'[Gui] # "idle" /\ UNCHANGED <<ui, boxes>>
        BY <2>2, <3>2 DEF ServiceCall, GuiTypeOK
      <3>3. QED
        BY <2>2, <3>1, <3>2 DEF ServiceCall
    <2>3. CASE RefreshDriverStatus
      BY <2>3, DispatchBoxes DEF RefreshDriverStatus, GuiTypeOK, UiState, BoxKind, vars
    <2>4. CASE CloseBox
      <3>1. /\ boxes' \in Seq(BoxKind)
            /\ Len(boxes') <= MaxBoxes
        BY <2>4, GuiAssumption DEF CloseBox, GuiTypeOK
      <3>2. QED
        BY <2>4, <3>1 DEF CloseBox, GuiTypeOK, UiState, vars
    <2>5. CASE OnBnClickedClose
      BY <2>5 DEF OnBnClickedClose, Clickable, GuiTypeOK, UiState, vars
    <2>6. CASE OnSysCommand
      <3>1. /\ boxes' \in Seq(BoxKind)
            /\ Len(boxes') <= MaxBoxes
        BY <2>6, GuiAssumption DEF OnSysCommand, GuiTypeOK, BoxKind
      <3>2. QED
        BY <2>6, <3>1 DEF OnSysCommand, Clickable, GuiTypeOK, UiState, vars
    <2>7. QED
      BY <2>1, <2>2, <2>3, <2>4, <2>5, <2>6
  <1>2. UNCHANGED <<disabler, threadVars>> /\ closing' \in BOOLEAN
    BY DEF OnBnClickedDriver, ServiceCall, RefreshDriverStatus, OnSysCommand, CloseBox,
       OnBnClickedClose, GuiTypeOK
  <1>3. disabler # NoThread => ui' \in {"pump", "refreshing"}
    <2>1. ui' = "calling" => ui = "calling" \/ disabler = NoThread
      BY DEF OnBnClickedDriver, ServiceCall, RefreshDriverStatus, OnSysCommand, CloseBox,
         OnBnClickedClose, Clickable, MainEnabled, Dispatch
    <2>2. QED
      BY <1>1, <2>1 DEF ThreadsFollow
  <1>4. sessions' = sessions
    BY DEF OnBnClickedDriver, ServiceCall, RefreshDriverStatus, OnSysCommand, CloseBox,
       OnBnClickedClose, vars, CallBegins, Install, Start, Stop, Uninstall, CallContinues,
       CopyBinary, CreateService, StartService, ControlService, DeleteService, DeleteBinary,
       CloseServiceHandle
  <1>5. QED
    BY <1>1, <1>2, <1>3, <1>4
    DEF threadVars, GuiTypeOK, ThreadsFollow, LivesFor, DeviceIsOpen, JoinedIsTold

\* Start Monitor and Stop Monitor, step by step.
LEMMA MonitorButtonsKeep ==
  ASSUME GuiInv, ServiceTypeOK,
         \/ OnBnClickedStartMonitor \/ RegisterEvent
         \/ \E t \in MonitoringThread : CreateThread(t)
         \/ OnBnClickedStopMonitor \/ SignalTerminate \/ Join \/ ResetDriver
  PROVE  GuiInv'
  <1> USE GuiAssumption
      DEF GuiInv, GuiTypeOK, ThreadsFollow, LivesFor, DeviceIsOpen, JoinedIsTold,
          UiState, ThreadState,
          UiGoto, ThreadGoto, vars
  <1>1. CASE OnBnClickedStartMonitor
    <2>1. /\ ui = "pump" /\ ui' = "registering"
          /\ ~m_terminateMonitoring'
          /\ UNCHANGED <<call, boxes, closing, disabler, m_monitoringThread, joined, thread,
                         m_notifyEvent>>
          /\ Gui \in sessions' /\ disabler = NoThread
      BY <1>1 DEF OnBnClickedStartMonitor, Clickable, MainEnabled, OpenSession
    <2>2. GuiTypeOK'
      BY <1>1, <2>1 DEF OnBnClickedStartMonitor
    <2>3. ThreadsFollow'
      BY <2>1
    <2>4. DeviceIsOpen' /\ JoinedIsTold'
      BY <2>1
    <2>5. QED
      BY <2>2, <2>3, <2>4
  <1>2. CASE RegisterEvent
    BY <1>2 DEF RegisterEvent
  <1>3. ASSUME NEW t \in MonitoringThread, CreateThread(t) PROVE GuiInv'
    <2>1. /\ ui = "creating" /\ thread[t] = "none"
          /\ joined = NoThread /\ ~m_terminateMonitoring /\ Gui \in sessions
          /\ thread' = [thread EXCEPT ![t] = "wait"]
          /\ m_monitoringThread' = t /\ joined' = m_monitoringThread
          /\ UNCHANGED <<vars, boxes, closing, disabler, m_terminateMonitoring, m_notifyEvent>>
          /\ disabler = NoThread
      BY <1>3 DEF CreateThread
    <2>2. ui' = IF m_monitoringThread = NoThread THEN "pump" ELSE "replacing"
      BY <1>3 DEF CreateThread
    <2>3. m_monitoringThread # NoThread => thread[m_monitoringThread] # "none"
      BY <2>1
    <2>4. t # m_monitoringThread /\ t # NoThread
      BY <2>1, <2>3
    <2>5. GuiTypeOK'
      BY <2>1, <2>2
    <2>6. \A u \in MonitoringThread : LivesFor(u)'
      BY <2>1
    <2>7. ThreadsFollow'
      <3>1. CASE m_monitoringThread = NoThread
        BY <2>1, <2>2, <2>6, <3>1
      <3>2. CASE m_monitoringThread # NoThread
        BY <2>1, <2>2, <2>3, <2>4, <2>6, <3>2
      <3>3. QED
        BY <3>1, <3>2
    <2>8. DeviceIsOpen' /\ JoinedIsTold'
      BY <2>1, <2>2
    <2>9. QED
      BY <2>5, <2>7, <2>8
  <1>4. CASE OnBnClickedStopMonitor
    BY <1>4 DEF OnBnClickedStopMonitor, Clickable, MainEnabled
  <1>5. CASE SignalTerminate
    BY <1>5 DEF SignalTerminate
  <1>6. CASE Join
    BY <1>6 DEF Join
  <1>7. CASE ResetDriver
    BY <1>7 DEF ResetDriver, CloseSession, Leave, threadVars
  <1>8. QED
    BY <1>1, <1>2, <1>3, <1>4, <1>5, <1>6, <1>7

\* A thread ends only when it is told to, which no thread is that a second start
\* waits for.
LEMMA ThreadStepKeeps ==
  ASSUME GuiInv, NEW t \in MonitoringThread, ThreadStep(t) \/ CloseUnattended(t)
  PROVE  GuiInv'
  <1> USE GuiAssumption
      DEF GuiInv, GuiTypeOK, ThreadsFollow, LivesFor, DeviceIsOpen, JoinedIsTold,
          UiState, ThreadState,
          ThreadGoto, vars, uiVars
  <1>1. CASE Wake(t)
    BY <1>1 DEF Wake
  <1>2. CASE DispatchGray(t)
    BY <1>2 DEF DispatchGray
  <1>3. CASE OpenDialog(t)
    BY <1>3 DEF OpenDialog
  <1>4. CASE CloseDialog(t)
    BY <1>4 DEF CloseDialog
  <1>5. CASE SendRules(t)
    BY <1>5 DEF SendRules
  <1>6. CASE TestTerminate(t)
    BY <1>6 DEF TestTerminate
  <1>7. CASE CloseUnattended(t)
    BY <1>7 DEF CloseUnattended
  <1>8. QED
    BY <1>1, <1>2, <1>3, <1>4, <1>5, <1>6, <1>7 DEF ThreadStep

\* Other callers have no hand in the session of the GUI.
LEMMA OtherCallerKeeps ==
  ASSUME GuiInv, ServiceTypeOK, NEW c \in Caller, OtherCaller(c)
  PROVE  GuiInv'
  <1>1. (Gui \in sessions => Gui \in sessions') /\ call'[Gui] = call[Gui]
    BY GuiAssumption
    DEF OtherCaller, CallerStep, CallBegins, Install, Start, Stop, Uninstall, CallContinues,
        CopyBinary, CreateService, StartService, ControlService, DeleteService,
        DeleteBinary, CloseServiceHandle, OpenSession, CloseSession, Crash, Leave,
        Continue, ServiceTypeOK
  <1>2. UNCHANGED guiVars
    BY DEF OtherCaller
  <1>3. QED
    BY <1>1, <1>2
    DEF guiVars, uiVars, threadVars,
        GuiInv, GuiTypeOK, ThreadsFollow, LivesFor, DeviceIsOpen, JoinedIsTold

\* The threads follow the buttons, in any order of clicks.
THEOREM GuiInvariant == ASSUME OneInstaller PROVE GuiSpec => []GuiInv
  <1>1. GuiInv /\ ServiceTypeOK /\ [GuiNext]_allVars => GuiInv'
    <2> SUFFICES ASSUME GuiInv, ServiceTypeOK, [GuiNext]_allVars PROVE GuiInv'
      OBVIOUS
    <2>1. CASE Click \/ UiStep
      BY <2>1, BoxesKeep, MonitorButtonsKeep DEF Click, UiStep
    <2>2. CASE \E t \in MonitoringThread : ThreadStep(t) \/ CloseUnattended(t)
      BY <2>2, ThreadStepKeeps
    <2>3. CASE DriverSignals
      BY <2>3
      DEF DriverSignals, GuiInv, GuiTypeOK, ThreadsFollow, LivesFor, DeviceIsOpen, JoinedIsTold,
          vars, uiVars
    <2>4. CASE ProcessEnds
      BY <2>4, AnewKeeps
    <2>5. CASE \E c \in Caller : OtherCaller(c)
      BY <2>5, OtherCallerKeeps
    <2>6. CASE UNCHANGED allVars
      BY <2>6
      DEF allVars, vars, guiVars, uiVars, threadVars, GuiInv, GuiTypeOK, ThreadsFollow,
          LivesFor, DeviceIsOpen, JoinedIsTold
    <2>7. QED
      BY <2>1, <2>2, <2>3, <2>4, <2>5, <2>6 DEF GuiNext
  <1>2. GuiSpec => []ServiceTypeOK
    BY GuiKeepsBinary, PTL
  <1>3. QED
    BY <1>1, <1>2, GuiInvInit, PTL DEF GuiSpec

\* The types of the GUI, and one call at a time.
THEOREM GuiTypeCorrect == ASSUME OneInstaller PROVE GuiSpec => []GuiTypeOK
  <1>1. GuiInv => GuiTypeOK
    BY DEF GuiInv
  <1>2. QED
    BY <1>1, GuiInvariant, PTL

\* No monitoring thread finds the device closed.
THEOREM DeviceStaysOpen == ASSUME OneInstaller PROVE GuiSpec => []DeviceIsOpen
  <1>1. GuiInv => DeviceIsOpen
    BY DEF GuiInv
  <1>2. QED
    BY <1>1, GuiInvariant, PTL

\* Two threads share the ProcessMonitor object only when the UI thread hangs in
\* a second start.
THEOREM OneThreadAtATime == ASSUME OneInstaller PROVE GuiSpec => []OneThread
  <1>1. GuiInv => OneThread
    BY GuiAssumption DEF GuiInv, GuiTypeOK, ThreadsFollow, LivesFor, OneThread
  <1>2. QED
    BY <1>1, GuiInvariant, PTL

\* Stop Monitor waits only for a thread that has been told to end.
THEOREM StopTellsJoined == ASSUME OneInstaller PROVE GuiSpec => []JoinedIsTold
  <1>1. GuiInv => JoinedIsTold
    BY DEF GuiInv
  <1>2. QED
    BY <1>1, GuiInvariant, PTL

\* Neither a second Start Monitor nor a Stop Monitor that meets a thread on its way
\* to the dialog ever comes back: the one waits for a thread that nothing ends, the
\* other for a thread that waits for the UI thread.
THEOREM HangsForGood == ASSUME OneInstaller PROVE GuiSpec => HungForGood
  <1>1. ASSUME GuiInv, GuiNext, Hung, ~ProcessEnds PROVE Hung' /\ ui' = ui
    <2> USE GuiAssumption DEF GuiInv, GuiTypeOK, ThreadsFollow, LivesFor, Hung
    <2>1. ~Click
      BY <1>1
      DEF Click, OnBnClickedDriver, OnBnClickedStartMonitor, OnBnClickedStopMonitor,
          OnBnClickedClose, OnSysCommand, CloseBox, Clickable
    <2>2. ~UiStep
      BY <1>1
      DEF UiStep, ServiceCall, RefreshDriverStatus, RegisterEvent, CreateThread,
          SignalTerminate, Join, ResetDriver, UiGoto
    <2>3. ASSUME NEW t \in MonitoringThread, ThreadStep(t) \/ CloseUnattended(t)
          PROVE  Hung' /\ ui' = ui
      <3>1. UNCHANGED <<ui, joined>>
        BY <2>3
        DEF ThreadStep, Wake, DispatchGray, OpenDialog, CloseDialog, SendRules,
            TestTerminate, CloseUnattended, uiVars
      <3>2. CASE ui = "joining"
        BY <1>1, <2>3, <3>1, <3>2
        DEF ThreadStep, Wake, DispatchGray, OpenDialog, CloseDialog, SendRules,
            TestTerminate, CloseUnattended, ThreadGoto
      <3>3. QED
        BY <1>1, <3>1, <3>2
    <2>4. CASE DriverSignals \/ \E c \in Caller : OtherCaller(c)
      BY <1>1, <2>4 DEF DriverSignals, OtherCaller, guiVars, uiVars, threadVars
    <2>5. QED
      BY <1>1, <2>1, <2>2, <2>3, <2>4 DEF GuiNext
  <1>2. GuiInv /\ [GuiNext]_allVars => [Hung => (Hung' /\ ui' = ui) \/ ProcessEnds]_allVars
    BY <1>1
  <1>3. QED
    BY <1>2, GuiInvariant, PTL DEF GuiSpec, HungForGood
================================================================================
