--------------------------- MODULE MonitorSession ---------------------------
(***************************************************************************)
(* The driver together with its user-mode counterpart: the ProcessMonitor  *)
(* class of ProcessDll, run by one GUI process. Two threads of that        *)
(* process matter: the UI thread, which calls Init and Reset, and the      *)
(* monitoring thread, which asks the callback for a verdict on every gray  *)
(* process and sends the verdicts down.                                    *)
(*                                                                         *)
(* Every driver step is an action of DriverMonitor, so the requests of     *)
(* this client are requests an arbitrary client of DriverMonitor may make. *)
(* The client itself is a process of the system: its pid is Self, it is    *)
(* gated like any other when it starts, and it may die at any moment.      *)
(***************************************************************************)
EXTENDS DriverMonitor, DeviceRequests

CONSTANT Self   \* pid of the GUI process

\* Two event objects: that of this run of the client and, when an earlier run
\* died, the one the driver still refers to.
ASSUME SessionAssumption ==
  /\ Self \in Pid
  /\ IsFiniteSet(Pid)
  /\ \A e \in Event \cup {NoEvent} : Event \ {e} # {}

VARIABLES
  ui,                     \* where the UI thread is in Init or Reset
  monitor,                \* where the monitoring thread is
  deviceOpen,             \* m_driverHandle is valid
  m_terminateMonitoring,  \* tells the monitoring thread to leave its loop
  m_notifyEvent,          \* the event object of this run of the client
  disabler,               \* which window has disabled the main window
  dispatchCount,          \* capacity of the list that Dispatch asks for
  checkList,              \* gray pids that have no rule yet
  deny,                   \* those of them that get AddToBlacklist
  gone                    \* ghost: listed pids whose process has exited since

clientVars == <<ui, monitor, deviceOpen, m_terminateMonitoring, m_notifyEvent,
                disabler, dispatchCount, checkList, deny, gone>>
dispatchVars == <<dispatchCount, checkList, deny>>
allVars == <<vars, clientVars>>

UiState == {"idle", "allowing", "allowed", "registering",
            "stopping", "joining", "resetting", "stopped", "exiting", "exited"}
MonitorState == {"none", "wait", "count", "list", "ask", "dialog", "apply",
                 "clear", "loop"}

UiGoto(from, to) == ui \in from /\ ui' = to
MonitorGoto(from, to) == monitor = from /\ monitor' = to

\* The threads of the client run only while its process does.
Alive == thread[Self] = "running"

\* mutant: no dialog disables the main window
MainEnabledAlways == TRUE

\* The main window takes no clicks while the About box is open, or a dialog that
\* found it enabled and disabled it.
MainEnabled == disabler = "nobody"

\* The UI thread answers messages only outside Init and Reset.
Pumping == ui \in {"idle", "stopped"}

-----------------------------------------------------------------------------
(* Init of the client: the UI thread. The device can be opened because the  *)
(* driver is loaded. A second Init without a Reset is left out.             *)

\* mutant: Init does not add the allow rule for its own process
StartMonitorNoAllowSelf ==
  /\ MainEnabled
  /\ monitor = "none"
  /\ UiGoto({"idle", "stopped"}, "allowed")
  /\ m_terminateMonitoring' = FALSE
  /\ deviceOpen' = TRUE
  /\ UNCHANGED <<vars, monitor, m_notifyEvent, disabler, dispatchVars, gone>>

\* The flag is cleared, the device is opened, AllowSelf enters AppendRule.
\* Allow and Block swallow the failure of a request that is refused.
StartMonitor ==
  /\ MainEnabled
  /\ monitor = "none"
  /\ UiGoto({"idle", "stopped"},
            IF RuleTaken /\ Self \in m_activeProcesses THEN "allowing" ELSE "allowed")
  /\ m_terminateMonitoring' = FALSE
  /\ deviceOpen' = TRUE
  /\ IF RuleTaken THEN AppendRule(Self, FALSE) ELSE UNCHANGED vars
  /\ UNCHANGED <<monitor, m_notifyEvent, disabler, dispatchVars, gone>>

SelfAllowed ==
  /\ UiGoto({"allowing"}, "allowed")
  /\ AppendRuleResume(Self)
  /\ UNCHANGED <<monitor, deviceOpen, m_terminateMonitoring, m_notifyEvent, disabler,
                 dispatchVars, gone>>

ResetNotifyEvent ==
  /\ UiGoto({"allowed"}, "registering")
  /\ ClearUserEvent(m_notifyEvent)
  /\ UNCHANGED <<monitor, deviceOpen, m_terminateMonitoring, m_notifyEvent, disabler,
                 dispatchVars, gone>>

\* IOCTL_REGISTER_EVENT, then the monitoring thread is created.
Register ==
  /\ RegisterEventAccepted(RegisterEventSize)
  /\ UiGoto({"registering"}, "idle")
  /\ MonitorGoto("none", "wait")
  /\ RegisterEvent(m_notifyEvent)
  /\ UNCHANGED <<deviceOpen, m_terminateMonitoring, m_notifyEvent, disabler, dispatchVars,
                 gone>>

-----------------------------------------------------------------------------
(* Reset of the client: the UI thread; Exit is ~ProcessMonitor, which runs   *)
(* when ExitProcess has already ended the monitoring thread.                *)

SetTerminate(from, to) ==
  /\ UiGoto(from, to)
  /\ m_terminateMonitoring' = TRUE
  /\ UNCHANGED <<vars, monitor, deviceOpen, m_notifyEvent, disabler, dispatchVars, gone>>

SignalTerminate(from, to) ==
  /\ UiGoto(from, to)
  /\ SetUserEvent(m_notifyEvent)
  /\ UNCHANGED <<monitor, deviceOpen, m_terminateMonitoring, m_notifyEvent, disabler,
                 dispatchVars, gone>>

\* mutant: the event is signaled before the flag is set
RequestStopSwapped ==
  \/ MainEnabled /\ SignalTerminate({"idle", "stopped"}, "stopping")
  \/ SetTerminate({"stopping"}, "joining")

RequestStop ==
  \/ MainEnabled /\ SetTerminate({"idle", "stopped"}, "stopping")
  \/ SignalTerminate({"stopping"}, "joining")

\* The jthread is destroyed, which waits for the monitoring thread.
Join ==
  /\ monitor = "none"
  /\ UiGoto({"joining"}, IF deviceOpen THEN "resetting" ELSE "idle")
  /\ UNCHANGED <<vars, monitor, deviceOpen, m_terminateMonitoring, m_notifyEvent,
                 disabler, dispatchVars, gone>>

\* mutant: the device is closed without IOCTL_RESET
ResetDriverCloseOnly(from, to) ==
  /\ UiGoto(from, to)
  /\ deviceOpen' = FALSE
  /\ UNCHANGED <<vars, monitor, m_terminateMonitoring, m_notifyEvent, disabler,
                 dispatchVars, gone>>

\* IOCTL_RESET and CloseHandle.
ResetDriver(from, to) ==
  /\ deviceOpen
  /\ UiGoto(from, to)
  /\ IoctlReset
  /\ deviceOpen' = FALSE
  /\ UNCHANGED <<monitor, m_terminateMonitoring, m_notifyEvent, disabler, dispatchVars,
                 gone>>

Exit ==
  /\ MainEnabled
  /\ rules = {}
  /\ UiGoto({"idle", "stopped"}, IF deviceOpen THEN "exiting" ELSE "exited")
  /\ monitor' = "none"
  /\ dispatchCount' = 0 /\ checkList' = {} /\ deny' = {} /\ gone' = {}
  /\ m_terminateMonitoring' = TRUE
  /\ UNCHANGED <<vars, deviceOpen, m_notifyEvent, disabler>>

-----------------------------------------------------------------------------
(* The About box of the main window.                                        *)

OnSysCommand ==
  /\ MainEnabled /\ Pumping
  /\ disabler' = "about"
  /\ UNCHANGED <<vars, ui, monitor, deviceOpen, m_terminateMonitoring, m_notifyEvent,
                 dispatchVars, gone>>

\* The main window is enabled again, also if a dialog was opened meanwhile.
CloseAbout ==
  /\ disabler = "about"
  /\ disabler' = "nobody"
  /\ UNCHANGED <<vars, ui, monitor, deviceOpen, m_terminateMonitoring, m_notifyEvent,
                 dispatchVars, gone>>

-----------------------------------------------------------------------------
(* The monitoring thread: MonitoringThreadProc and Dispatch.                *)

Wake ==
  /\ signaled[m_notifyEvent]
  /\ MonitorGoto("wait", IF m_terminateMonitoring THEN "none" ELSE "count")
  /\ UNCHANGED <<vars, ui, deviceOpen, m_terminateMonitoring, m_notifyEvent, disabler,
                 dispatchVars, gone>>

CountGray ==
  /\ CountAccepted(SizeofULONG)
  /\ MonitorGoto("count", IF CleanProcesses = {} THEN "clear" ELSE "list")
  /\ dispatchCount' = Cardinality(CleanProcesses)
  /\ UNCHANGED <<vars, ui, deviceOpen, m_terminateMonitoring, m_notifyEvent, disabler,
                 checkList, deny, gone>>

ClearNotifyEvent ==
  /\ MonitorGoto("clear", "loop")
  /\ ClearUserEvent(m_notifyEvent)
  /\ UNCHANGED <<ui, deviceOpen, m_terminateMonitoring, m_notifyEvent, disabler,
                 dispatchVars, gone>>

\* The buffer has room for dispatchCount entries; entries without a name are
\* dropped, those the driver has not written among them.
ListGray ==
  /\ ListAccepted(ListSize(dispatchCount))
  /\ \E listed \in QueryProcesses(CleanProcesses, ListSize(dispatchCount)) :
       checkList' = {p \in listed : imageName[p]}
  /\ MonitorGoto("list", IF checkList' = {} THEN "loop" ELSE "ask")
  /\ dispatchCount' = 0
  /\ UNCHANGED <<vars, ui, deviceOpen, m_terminateMonitoring, m_notifyEvent, disabler,
                 deny, gone>>

\* The callback opens its dialog, which sends messages to the main window: the UI
\* thread has to answer them. It disables the window unless the About box has.
OpenDialog ==
  /\ Pumping
  /\ MonitorGoto("ask", "dialog")
  /\ disabler' = IF MainEnabled THEN "dialog" ELSE disabler
  /\ UNCHANGED <<vars, ui, deviceOpen, m_terminateMonitoring, m_notifyEvent, dispatchVars,
                 gone>>

\* The dialog closes and the callback returns with any verdicts. The main window is
\* enabled again by the dialog that has disabled it.
CloseDialog ==
  /\ MonitorGoto("dialog", "apply")
  /\ disabler' = IF disabler = "dialog" THEN "nobody" ELSE disabler
  /\ deny' \in SUBSET checkList
  /\ UNCHANGED <<vars, ui, deviceOpen, m_terminateMonitoring, m_notifyEvent,
                 dispatchCount, checkList, gone>>

AskUser == Pumping /\ CloseDialog

\* A dialog that leaves the main window as it is may close without the UI thread,
\* when it is not the active window.
AskUserUnattended == ~Pumping /\ disabler # "dialog" /\ CloseDialog

\* mutant: the list outlives the exception
AskUserFailsKeepsList ==
  /\ MonitorGoto("ask", "loop")
  /\ UNCHANGED <<vars, ui, deviceOpen, m_terminateMonitoring, m_notifyEvent, disabler,
                 dispatchVars, gone>>

\* The callback throws: Dispatch returns.
AskUserFails ==
  /\ MonitorGoto("ask", "loop")
  /\ checkList' = {} /\ gone' = {}
  /\ UNCHANGED <<vars, ui, deviceOpen, m_terminateMonitoring, m_notifyEvent, disabler,
                 dispatchCount, deny>>

\* Block or Allow: the request enters AppendRule ...
SendRule(p) ==
  /\ monitor = "apply" /\ rules = {}
  /\ p \in checkList
  /\ checkList' = checkList \ {p}
  /\ IF RuleTaken THEN AppendRule(p, p \in deny) ELSE UNCHANGED vars
  /\ UNCHANGED <<ui, monitor, deviceOpen, m_terminateMonitoring, m_notifyEvent, disabler,
                 dispatchCount, deny, gone>>

\* ... and comes back from it.
RuleSent ==
  /\ monitor = "apply"
  /\ \E p \in Pid : AppendRuleResume(p)
  /\ UNCHANGED clientVars

\* mutant: Dispatch does not end with IOCTL_TERMINATE_ALL
TerminateDeniedNever ==
  /\ checkList = {} /\ rules = {}
  /\ MonitorGoto("apply", "loop")
  /\ deny' = {} /\ gone' = {}
  /\ UNCHANGED <<vars, ui, deviceOpen, m_terminateMonitoring, m_notifyEvent, disabler,
                 dispatchCount, checkList>>

\* IOCTL_TERMINATE_ALL, after the last rule.
TerminateDenied ==
  /\ checkList = {} /\ rules = {}
  /\ MonitorGoto("apply", "loop")
  /\ TerminateBlackMarked
  /\ deny' = {} /\ gone' = {}
  /\ UNCHANGED <<ui, deviceOpen, m_terminateMonitoring, m_notifyEvent, disabler,
                 dispatchCount, checkList>>

\* while (!m_terminateMonitoring)
TestTerminate ==
  /\ MonitorGoto("loop", IF m_terminateMonitoring THEN "none" ELSE "wait")
  /\ UNCHANGED <<vars, ui, deviceOpen, m_terminateMonitoring, m_notifyEvent, disabler,
                 dispatchVars, gone>>

-----------------------------------------------------------------------------
(* The system.                                                              *)

ProcessExits(p) ==
  /\ p # Self
  /\ OnDeleteProcess(p)
  /\ gone' = IF p \in checkList \cup deny THEN gone \cup {p} ELSE gone
  /\ UNCHANGED <<ui, monitor, deviceOpen, m_terminateMonitoring, m_notifyEvent, disabler,
                 dispatchVars>>

\* The GUI process ends, in order after Exit or not. Its handle closes, which
\* tells the driver nothing. The next run has an event object of its own.
SelfExits ==
  /\ OnDeleteProcess(Self)
  /\ ui' = "idle"
  /\ monitor' = "none"
  /\ deviceOpen' = FALSE
  /\ m_terminateMonitoring' = FALSE
  /\ m_notifyEvent' \in Event \ {m_userNotifyEvent}
  /\ disabler' = "nobody"
  /\ dispatchCount' = 0 /\ checkList' = {} /\ deny' = {} /\ gone' = {}

\* The system knows the name of the GUI's own image, so a library that the GUI
\* loads later is never taken for it.
DriverStep(p) ==
  /\ \/ OnCreateProcess(p)
     \/ LoadImage(p)
     \/ p # Self /\ LoadImageUnnamed(p)
     \/ LoadStep(p)
     \/ RunTerminator(p)
  /\ UNCHANGED clientVars

SessionInit ==
  /\ Init
  /\ Alive
  /\ Self \in m_activeProcesses => imageName[Self]
  /\ ui = "idle"
  /\ monitor = "none"
  /\ deviceOpen = FALSE
  /\ m_terminateMonitoring = FALSE
  /\ m_notifyEvent \in Event
  /\ disabler = "nobody"
  /\ dispatchCount = 0 /\ checkList = {} /\ deny = {} /\ gone = {}

UiStep ==
  \/ StartMonitor
  \/ SelfAllowed
  \/ ResetNotifyEvent
  \/ Register
  \/ RequestStop
  \/ Join
  \/ ResetDriver({"resetting"}, "stopped")
  \/ Exit
  \/ ResetDriver({"exiting"}, "exited")

MonitorProgress ==
  \/ Wake
  \/ CountGray
  \/ ClearNotifyEvent
  \/ ListGray
  \/ OpenDialog
  \/ AskUser
  \/ \E p \in Pid : SendRule(p)
  \/ RuleSent
  \/ TerminateDenied
  \/ TestTerminate

MonitorStep == MonitorProgress \/ AskUserUnattended \/ AskUserFails

AboutBox == OnSysCommand \/ CloseAbout

SystemStep ==
  \/ \E p \in Pid : DriverStep(p) \/ ProcessExits(p)
  \/ SelfExits

SessionNext ==
  \/ Alive /\ (UiStep \/ MonitorStep \/ AboutBox)
  \/ SystemStep

SessionSpec == SessionInit /\ [][SessionNext]_allVars

\* Once Init or Reset is entered the UI thread goes through with it, and a
\* process that has called ExitProcess ends. The monitoring thread runs; the
\* dialog closes itself when its timer runs out (CallbackDialog). When a process
\* exits of its own accord, what the user decides, and whether a dialog closes that
\* meets a UI thread in Init or Reset, is open.
SessionFairness ==
  /\ WF_allVars(Alive /\ ui \notin {"idle", "stopped"} /\ UiStep)
  /\ WF_allVars(ui = "exited" /\ SelfExits)
  /\ WF_allVars(Alive /\ MonitorProgress)
  /\ \A p \in Pid :
       /\ SF_allVars(LoadStep(p) /\ UNCHANGED clientVars)
       /\ WF_allVars(RunTerminator(p) /\ UNCHANGED clientVars)
       /\ SF_allVars(p \in doomed /\ (ProcessExits(p) \/ (p = Self /\ SelfExits)))

FairSessionSpec == SessionSpec /\ SessionFairness

-----------------------------------------------------------------------------
(* Properties.                                                              *)

\* Every variable of the client holds a value of its type, and the lists of
\* Dispatch are empty outside it.
SessionTypeOK ==
  /\ ui \in UiState
  /\ monitor \in MonitorState
  /\ deviceOpen \in BOOLEAN
  /\ m_terminateMonitoring \in BOOLEAN
  /\ m_notifyEvent \in Event
  /\ disabler \in {"nobody", "about", "dialog"}
  /\ dispatchCount \in 0 .. Cardinality(Pid)
  /\ checkList \in SUBSET Pid
  /\ deny \in SUBSET Pid
  /\ gone \in SUBSET Pid
  /\ monitor \in {"none", "wait"} => checkList = {} /\ deny = {}

\* The GUI never puts its own process up for a verdict: AllowSelf has marked it
\* before the event is registered, also when the driver was left with gray
\* processes by an earlier run.
SelfNeverJudged == Self \notin checkList

\* After a Stop Monitor (Deinit) that ended a session the driver lets every
\* process start: it has no listener and nobody is blocked, whatever the
\* monitoring thread was doing.
StoppedMeansFree ==
  ui = "stopped" =>
    m_userNotifyEvent = NoEvent /\ \A p \in Pid : ~Suspended(p)

\* What the user decides is what the driver has on record once Dispatch has sent
\* its rules: no rule is refused, none hits another process, and none is taken
\* back while the next ones are sent.
VerdictsTaken ==
  monitor = "apply" =>
    \A p \in deny \ (checkList \cup gone) : marker[p] = "Disallowed"

\* However many processes start between the count and the list, the driver
\* writes no more entries than the client has made room for.
ListFits ==
  monitor = "list" =>
    \A listed \in QueryProcesses(CleanProcesses, ListSize(dispatchCount)) :
      BytesWritten(listed) <= ListSize(dispatchCount)

\* Stop Monitor comes back unless it is clicked when the monitoring thread is
\* about to open its dialog, where each thread waits for the other, or is in a
\* dialog that was opened over the About box. It cannot fail to come back in
\* another way, because the flag is set before the event and Dispatch clears the
\* event before the flag is read again.
StopCompletes ==
  ui = "joining" ~>
    \/ ui # "joining"
    \/ monitor = "ask"
    \/ monitor = "dialog" /\ disabler # "dialog"

\* While Stop Monitor waits for the monitoring thread, that thread does not go to
\* sleep over it: whatever it had counted, listed or cleared when the flag and
\* the event were set, it finds the event signaled, and then the flag.
StopIsSeen ==
  ui = "joining" /\ monitor = "wait" =>
    m_terminateMonitoring /\ signaled[m_notifyEvent]

\* A dialog that has disabled the main window keeps the UI thread out of Init and
\* Reset until it closes, whichever of a click, the About box and the dialog came
\* first. Only a dialog over the About box can be met by a stop.
DialogHoldsOffStop == monitor = "dialog" /\ disabler = "dialog" => Pumping

\* When Dispatch ends with IOCTL_TERMINATE_ALL none of the processes the user has
\* denied slips through: each has a terminating thread, if one could be created, or
\* is still at the gate, where it meets its verdict on the way out.
DeniedAreCaught ==
  [][TerminateDenied /\ "thread" \notin Faults =>
       \A p \in deny \ gone : terminators'[p] > 0 \/ thread[p] \in AtGate]_allVars

\* A process the user denies ends, suspended or already running, unless the
\* client dies first.
DeniedExits ==
  \A p \in Pid :
    (monitor = "apply" /\ p \in deny \ gone) ~> (thread[p] = "absent" \/ ~Alive)

-----------------------------------------------------------------------------
(* The inductive invariant of a session.                                    *)

\* A client that does anything is a process.
ClientIsProcess == thread[Self] = "absent" => ui = "idle" /\ monitor = "none"

\* From AllowSelf on the record of the client, if there is one, is not gray.
SelfIsAllowed ==
  (ui \in {"allowing", "allowed", "registering"} \/ monitor # "none")
  /\ Self \in m_activeProcesses => marker[Self] = "Allowed"

\* What Dispatch works on at each of its points.
DispatchLists ==
  /\ monitor \notin {"ask", "dialog", "apply"} => checkList = {}
  /\ monitor # "apply" => deny = {}
  /\ \A p \in (checkList \cup deny) \ gone : p \in m_activeProcesses /\ imageName[p]

\* Who has disabled the main window is open, and the UI thread pumps meanwhile.
DisablerIsOpen ==
  /\ disabler = "dialog" => monitor = "dialog"
  /\ disabler = "about" => Pumping

\* The flag that Stop Monitor has set stays set while the UI thread waits.
StopIsSet == ui \in {"stopping", "joining"} => m_terminateMonitoring

\* What holds of a client of the width of the driver: its rules are taken.
RulesCount ==
  /\ SelfIsAllowed
  /\ SelfNeverJudged
  /\ VerdictsTaken

DispatchInv ==
  /\ SessionTypeOK
  /\ ClientIsProcess
  /\ DispatchLists
  /\ DialogHoldsOffStop
  /\ DisablerIsOpen
  /\ StopIsSet
  /\ StopIsSeen
  /\ ClientPointer = DriverPointer => RulesCount

-----------------------------------------------------------------------------
(* What comments in the code say and the code does not do.                  *)

\* "Notify user mode library counterpart": while a listener waits for its
\* event, an undecided process at the gate has been announced to it.
SuspendedIsAnnounced ==
  \A p \in CleanProcesses :
    Suspended(p) /\ monitor = "wait" /\ m_userNotifyEvent = m_notifyEvent
      => signaled[m_notifyEvent]

\* "Resume suspended process (action will be applied to it depending of
\* marker)": a rule that finds its process suspended signals the event on which the
\* process waits.
SuspendedIsResumed ==
  [][\A p \in Pid : AppendRuleResume(p) /\ IsSuspended(p)
       => resumeEvent'[p] = "set"]_allVars

\* "Terminate all black processes.": only such a process is terminated.
OnlyBlackTerminated ==
  [][\A p \in doomed' \ doomed :
       p \in m_activeProcesses /\ marker[p] = "Disallowed"]_allVars
=============================================================================
