------------------------- MODULE MonitorSessionProofs -------------------------
(***************************************************************************)
(* The client of MonitorSession is one of the clients DriverMonitor        *)
(* allows, so what is proved of the driver holds in every session.         *)
(***************************************************************************)
EXTENDS MonitorSession, DriverGateProofs

OwnsEvent == m_notifyEvent \in Event

\* The client always has an event object of its own.
LEMMA OwnsEventNext == OwnsEvent /\ [SessionNext]_allVars => OwnsEvent'
  <1> SUFFICES ASSUME OwnsEvent, [SessionNext]_allVars PROVE OwnsEvent'
    OBVIOUS
  <1>1. ASSUME m_notifyEvent' = m_notifyEvent PROVE OwnsEvent'
    BY <1>1 DEF OwnsEvent
  <1>2. CASE UNCHANGED allVars
    BY <1>1, <1>2 DEF allVars, clientVars
  <1>3. CASE UiStep
    BY <1>1, <1>3 DEF UiStep, StartMonitor, SelfAllowed, ResetNotifyEvent, Register,
       RequestStop, SetTerminate, SignalTerminate, Join, ResetDriver, Exit
  <1>4. CASE MonitorStep
    BY <1>1, <1>4 DEF MonitorStep, Wake, CountGray, ClearNotifyEvent, ListGray,
       OpenDialog, CloseDialog, AskUser, AskUserUnattended, AskUserFails, SendRule,
       RuleSent, TerminateDenied, TestTerminate, MonitorProgress, clientVars
  <1>5. CASE \E p \in Pid : DriverStep(p) \/ ProcessExits(p)
    BY <1>1, <1>5 DEF DriverStep, ProcessExits, clientVars
  <1>6. CASE SelfExits
    BY <1>6 DEF SelfExits, OwnsEvent
  <1>7. CASE AboutBox
    BY <1>1, <1>7 DEF AboutBox, OnSysCommand, CloseAbout
  <1>8. QED
    BY <1>2, <1>3, <1>4, <1>5, <1>6, <1>7 DEF SessionNext, SystemStep

\* A step of the system is a step of the driver.
LEMMA SystemStepIsDriverStep == SystemStep => Next
  <1>1. ASSUME NEW p \in Pid, DriverStep(p) PROVE Next
    BY <1>1 DEF DriverStep, Next, ProcessStep
  <1>2. ASSUME NEW p \in Pid, ProcessExits(p) PROVE Next
    BY <1>2 DEF ProcessExits, Next, ProcessStep
  <1>3. ASSUME SelfExits PROVE Next
    BY <1>3, SessionAssumption DEF SelfExits, Next, ProcessStep
  <1>4. QED
    BY <1>1, <1>2, <1>3 DEF SystemStep

\* A step of the UI thread is a request of the driver or none of its business.
LEMMA UiStepIsRequest == OwnsEvent /\ UiStep => [Next]_vars
  <1> SUFFICES ASSUME OwnsEvent, UiStep PROVE [Next]_vars
    OBVIOUS
  <1>1. ASSUME Request PROVE [Next]_vars
    BY <1>1 DEF Next
  <1>2. CASE StartMonitor
    BY <1>1, <1>2, SessionAssumption DEF StartMonitor, Request
  <1>3. CASE SelfAllowed
    BY <1>1, <1>3, SessionAssumption DEF SelfAllowed, Request
  <1>4. CASE ResetNotifyEvent
    BY <1>1, <1>4 DEF ResetNotifyEvent, Request, OwnsEvent
  <1>5. CASE Register
    BY <1>1, <1>5 DEF Register, Request, OwnsEvent
  <1>6. CASE RequestStop
    BY <1>1, <1>6 DEF RequestStop, SetTerminate, SignalTerminate, Request, OwnsEvent
  <1>7. CASE Join
    BY <1>7 DEF Join
  <1>8. CASE Exit
    BY <1>8 DEF Exit
  <1>9. ASSUME NEW from, NEW to, ResetDriver(from, to) PROVE [Next]_vars
    BY <1>1, <1>9 DEF ResetDriver, Request
  <1>10. QED
    BY <1>2, <1>3, <1>4, <1>5, <1>6, <1>7, <1>8, <1>9 DEF UiStep

\* So is a step of the monitoring thread.
LEMMA MonitorStepIsRequest == OwnsEvent /\ MonitorStep => [Next]_vars
  <1> SUFFICES ASSUME OwnsEvent, MonitorStep PROVE [Next]_vars
    OBVIOUS
  <1>1. ASSUME Request PROVE [Next]_vars
    BY <1>1 DEF Next
  <1>2. CASE \/ Wake \/ CountGray \/ ListGray \/ OpenDialog
             \/ AskUser \/ AskUserUnattended \/ AskUserFails \/ TestTerminate
    BY <1>2 DEF Wake, CountGray, ListGray, OpenDialog, CloseDialog, AskUser,
       AskUserUnattended, AskUserFails, TestTerminate
  <1>3. CASE ClearNotifyEvent
    BY <1>1, <1>3 DEF ClearNotifyEvent, Request, OwnsEvent
  <1>4. ASSUME NEW p \in Pid, SendRule(p) PROVE [Next]_vars
    <2>1. CASE RuleTaken
      <3>1. AppendRule(p, p \in deny)
        BY <1>4, <2>1 DEF SendRule
      <3>2. AppendRule(p, TRUE) \/ AppendRule(p, FALSE)
        BY <3>1 DEF AppendRule
      <3>3. QED
        BY <1>1, <3>2 DEF Request
    <2>2. CASE ~RuleTaken
      BY <1>4, <2>2 DEF SendRule
    <2>3. QED
      BY <2>1, <2>2
  <1>5. CASE RuleSent
    BY <1>1, <1>5 DEF RuleSent, Request
  <1>6. CASE TerminateDenied
    BY <1>1, <1>6 DEF TerminateDenied, Request
  <1>7. QED
    BY <1>2, <1>3, <1>4, <1>5, <1>6 DEF MonitorStep, MonitorProgress

\* A session is a behaviour of the driver with arbitrary clients.
THEOREM SessionImplementsDriver == SessionSpec => Spec
  <1>1. SessionInit => Init /\ OwnsEvent
    BY DEF SessionInit, OwnsEvent
  <1>2. SessionSpec => []OwnsEvent
    BY <1>1, OwnsEventNext, PTL DEF SessionSpec
  <1>3. OwnsEvent /\ [SessionNext]_allVars => [Next]_vars
    <2>1. UNCHANGED allVars => UNCHANGED vars
      BY DEF allVars
    <2>2. AboutBox => UNCHANGED vars
      BY DEF AboutBox, OnSysCommand, CloseAbout
    <2>3. QED
      BY <2>1, <2>2, SystemStepIsDriverStep, UiStepIsRequest, MonitorStepIsRequest
      DEF SessionNext
  <1>4. QED
    BY <1>1, <1>2, <1>3, PTL DEF SessionSpec, Spec

\* Whatever the GUI does, a blocked process has a record and a listener.
THEOREM SessionBlockedIsSafe ==
    SessionSpec => [](SuspendedIsListed /\ SuspendedHasListener)
  <1>1. QED
    BY SessionImplementsDriver, BlockedIsListed, BlockedHasListener, PTL

\* The client of ProcessDll and the driver together keep the promise of StartGate:
\* however sessions are started, stopped, abandoned by an exception or ended with
\* the client, nobody leaves the gate without a verdict or a Reset, and who was
\* denied does not leave it unsentenced.
THEOREM SessionKeepsPromise == SessionSpec => KeepsPromise
  <1>1. QED
    BY SessionImplementsDriver, DriverKeepsPromise, PTL

-----------------------------------------------------------------------------
(* Stop Monitor.                                                            *)

\* No step but the registration puts a listener in place.
ListenerKept ==
  /\ m_userModeEvent' = m_userModeEvent
  /\ m_userNotifyEvent' \in {m_userNotifyEvent, NoEvent}

\* The device stays open without a registered listener only inside Init, and a
\* stop that ended a session has taken the listener away.
SessionInv ==
  /\ m_notifyEvent \in Event
  /\ ui \in {"resetting", "exiting"} => deviceOpen
  /\ deviceOpen /\ ui \notin {"allowing", "allowed", "registering"} => m_userModeEvent
  /\ ui = "stopped" => m_userModeEvent /\ m_userNotifyEvent = NoEvent

\* A step of the system keeps the listener, or drops it after a timeout.
LEMMA SystemStepListener == SystemStep => ListenerKept
  <1>1. ASSUME NEW p \in Pid, LoadStep(p) PROVE ListenerKept
    BY <1>1 DEF ListenerKept, LoadStep, AssignImageName, DiscardRecord, ArmResumeEvent,
       InitResumeEvent, NotifyUser, Resume, WaitTimeout, TimeoutReset, Reset,
       ClearListener, ApplyVerdict, listenerVars
  <1>2. ASSUME NEW p \in Pid, OnDeleteProcess(p) PROVE ListenerKept
    BY <1>2 DEF ListenerKept, OnDeleteProcess, listenerVars
  <1>3. ASSUME NEW p \in Pid, DriverStep(p) PROVE ListenerKept
    BY <1>1, <1>3 DEF ListenerKept, DriverStep, OnCreateProcess, LoadImage,
       LoadImageUnnamed, RunTerminator, listenerVars
  <1>4. QED
    BY <1>2, <1>3, SessionAssumption DEF SystemStep, ProcessExits, SelfExits

\* The monitoring thread leaves the listener and the UI thread alone.
LEMMA MonitorStepListener ==
    MonitorStep => ListenerKept /\ UNCHANGED <<ui, deviceOpen, m_notifyEvent>>
  <1> SUFFICES ASSUME MonitorStep
               PROVE ListenerKept /\ UNCHANGED <<ui, deviceOpen, m_notifyEvent>>
    OBVIOUS
  <1>1. CASE \/ Wake \/ CountGray \/ ListGray \/ OpenDialog
             \/ AskUser \/ AskUserUnattended \/ AskUserFails \/ TestTerminate
    BY <1>1 DEF Wake, CountGray, ListGray, OpenDialog, CloseDialog, AskUser,
       AskUserUnattended, AskUserFails, TestTerminate, ListenerKept, vars
  <1>2. CASE ClearNotifyEvent
    BY <1>2 DEF ClearNotifyEvent, ClearUserEvent, ListenerKept, listenerVars
  <1>3. ASSUME NEW p \in Pid, SendRule(p)
        PROVE ListenerKept /\ UNCHANGED <<ui, deviceOpen, m_notifyEvent>>
    BY <1>3 DEF SendRule, AppendRule, ListenerKept, listenerVars, vars
  <1>4. CASE RuleSent
    BY <1>4 DEF RuleSent, AppendRuleResume, ListenerKept, listenerVars, clientVars
  <1>5. CASE TerminateDenied
    BY <1>5 DEF TerminateDenied, TerminateBlackMarked, ListenerKept, listenerVars
  <1>6. QED
    BY <1>1, <1>2, <1>3, <1>4, <1>5 DEF MonitorStep, MonitorProgress

\* The listener is registered before the device counts as in use, and removed
\* before a stop is over: the invariant of the UI thread is preserved.
LEMMA SessionInvNext == SessionInv /\ [SessionNext]_allVars => SessionInv'
  <1> SUFFICES ASSUME SessionInv, [SessionNext]_allVars PROVE SessionInv'
    OBVIOUS
  <1>1. ASSUME ListenerKept, UNCHANGED <<ui, deviceOpen, m_notifyEvent>> PROVE SessionInv'
    BY <1>1 DEF SessionInv, ListenerKept
  <1>2. CASE UNCHANGED allVars
    BY <1>1, <1>2 DEF allVars, vars, clientVars, ListenerKept
  <1>3. CASE StartMonitor
    BY <1>3 DEF StartMonitor, UiGoto, SessionInv
  <1>4. CASE SelfAllowed
    BY <1>4 DEF SelfAllowed, UiGoto, AppendRuleResume, listenerVars, SessionInv
  <1>5. CASE ResetNotifyEvent
    BY <1>5 DEF ResetNotifyEvent, UiGoto, ClearUserEvent, listenerVars, SessionInv
  <1>6. CASE Register
    BY <1>6, ConstantsAssumption DEF Register, UiGoto, RegisterEvent, SessionInv
  <1>7. CASE RequestStop
    BY <1>7 DEF RequestStop, SetTerminate, SignalTerminate, UiGoto, SetUserEvent,
       listenerVars, vars, SessionInv
  <1>8. CASE Join
    BY <1>8 DEF Join, UiGoto, vars, SessionInv
  <1>9. CASE ResetDriver({"resetting"}, "stopped")
    BY <1>9 DEF ResetDriver, UiGoto, IoctlReset, Reset, ClearListener, SessionInv
  <1>10. CASE Exit
    BY <1>10 DEF Exit, UiGoto, vars, SessionInv
  <1>11. CASE ResetDriver({"exiting"}, "exited")
    BY <1>11 DEF ResetDriver, UiGoto, SessionInv
  <1>12. CASE MonitorStep
    BY <1>1, <1>12, MonitorStepListener
  <1>13. CASE \E p \in Pid : DriverStep(p) \/ ProcessExits(p)
    <2>1. ListenerKept
      BY <1>13, SystemStepListener DEF SystemStep
    <2>2. UNCHANGED <<ui, deviceOpen, m_notifyEvent>>
      BY <1>13 DEF DriverStep, ProcessExits, clientVars
    <2>3. QED
      BY <1>1, <2>1, <2>2
  <1>14. CASE SelfExits
    BY <1>14 DEF SelfExits, SessionInv
  <1>15. CASE AboutBox
    BY <1>1, <1>15 DEF AboutBox, OnSysCommand, CloseAbout, ListenerKept, vars
  <1>16. QED
    BY <1>2, <1>3, <1>4, <1>5, <1>6, <1>7, <1>8, <1>9, <1>10, <1>11, <1>12, <1>13,
       <1>14, <1>15 DEF SessionNext, UiStep, SystemStep

\* After Stop Monitor no process is blocked and nobody is asked any more: the
\* driver has dropped the listener of a registration that had succeeded.
THEOREM StopSetsFree == SessionSpec => []StoppedMeansFree
  <1>1. SessionInit => SessionInv
    BY DEF SessionInit, SessionInv
  <1>2. SessionInv /\ SuspendedHasListener => StoppedMeansFree
    BY DEF SessionInv, SuspendedHasListener, StoppedMeansFree
  <1>3. QED
    BY <1>1, <1>2, SessionInvNext, SessionBlockedIsSafe, PTL DEF SessionSpec
=============================================================================
