---------------------------- MODULE DispatchProofs ----------------------------
(***************************************************************************)
(* The requests of Dispatch, for every set of processes and every pair of  *)
(* pointer widths the driver can serve, and what they make of the verdicts *)
(* of the user.                                                            *)
(***************************************************************************)
EXTENDS MonitorSessionProofs, FiniteSetTheorems

-----------------------------------------------------------------------------
(* Request sizes.                                                           *)

\* A client of any width can register its event, and its rules are taken by a
\* driver of its own width only.
THEOREM RequestsTaken ==
  /\ RegisterEventAccepted(RegisterEventSize)
  /\ RuleTaken <=> ClientPointer = DriverPointer
  BY PointerAssumption
  DEF RegisterEventAccepted, RegisterEventSize, IoIs32bitProcess, RuleTaken,
      RuleAccepted, RuleSize

\* The gray processes are finitely many, and no more than there are pids.
LEMMA GrayIsFinite ==
  ASSUME TypeOK
  PROVE  /\ IsFiniteSet(CleanProcesses)
         /\ Cardinality(CleanProcesses) \in 0 .. Cardinality(Pid)
         /\ Cardinality(Pid) \in Nat
  <1>1. CleanProcesses \subseteq Pid
    BY DEF TypeOK, CleanProcesses
  <1>2. QED
    BY <1>1, SessionAssumption, FS_Subset, FS_CardinalityType

-----------------------------------------------------------------------------
(* The invariant of Dispatch.                                               *)

\* Initially the client is idle.
LEMMA DispatchInit == SessionInit => DispatchInv
  <1> SUFFICES ASSUME SessionInit PROVE DispatchInv
    OBVIOUS
  <1>1. 0 \in 0 .. Cardinality(Pid)
    BY SessionAssumption, FS_CardinalityType
  <1>2. SessionTypeOK
    BY <1>1 DEF SessionInit, SessionTypeOK, UiState, MonitorState
  <1>3. ClientIsProcess /\ DispatchLists /\ DialogHoldsOffStop /\ DisablerIsOpen
        /\ StopIsSet /\ StopIsSeen
    BY DEF SessionInit, ClientIsProcess, DispatchLists, DialogHoldsOffStop, DisablerIsOpen,
           StopIsSet, StopIsSeen
  <1>4. RulesCount
    BY DEF SessionInit, RulesCount, SelfIsAllowed, SelfNeverJudged, VerdictsTaken
  <1>5. QED
    BY <1>2, <1>3, <1>4 DEF DispatchInv

\* What an action of the driver may do without disturbing a session: the client
\* stands still, no live process appears in the place of the client, listed
\* records keep what Dispatch has read of them, a verdict stays, and no event of
\* a client is reset.
Undisturbed ==
  /\ UNCHANGED clientVars
  /\ thread'[Self] = "absent" => thread[Self] = "absent"
  /\ Self \in m_activeProcesses' /\ thread[Self] # "absent"
       => Self \in m_activeProcesses /\ marker'[Self] = marker[Self]
  /\ \A p \in Pid : p \in m_activeProcesses /\ imageName[p]
       => p \in m_activeProcesses' /\ imageName'[p] /\ marker'[p] = marker[p]
  /\ \A e \in Event : signaled[e] => signaled'[e]

\* An undisturbed step keeps the invariant.
LEMMA UndisturbedKeeps ==
  ASSUME DispatchInv, Undisturbed
  PROVE  DispatchInv'
  <1>1. SessionTypeOK'
    BY DEF DispatchInv, Undisturbed, SessionTypeOK, clientVars
  <1>2. ClientIsProcess' /\ DialogHoldsOffStop' /\ DisablerIsOpen' /\ StopIsSet' /\ StopIsSeen'
    BY DEF DispatchInv, Undisturbed, ClientIsProcess, DialogHoldsOffStop, DisablerIsOpen,
           StopIsSet, StopIsSeen, Pumping, SessionTypeOK, clientVars
  <1>3. DispatchLists'
    BY DEF DispatchInv, Undisturbed, DispatchLists, SessionTypeOK, clientVars
  <1>4. ASSUME RulesCount PROVE RulesCount'
    <2>1. SelfIsAllowed'
      BY <1>4, SessionAssumption
      DEF DispatchInv, RulesCount, Undisturbed, ClientIsProcess, SelfIsAllowed, clientVars,
          SessionTypeOK, UiState
    <2>2. SelfNeverJudged' /\ VerdictsTaken'
      BY <1>4
      DEF DispatchInv, RulesCount, Undisturbed, DispatchLists, SelfNeverJudged,
          VerdictsTaken, SessionTypeOK, clientVars
    <2>3. QED
      BY <2>1, <2>2 DEF RulesCount
  <1>5. QED
    BY <1>1, <1>2, <1>3, <1>4 DEF DispatchInv

\* The steps of the driver that the client has no part in are such steps.
LEMMA DriverStepUndisturbed ==
  ASSUME DriverInv, NEW p \in Pid, DriverStep(p)
  PROVE  Undisturbed
  <1>t. TypeOK /\ NameStage
    BY DEF DriverInv
  <1>c. UNCHANGED clientVars
    BY DEF DriverStep
  <1> USE <1>t, <1>c, SessionAssumption
      DEF Undisturbed, TypeOK, NameStage, ThreadState, recordVars, helperVars,
          listenerVars, osVars
  <1>1. CASE OnCreateProcess(p)
    BY <1>1 DEF OnCreateProcess, Goto
  <1>2. CASE LoadImage(p)
    BY <1>2 DEF LoadImage, Goto
  <1>3. CASE LoadImageUnnamed(p)
    BY <1>3 DEF LoadImageUnnamed, Goto
  <1>4. CASE AssignImageName(p)
    BY <1>4 DEF AssignImageName, Goto
  <1>5. CASE DiscardRecord(p)
    BY <1>5 DEF DiscardRecord, NewRecord, Goto
  <1>6. CASE ArmResumeEvent(p)
    BY <1>6 DEF ArmResumeEvent, Goto
  <1>7. CASE InitResumeEvent(p)
    BY <1>7 DEF InitResumeEvent, Goto
  <1>8. CASE NotifyUser(p) \/ Resume(p) \/ WaitTimeout(p)
    BY <1>8 DEF NotifyUser, Resume, WaitTimeout, Goto
  <1>9. CASE TimeoutReset(p)
    BY <1>9 DEF TimeoutReset, Reset, ClearListener, Goto
  <1>10. CASE ApplyVerdict(p)
    BY <1>10 DEF ApplyVerdict, Goto
  <1>11. CASE RunTerminator(p)
    BY <1>11 DEF RunTerminator
  <1>12. QED
    BY <1>1, <1>2, <1>3, <1>4, <1>5, <1>6, <1>7, <1>8, <1>9, <1>10, <1>11
    DEF DriverStep, LoadStep

\* An exit is noted for the lists of Dispatch, and the exit of the client ends
\* its session.
LEMMA ExitKeeps ==
  ASSUME DispatchInv, TypeOK, \/ SelfExits
                              \/ \E p \in Pid : ProcessExits(p)
  PROVE  DispatchInv'
  <1> USE SessionAssumption
      DEF DispatchInv, TypeOK, ThreadState, SessionTypeOK, ClientIsProcess,
          SelfIsAllowed, DispatchLists, SelfNeverJudged, VerdictsTaken,
          DialogHoldsOffStop, DisablerIsOpen, StopIsSet, StopIsSeen, RulesCount, Pumping
  <1>1. CASE SelfExits
    <2>1. 0 \in 0 .. Cardinality(Pid)
      BY FS_CardinalityType
    <2>2. SessionTypeOK'
      BY <1>1, <2>1 DEF SelfExits, UiState, MonitorState
    <2>3. QED
      BY <1>1, <2>2 DEF SelfExits
  <1>2. ASSUME NEW p \in Pid, ProcessExits(p) PROVE DispatchInv'
    <2> USE <1>2 DEF ProcessExits, OnDeleteProcess, Goto, NewRecord, dispatchVars
    <2>1. SessionTypeOK'
      OBVIOUS
    <2>2. ClientIsProcess' /\ DialogHoldsOffStop' /\ DisablerIsOpen' /\ StopIsSet' /\ StopIsSeen'
      OBVIOUS
    <2>3. DispatchLists'
      OBVIOUS
    <2>4. RulesCount => RulesCount'
      OBVIOUS
    <2>5. QED
      BY <2>1, <2>2, <2>3, <2>4
  <1>3. QED
    BY <1>1, <1>2

\* The UI thread: the rule for the client itself comes before the registration.
LEMMA UiStepKeeps ==
  ASSUME DispatchInv, TypeOK, Alive, UiStep
  PROVE  DispatchInv'
  <1>r. ClientPointer = DriverPointer <=> RuleTaken
    BY RequestsTaken
  <1> USE SessionAssumption
      DEF DispatchInv, TypeOK, ThreadState, SessionTypeOK, ClientIsProcess,
          SelfIsAllowed, DispatchLists, SelfNeverJudged, VerdictsTaken,
          DialogHoldsOffStop, DisablerIsOpen, StopIsSet, StopIsSeen, RulesCount, Pumping,
          MainEnabled, Alive,
          UiGoto, MonitorGoto, UiState, MonitorState, recordVars, helperVars,
          listenerVars, osVars, dispatchVars
  <1>1. CASE StartMonitor
    <2>1. CASE RuleTaken
      BY <1>1, <2>1 DEF StartMonitor, AppendRule
    <2>2. CASE ~RuleTaken
      BY <1>1, <2>2, <1>r DEF StartMonitor, vars
    <2>3. QED
      BY <2>1, <2>2
  <1>2. CASE SelfAllowed
    BY <1>2 DEF SelfAllowed, AppendRuleResume
  <1>3. CASE ResetNotifyEvent
    BY <1>3 DEF ResetNotifyEvent, ClearUserEvent
  <1>4. CASE Register
    BY <1>4 DEF Register, RegisterEvent
  <1>5. CASE RequestStop
    BY <1>5 DEF RequestStop, SetTerminate, SignalTerminate, SetUserEvent, vars
  <1>6. CASE Join
    BY <1>6 DEF Join, vars
  <1>7. CASE ResetDriver({"resetting"}, "stopped") \/ ResetDriver({"exiting"}, "exited")
    BY <1>7 DEF ResetDriver, IoctlReset, Reset, ClearListener
  <1>8. CASE Exit
    <2>1. 0 \in 0 .. Cardinality(Pid)
      BY FS_CardinalityType
    <2>2. SessionTypeOK'
      BY <1>8, <2>1 DEF Exit
    <2>3. QED
      BY <1>8, <2>2 DEF Exit, vars
  <1>9. QED
    BY <1>1, <1>2, <1>3, <1>4, <1>5, <1>6, <1>7, <1>8 DEF UiStep

\* The monitoring thread: what it lists is gray and named, and each rule reaches
\* the record it is for.
LEMMA MonitorStepKeeps ==
  ASSUME DispatchInv, TypeOK, Alive, MonitorStep
  PROVE  DispatchInv'
  <1>r. ClientPointer = DriverPointer <=> RuleTaken
    BY RequestsTaken
  <1>n. 0 \in 0 .. Cardinality(Pid)
    BY SessionAssumption, FS_CardinalityType
  <1> USE SessionAssumption
      DEF DispatchInv, TypeOK, ThreadState, SessionTypeOK, ClientIsProcess,
          SelfIsAllowed, DispatchLists, SelfNeverJudged, VerdictsTaken,
          DialogHoldsOffStop, DisablerIsOpen, StopIsSet, StopIsSeen, RulesCount, Pumping,
          MainEnabled, Alive,
          MonitorGoto, UiState, MonitorState, recordVars, helperVars,
          listenerVars, osVars, dispatchVars
  <1>1. CASE Wake
    BY <1>1 DEF Wake, vars
  <1>2. CASE CountGray
    <2>1. dispatchCount' \in 0 .. Cardinality(Pid)
      BY <1>2, GrayIsFinite DEF CountGray
    <2>2. QED
      BY <1>2, <2>1 DEF CountGray, vars
  <1>3. CASE ClearNotifyEvent
    BY <1>3 DEF ClearNotifyEvent, ClearUserEvent
  <1>4. CASE ListGray
    <2>1. checkList' \subseteq {p \in CleanProcesses : imageName[p]}
      BY <1>4 DEF ListGray, QueryProcesses
    <2>2. SelfIsAllowed => Self \notin checkList'
      BY <1>4, <2>1 DEF ListGray, CleanProcesses
    <2>3. SessionTypeOK'
      BY <1>4, <2>1, <1>n DEF ListGray, CleanProcesses
    <2>4. DispatchLists'
      BY <1>4, <2>1 DEF ListGray, CleanProcesses, vars
    <2>5. QED
      BY <1>4, <2>2, <2>3, <2>4 DEF ListGray, vars
  <1>5. CASE OpenDialog \/ AskUser \/ AskUserUnattended
    BY <1>5 DEF OpenDialog, CloseDialog, AskUser, AskUserUnattended, vars
  <1>6. CASE AskUserFails
    BY <1>6 DEF AskUserFails, vars
  <1>7. ASSUME NEW p \in Pid, SendRule(p) PROVE DispatchInv'
    <2>1. CASE RuleTaken
      <3>1. AppendRule(p, p \in deny)
        BY <1>7, <2>1 DEF SendRule
      <3>2. RulesCount => VerdictsTaken'
        BY <1>7, <3>1 DEF SendRule, AppendRule
      <3>3. QED
        BY <1>7, <2>1, <1>r, <3>1, <3>2 DEF SendRule, AppendRule
    <2>2. CASE ~RuleTaken
      BY <1>7, <2>2, <1>r DEF SendRule, vars
    <2>3. QED
      BY <2>1, <2>2
  <1>8. CASE RuleSent
    BY <1>8 DEF RuleSent, AppendRuleResume, clientVars
  <1>9. CASE TerminateDenied
    BY <1>9 DEF TerminateDenied, TerminateBlackMarked
  <1>10. CASE TestTerminate
    BY <1>10 DEF TestTerminate, vars
  <1>11. QED
    BY <1>1, <1>2, <1>3, <1>4, <1>5, <1>6, <1>7, <1>8, <1>9, <1>10
    DEF MonitorStep, MonitorProgress

\* The About box comes and goes while the UI thread pumps.
LEMMA AboutBoxKeeps ==
  ASSUME DispatchInv, Alive, AboutBox
  PROVE  DispatchInv'
  <1> USE DEF AboutBox, OnSysCommand, CloseAbout, vars, dispatchVars
  <1>1. SessionTypeOK'
    BY DEF DispatchInv, SessionTypeOK
  <1>2. ClientIsProcess' /\ DispatchLists' /\ StopIsSet' /\ StopIsSeen'
    BY DEF DispatchInv, ClientIsProcess, DispatchLists, StopIsSet, StopIsSeen
  <1>3. DialogHoldsOffStop' /\ DisablerIsOpen'
    BY DEF DispatchInv, DialogHoldsOffStop, DisablerIsOpen, Pumping
  <1>4. RulesCount => RulesCount'
    BY DEF RulesCount, SelfIsAllowed, SelfNeverJudged, VerdictsTaken
  <1>5. QED
    BY <1>1, <1>2, <1>3, <1>4 DEF DispatchInv

\* Every session keeps the invariant, whatever the widths of the two sides.
THEOREM DispatchInvariant == SessionSpec => []DispatchInv
  <1>1. DispatchInv /\ DriverInv /\ [SessionNext]_allVars => DispatchInv'
    <2> SUFFICES ASSUME DispatchInv, DriverInv, [SessionNext]_allVars
                 PROVE  DispatchInv'
      OBVIOUS
    <2>t. TypeOK
      BY DEF DriverInv
    <2>1. CASE UNCHANGED allVars
      <3>1. Undisturbed
        BY <2>1 DEF allVars, vars, Undisturbed
      <3>2. QED
        BY <3>1, UndisturbedKeeps
    <2>2. CASE Alive /\ (UiStep \/ MonitorStep \/ AboutBox)
      BY <2>2, <2>t, UiStepKeeps, MonitorStepKeeps, AboutBoxKeeps
    <2>3. CASE SystemStep
      BY <2>3, <2>t, DriverStepUndisturbed, UndisturbedKeeps, ExitKeeps DEF SystemStep
    <2>4. QED
      BY <2>1, <2>2, <2>3 DEF SessionNext
  <1>2. QED
    BY <1>1, DispatchInit, SessionImplementsDriver, DriverInvariant, PTL
    DEF SessionSpec

\* The client keeps its types, its lists are empty outside Dispatch.
THEOREM SessionTypeCorrect == SessionSpec => []SessionTypeOK
  <1>1. DispatchInv => SessionTypeOK
    BY DEF DispatchInv
  <1>2. QED
    BY <1>1, DispatchInvariant, PTL

\* However often it is started, and whatever an earlier run left behind, the
\* client never puts itself up for a verdict.
THEOREM ClientNeverJudgesItself ==
  ASSUME ClientPointer = DriverPointer
  PROVE  SessionSpec => []SelfNeverJudged
  <1>1. DispatchInv => SelfNeverJudged
    BY DEF DispatchInv, RulesCount
  <1>2. QED
    BY <1>1, DispatchInvariant, PTL

\* No stop is clicked under a dialog that has disabled the main window, whatever the
\* order of clicks, dialogs and About boxes.
THEOREM StopIsHeldOff == SessionSpec => []DialogHoldsOffStop
  <1>1. DispatchInv => DialogHoldsOffStop
    BY DEF DispatchInv
  <1>2. QED
    BY <1>1, DispatchInvariant, PTL

\* A stop is never overlooked by the thread it waits for, whichever step of the
\* monitoring thread the flag and the event come between.
THEOREM StopIsNoticed == SessionSpec => []StopIsSeen
  <1>1. DispatchInv => StopIsSeen
    BY DEF DispatchInv
  <1>2. QED
    BY <1>1, DispatchInvariant, PTL

\* Every verdict whose process is still there is on record in the driver.
THEOREM VerdictsReachDriver ==
  ASSUME ClientPointer = DriverPointer
  PROVE  SessionSpec => []VerdictsTaken
  <1>1. DispatchInv => VerdictsTaken
    BY DEF DispatchInv, RulesCount
  <1>2. QED
    BY <1>1, DispatchInvariant, PTL

\* No process that was denied slips through the end of Dispatch, however the rules
\* met it: before, at, in or after the gate.
THEOREM DeniedDoNotSlip ==
  ASSUME ClientPointer = DriverPointer
  PROVE  SessionSpec => DeniedAreCaught
  <1>1. ASSUME DispatchInv, TypeOK, SuspendedIsAtGate, TerminateDenied,
               "thread" \notin Faults, NEW p \in deny \ gone
        PROVE  terminators'[p] > 0 \/ thread[p] \in AtGate
    <2>1. p \in Pid /\ p \in m_activeProcesses /\ marker[p] = "Disallowed"
      BY <1>1
      DEF DispatchInv, SessionTypeOK, DispatchLists, RulesCount, VerdictsTaken,
          TerminateDenied, MonitorGoto
    <2>2. CASE IsSuspended(p)
      BY <1>1, <2>1, <2>2 DEF SuspendedIsAtGate
    <2>3. CASE ~IsSuspended(p)
      <3>1. terminators'[p] = terminators[p] + 1
        BY <1>1, <2>1, <2>3 DEF TerminateDenied, TerminateBlackMarked
      <3>2. terminators[p] \in Nat
        BY <1>1, <2>1, ConstantsAssumption DEF TypeOK
      <3>3. QED
        BY <3>1, <3>2
    <2>4. QED
      BY <2>2, <2>3
  <1>2. DispatchInv /\ TypeOK /\ SuspendedIsAtGate
          => [TerminateDenied /\ "thread" \notin Faults =>
                \A p \in deny \ gone : terminators'[p] > 0 \/ thread[p] \in AtGate]_allVars
    BY <1>1
  <1>3. QED
    BY <1>2, DispatchInvariant, SessionImplementsDriver, TypeCorrect, SuspendedAreAtGate, PTL
    DEF SessionSpec, DeniedAreCaught

-----------------------------------------------------------------------------
(* A client of another width.                                               *)

\* The driver is not told of any verdict: the size check refuses every rule, and
\* Allow and Block go on without one. Nobody is judged, the client itself no
\* more than others, and every blocked process waits for a stop or its timeout.
THEOREM OtherWidthDecidesNothing ==
  ASSUME ClientPointer # DriverPointer
  PROVE  SessionSpec => [](\A p \in Pid : marker[p] = "Clean")
  <1> DEFINE Undecided == \A p \in Pid : marker[p] = "Clean"
  <1>1. SessionInit => Undecided
    BY DEF SessionInit, Init
  <1>2. ~RuleTaken
    BY RequestsTaken
  <1>3. ASSUME TypeOK, Undecided, marker' = marker \/ \E p \in Pid : NewRecord(p)
        PROVE  Undecided'
    BY <1>3 DEF TypeOK, NewRecord
  <1>4. UiStep \/ MonitorStep \/ AboutBox => marker' = marker
    BY <1>2
    DEF UiStep, StartMonitor, SelfAllowed, ResetNotifyEvent, Register, RequestStop,
        SetTerminate, SignalTerminate, Join, ResetDriver, Exit,
        MonitorStep, MonitorProgress, Wake, CountGray, ClearNotifyEvent, ListGray,
        OpenDialog, CloseDialog, AskUser, AskUserUnattended, AskUserFails, SendRule,
        RuleSent, TerminateDenied, TestTerminate, AboutBox, OnSysCommand, CloseAbout,
        AppendRuleResume, ClearUserEvent, RegisterEvent, SetUserEvent, IoctlReset, Reset,
        TerminateBlackMarked, vars, helperVars, recordVars
  <1>5. SystemStep => marker' = marker \/ \E p \in Pid : NewRecord(p)
    BY SessionAssumption
    DEF SystemStep, DriverStep, ProcessExits, SelfExits, OnCreateProcess, LoadImage,
        LoadImageUnnamed, LoadStep, AssignImageName, DiscardRecord, ArmResumeEvent,
        InitResumeEvent, NotifyUser, Resume, WaitTimeout, TimeoutReset, Reset,
        ApplyVerdict, OnDeleteProcess, RunTerminator, helperVars, recordVars
  <1>6. TypeOK /\ Undecided /\ [SessionNext]_allVars => Undecided'
    BY <1>3, <1>4, <1>5 DEF SessionNext, allVars, vars
  <1>7. QED
    BY <1>1, <1>6, SessionImplementsDriver, TypeCorrect, PTL DEF SessionSpec
=============================================================================
