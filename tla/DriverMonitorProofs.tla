------------------------- MODULE DriverMonitorProofs -------------------------
(***************************************************************************)
(* Theorems about DriverMonitor for every set of pids and events, every    *)
(* set of faults and every bound.                                          *)
(***************************************************************************)
EXTENDS DriverMonitor, TLAPS

-----------------------------------------------------------------------------
(* Type correctness.                                                        *)

\* The initial states are of the type.
LEMMA TypeInit == Init => TypeOK
  <1> SUFFICES ASSUME Init PROVE TypeOK
    OBVIOUS
  <1>1. /\ thread \in [Pid -> ThreadState]
        /\ imageName \in [Pid -> BOOLEAN]
        /\ m_activeProcesses \in SUBSET Pid
    BY DEF Init, ThreadState
  <1>2. /\ marker \in [Pid -> ProcessMarker]
        /\ resumeEvent \in [Pid -> ResumeState]
    BY DEF Init, ProcessMarker, ResumeState
  <1>3. /\ terminators \in [Pid -> 0 .. MaxTerminators]
        /\ starts \in 0 .. MaxStarts
    BY ConstantsAssumption DEF Init
  <1>4. /\ signaled \in [Event -> BOOLEAN]
        /\ rules \in SUBSET m_activeProcesses
        /\ doomed \in SUBSET Pid
        /\ m_userNotifyEvent \in Event \cup {NoEvent}
        /\ m_userModeEvent \in BOOLEAN
    BY DEF Init
  <1>5. QED
    BY <1>1, <1>2, <1>3, <1>4 DEF TypeOK

\* Every step keeps the type.
LEMMA TypeNext == TypeOK /\ [Next]_vars => TypeOK'
  <1> SUFFICES ASSUME TypeOK, [Next]_vars PROVE TypeOK'
    OBVIOUS
  <1> USE DEF TypeOK, recordVars, helperVars, listenerVars, osVars
  <1>0. CASE UNCHANGED vars
    BY <1>0 DEF vars
  <1>1. ASSUME NEW p \in Pid, OnCreateProcess(p) PROVE TypeOK'
    BY <1>1, ConstantsAssumption
    DEF OnCreateProcess, Goto, ThreadState, ListFree
  <1>2. ASSUME NEW p \in Pid, LoadImage(p) PROVE TypeOK'
    BY <1>2
    DEF LoadImage, Goto, ThreadState
  <1>3. ASSUME NEW p \in Pid, LoadImageUnnamed(p) PROVE TypeOK'
    BY <1>3
    DEF LoadImageUnnamed, Goto, ThreadState
  <1>4. ASSUME NEW p \in Pid, AssignImageName(p) PROVE TypeOK'
    BY <1>4
    DEF AssignImageName, Goto, ThreadState
  <1>5. ASSUME NEW p \in Pid, DiscardRecord(p) PROVE TypeOK'
    BY <1>5
    DEF DiscardRecord, Goto, ListFree, NewRecord,
       ThreadState, ResumeState, ProcessMarker
  <1>6. ASSUME NEW p \in Pid, ArmResumeEvent(p) PROVE TypeOK'
    BY <1>6
    DEF ArmResumeEvent, Goto, ThreadState, ResumeState
  <1>7. ASSUME NEW p \in Pid, InitResumeEvent(p) PROVE TypeOK'
    BY <1>7
    DEF InitResumeEvent, Goto, ThreadState, ResumeState
  <1>8. ASSUME NEW p \in Pid, NotifyUser(p) PROVE TypeOK'
    BY <1>8
    DEF NotifyUser, Goto, ThreadState
  <1>9. ASSUME NEW p \in Pid, Resume(p) PROVE TypeOK'
    BY <1>9
    DEF Resume, Goto, ThreadState
  <1>10. ASSUME NEW p \in Pid, WaitTimeout(p) PROVE TypeOK'
    BY <1>10
    DEF WaitTimeout, Goto, ThreadState
  <1>11. ASSUME NEW p \in Pid, TimeoutReset(p) PROVE TypeOK'
    BY <1>11
    DEF TimeoutReset, Goto, Reset, ClearListener, Signal,
       ThreadState, ResumeState
  <1>12. ASSUME NEW p \in Pid, ApplyVerdict(p) PROVE TypeOK'
    BY <1>12, ConstantsAssumption
    DEF ApplyVerdict, Goto, ThreadState
  <1>13. ASSUME NEW p \in Pid, OnDeleteProcess(p) PROVE TypeOK'
    BY <1>13
    DEF OnDeleteProcess, Goto, ListFree, NewRecord,
       ThreadState, ResumeState, ProcessMarker
  <1>14. ASSUME NEW p \in Pid, RunTerminator(p) PROVE TypeOK'
    BY <1>14, ConstantsAssumption
    DEF RunTerminator
  <1>15. ASSUME IoctlReset PROVE TypeOK'
    BY <1>15
    DEF IoctlReset, Reset, ClearListener, Signal, ResumeState
  <1>16. ASSUME NEW e \in Event \cup {NoEvent}, RegisterEvent(e) PROVE TypeOK'
    BY <1>16, ConstantsAssumption
    DEF RegisterEvent
  <1>17. ASSUME NEW p \in Pid, NEW black \in BOOLEAN, AppendRule(p, black) PROVE TypeOK'
    BY <1>17
    DEF AppendRule, ProcessMarker
  <1>18. ASSUME NEW p \in Pid, AppendRuleResume(p) PROVE TypeOK'
    BY <1>18
    DEF AppendRuleResume, Signal, ResumeState
  <1>19. ASSUME TerminateBlackMarked PROVE TypeOK'
    BY <1>19, ConstantsAssumption
    DEF TerminateBlackMarked, Signal, ResumeState
  <1>20. ASSUME NEW e \in Event, SetUserEvent(e) PROVE TypeOK'
    BY <1>20
    DEF SetUserEvent
  <1>21. ASSUME NEW e \in Event, ClearUserEvent(e) PROVE TypeOK'
    BY <1>21
    DEF ClearUserEvent
  <1>22. QED
    BY <1>0, <1>1, <1>2, <1>3, <1>4, <1>5, <1>6, <1>7, <1>8, <1>9, <1>10,
       <1>11, <1>12, <1>13, <1>14, <1>15, <1>16, <1>17, <1>18, <1>19, <1>20, <1>21
    DEF Next, Request, ProcessStep, LoadStep

\* Every reachable state has the type.
THEOREM TypeCorrect == Spec => []TypeOK
  <1>1. QED
    BY TypeInit, TypeNext, PTL DEF Spec

-----------------------------------------------------------------------------
(* The gate: DriverInv is inductive.                                        *)

\* Initially no thread is in the callback and no event exists.
LEMMA InvInit == Init => DriverInv
  <1> SUFFICES ASSUME Init PROVE DriverInv
    OBVIOUS
  <1>1. TypeOK
    BY TypeInit
  <1>2. ASSUME NEW p \in Pid
        PROVE  /\ thread[p] \in {"absent", "created", "running"}
               /\ resumeEvent[p] = "null"
    BY DEF Init
  <1>3. CallbackIsListed
    BY <1>2 DEF CallbackIsListed, InCallback
  <1>4. NameStage /\ NamedAtGate
    BY <1>2 DEF NameStage, NamedAtGate
  <1>5. EventStage
    BY <1>2 DEF EventStage
  <1>6. GateHasListener
    BY <1>2 DEF GateHasListener, InGate
  <1>7. SuspendedHasListener
    BY <1>2 DEF SuspendedHasListener, Suspended
  <1>8. QED
    BY <1>1, <1>3, <1>4, <1>5, <1>6, <1>7 DEF DriverInv, GateIsSound

\* One step per action. A step without substeps moves no thread into the
\* callback, changes no resume event and leaves the listener alone.
LEMMA GateNext == TypeOK /\ GateIsSound /\ [Next]_vars => GateIsSound'
  <1> SUFFICES ASSUME TypeOK, GateIsSound, [Next]_vars PROVE GateIsSound'
    OBVIOUS
  <1>t. TypeOK /\ TypeOK' /\ GateIsSound
    BY TypeNext
  <1> USE DEF GateIsSound, TypeOK, ThreadState, ResumeState, InCallback, InGate, Suspended,
              CallbackIsListed, NamedAtGate, EventStage, GateHasListener,
              SuspendedHasListener, recordVars, helperVars, listenerVars, osVars
  <1>0. ASSUME UNCHANGED vars PROVE GateIsSound'
    BY <1>0, <1>t DEF vars
  <1>1. ASSUME NEW p \in Pid, OnCreateProcess(p) PROVE GateIsSound'
    BY <1>1, <1>t DEF OnCreateProcess, Goto
  <1>2. ASSUME NEW p \in Pid, LoadImage(p) PROVE GateIsSound'
    BY <1>2, <1>t DEF LoadImage, Goto
  <1>3. ASSUME NEW p \in Pid, LoadImageUnnamed(p) PROVE GateIsSound'
    BY <1>3, <1>t DEF LoadImageUnnamed, Goto
  <1>4. ASSUME NEW p \in Pid, AssignImageName(p) PROVE GateIsSound'
    <2>1. CallbackIsListed'
      BY <1>4, <1>t DEF AssignImageName, Goto
    <2>2. NamedAtGate'
      BY <1>4, <1>t DEF AssignImageName, Goto
    <2>3. EventStage'
      BY <1>4, <1>t DEF AssignImageName, Goto
    <2>4. GateHasListener'
      BY <1>4, <1>t DEF AssignImageName, Goto
    <2>5. SuspendedHasListener'
      BY <1>4, <1>t DEF AssignImageName, Goto
    <2>6. QED
      BY <2>1, <2>2, <2>3, <2>4, <2>5
  <1>5. ASSUME NEW p \in Pid, DiscardRecord(p) PROVE GateIsSound'
    <2>1. CallbackIsListed'
      BY <1>5, <1>t DEF DiscardRecord, Goto, NewRecord
    <2>2. NamedAtGate'
      BY <1>5, <1>t DEF DiscardRecord, Goto, NewRecord
    <2>3. EventStage'
      BY <1>5, <1>t DEF DiscardRecord, Goto, NewRecord
    <2>4. GateHasListener'
      BY <1>5, <1>t DEF DiscardRecord, Goto, NewRecord
    <2>5. SuspendedHasListener'
      BY <1>5, <1>t DEF DiscardRecord, Goto, NewRecord
    <2>6. QED
      BY <2>1, <2>2, <2>3, <2>4, <2>5
  <1>6. ASSUME NEW p \in Pid, ArmResumeEvent(p) PROVE GateIsSound'
    <2>1. CallbackIsListed'
      BY <1>6, <1>t DEF ArmResumeEvent, Goto
    <2>2. NamedAtGate'
      BY <1>6, <1>t DEF ArmResumeEvent, Goto
    <2>3. EventStage'
      BY <1>6, <1>t DEF ArmResumeEvent, Goto
    <2>4. GateHasListener'
      BY <1>6, <1>t DEF ArmResumeEvent, Goto
    <2>5. SuspendedHasListener'
      BY <1>6, <1>t DEF ArmResumeEvent, Goto
    <2>6. QED
      BY <2>1, <2>2, <2>3, <2>4, <2>5
  <1>7. ASSUME NEW p \in Pid, InitResumeEvent(p) PROVE GateIsSound'
    <2>1. CallbackIsListed'
      BY <1>7, <1>t DEF InitResumeEvent, Goto
    <2>2. NamedAtGate'
      BY <1>7, <1>t DEF InitResumeEvent, Goto
    <2>3. EventStage'
      BY <1>7, <1>t DEF InitResumeEvent, Goto
    <2>4. GateHasListener'
      BY <1>7, <1>t DEF InitResumeEvent, Goto
    <2>5. SuspendedHasListener'
      BY <1>7, <1>t DEF InitResumeEvent, Goto
    <2>6. QED
      BY <2>1, <2>2, <2>3, <2>4, <2>5
  <1>8. ASSUME NEW p \in Pid, NotifyUser(p) PROVE GateIsSound'
    <2>1. CallbackIsListed'
      BY <1>8, <1>t DEF NotifyUser, Goto
    <2>2. NamedAtGate'
      BY <1>8, <1>t DEF NotifyUser, Goto
    <2>3. EventStage'
      BY <1>8, <1>t DEF NotifyUser, Goto
    <2>4. GateHasListener'
      BY <1>8, <1>t DEF NotifyUser, Goto
    <2>5. SuspendedHasListener'
      BY <1>8, <1>t DEF NotifyUser, Goto
    <2>6. QED
      BY <2>1, <2>2, <2>3, <2>4, <2>5
  <1>9. ASSUME NEW p \in Pid, Resume(p) PROVE GateIsSound'
    BY <1>9, <1>t DEF Resume, Goto
  <1>10. ASSUME NEW p \in Pid, WaitTimeout(p) PROVE GateIsSound'
    BY <1>10, <1>t DEF WaitTimeout, Goto
  <1>11. ASSUME NEW p \in Pid, TimeoutReset(p) PROVE GateIsSound'
    <2>1. CallbackIsListed'
      BY <1>11, <1>t
      DEF TimeoutReset, Goto, Reset, ClearListener, MLockFree, Signal, IsSuspended
    <2>2. NamedAtGate'
      BY <1>11, <1>t
      DEF TimeoutReset, Goto, Reset, ClearListener, MLockFree, Signal, IsSuspended
    <2>3. EventStage'
      BY <1>11, <1>t
      DEF TimeoutReset, Goto, Reset, ClearListener, MLockFree, Signal, IsSuspended
    <2>4. GateHasListener'
      BY <1>11, <1>t
      DEF TimeoutReset, Goto, Reset, ClearListener, MLockFree, Signal, IsSuspended
    <2>5. SuspendedHasListener'
      BY <1>11, <1>t
      DEF TimeoutReset, Goto, Reset, ClearListener, MLockFree, Signal, IsSuspended
    <2>6. QED
      BY <2>1, <2>2, <2>3, <2>4, <2>5
  <1>12. ASSUME NEW p \in Pid, ApplyVerdict(p) PROVE GateIsSound'
    BY <1>12, <1>t DEF ApplyVerdict, Goto
  <1>13. ASSUME NEW p \in Pid, OnDeleteProcess(p) PROVE GateIsSound'
    <2>1. CallbackIsListed'
      BY <1>13, <1>t DEF OnDeleteProcess, Goto, NewRecord
    <2>2. NamedAtGate'
      BY <1>13, <1>t DEF OnDeleteProcess, Goto, NewRecord
    <2>3. EventStage'
      BY <1>13, <1>t DEF OnDeleteProcess, Goto, NewRecord
    <2>4. GateHasListener'
      BY <1>13, <1>t DEF OnDeleteProcess, Goto, NewRecord
    <2>5. SuspendedHasListener'
      BY <1>13, <1>t DEF OnDeleteProcess, Goto, NewRecord
    <2>6. QED
      BY <2>1, <2>2, <2>3, <2>4, <2>5
  <1>14. ASSUME NEW p \in Pid, RunTerminator(p) PROVE GateIsSound'
    BY <1>14, <1>t DEF RunTerminator
  <1>15. ASSUME IoctlReset PROVE GateIsSound'
    <2>1. CallbackIsListed'
      BY <1>15, <1>t
      DEF IoctlReset, Reset, ClearListener, MLockFree, Signal, IsSuspended
    <2>2. NamedAtGate'
      BY <1>15, <1>t
      DEF IoctlReset, Reset, ClearListener, MLockFree, Signal, IsSuspended
    <2>3. EventStage'
      BY <1>15, <1>t
      DEF IoctlReset, Reset, ClearListener, MLockFree, Signal, IsSuspended
    <2>4. GateHasListener'
      BY <1>15, <1>t
      DEF IoctlReset, Reset, ClearListener, MLockFree, Signal, IsSuspended
    <2>5. SuspendedHasListener'
      BY <1>15, <1>t
      DEF IoctlReset, Reset, ClearListener, MLockFree, Signal, IsSuspended
    <2>6. QED
      BY <2>1, <2>2, <2>3, <2>4, <2>5
  <1>16. ASSUME NEW e \in Event \cup {NoEvent}, RegisterEvent(e) PROVE GateIsSound'
    <2>1. CallbackIsListed'
      BY <1>16, <1>t DEF RegisterEvent, MLockFree
    <2>2. NamedAtGate'
      BY <1>16, <1>t DEF RegisterEvent, MLockFree
    <2>3. EventStage'
      BY <1>16, <1>t DEF RegisterEvent, MLockFree
    <2>4. GateHasListener'
      BY <1>16, <1>t DEF RegisterEvent, MLockFree
    <2>5. SuspendedHasListener'
      BY <1>16, <1>t DEF RegisterEvent, MLockFree
    <2>6. QED
      BY <2>1, <2>2, <2>3, <2>4, <2>5
  <1>17. ASSUME NEW p \in Pid, NEW black \in BOOLEAN, AppendRule(p, black) PROVE GateIsSound'
    BY <1>17, <1>t DEF AppendRule
  <1>18. ASSUME NEW p \in Pid, AppendRuleResume(p) PROVE GateIsSound'
    <2>1. CallbackIsListed'
      BY <1>18, <1>t DEF AppendRuleResume, Signal, IsSuspended
    <2>2. NamedAtGate'
      BY <1>18, <1>t DEF AppendRuleResume, Signal, IsSuspended
    <2>3. EventStage'
      BY <1>18, <1>t DEF AppendRuleResume, Signal, IsSuspended
    <2>4. GateHasListener'
      BY <1>18, <1>t DEF AppendRuleResume, Signal, IsSuspended
    <2>5. SuspendedHasListener'
      BY <1>18, <1>t DEF AppendRuleResume, Signal, IsSuspended
    <2>6. QED
      BY <2>1, <2>2, <2>3, <2>4, <2>5
  <1>19. ASSUME TerminateBlackMarked PROVE GateIsSound'
    <2>1. CallbackIsListed'
      BY <1>19, <1>t DEF TerminateBlackMarked, Signal, IsSuspended
    <2>2. NamedAtGate'
      BY <1>19, <1>t DEF TerminateBlackMarked, Signal, IsSuspended
    <2>3. EventStage'
      BY <1>19, <1>t DEF TerminateBlackMarked, Signal, IsSuspended
    <2>4. GateHasListener'
      BY <1>19, <1>t DEF TerminateBlackMarked, Signal, IsSuspended
    <2>5. SuspendedHasListener'
      BY <1>19, <1>t DEF TerminateBlackMarked, Signal, IsSuspended
    <2>6. QED
      BY <2>1, <2>2, <2>3, <2>4, <2>5
  <1>20. ASSUME NEW e \in Event, SetUserEvent(e) PROVE GateIsSound'
    BY <1>20, <1>t DEF SetUserEvent
  <1>21. ASSUME NEW e \in Event, ClearUserEvent(e) PROVE GateIsSound'
    BY <1>21, <1>t DEF ClearUserEvent
  <1> HIDE DEF GateIsSound, TypeOK, ThreadState, ResumeState, InCallback, InGate, Suspended,
              CallbackIsListed, NamedAtGate, EventStage, GateHasListener,
              SuspendedHasListener, recordVars, helperVars, listenerVars, osVars
  <1>22. QED
    BY <1>0, <1>1, <1>2, <1>3, <1>4, <1>5, <1>6, <1>7, <1>8, <1>9, <1>10,
       <1>11, <1>12, <1>13, <1>14, <1>15, <1>16, <1>17, <1>18, <1>19, <1>20, <1>21
    DEF Next, Request, ProcessStep, LoadStep

\* Only its own thread stores the name of a record.
LEMMA NameNext == TypeOK /\ NameStage /\ [Next]_vars => NameStage'
  <1> SUFFICES ASSUME TypeOK, NameStage, [Next]_vars PROVE NameStage'
    OBVIOUS
  <1> USE DEF TypeOK, ThreadState, NameStage
  <1>1. CASE UNCHANGED <<thread, imageName>>
    BY <1>1
  <1>2. ASSUME NEW p \in Pid,
               NEW state \in ThreadState \ {"naming", "discard"},
               thread' = [thread EXCEPT ![p] = state],
               \A q \in Pid \ {p} : imageName'[q] = imageName[q]
        PROVE  NameStage'
    BY <1>2
  <1>3. ASSUME NEW p \in Pid, OnCreateProcess(p) \/ LoadImageUnnamed(p) \/ DiscardRecord(p)
                              \/ ArmResumeEvent(p) \/ InitResumeEvent(p) \/ NotifyUser(p)
        PROVE  NameStage'
    BY <1>2, <1>3
    DEF OnCreateProcess, LoadImageUnnamed, DiscardRecord, ArmResumeEvent, InitResumeEvent,
        NotifyUser, Goto, NewRecord, recordVars, helperVars
  <1>4. ASSUME NEW p \in Pid, Resume(p) \/ WaitTimeout(p) \/ TimeoutReset(p)
                              \/ ApplyVerdict(p) \/ OnDeleteProcess(p)
        PROVE  NameStage'
    BY <1>2, <1>4
    DEF Resume, WaitTimeout, TimeoutReset, Reset, ApplyVerdict, OnDeleteProcess, Goto,
        NewRecord, recordVars, helperVars
  <1>5. ASSUME NEW p \in Pid, LoadImage(p) PROVE NameStage'
    BY <1>5 DEF LoadImage, Goto, recordVars, helperVars
  <1>6. ASSUME NEW p \in Pid, AssignImageName(p) PROVE NameStage'
    BY <1>6 DEF AssignImageName, Goto
  <1>7. ASSUME Request \/ (\E p \in Pid : RunTerminator(p)) \/ UNCHANGED vars
        PROVE  UNCHANGED <<thread, imageName>>
    BY <1>7
    DEF Request, IoctlReset, Reset, RegisterEvent, AppendRule, AppendRuleResume,
        TerminateBlackMarked, SetUserEvent, ClearUserEvent, RunTerminator, vars,
        recordVars, helperVars
  <1>8. QED
    BY <1>1, <1>3, <1>4, <1>5, <1>6, <1>7 DEF Next, ProcessStep, LoadStep

\* DriverInv is inductive.
LEMMA InvNext == DriverInv /\ [Next]_vars => DriverInv'
  BY TypeNext, GateNext, NameNext DEF DriverInv

\* Every reachable state satisfies the inductive invariant.
THEOREM DriverInvariant == Spec => []DriverInv
  <1>1. QED
    BY InvInit, InvNext, PTL DEF Spec

\* Who waits is in the callback.
LEMMA SoundIsListed == GateIsSound => SuspendedIsListed
  BY DEF GateIsSound, CallbackIsListed, InCallback, ThreadState, SuspendedIsListed, Suspended

\* A process blocked at the gate has a record, so a verdict or a Reset finds it.
THEOREM BlockedIsListed == Spec => []SuspendedIsListed
  <1>1. DriverInv => SuspendedIsListed
    BY SoundIsListed DEF DriverInv
  <1>2. QED
    BY <1>1, DriverInvariant, PTL

\* A process is blocked only while a listener is registered (or the last
\* registration failed): Reset and the gate exclude each other by m_lock.
THEOREM BlockedHasListener == Spec => []SuspendedHasListener
  <1>1. DriverInv => SuspendedHasListener
    BY DEF DriverInv, GateIsSound
  <1>2. QED
    BY <1>1, DriverInvariant, PTL

-----------------------------------------------------------------------------
(* The life of a resume event.                                              *)

\* No step turns the event of a live record back.
LEMMA EventStep == TypeOK /\ GateIsSound /\ [Next]_vars => EventMovesOn
  <1> SUFFICES ASSUME TypeOK, GateIsSound, [Next]_vars PROVE EventMovesOn
    OBVIOUS
  <1>t. TypeOK /\ EventStage
    BY DEF GateIsSound
  <1> USE DEF TypeOK, ThreadState, ResumeState, EventStage, ResumeRank,
              EventMovesOn, recordVars, helperVars, listenerVars, osVars
  <1>0. ASSUME UNCHANGED vars PROVE EventMovesOn
    BY <1>0, <1>t DEF vars
  <1>1. ASSUME NEW p \in Pid, OnCreateProcess(p) PROVE EventMovesOn
    BY <1>1, <1>t DEF OnCreateProcess, Goto
  <1>2. ASSUME NEW p \in Pid, LoadImage(p) PROVE EventMovesOn
    BY <1>2, <1>t DEF LoadImage, Goto
  <1>3. ASSUME NEW p \in Pid, LoadImageUnnamed(p) PROVE EventMovesOn
    BY <1>3, <1>t DEF LoadImageUnnamed, Goto
  <1>4. ASSUME NEW p \in Pid, AssignImageName(p) PROVE EventMovesOn
    BY <1>4, <1>t DEF AssignImageName, Goto
  <1>5. ASSUME NEW p \in Pid, DiscardRecord(p) PROVE EventMovesOn
    BY <1>5, <1>t DEF DiscardRecord, Goto, NewRecord
  <1>6. ASSUME NEW p \in Pid, ArmResumeEvent(p) PROVE EventMovesOn
    BY <1>6, <1>t DEF ArmResumeEvent, Goto
  <1>7. ASSUME NEW p \in Pid, InitResumeEvent(p) PROVE EventMovesOn
    BY <1>7, <1>t DEF InitResumeEvent, Goto
  <1>8. ASSUME NEW p \in Pid, NotifyUser(p) PROVE EventMovesOn
    BY <1>8, <1>t DEF NotifyUser, Goto
  <1>9. ASSUME NEW p \in Pid, Resume(p) PROVE EventMovesOn
    BY <1>9, <1>t DEF Resume, Goto
  <1>10. ASSUME NEW p \in Pid, WaitTimeout(p) PROVE EventMovesOn
    BY <1>10, <1>t DEF WaitTimeout, Goto
  <1>11. ASSUME NEW p \in Pid, TimeoutReset(p) PROVE EventMovesOn
    BY <1>11, <1>t DEF TimeoutReset, Goto, Reset, Signal, IsSuspended
  <1>12. ASSUME NEW p \in Pid, ApplyVerdict(p) PROVE EventMovesOn
    BY <1>12, <1>t DEF ApplyVerdict, Goto
  <1>13. ASSUME NEW p \in Pid, OnDeleteProcess(p) PROVE EventMovesOn
    BY <1>13, <1>t DEF OnDeleteProcess, Goto, NewRecord
  <1>14. ASSUME NEW p \in Pid, RunTerminator(p) PROVE EventMovesOn
    BY <1>14, <1>t DEF RunTerminator
  <1>15. ASSUME IoctlReset PROVE EventMovesOn
    BY <1>15, <1>t DEF IoctlReset, Reset, Signal, IsSuspended
  <1>16. ASSUME NEW e \in Event \cup {NoEvent}, RegisterEvent(e) PROVE EventMovesOn
    BY <1>16, <1>t DEF RegisterEvent
  <1>17. ASSUME NEW p \in Pid, NEW black \in BOOLEAN, AppendRule(p, black) PROVE EventMovesOn
    BY <1>17, <1>t DEF AppendRule
  <1>18. ASSUME NEW p \in Pid, AppendRuleResume(p) PROVE EventMovesOn
    BY <1>18, <1>t DEF AppendRuleResume, Signal, IsSuspended
  <1>19. ASSUME TerminateBlackMarked PROVE EventMovesOn
    BY <1>19, <1>t DEF TerminateBlackMarked, Signal, IsSuspended
  <1>20. ASSUME NEW e \in Event, SetUserEvent(e) PROVE EventMovesOn
    BY <1>20, <1>t DEF SetUserEvent
  <1>21. ASSUME NEW e \in Event, ClearUserEvent(e) PROVE EventMovesOn
    BY <1>21, <1>t DEF ClearUserEvent
  <1> HIDE DEF TypeOK, ThreadState, ResumeState, EventStage, ResumeRank,
               EventMovesOn, recordVars, helperVars, listenerVars, osVars
  <1>22. QED
    BY <1>0, <1>1, <1>2, <1>3, <1>4, <1>5, <1>6, <1>7, <1>8, <1>9, <1>10,
       <1>11, <1>12, <1>13, <1>14, <1>15, <1>16, <1>17, <1>18, <1>19, <1>20, <1>21
    DEF Next, Request, ProcessStep, LoadStep

\* A process passes the gate at most once: its event is initialised once.
THEOREM PassesGateOnce == Spec => GatedOnce
  <1>1. DriverInv /\ [Next]_vars => [EventMovesOn]_vars
    BY EventStep DEF DriverInv
  <1>2. Spec => [][EventMovesOn]_vars
    BY <1>1, DriverInvariant, PTL DEF Spec
  <1>3. QED
    BY <1>2, PTL DEF GatedOnce

\* A thread leaves the gate only with its event set, by an answer or by the Reset
\* that its own timeout causes, which reaches its event through the list.
LEMMA AtGateNext ==
  ASSUME TypeOK, GateIsSound, SuspendedIsAtGate, [Next]_vars
  PROVE  SuspendedIsAtGate'
  <1>t. TypeOK /\ EventStage /\ CallbackIsListed
    BY DEF GateIsSound
  <1> USE <1>t DEF TypeOK, ThreadState, ResumeState, EventStage, SuspendedIsAtGate, AtGate,
                   IsSuspended, Goto, recordVars, helperVars
  <1>1. ASSUME NEW p \in Pid, OnCreateProcess(p) \/ LoadImage(p) \/ LoadImageUnnamed(p)
        PROVE  SuspendedIsAtGate'
    BY <1>1 DEF OnCreateProcess, LoadImage, LoadImageUnnamed
  <1>2. ASSUME NEW p \in Pid, AssignImageName(p) \/ ArmResumeEvent(p) \/ InitResumeEvent(p)
        PROVE  SuspendedIsAtGate'
    BY <1>2 DEF AssignImageName, ArmResumeEvent, InitResumeEvent
  <1>3. ASSUME NEW p \in Pid, DiscardRecord(p) \/ OnDeleteProcess(p)
        PROVE  SuspendedIsAtGate'
    BY <1>3 DEF DiscardRecord, OnDeleteProcess, NewRecord
  <1>4. ASSUME NEW p \in Pid, NotifyUser(p) \/ Resume(p) \/ WaitTimeout(p) \/ ApplyVerdict(p)
        PROVE  SuspendedIsAtGate'
    BY <1>4 DEF NotifyUser, Resume, WaitTimeout, ApplyVerdict
  <1>5. ASSUME NEW p \in Pid, TimeoutReset(p) PROVE SuspendedIsAtGate'
    <2>1. p \in m_activeProcesses /\ resumeEvent[p] # "raw"
      BY <1>5 DEF TimeoutReset, CallbackIsListed, InCallback
    <2>2. resumeEvent'[p] \notin {"raw", "clear"}
      BY <1>5, <2>1 DEF TimeoutReset, Reset, Signal
    <2>3. QED
      BY <1>5, <2>2 DEF TimeoutReset, Reset, Signal
  <1>6. CASE Request
    <2>1. thread' = thread /\ \A q \in Pid : IsSuspended(q)' => IsSuspended(q)
      BY <1>6 DEF Request, IoctlReset, Reset, RegisterEvent, AppendRule, AppendRuleResume,
         TerminateBlackMarked, SetUserEvent, ClearUserEvent, Signal
    <2>2. QED
      BY <2>1
  <1>7. ASSUME NEW p \in Pid, RunTerminator(p) PROVE SuspendedIsAtGate'
    BY <1>7 DEF RunTerminator
  <1>8. CASE UNCHANGED vars
    BY <1>8 DEF vars
  <1>9. QED
    BY <1>1, <1>2, <1>3, <1>4, <1>5, <1>6, <1>7, <1>8 DEF Next, ProcessStep, LoadStep

\* What TerminateBlackMarked takes for suspended is at the gate, so that nobody who
\* was denied is resumed where it should be terminated.
THEOREM SuspendedAreAtGate == Spec => []SuspendedIsAtGate
  <1>1. Init => SuspendedIsAtGate
    BY DEF Init, SuspendedIsAtGate, IsSuspended
  <1>2. DriverInv /\ SuspendedIsAtGate /\ [Next]_vars => SuspendedIsAtGate'
    BY AtGateNext DEF DriverInv
  <1>3. QED
    BY <1>1, <1>2, DriverInvariant, PTL DEF Spec

-----------------------------------------------------------------------------
(* Verdicts and reused pids.                                                *)

\* Every step takes away the record with the process, and a verdict with the
\* record.
LEMMA StaleNext ==
  ASSUME TypeOK, NoStaleRecord, VerdictIsListed, [Next]_vars
  PROVE  NoStaleRecord' /\ VerdictIsListed'
  <1> DEFINE Goal == NoStaleRecord' /\ VerdictIsListed'
  <1> USE DEF TypeOK, ThreadState, NoStaleRecord, VerdictIsListed, recordVars, helperVars
  <1>1. ASSUME UNCHANGED <<m_activeProcesses, marker>>,
               \A p \in Pid : thread[p] # "absent" => thread'[p] # "absent"
        PROVE  Goal
    BY <1>1
  <1>2. ASSUME NEW p \in Pid, OnCreateProcess(p) PROVE Goal
    BY <1>2 DEF OnCreateProcess, Goto
  <1>3. ASSUME NEW p \in Pid, DiscardRecord(p) \/ OnDeleteProcess(p) PROVE Goal
    BY <1>3 DEF DiscardRecord, OnDeleteProcess, Goto, NewRecord
  <1>4. ASSUME NEW p \in Pid, NEW black \in BOOLEAN, AppendRule(p, black) PROVE Goal
    BY <1>4 DEF AppendRule
  <1>5. ASSUME NEW p \in Pid, LoadImage(p) \/ LoadImageUnnamed(p) \/ RunTerminator(p)
                              \/ (LoadStep(p) /\ ~DiscardRecord(p))
        PROVE  Goal
    BY <1>1, <1>5
    DEF LoadImage, LoadImageUnnamed, RunTerminator, LoadStep, AssignImageName,
        ArmResumeEvent, InitResumeEvent, NotifyUser, Resume, WaitTimeout, TimeoutReset,
        Reset, ApplyVerdict, Goto
  <1>6. ASSUME Request, ~\E p \in Pid, black \in BOOLEAN : AppendRule(p, black)
        PROVE  Goal
    BY <1>1, <1>6
    DEF Request, IoctlReset, Reset, RegisterEvent, AppendRuleResume, TerminateBlackMarked,
        SetUserEvent, ClearUserEvent
  <1>7. CASE UNCHANGED vars
    BY <1>1, <1>7 DEF vars
  <1>8. QED
    BY <1>2, <1>3, <1>4, <1>5, <1>6, <1>7 DEF Next, Request, ProcessStep

\* No process inherits the verdict on an earlier one with its pid, however late
\* a rule comes, if the driver starts without stale records. A record that the
\* enumeration leaves behind does take verdicts for the next process.
THEOREM VerdictsAreDropped == Spec /\ NoStaleRecord => []VerdictNotInherited
  <1>1. Init => VerdictIsListed
    BY DEF Init, VerdictIsListed
  <1>2. TypeOK /\ NoStaleRecord /\ VerdictIsListed /\ [Next]_vars
          => NoStaleRecord' /\ VerdictIsListed'
    BY StaleNext
  <1>3. NoStaleRecord /\ VerdictIsListed => VerdictNotInherited
    BY DEF NoStaleRecord, VerdictIsListed, VerdictNotInherited
  <1>4. QED
    BY <1>1, <1>2, <1>3, TypeCorrect, PTL DEF Spec
=============================================================================
