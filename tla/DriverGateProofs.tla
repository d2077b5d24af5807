--------------------------- MODULE DriverGateProofs ---------------------------
(***************************************************************************)
(* The driver implements StartGate, for every set of processes, clients    *)
(* and failures.                                                           *)
(***************************************************************************)
EXTENDS DriverGate, DriverMonitorProofs

-----------------------------------------------------------------------------
(* The gate invariant is inductive.                                         *)

\* Initially no thread is in the callback and no rule is being applied.
LEMMA GateInvInit == Init => GateInv
  <1> SUFFICES ASSUME Init PROVE GateInv
    OBVIOUS
  <1>1. DriverInv
    BY InvInit
  <1>2. ResumedIsSet /\ RuledIsJudged
    BY DEF Init, ResumedIsSet, RuledIsJudged
  <1>3. QED
    BY <1>1, <1>2 DEF GateInv, DriverInv

\* The event of a thread that is through its wait stays set until it leaves.
LEMMA ResumedNext == GateInv /\ [Next]_vars => ResumedIsSet'
  <1> SUFFICES ASSUME GateInv, [Next]_vars PROVE ResumedIsSet'
    OBVIOUS
  <1>t. /\ TypeOK /\ ResumedIsSet /\ EventStage /\ CallbackIsListed
    BY DEF GateInv, GateIsSound
  <1> USE DEF TypeOK, ThreadState, ResumeState, ResumedIsSet, EventStage,
              CallbackIsListed, InCallback, recordVars, helperVars,
              listenerVars, osVars
  <1>0. ASSUME UNCHANGED vars PROVE ResumedIsSet'
    BY <1>0, <1>t DEF vars
  <1>1. ASSUME NEW p \in Pid, OnCreateProcess(p) PROVE ResumedIsSet'
    BY <1>1, <1>t DEF OnCreateProcess, Goto
  <1>2. ASSUME NEW p \in Pid, LoadImage(p) PROVE ResumedIsSet'
    BY <1>2, <1>t DEF LoadImage, Goto
  <1>3. ASSUME NEW p \in Pid, LoadImageUnnamed(p) PROVE ResumedIsSet'
    BY <1>3, <1>t DEF LoadImageUnnamed, Goto
  <1>4. ASSUME NEW p \in Pid, AssignImageName(p) PROVE ResumedIsSet'
    BY <1>4, <1>t DEF AssignImageName, Goto
  <1>5. ASSUME NEW p \in Pid, DiscardRecord(p) PROVE ResumedIsSet'
    BY <1>5, <1>t DEF DiscardRecord, Goto, NewRecord
  <1>6. ASSUME NEW p \in Pid, ArmResumeEvent(p) PROVE ResumedIsSet'
    BY <1>6, <1>t DEF ArmResumeEvent, Goto
  <1>7. ASSUME NEW p \in Pid, InitResumeEvent(p) PROVE ResumedIsSet'
    BY <1>7, <1>t DEF InitResumeEvent, Goto
  <1>8. ASSUME NEW p \in Pid, NotifyUser(p) PROVE ResumedIsSet'
    BY <1>8, <1>t DEF NotifyUser, Goto
  <1>9. ASSUME NEW p \in Pid, Resume(p) PROVE ResumedIsSet'
    BY <1>9, <1>t DEF Resume, Goto
  <1>10. ASSUME NEW p \in Pid, WaitTimeout(p) PROVE ResumedIsSet'
    BY <1>10, <1>t DEF WaitTimeout, Goto
  <1>11. ASSUME NEW p \in Pid, TimeoutReset(p) PROVE ResumedIsSet'
    BY <1>11, <1>t DEF TimeoutReset, Goto, Reset, Signal, IsSuspended
  <1>12. ASSUME NEW p \in Pid, ApplyVerdict(p) PROVE ResumedIsSet'
    BY <1>12, <1>t DEF ApplyVerdict, Goto
  <1>13. ASSUME NEW p \in Pid, OnDeleteProcess(p) PROVE ResumedIsSet'
    BY <1>13, <1>t DEF OnDeleteProcess, Goto, NewRecord
  <1>14. ASSUME NEW p \in Pid, RunTerminator(p) PROVE ResumedIsSet'
    BY <1>14, <1>t DEF RunTerminator
  <1>15. ASSUME IoctlReset PROVE ResumedIsSet'
    BY <1>15, <1>t DEF IoctlReset, Reset, Signal, IsSuspended
  <1>16. ASSUME NEW e \in Event \cup {NoEvent}, RegisterEvent(e) PROVE ResumedIsSet'
    BY <1>16, <1>t DEF RegisterEvent
  <1>17. ASSUME NEW p \in Pid, NEW black \in BOOLEAN, AppendRule(p, black)
         PROVE  ResumedIsSet'
    BY <1>17, <1>t DEF AppendRule
  <1>18. ASSUME NEW p \in Pid, AppendRuleResume(p) PROVE ResumedIsSet'
    BY <1>18, <1>t DEF AppendRuleResume, Signal, IsSuspended
  <1>19. ASSUME TerminateBlackMarked PROVE ResumedIsSet'
    BY <1>19, <1>t DEF TerminateBlackMarked, Signal, IsSuspended
  <1>20. ASSUME NEW e \in Event, SetUserEvent(e) PROVE ResumedIsSet'
    BY <1>20, <1>t DEF SetUserEvent
  <1>21. ASSUME NEW e \in Event, ClearUserEvent(e) PROVE ResumedIsSet'
    BY <1>21, <1>t DEF ClearUserEvent
  <1> HIDE DEF TypeOK, ThreadState, ResumeState, ResumedIsSet, EventStage,
               CallbackIsListed, InCallback, recordVars, helperVars,
               listenerVars, osVars
  <1>22. QED
    BY <1>0, <1>1, <1>2, <1>3, <1>4, <1>5, <1>6, <1>7, <1>8, <1>9, <1>10,
       <1>11, <1>12, <1>13, <1>14, <1>15, <1>16, <1>17, <1>18, <1>19, <1>20,
       <1>21
    DEF Next, Request, ProcessStep, LoadStep

\* Records are not renewed while a rule holds the list, and only a rule sets
\* the marker.
LEMMA RuledNext == GateInv /\ [Next]_vars => RuledIsJudged'
  <1> SUFFICES ASSUME GateInv, [Next]_vars PROVE RuledIsJudged'
    OBVIOUS
  <1>t. TypeOK /\ RuledIsJudged
    BY DEF GateInv, GateIsSound
  <1> USE DEF RuledIsJudged, TypeOK, ListFree, recordVars, helperVars,
              listenerVars, osVars
  <1>1. CASE UNCHANGED <<rules, marker>>
    BY <1>1, <1>t
  <1>2. CASE \E p \in Pid : DiscardRecord(p) \/ OnDeleteProcess(p)
    BY <1>2, <1>t DEF DiscardRecord, OnDeleteProcess
  <1>3. CASE \E p \in Pid, black \in BOOLEAN : AppendRule(p, black)
    BY <1>3, <1>t DEF AppendRule
  <1>4. CASE \E p \in Pid : AppendRuleResume(p)
    BY <1>4, <1>t DEF AppendRuleResume
  <1>5. QED
    BY <1>1, <1>2, <1>3, <1>4
    DEF vars, Next, Request, ProcessStep, LoadStep, OnCreateProcess, LoadImage,
        LoadImageUnnamed, AssignImageName, ArmResumeEvent, InitResumeEvent,
        NotifyUser, Resume, WaitTimeout, TimeoutReset, ApplyVerdict,
        RunTerminator, IoctlReset, Reset, RegisterEvent, TerminateBlackMarked,
        SetUserEvent, ClearUserEvent

\* Every step of the driver preserves the gate invariant.
LEMMA GateInvNext == GateInv /\ [Next]_vars => GateInv'
  BY ResumedNext, RuledNext, TypeNext, GateNext DEF GateInv

\* Every reachable state satisfies the gate invariant.
THEOREM GateInvariant == Spec => []GateInv
  <1>1. QED
    BY GateInvNext, GateInvInit, PTL DEF Spec

-----------------------------------------------------------------------------
(* The refinement.                                                          *)

\* Initially nobody is held, freed or sentenced.
LEMMA PromiseInit == Init => Promise!Init
  <1> SUFFICES ASSUME Init PROVE Promise!Init
    OBVIOUS
  <1>1. GateStage \in [Pid -> {"absent", "free"}]
    BY DEF Init, GateStage, HeldThread
  <1>2. GateFreed = {} /\ GateSentenced = {}
    BY DEF Init, GateFreed, GateSentenced, HeldThread
  <1>3. QED
    BY <1>1, <1>2 DEF Init, Promise!Init

\* Every step of the driver is a step of the promise, or none.
LEMMA PromiseStep == GateInv /\ [Next]_vars => [Promise!Next]_(Promise!vars)
  <1> SUFFICES ASSUME GateInv, [Next]_vars PROVE [Promise!Next]_(Promise!vars)
    OBVIOUS
  <1> DEFINE Goal == [Promise!Next]_(Promise!vars)
  <1>t. /\ TypeOK /\ ResumedIsSet /\ RuledIsJudged
        /\ EventStage /\ CallbackIsListed
    BY DEF GateInv, GateIsSound
  <1> DEFINE Same == /\ GateStage' = GateStage /\ GateFreed' = GateFreed
                     /\ marker' = marker
                     /\ m_userNotifyEvent' = m_userNotifyEvent
                     /\ GateSentenced' = GateSentenced
  <1>same. ASSUME Same PROVE Goal
    BY <1>same DEF Promise!vars
  <1> USE DEF TypeOK, ThreadState, ResumeState, GateStage, GateFreed,
              GateSentenced, HeldThread,
              recordVars, helperVars, listenerVars, osVars
  <1>0. ASSUME UNCHANGED vars PROVE Same
    BY <1>0 DEF vars
  <1>1. ASSUME NEW p \in Pid, OnCreateProcess(p) PROVE Promise!Start(p)
    BY <1>1, <1>t DEF OnCreateProcess, Goto, Promise!Start, Promise!Move
  <1>2. ASSUME NEW p \in Pid, LoadImage(p) PROVE Same
    BY <1>2, <1>t DEF LoadImage, Goto
  <1>3. ASSUME NEW p \in Pid, LoadImageUnnamed(p) PROVE Same
    BY <1>3, <1>t DEF LoadImageUnnamed, Goto
  <1>4. ASSUME NEW p \in Pid, AssignImageName(p) PROVE Same
    BY <1>4, <1>t DEF AssignImageName, Goto
  <1>5. ASSUME NEW p \in Pid, DiscardRecord(p) PROVE Promise!Forget(p)
    BY <1>5, <1>t DEF DiscardRecord, Goto, NewRecord, Promise!Forget, Promise!Move
  <1>6. ASSUME NEW p \in Pid, ArmResumeEvent(p) PROVE Same \/ Promise!Hold(p)
    BY <1>6, <1>t DEF ArmResumeEvent, Goto, Promise!Hold, Promise!Move
  <1>7. ASSUME NEW p \in Pid, InitResumeEvent(p) PROVE Same
    BY <1>7, <1>t DEF InitResumeEvent, Goto, EventStage
  <1>8. ASSUME NEW p \in Pid, NotifyUser(p) PROVE Same
    BY <1>8, <1>t DEF NotifyUser, Goto
  <1>9. ASSUME NEW p \in Pid, Resume(p) PROVE Same
    BY <1>9, <1>t DEF Resume, Goto
  <1>10. ASSUME NEW p \in Pid, WaitTimeout(p) PROVE Same
    BY <1>10, <1>t DEF WaitTimeout, Goto
  <1>11. ASSUME NEW p \in Pid, TimeoutReset(p) PROVE Promise!Open
    BY <1>11, <1>t DEF TimeoutReset, Goto, Reset, ClearListener, MLockFree, InGate, Signal, IsSuspended,
      EventStage, CallbackIsListed, InCallback, ResumedIsSet, Promise!Open, Promise!Held
  <1>12. ASSUME NEW p \in Pid, ApplyVerdict(p) PROVE Promise!Leave(p)
    <2>1. /\ Promise!Move(p, "held", "free")
          /\ UNCHANGED <<marker, m_userNotifyEvent # NoEvent>>
      BY <1>12, <1>t DEF ApplyVerdict, Goto, Promise!Move
    <2>2. /\ marker[p] # "Clean" \/ p \in GateFreed
          /\ GateFreed' = GateFreed \ {p}
      BY <1>12, <1>t DEF ApplyVerdict, Goto, ResumedIsSet
    <2>3. CASE /\ marker[p] = "Disallowed"
               /\ terminators' = [terminators EXCEPT ![p] = @ + 1]
      <3>1. GateSentenced' = GateSentenced \cup {p}
        BY <2>3, <1>t
      <3>2. QED
        BY <2>1, <2>2, <2>3, <3>1 DEF Promise!Leave
    <2>4. CASE /\ marker[p] # "Disallowed" \/ "thread" \in Faults
               /\ UNCHANGED terminators
      BY <2>1, <2>2, <2>4 DEF Promise!Leave
    <2>5. QED
      BY <1>12, <2>3, <2>4 DEF ApplyVerdict
  <1>13. ASSUME NEW p \in Pid, OnDeleteProcess(p) PROVE Promise!Forget(p)
    BY <1>13, <1>t DEF OnDeleteProcess, Goto, NewRecord, Promise!Forget, Promise!Move
  <1>14. ASSUME NEW p \in Pid, RunTerminator(p) PROVE Same \/ Promise!Executed(p)
    <2>1. /\ GateStage' = GateStage /\ GateFreed' = GateFreed
          /\ UNCHANGED <<marker, m_userNotifyEvent>>
      BY <1>14 DEF RunTerminator
    <2>2. CASE terminators[p] = 1
      <3>1. GateSentenced' = GateSentenced \ {p}
        BY <1>14, <1>t, <2>2 DEF RunTerminator
      <3>2. QED
        BY <2>1, <3>1 DEF Promise!Executed
    <2>3. CASE terminators[p] > 1
      <3>1. GateSentenced' = GateSentenced
        BY <1>14, <1>t, <2>3 DEF RunTerminator
      <3>2. QED
        BY <2>1, <3>1
    <2>4. QED
      BY <1>14, <1>t, <2>2, <2>3, ConstantsAssumption DEF RunTerminator
  <1>15. ASSUME IoctlReset PROVE Promise!Open
    BY <1>15, <1>t DEF IoctlReset, Reset, ClearListener, MLockFree, InGate, Signal, IsSuspended,
      EventStage, CallbackIsListed, InCallback, ResumedIsSet, Promise!Open, Promise!Held
  <1>16. ASSUME NEW e \in Event \cup {NoEvent}, RegisterEvent(e) PROVE Promise!Listen
    BY <1>16, <1>t DEF RegisterEvent, Promise!Listen
  <1>17. ASSUME NEW p \in Pid, NEW black \in BOOLEAN, AppendRule(p, black)
         PROVE  Same \/ Promise!Judge(p)
    BY <1>17, <1>t DEF AppendRule, Promise!Judge
  <1>18. ASSUME NEW p \in Pid, AppendRuleResume(p) PROVE Same
    BY <1>18, <1>t DEF AppendRuleResume, Signal, IsSuspended, RuledIsJudged
  <1>19. ASSUME TerminateBlackMarked PROVE Promise!Sentence
    BY <1>19, <1>t DEF TerminateBlackMarked, Signal, IsSuspended, Promise!Sentence
  <1>20. ASSUME NEW e \in Event, SetUserEvent(e) PROVE Same
    BY <1>20, <1>t DEF SetUserEvent
  <1>21. ASSUME NEW e \in Event, ClearUserEvent(e) PROVE Same
    BY <1>21, <1>t DEF ClearUserEvent
  <1> HIDE DEF TypeOK, ThreadState, ResumeState, GateStage, GateFreed,
              GateSentenced, HeldThread,
               recordVars, helperVars, listenerVars, osVars, Same
  <1>22. Same \/ Promise!Next
    BY <1>0, <1>1, <1>2, <1>3, <1>4, <1>5, <1>6, <1>7, <1>8, <1>9, <1>10,
       <1>11, <1>12, <1>13, <1>14, <1>15, <1>16, <1>17, <1>18, <1>19, <1>20,
       <1>21
    DEF Next, Request, ProcessStep, LoadStep, Promise!Next
  <1>23. QED
    BY <1>22, <1>same

\* The driver implements StartGate.
THEOREM DriverKeepsPromise == Spec => KeepsPromise
  <1>1. QED
    BY PromiseInit, PromiseStep, GateInvariant, PTL
    DEF Spec, KeepsPromise, Promise!Spec
=============================================================================
