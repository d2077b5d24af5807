------------------------ MODULE DriverLifecycleProofs ------------------------
(***************************************************************************)
(* Nothing uses the monitor object before it is constructed or after it is *)
(* destroyed, for any number of processes, loads and unloads.              *)
(***************************************************************************)
EXTENDS DriverLifecycle, DriverGateProofs

\* No callback can be running: before and after the routines are registered.
Quiet == {"unloaded", "resetting", "cleaning", "uninit"}

\* What the place of the loading thread says about the routines, the device and
\* the monitor object.
LifeInv ==
  /\ thread \in [Pid -> ThreadState]
  /\ MonitorOutlivesUsers
  /\ driver \notin {"unloaded", "removing", "draining", "resetting"} => instance
  /\ driver \in Quiet => CallbackThreads = {} /\ ~createRoutine
  /\ driver \in Quiet \cup {"draining"} => ~loadRoutine
  /\ open => driver = "loaded"
  /\ rules # {} => open


\* The driver is not loaded at the start, and no process is in a callback.
LEMMA LifeInit == LifecycleInit => LifeInv
  BY DEF LifecycleInit, Init, LifeInv, MonitorOutlivesUsers, InUse, CallbackThreads,
     InCallback, ThreadState, Quiet, Enumerating

\* DriverEntry constructs the monitor, or fails without anything registered.
LEMMA EntryPreserves == LifeInv /\ (DriverEntry \/ EntryStep) => LifeInv'
  <1> SUFFICES ASSUME LifeInv, DriverEntry \/ EntryStep PROVE LifeInv'
    OBVIOUS
  <1> USE DEF LifeInv, MonitorOutlivesUsers, InUse, CallbackThreads, Quiet,
              Enumerating, DriverGoto
  <1>1. CASE DriverEntry
    BY <1>1 DEF DriverEntry, vars, routineVars, entryVars
  <1>2. CASE RegisterCreateRoutine
    BY <1>2 DEF RegisterCreateRoutine, vars
  <1>3. CASE RegisterLoadRoutine
    BY <1>3 DEF RegisterLoadRoutine, vars
  <1>4. CASE TakeSnapshot
    BY <1>4 DEF TakeSnapshot, vars, routineVars
  <1>5. ASSUME NEW p \in Pid, QueryProcess(p) PROVE LifeInv'
    BY <1>5 DEF QueryProcess, vars, routineVars
  <1>6. CASE EnumerationEnds
    BY <1>6 DEF EnumerationEnds, vars, routineVars
  <1>7. CASE AddCurrent
    BY <1>7 DEF AddCurrent, routineVars
  <1>8. CASE FindCurrent
    BY <1>8 DEF FindCurrent, EnumerateNext, vars, routineVars
  <1>9. CASE NameCurrent
    BY <1>9 DEF NameCurrent, EnumerateNext, routineVars
  <1>10. CASE DiscardCurrent
    BY <1>10 DEF DiscardCurrent, EnumerateNext, routineVars
  <1>11. QED
    BY <1>1, <1>2, <1>3, <1>4, <1>5, <1>6, <1>7, <1>8, <1>9, <1>10 DEF EntryStep

\* The monitor is destroyed after the last callback and the last request.
LEMMA CleanupPreserves == LifeInv /\ (DriverUnload \/ CleanupStep) => LifeInv'
  <1> SUFFICES ASSUME LifeInv, DriverUnload \/ CleanupStep PROVE LifeInv'
    OBVIOUS
  <1> USE DEF LifeInv, MonitorOutlivesUsers, InUse, CallbackThreads, Quiet,
              Enumerating, DriverGoto
  <1>1. CASE DriverUnload
    BY <1>1 DEF DriverUnload, vars, routineVars
  <1>2. CASE RemoveLoadRoutine
    BY <1>2 DEF RemoveLoadRoutine, vars
  <1>3. CASE RemoveCreateRoutine
    BY <1>3 DEF RemoveCreateRoutine, vars
  <1>4. CASE ShutdownMonitor
    BY <1>4 DEF ShutdownMonitor, IoctlReset, routineVars
  <1>5. CASE CleanList
    BY <1>5 DEF CleanList, routineVars
  <1>6. CASE Uninit
    BY <1>6 DEF Uninit, vars, routineVars
  <1>7. QED
    BY <1>1, <1>2, <1>3, <1>4, <1>5, <1>6 DEF CleanupStep

\* A request needs an open device, which keeps the driver loaded.
LEMMA ClientPreserves ==
    LifeInv /\ (OpenDevice \/ CloseDevice \/ DeviceControl) => LifeInv'
  <1> SUFFICES ASSUME LifeInv, OpenDevice \/ CloseDevice \/ DeviceControl PROVE LifeInv'
    OBVIOUS
  <1> USE DEF LifeInv, MonitorOutlivesUsers, InUse, CallbackThreads, Quiet, Enumerating
  <1>1. CASE OpenDevice
    BY <1>1 DEF OpenDevice, vars, routineVars
  <1>2. CASE CloseDevice
    BY <1>2 DEF CloseDevice, vars, routineVars
  <1>3. CASE DeviceControl
    <2>1. thread' = thread
      BY <1>3 DEF DeviceControl, Request, IoctlReset, RegisterEvent, AppendRule,
         AppendRuleResume, TerminateBlackMarked, SetUserEvent, ClearUserEvent
    <2>2. QED
      BY <1>3, <2>1 DEF DeviceControl, lifeVars, routineVars
  <1>4. QED
    BY <1>1, <1>2, <1>3

\* A process enters a callback only through a routine that is registered.
LEMMA ProcessPreserves ==
    ASSUME NEW p \in Pid, LifeInv, ProcessLife(p) PROVE LifeInv'
  <1> USE DEF LifeInv, Quiet, Goto
  <1>1. /\ UNCHANGED <<driver, instance, createRoutine, loadRoutine, open>>
        /\ rules' = rules
    BY DEF ProcessLife, ProcessStarts, ProcessExits, ImageLoaded, CallbackStep,
       Terminator, OnCreateProcess, OnDeleteProcess, LoadImage, LoadImageUnnamed,
       LoadStep, AssignImageName, DiscardRecord, ArmResumeEvent, InitResumeEvent,
       NotifyUser, Resume, WaitTimeout, TimeoutReset, ApplyVerdict, RunTerminator,
       NotCalled, lifeVars, routineVars
  <1>2. ASSUME NEW state \in ThreadState, thread' = [thread EXCEPT ![p] = state],
               state \in InCallback => loadRoutine \/ p \in CallbackThreads
        PROVE LifeInv'
    BY <1>1, <1>2 DEF MonitorOutlivesUsers, InUse, CallbackThreads, Enumerating
  <1>3. CASE ProcessStarts(p)
    BY <1>2, <1>3 DEF ProcessStarts, OnCreateProcess, ThreadState, InCallback
  <1>4. CASE ProcessExits(p)
    BY <1>2, <1>4 DEF ProcessExits, OnDeleteProcess, ThreadState, InCallback
  <1>5. CASE ImageLoaded(p)
    BY <1>2, <1>5 DEF ImageLoaded, LoadImage, LoadImageUnnamed, ThreadState, InCallback
  <1>6. CASE CallbackStep(p)
    <2>1. LoadStep(p)
      BY <1>6 DEF CallbackStep
    <2>2. thread[p] \in InCallback
      BY <2>1 DEF LoadStep, AssignImageName, DiscardRecord, ArmResumeEvent,
         InitResumeEvent, NotifyUser, Resume, WaitTimeout, TimeoutReset,
         ApplyVerdict, ThreadState, InCallback
    <2>3. PICK state \in ThreadState : thread' = [thread EXCEPT ![p] = state]
      BY <2>1 DEF LoadStep, AssignImageName, DiscardRecord, ArmResumeEvent,
         InitResumeEvent, NotifyUser, Resume, WaitTimeout, TimeoutReset,
         ApplyVerdict, ThreadState
    <2>4. QED
      BY <1>2, <2>2, <2>3 DEF CallbackThreads
  <1>7. CASE Terminator(p)
    <2>1. thread' = thread
      BY <1>7 DEF Terminator, RunTerminator
    <2>2. QED
      BY <1>1, <2>1 DEF MonitorOutlivesUsers, InUse, CallbackThreads, Enumerating
  <1>8. QED
    BY <1>3, <1>4, <1>5, <1>6, <1>7 DEF ProcessLife

\* Every step of the life cycle preserves the invariant.
LEMMA LifeNext == LifeInv /\ [LifecycleNext]_allVars => LifeInv'
  <1>1. LifeInv /\ UNCHANGED allVars => LifeInv'
    BY DEF allVars, vars, lifeVars, routineVars, entryVars, LifeInv,
       MonitorOutlivesUsers, InUse, CallbackThreads, Enumerating, Quiet
  <1>2. QED
    BY <1>1, EntryPreserves, CleanupPreserves, ClientPreserves, ProcessPreserves
    DEF LifecycleNext

\* Whoever can reach the monitor object, a callback, a request or the
\* enumeration, finds it constructed and not yet destroyed.
THEOREM MonitorIsAlive == LifecycleSpec => []MonitorOutlivesUsers
  <1>1. LifeInv => MonitorOutlivesUsers
    BY DEF LifeInv
  <1>2. QED
    BY LifeInit, LifeNext, <1>1, PTL DEF LifecycleSpec

\* While the unload waits for the callbacks that run no process enters another one:
\* what UnloadCompletes waits for can only get less.
THEOREM UnloadOnlyDrains ==
    LifecycleSpec => [][driver = "draining" => CallbackThreads' \subseteq CallbackThreads]_allVars
  <1>1. ASSUME LifeInv, LifecycleNext, driver = "draining"
        PROVE  CallbackThreads' \subseteq CallbackThreads
    <2>1. ~loadRoutine /\ ~open
      BY <1>1 DEF LifeInv, Quiet
    <2>2. ASSUME NEW p \in Pid, ProcessLife(p)
          PROVE  CallbackThreads' \subseteq CallbackThreads
      <3>1. CASE CallbackStep(p)
        BY <3>1, <1>1
        DEF CallbackStep, LoadStep, AssignImageName, DiscardRecord, ArmResumeEvent,
            InitResumeEvent, NotifyUser, Resume, WaitTimeout, TimeoutReset, ApplyVerdict,
            Goto, LifeInv, CallbackThreads, InCallback, ThreadState
      <3>2. CASE ProcessStarts(p) \/ ProcessExits(p) \/ ImageLoaded(p) \/ Terminator(p)
        BY <3>2, <2>1, <1>1
        DEF ProcessStarts, OnCreateProcess, ProcessExits, OnDeleteProcess, ImageLoaded,
            Terminator, RunTerminator, Goto, LifeInv, CallbackThreads, InCallback
      <3>3. QED
        BY <2>2, <3>1, <3>2 DEF ProcessLife
    <2>3. CASE \E p \in Pid : ProcessLife(p)
      BY <2>2, <2>3
    <2>4. CASE ~\E p \in Pid : ProcessLife(p)
      <3>1. RemoveCreateRoutine
        BY <1>1, <2>1, <2>4
        DEF LifecycleNext, DriverEntry, EntryStep, DriverUnload, CleanupStep, OpenDevice,
            CloseDevice, DeviceControl, DriverGoto, RegisterCreateRoutine,
            RegisterLoadRoutine, TakeSnapshot, QueryProcess, EnumerationEnds, AddCurrent,
            FindCurrent, NameCurrent, DiscardCurrent, EnumerateNext, RemoveLoadRoutine,
            ShutdownMonitor, CleanList, Uninit
      <3>2. QED
        BY <3>1 DEF RemoveCreateRoutine, vars, CallbackThreads
    <2>5. QED
      BY <2>3, <2>4
  <1>2. LifeInv /\ [LifecycleNext]_allVars
          => [driver = "draining" => CallbackThreads' \subseteq CallbackThreads]_allVars
    BY <1>1
  <1>3. QED
    BY <1>2, LifeInit, LifeNext, PTL DEF LifecycleSpec

-----------------------------------------------------------------------------
(* Types. The equivalence of the place of the loading thread with the process *)
(* it is at carries itself.                                                  *)

\* A step of the loading thread keeps the types.
LEMMA LoadingKeepsType ==
  ASSUME LifecycleTypeOK, DriverEntry \/ EntryStep \/ DriverUnload \/ CleanupStep
  PROVE  LifecycleTypeOK'
  <1> USE DEF LifecycleTypeOK, DriverState, Enumerating, DriverGoto, routineVars, entryVars
  <1>1. CASE DriverEntry
    BY <1>1 DEF DriverEntry
  <1>2. CASE RegisterCreateRoutine
    BY <1>2 DEF RegisterCreateRoutine
  <1>3. CASE RegisterLoadRoutine
    BY <1>3 DEF RegisterLoadRoutine
  <1>4. CASE TakeSnapshot
    BY <1>4 DEF TakeSnapshot, Alive
  <1>5. ASSUME NEW p \in Pid, QueryProcess(p) PROVE LifecycleTypeOK'
    BY <1>5 DEF QueryProcess
  <1>6. CASE EnumerationEnds
    BY <1>6 DEF EnumerationEnds
  <1>7. CASE AddCurrent
    BY <1>7 DEF AddCurrent
  <1>8. CASE FindCurrent
    BY <1>8 DEF FindCurrent, EnumerateNext
  <1>9. CASE NameCurrent
    BY <1>9 DEF NameCurrent, EnumerateNext
  <1>10. CASE DiscardCurrent
    <2>1. /\ driver' = "enumerating" /\ current' = {} /\ held' = FALSE
          /\ UNCHANGED <<device, instance, m_shutdown, routineVars, procInfos, midway, open>>
      BY <1>10 DEF DiscardCurrent, EnumerateNext
    <2>2. QED
      BY <2>1
  <1>11. CASE DriverUnload
    BY <1>11 DEF DriverUnload
  <1>12. CASE RemoveLoadRoutine
    BY <1>12 DEF RemoveLoadRoutine
  <1>13. CASE RemoveCreateRoutine
    BY <1>13 DEF RemoveCreateRoutine
  <1>14. CASE ShutdownMonitor
    BY <1>14 DEF ShutdownMonitor
  <1>15. CASE CleanList
    BY <1>15 DEF CleanList
  <1>16. CASE Uninit
    BY <1>16 DEF Uninit
  <1>17. QED
    BY <1>1, <1>2, <1>3, <1>4, <1>5, <1>6, <1>7, <1>8, <1>9, <1>10, <1>11, <1>12,
       <1>13, <1>14, <1>15, <1>16 DEF EntryStep, CleanupStep

\* So does everybody else, who only drops records and opens the device.
LEMMA OthersKeepType ==
  ASSUME LifecycleTypeOK,
         OpenDevice \/ CloseDevice \/ DeviceControl \/ \E p \in Pid : ProcessLife(p)
  PROVE  LifecycleTypeOK'
  <1>1. CASE OpenDevice \/ CloseDevice \/ DeviceControl
    <2>1. /\ UNCHANGED <<driver, device, instance, m_shutdown, createRoutine, loadRoutine,
                         procInfos, current, held, midway>>
          /\ open' \in BOOLEAN
      BY <1>1
      DEF LifecycleTypeOK, OpenDevice, CloseDevice, DeviceControl, lifeVars, routineVars,
          entryVars
    <2>2. QED
      BY <2>1 DEF LifecycleTypeOK
  <1>2. ASSUME NEW p \in Pid, ProcessLife(p) PROVE LifecycleTypeOK'
    <2>1. CASE ProcessStarts(p) \/ ImageLoaded(p) \/ Terminator(p)
      BY <2>1
      DEF LifecycleTypeOK, ProcessStarts, ImageLoaded, Terminator, lifeVars, routineVars,
          entryVars
    <2>2. CASE ProcessExits(p) \/ CallbackStep(p)
      <3>1. /\ UNCHANGED <<driver, device, instance, m_shutdown, routineVars, procInfos,
                           current, open>>
            /\ held' \in BOOLEAN /\ (held' => held)
            /\ midway' \in SUBSET Pid
        BY <2>2 DEF LifecycleTypeOK, ProcessExits, CallbackStep, Dropped
      <3>2. QED
        BY <3>1 DEF LifecycleTypeOK, routineVars
    <2>3. QED
      BY <1>2, <2>1, <2>2 DEF ProcessLife
  <1>3. QED
    BY <1>1, <1>2

\* The types of the life cycle, in any number of loads and unloads.
THEOREM LifecycleTypeCorrect == LifecycleSpec => []LifecycleTypeOK
  <1>1. LifecycleInit => LifecycleTypeOK
    BY LifecycleAssumption DEF LifecycleInit, LifecycleTypeOK, DriverState, Enumerating
  <1>2. LifecycleTypeOK /\ UNCHANGED allVars => LifecycleTypeOK'
    BY DEF allVars, lifeVars, routineVars, entryVars, LifecycleTypeOK
  <1>3. LifecycleTypeOK /\ [LifecycleNext]_allVars => LifecycleTypeOK'
    BY <1>2, LoadingKeepsType, OthersKeepType DEF LifecycleNext
  <1>4. QED
    BY <1>1, <1>3, PTL DEF LifecycleSpec

-----------------------------------------------------------------------------
(* The enumeration misses nobody.                                            *)

\* Between the registration of the create routine and the unload.
Taken == {"registered", "snapshot", "enumerating", "adding", "finding", "naming", "loaded"}

\* Who is still to be visited, or just being visited.
Pending == procInfos \cup (IF driver = "adding" THEN current ELSE {})

\* A process created since the create routine is registered has a record at once;
\* since the snapshot everybody else has one or is still in the snapshot. As long
\* as memory lasts no record is dropped but by the exit of its process.
RecordedInv ==
  /\ thread \in [Pid -> ThreadState]
  /\ driver # "discarding"
  /\ \A p \in Pid : thread[p] # "discard"
  /\ driver \in Taken \cup {"constructed"} => ~m_shutdown
  /\ driver \in Taken =>
       /\ createRoutine
       /\ \A p \in Pid \ midway : thread[p] = "created" => p \in m_activeProcesses
  /\ driver \in Taken \ {"registered", "snapshot"} =>
       \A p \in Pid \ midway : thread[p] # "absent" => p \in m_activeProcesses \cup Pending
  /\ driver = "loaded" => procInfos = {}

\* The loading thread: the snapshot is taken after the routines are registered,
\* and a process leaves it only with a record, or without having run.
LEMMA LoadingRecords ==
  ASSUME "pool" \notin Faults, LifecycleTypeOK, RecordedInv,
         DriverEntry \/ EntryStep \/ DriverUnload \/ CleanupStep
  PROVE  RecordedInv'
  <1> USE DEF RecordedInv, Taken, Pending, DriverGoto, routineVars, entryVars, vars, helperVars
  <1>1. CASE DriverEntry
    BY <1>1 DEF DriverEntry
  <1>2. CASE RegisterCreateRoutine
    BY <1>2 DEF RegisterCreateRoutine
  <1>3. CASE RegisterLoadRoutine
    BY <1>3 DEF RegisterLoadRoutine
  <1>4. CASE TakeSnapshot
    BY <1>4 DEF TakeSnapshot, Alive
  <1>5. ASSUME NEW p \in Pid, QueryProcess(p) PROVE RecordedInv'
    BY <1>5 DEF QueryProcess
  <1>6. CASE EnumerationEnds
    BY <1>6 DEF EnumerationEnds
  <1>7. CASE AddCurrent
    BY <1>7 DEF AddCurrent
  <1>8. CASE FindCurrent
    BY <1>8 DEF FindCurrent, EnumerateNext
  <1>9. CASE NameCurrent
    BY <1>9 DEF NameCurrent, EnumerateNext
  <1>10. CASE DiscardCurrent
    BY <1>10 DEF DiscardCurrent, EnumerateNext
  <1>11. CASE DriverUnload
    BY <1>11 DEF DriverUnload
  <1>12. CASE CleanupStep
    <2>1. driver \notin Taken /\ driver' \notin Taken \cup {"constructed", "discarding"}
      BY <1>12 DEF CleanupStep, RemoveLoadRoutine, RemoveCreateRoutine, ShutdownMonitor,
         CleanList, Uninit
    <2>2. thread' = thread
      BY <1>12 DEF CleanupStep, RemoveLoadRoutine, RemoveCreateRoutine, ShutdownMonitor,
         IoctlReset, CleanList, Uninit
    <2>3. QED
      BY <2>1, <2>2
  <1>13. QED
    BY <1>1, <1>2, <1>3, <1>4, <1>5, <1>6, <1>7, <1>8, <1>9, <1>10, <1>11, <1>12
    DEF EntryStep

\* A process that is created gets its record, and keeps it until it exits.
LEMMA LifeRecords ==
  ASSUME "pool" \notin Faults, RecordedInv, NEW p \in Pid, ProcessLife(p)
  PROVE  RecordedInv'
  <1> USE DEF RecordedInv, Taken, Pending, Goto
  <1>1. UNCHANGED <<driver, m_shutdown, createRoutine, procInfos, current>>
    BY DEF ProcessLife, ProcessStarts, ProcessExits, ImageLoaded, CallbackStep, Terminator,
       lifeVars, routineVars, entryVars
  <1>2. CASE ProcessStarts(p)
    <2>1. /\ thread' = [thread EXCEPT ![p] = "created"] /\ midway' = midway
          /\ driver \in Taken => m_activeProcesses' = m_activeProcesses \cup {p}
      BY <1>2 DEF ProcessStarts, OnCreateProcess, lifeVars, entryVars
    <2>2. QED
      BY <1>1, <2>1 DEF ThreadState
  <1>3. CASE ProcessExits(p)
    <2>1. /\ thread' = [thread EXCEPT ![p] = "absent"] /\ midway' = midway \ {p}
          /\ driver \in Taken => m_activeProcesses' = m_activeProcesses \ {p}
      BY <1>3 DEF ProcessExits, OnDeleteProcess
    <2>2. QED
      BY <1>1, <2>1 DEF ThreadState
  <1>4. CASE ImageLoaded(p) \/ CallbackStep(p) \/ Terminator(p)
    <2>1. midway' = midway /\ m_activeProcesses' = m_activeProcesses
      BY <1>4
      DEF ImageLoaded, CallbackStep, Terminator, LoadImage, LoadImageUnnamed, NotCalled,
          LoadStep, AssignImageName, DiscardRecord, ArmResumeEvent, InitResumeEvent,
          NotifyUser, Resume, WaitTimeout, TimeoutReset, ApplyVerdict, RunTerminator,
          lifeVars, entryVars, helperVars
    <2>2. \/ thread' = thread
          \/ /\ thread[p] # "absent"
             /\ \E state \in ThreadState \ {"absent", "created", "discard"} :
                  thread' = [thread EXCEPT ![p] = state]
      BY <1>4
      DEF ImageLoaded, CallbackStep, Terminator, LoadImage, LoadImageUnnamed, NotCalled,
          LoadStep, AssignImageName, DiscardRecord, ArmResumeEvent, InitResumeEvent,
          NotifyUser, Resume, WaitTimeout, TimeoutReset, ApplyVerdict, RunTerminator,
          ThreadState
    <2>3. QED
      BY <1>1, <2>1, <2>2
  <1>5. QED
    BY <1>2, <1>3, <1>4 DEF ProcessLife

\* The records are complete at the start, when nothing is registered.
LEMMA RecordedInit == LifecycleInit => RecordedInv
  BY DEF LifecycleInit, Init, RecordedInv, Taken, ThreadState

\* Every step of the life cycle keeps them complete.
LEMMA RecordedNext ==
  ASSUME "pool" \notin Faults, LifecycleTypeOK, RecordedInv, [LifecycleNext]_allVars
  PROVE  RecordedInv'
  <1>1. ASSUME UNCHANGED allVars PROVE RecordedInv'
    BY <1>1 DEF allVars, vars, helperVars, lifeVars, routineVars, entryVars, RecordedInv,
       Taken, Pending
  <1>2. ASSUME OpenDevice \/ CloseDevice \/ DeviceControl PROVE RecordedInv'
    <2>1. UNCHANGED <<thread, m_activeProcesses, driver, m_shutdown, createRoutine,
                      procInfos, current, midway>>
      BY <1>2 DEF OpenDevice, CloseDevice, DeviceControl, Request, IoctlReset, RegisterEvent,
         AppendRule, AppendRuleResume, TerminateBlackMarked, SetUserEvent, ClearUserEvent,
         vars, helperVars, lifeVars, routineVars, entryVars
    <2>2. QED
      BY <2>1 DEF RecordedInv, Taken, Pending
  <1>3. QED
    BY <1>1, <1>2, LoadingRecords, LifeRecords DEF LifecycleNext

\* As long as memory lasts, every process that runs when the driver is loaded
\* has a record, for any number of processes, loads, unloads and reused pids.
THEOREM LoadedIsRecorded ==
    ASSUME "pool" \notin Faults
    PROVE  LifecycleSpec => []RunningIsRecorded
  <1>1. RecordedInv => RunningIsRecorded
    BY DEF RecordedInv, RunningIsRecorded, Taken, Pending
  <1>2. RecordedInv /\ LifecycleTypeOK /\ [LifecycleNext]_allVars => RecordedInv'
    BY RecordedNext
  <1>3. QED
    BY <1>1, <1>2, RecordedInit, LifecycleTypeCorrect, PTL DEF LifecycleSpec

-----------------------------------------------------------------------------
(* The routines are in force, so that the loaded driver is DriverMonitor.     *)

\* The loading thread registers and removes the routines around the loaded state,
\* and clears the list when nobody is in a callback any more.
LEMMA LoadingKeepsRoutines ==
  ASSUME LifeInv, RoutineInv, DriverEntry \/ EntryStep \/ DriverUnload \/ CleanupStep
  PROVE  RoutineInv'
  <1> USE DEF LifeInv, RoutineInv, NoRoutineNoGate, RoutinesInForce, Unseen, CallbackThreads,
              Quiet, Enumerating, DriverGoto, routineVars, entryVars, vars
  <1>1. CASE DriverEntry
    BY <1>1 DEF DriverEntry
  <1>2. CASE RegisterCreateRoutine
    BY <1>2 DEF RegisterCreateRoutine
  <1>3. CASE RegisterLoadRoutine
    BY <1>3 DEF RegisterLoadRoutine
  <1>4. CASE TakeSnapshot
    BY <1>4 DEF TakeSnapshot
  <1>5. ASSUME NEW p \in Pid, QueryProcess(p) PROVE RoutineInv'
    BY <1>5 DEF QueryProcess
  <1>6. CASE EnumerationEnds
    BY <1>6 DEF EnumerationEnds
  <1>7. CASE AddCurrent
    BY <1>7 DEF AddCurrent, recordVars
  <1>8. CASE FindCurrent
    BY <1>8 DEF FindCurrent, EnumerateNext
  <1>9. CASE NameCurrent
    BY <1>9 DEF NameCurrent, EnumerateNext
  <1>10. CASE DiscardCurrent
    <2>1. driver = "discarding" /\ driver' = "enumerating"
      BY <1>10 DEF DiscardCurrent, EnumerateNext
    <2>2. UNCHANGED <<createRoutine, loadRoutine, m_shutdown>>
      BY <1>10 DEF DiscardCurrent
    <2>3. QED
      BY <2>1, <2>2
  <1>11. CASE DriverUnload
    BY <1>11 DEF DriverUnload
  <1>12. CASE RemoveLoadRoutine
    BY <1>12 DEF RemoveLoadRoutine
  <1>13. CASE RemoveCreateRoutine
    BY <1>13 DEF RemoveCreateRoutine
  <1>14. CASE ShutdownMonitor
    BY <1>14 DEF ShutdownMonitor, IoctlReset
  <1>15. CASE CleanList
    BY <1>15 DEF CleanList
  <1>16. CASE Uninit
    BY <1>16 DEF Uninit
  <1>17. QED
    BY <1>1, <1>2, <1>3, <1>4, <1>5, <1>6, <1>7, <1>8, <1>9, <1>10, <1>11, <1>12,
       <1>13, <1>14, <1>15, <1>16 DEF EntryStep, CleanupStep

\* Requests come only to a loaded driver, and no process enters a callback or
\* touches an event without the create routine.
LEMMA OthersKeepRoutines ==
  ASSUME LifeInv, RoutineInv,
         OpenDevice \/ CloseDevice \/ DeviceControl \/ \E p \in Pid : ProcessLife(p)
  PROVE  RoutineInv'
  <1>1. UNCHANGED <<driver, m_shutdown, createRoutine, loadRoutine>>
    BY DEF OpenDevice, CloseDevice, DeviceControl, ProcessLife, ProcessStarts, ProcessExits,
           ImageLoaded, CallbackStep, Terminator, lifeVars, routineVars
  <1>2. RoutinesInForce'
    BY <1>1 DEF RoutineInv, RoutinesInForce
  <1>3. SUFFICES ASSUME ~createRoutine
                 PROVE  CallbackThreads' = {} /\ (resumeEvent' = resumeEvent)
    BY <1>1, <1>2 DEF RoutineInv, NoRoutineNoGate, Unseen
  <1>4. CallbackThreads = {} /\ ~loadRoutine /\ ~open
    BY <1>3 DEF RoutineInv, NoRoutineNoGate, RoutinesInForce, LifeInv
  <1>5. CASE OpenDevice \/ CloseDevice \/ DeviceControl
    BY <1>3, <1>4, <1>5 DEF OpenDevice, CloseDevice, DeviceControl, RoutineInv, RoutinesInForce,
       vars, CallbackThreads
  <1>6. ASSUME NEW p \in Pid, ProcessLife(p)
        PROVE  CallbackThreads' = {} /\ (resumeEvent' = resumeEvent)
    <2>1. ~CallbackStep(p)
      BY <1>4 DEF CallbackStep, LoadStep, AssignImageName, DiscardRecord, ArmResumeEvent,
         InitResumeEvent, NotifyUser, Resume, WaitTimeout, TimeoutReset, ApplyVerdict, Goto,
         CallbackThreads, InCallback, ThreadState
    <2>2. resumeEvent' = resumeEvent
      BY <1>3, <1>4, <1>6, <2>1 DEF ProcessLife, ProcessStarts, ProcessExits, ImageLoaded,
         Terminator, RunTerminator, NotCalled, helperVars, recordVars
    <2>3. \/ thread' = thread
          \/ \E state \in {"absent", "created", "running"} :
               thread' = [thread EXCEPT ![p] = state]
      BY <1>3, <1>4, <1>6, <2>1 DEF ProcessLife, ProcessStarts, ProcessExits, ImageLoaded,
         Terminator, RunTerminator, Goto
    <2>4. QED
      BY <1>4, <2>2, <2>3 DEF LifeInv, CallbackThreads, InCallback
  <1>7. QED
    BY <1>5, <1>6

\* Every step of the life cycle preserves both.
LEMMA RoutineNext ==
  ASSUME LifeInv, RoutineInv, [LifecycleNext]_allVars PROVE RoutineInv'
  <1>1. ASSUME UNCHANGED allVars PROVE RoutineInv'
    BY <1>1 DEF allVars, vars, lifeVars, routineVars, RoutineInv, NoRoutineNoGate,
       RoutinesInForce, Unseen, CallbackThreads
  <1>2. QED
    BY <1>1, LoadingKeepsRoutines, OthersKeepRoutines DEF LifecycleNext

LEMMA RoutineInvariant == LifecycleSpec => [](LifeInv /\ RoutineInv)
  <1>1. LifecycleInit => RoutineInv
    BY DEF LifecycleInit, Init, RoutineInv, NoRoutineNoGate, RoutinesInForce, Unseen,
       CallbackThreads, InCallback, ThreadState, Enumerating
  <1>2. LifeInv /\ RoutineInv /\ [LifecycleNext]_allVars => (LifeInv /\ RoutineInv)'
    BY LifeNext, RoutineNext
  <1>3. QED
    BY <1>1, <1>2, LifeInit, PTL DEF LifecycleSpec

\* A step of a process or a client that meets both routines is a step of the
\* driver.
LEMMA DrivenStep ==
  ASSUME createRoutine, loadRoutine, ~m_shutdown,
         OpenDevice \/ CloseDevice \/ DeviceControl \/ \E p \in Pid : ProcessLife(p)
  PROVE  [Next]_vars
  BY DEF OpenDevice, CloseDevice, DeviceControl, ProcessLife, ProcessStarts, ProcessExits,
     ImageLoaded, CallbackStep, Terminator, Next, ProcessStep

\* The loading thread is at rest while the driver is loaded.
LEMMA LoadedStep ==
  ASSUME RoutineInv, [LifecycleNext]_allVars, driver = "loaded", driver' = "loaded"
  PROVE  [Next]_vars
  <1>1. createRoutine /\ loadRoutine /\ ~m_shutdown
    BY DEF RoutineInv, RoutinesInForce
  <1>2. ~(DriverEntry \/ EntryStep \/ DriverUnload \/ CleanupStep)
    BY DEF DriverEntry, EntryStep, DriverUnload, CleanupStep, DriverGoto, RegisterCreateRoutine,
           RegisterLoadRoutine, TakeSnapshot, QueryProcess, EnumerationEnds, AddCurrent,
           FindCurrent, NameCurrent, DiscardCurrent, EnumerateNext, RemoveLoadRoutine,
           RemoveCreateRoutine, ShutdownMonitor, CleanList, Uninit
  <1>3. QED
    BY <1>1, <1>2, DrivenStep DEF LifecycleNext, allVars

\* While the driver stays loaded, whatever happens is a step of DriverMonitor, in
\* every load, whatever faults the system returns: nothing passes the driver by.
THEOREM LoadedDriverDrives == LifecycleSpec => LoadedIsDriver
  <1>1. RoutineInv /\ [LifecycleNext]_allVars
          => [driver = "loaded" /\ driver' = "loaded" => [Next]_vars]_allVars
    BY LoadedStep
  <1>2. QED
    BY <1>1, RoutineInvariant, PTL DEF LifecycleSpec, LoadedIsDriver

-----------------------------------------------------------------------------
(* The gate across loads and unloads.                                        *)

\* The loading thread adds and drops records; the driver's variables keep their
\* types.
LEMMA LoadingKeepsDriverType ==
  ASSUME TypeOK, LifecycleTypeOK, DriverEntry \/ EntryStep \/ DriverUnload \/ CleanupStep
  PROVE  TypeOK'
  <1>1. CASE UNCHANGED vars
    BY <1>1, TypeNext
  <1>2. CASE AddCurrent
    BY <1>2 DEF AddCurrent, TypeOK, LifecycleTypeOK, recordVars, listenerVars, osVars
  <1>3. CASE NameCurrent
    BY <1>3 DEF NameCurrent, TypeOK, listenerVars, osVars
  <1>4. CASE DiscardCurrent
    <2>1. /\ m_activeProcesses' \in SUBSET Pid
          /\ UNCHANGED <<thread, rules, listenerVars, signaled, osVars>>
          /\ rules' \in SUBSET m_activeProcesses'
      BY <1>4 DEF DiscardCurrent, ListFree, TypeOK
    <2>2. /\ imageName' \in [Pid -> BOOLEAN]
          /\ marker' \in [Pid -> ProcessMarker]
          /\ resumeEvent' \in [Pid -> ResumeState]
      BY <1>4 DEF DiscardCurrent, NewRecord, recordVars, TypeOK, ProcessMarker, ResumeState
    <2>3. QED
      BY <2>1, <2>2 DEF TypeOK, listenerVars, osVars
  <1>5. CASE ShutdownMonitor
    <2>1. IoctlReset
      BY <1>5 DEF ShutdownMonitor
    <2>2. QED
      BY <2>1, TypeNext DEF Next, Request
  <1>6. CASE CleanList
    BY <1>6
    DEF CleanList, ListFree, TypeOK, ProcessMarker, ResumeState, listenerVars, osVars
  <1>7. QED
    BY <1>1, <1>2, <1>3, <1>4, <1>5, <1>6
    DEF EntryStep, CleanupStep, DriverEntry, RegisterCreateRoutine, RegisterLoadRoutine,
        TakeSnapshot, QueryProcess, EnumerationEnds, FindCurrent, DriverUnload,
        RemoveLoadRoutine, RemoveCreateRoutine, Uninit

\* A process the driver does not see only comes, runs or goes.
UnseenStep(p) ==
  /\ thread[p] \in {"absent", "created", "running"}
  /\ \E state \in {"absent", "created", "running"} : thread' = [thread EXCEPT ![p] = state]
  /\ doomed' \in SUBSET doomed
  /\ starts' = starts \/ (starts < MaxStarts /\ starts' = starts + 1)
  /\ UNCHANGED <<helperVars, rules, listenerVars, signaled, terminators>>

\* A step of a process is one of the driver, or it misses the driver: the routine
\* it would call is not registered.
LEMMA SeenOrNot ==
  ASSUME RoutineInv, NEW p \in Pid, ProcessLife(p)
  PROVE  \/ [Next]_vars
         \/ /\ UnseenStep(p)
            /\ createRoutine => thread[p] = "created" /\ thread' = [thread EXCEPT ![p] = "running"]
  <1>1. CASE ProcessStarts(p)
    BY <1>1 DEF ProcessStarts, RoutineInv, RoutinesInForce, UnseenStep, Goto, NotCalled,
       Next, ProcessStep
  <1>2. CASE ProcessExits(p)
    BY <1>2 DEF ProcessExits, UnseenStep, Goto, NotCalled, Next, ProcessStep
  <1>3. CASE ImageLoaded(p)
    BY <1>3 DEF ImageLoaded, UnseenStep, Goto, NotCalled, Next, ProcessStep
  <1>4. CASE CallbackStep(p) \/ Terminator(p)
    BY <1>4 DEF CallbackStep, Terminator, Next, ProcessStep
  <1>5. QED
    BY <1>1, <1>2, <1>3, <1>4 DEF ProcessLife

LEMMA OthersKeepDriverType ==
  ASSUME TypeOK, RoutineInv,
         OpenDevice \/ CloseDevice \/ DeviceControl \/ \E p \in Pid : ProcessLife(p)
  PROVE  TypeOK'
  <1>1. CASE OpenDevice \/ CloseDevice \/ DeviceControl
    BY <1>1, TypeNext DEF OpenDevice, CloseDevice, DeviceControl, Next
  <1>2. ASSUME NEW p \in Pid, UnseenStep(p) PROVE TypeOK'
    <2>1. starts' \in 0 .. MaxStarts
      BY <1>2, ConstantsAssumption DEF UnseenStep, TypeOK
    <2>2. QED
      BY <1>2, <2>1
      DEF UnseenStep, TypeOK, ThreadState, helperVars, recordVars, listenerVars
  <1>3. QED
    BY <1>1, <1>2, SeenOrNot, TypeNext

\* The driver's variables keep their types through any number of loads, whatever
\* fails.
LEMMA LifecycleKeepsDriverType == LifecycleSpec => []TypeOK
  <1>1. LifecycleInit => TypeOK
    BY TypeInit DEF LifecycleInit
  <1>2. ASSUME TypeOK, UNCHANGED allVars PROVE TypeOK'
    BY <1>2, TypeNext DEF allVars
  <1>3. TypeOK /\ LifecycleTypeOK /\ RoutineInv /\ [LifecycleNext]_allVars => TypeOK'
    BY <1>2, LoadingKeepsDriverType, OthersKeepDriverType DEF LifecycleNext
  <1>4. QED
    BY <1>1, <1>3, LifecycleTypeCorrect, RoutineInvariant, PTL DEF LifecycleSpec
\* A step of the loading thread. It drops no record of a thread in its callback,
\* and when it clears the list there is no such thread.
LEMMA LoadingKeepsGate ==
  ASSUME TypeOK, LifeInv, RoutineInv, LoadedGateInv, driver # "discarding",
         DriverEntry \/ EntryStep \/ DriverUnload \/ CleanupStep
  PROVE  LoadedGateInv'
  <1>1. SUFFICES ASSUME ~Unseen' PROVE GateIsSound'
    BY DEF LoadedGateInv
  <1>2. CASE ~Unseen /\ UNCHANGED vars
    BY <1>2, GateNext DEF LoadedGateInv
  <1>3. CASE AddCurrent
    <2>1. GateIsSound
      BY <1>3 DEF AddCurrent, DriverGoto, Unseen, LoadedGateInv
    <2>2. QED
      BY <1>3, <2>1
      DEF AddCurrent, GateIsSound, CallbackIsListed, NamedAtGate, EventStage, GateHasListener,
          InGate, SuspendedHasListener, Suspended, recordVars, listenerVars
  <1>4. CASE NameCurrent
    <2>1. GateIsSound
      BY <1>4 DEF NameCurrent, DriverGoto, EnumerateNext, Unseen, LoadedGateInv
    <2>2. /\ \A p \in Pid : imageName[p] => imageName'[p]
          /\ UNCHANGED <<thread, resumeEvent, m_activeProcesses, listenerVars>>
      BY <1>4 DEF NameCurrent, TypeOK
    <2>3. QED
      BY <2>1, <2>2
      DEF GateIsSound, CallbackIsListed, NamedAtGate, EventStage, GateHasListener,
          InGate, SuspendedHasListener, Suspended, listenerVars
  <1>5. CASE DiscardCurrent
    BY <1>5 DEF DiscardCurrent, EnumerateNext, DriverGoto
  <1>6. CASE ShutdownMonitor
    BY <1>1, <1>6 DEF ShutdownMonitor, DriverGoto, Unseen
  <1>7. CASE CleanList
    <2>1. \A p \in Pid : thread'[p] \in {"absent", "created", "running"}
      BY <1>7 DEF CleanList, DriverGoto, LifeInv, Quiet, CallbackThreads, InCallback
    <2>2. \A p \in Pid : resumeEvent'[p] = "null"
      BY <1>7 DEF CleanList
    <2>3. QED
      BY <2>1, <2>2
      DEF GateIsSound, CallbackIsListed, InCallback, NamedAtGate, EventStage, GateHasListener,
          InGate, SuspendedHasListener, Suspended
  <1>8. Unseen => ShutdownMonitor \/ CleanList
    BY DEF Unseen, EntryStep, CleanupStep, DriverEntry, RegisterCreateRoutine,
       RegisterLoadRoutine, TakeSnapshot, QueryProcess, EnumerationEnds, AddCurrent,
       FindCurrent, NameCurrent, DiscardCurrent, EnumerateNext, DriverUnload,
       RemoveLoadRoutine, RemoveCreateRoutine, Uninit, DriverGoto
  <1>9. QED
    BY <1>2, <1>3, <1>4, <1>5, <1>6, <1>7, <1>8
    DEF EntryStep, CleanupStep, DriverEntry, RegisterCreateRoutine, RegisterLoadRoutine,
        TakeSnapshot, QueryProcess, EnumerationEnds, FindCurrent, DriverUnload,
        RemoveLoadRoutine, RemoveCreateRoutine, Uninit

\* A process that comes or goes unseen has no event: without the create routine
\* there is none, and with it the process only begins to run.
LEMMA UnseenKeepsGate ==
  ASSUME TypeOK, RoutineInv, GateIsSound, ~Unseen, NEW p \in Pid, UnseenStep(p),
         createRoutine => thread[p] = "created" /\ thread' = [thread EXCEPT ![p] = "running"]
  PROVE  GateIsSound'
  <1>1. /\ thread'[p] \in {"absent", "created", "running"}
        /\ \A q \in Pid \ {p} : thread'[q] = thread[q]
        /\ UNCHANGED <<imageName, resumeEvent, m_activeProcesses, listenerVars>>
    BY DEF UnseenStep, helperVars, recordVars, TypeOK
  <1>2. resumeEvent[p] = "null"
    BY DEF RoutineInv, NoRoutineNoGate, GateIsSound, EventStage
  <1>3. CallbackIsListed'
    BY <1>1 DEF GateIsSound, CallbackIsListed, InCallback
  <1>4. NamedAtGate'
    BY <1>1 DEF GateIsSound, NamedAtGate
  <1>5. EventStage'
    BY <1>1, <1>2 DEF GateIsSound, EventStage
  <1>6. GateHasListener' /\ SuspendedHasListener'
    BY <1>1 DEF GateIsSound, GateHasListener, InGate, SuspendedHasListener, Suspended,
       listenerVars
  <1>7. QED
    BY <1>3, <1>4, <1>5, <1>6 DEF GateIsSound

LEMMA OthersKeepGate ==
  ASSUME TypeOK, RoutineInv, LoadedGateInv,
         OpenDevice \/ CloseDevice \/ DeviceControl \/ \E p \in Pid : ProcessLife(p)
  PROVE  LoadedGateInv'
  <1>1. driver' = driver
    BY DEF OpenDevice, CloseDevice, DeviceControl, ProcessLife, ProcessStarts, ProcessExits,
           ImageLoaded, CallbackStep, Terminator, lifeVars
  <1>2. SUFFICES ASSUME ~Unseen PROVE GateIsSound'
    BY <1>1 DEF LoadedGateInv, Unseen
  <1>3. CASE [Next]_vars
    BY <1>2, <1>3, GateNext DEF LoadedGateInv
  <1>4. CASE OpenDevice \/ CloseDevice \/ DeviceControl
    BY <1>3, <1>4 DEF OpenDevice, CloseDevice, DeviceControl, Next
  <1>5. ASSUME NEW p \in Pid, ProcessLife(p) PROVE GateIsSound'
    BY <1>2, <1>3, <1>5, SeenOrNot, UnseenKeepsGate DEF LoadedGateInv
  <1>6. QED
    BY <1>4, <1>5

\* The place of the loading thread, the routines, the records and the gate.
LoadedInv ==
  /\ TypeOK
  /\ LifecycleTypeOK
  /\ LifeInv
  /\ RoutineInv
  /\ RecordedInv
  /\ LoadedGateInv

LEMMA LoadedInvariant == ASSUME "pool" \notin Faults PROVE LifecycleSpec => []LoadedInv
  <1>1. LifecycleInit => LoadedGateInv
    BY InvInit DEF LifecycleInit, DriverInv, LoadedGateInv
  <1>2. ASSUME LoadedInv, [LifecycleNext]_allVars PROVE LoadedGateInv'
    <2> USE DEF LoadedInv
    <2>1. CASE UNCHANGED allVars
      BY <1>2, <2>1, GateNext DEF allVars, lifeVars, LoadedGateInv, Unseen
    <2>2. driver # "discarding"
      BY <1>2 DEF RecordedInv
    <2>3. QED
      BY <1>2, <2>1, <2>2, LoadingKeepsGate, OthersKeepGate DEF LifecycleNext
  <1>3. RecordedInv /\ LifecycleTypeOK /\ [LifecycleNext]_allVars => RecordedInv'
    BY RecordedNext
  <1>4. QED
    BY <1>1, <1>2, <1>3, RecordedInit, LifecycleTypeCorrect, RoutineInvariant,
       LifecycleKeepsDriverType, PTL DEF LifecycleSpec, LoadedInv

\* As long as memory lasts, a process blocked at the gate can be found by a
\* verdict and by a Reset, and a listener can be told of it, also when its
\* callback began while the list was being filled or the driver is unloaded over
\* it. Where memory runs out the enumeration may drop the record of a process in
\* its callback, and SuspendedIsListed fails.
THEOREM GateSurvivesLoads ==
    ASSUME "pool" \notin Faults
    PROVE  LifecycleSpec => [](SuspendedIsListed /\ SuspendedHasListener)
  <1>1. ASSUME LoadedInv PROVE SuspendedIsListed /\ SuspendedHasListener
    <2> USE DEF LoadedInv
    <2>1. CASE Unseen
      BY <1>1, <2>1 DEF Unseen, LifeInv, Quiet, CallbackThreads, InCallback, ThreadState,
         SuspendedIsListed, SuspendedHasListener, Suspended
    <2>2. QED
      BY <1>1, <2>1, SoundIsListed DEF LoadedGateInv, GateIsSound
  <1>2. QED
    BY <1>1, LoadedInvariant, PTL

-----------------------------------------------------------------------------
(* The promise of StartGate in every load.                                   *)

\* Nothing but the driver touches the events and verdicts of processes in their
\* callback, and rules are sent to a loaded driver only.
LEMMA LifecycleKeepsRules ==
  ASSUME LoadedInv, ResumedIsSet, RuledIsJudged, [LifecycleNext]_allVars
  PROVE  ResumedIsSet' /\ RuledIsJudged'
  <1> USE DEF LoadedInv
  <1>1. CASE driver' \in Quiet
    BY <1>1, LifeNext DEF LifeInv, Quiet, CallbackThreads, InCallback, ThreadState,
       ResumedIsSet, RuledIsJudged
  <1>2. CASE /\ UNCHANGED <<resumeEvent, marker, rules>>
             /\ \A p \in Pid : thread'[p] = "resumed" => thread[p] = "resumed"
    BY <1>2 DEF ResumedIsSet, RuledIsJudged
  <1>3. CASE ~Unseen /\ [Next]_vars
    BY <1>3, GateInvNext DEF GateInv, LoadedGateInv
  <1>4. CASE OpenDevice \/ CloseDevice \/ DeviceControl \/ \E p \in Pid : ProcessLife(p)
    <2>1. driver' = driver
      BY <1>4 DEF OpenDevice, CloseDevice, DeviceControl, ProcessLife, ProcessStarts,
         ProcessExits, ImageLoaded, CallbackStep, Terminator, lifeVars
    <2>2. ASSUME NEW p \in Pid, UnseenStep(p) PROVE ResumedIsSet' /\ RuledIsJudged'
      BY <1>2, <2>2 DEF UnseenStep, helperVars, recordVars, TypeOK
    <2>3. CASE Unseen
      BY <1>1, <2>1, <2>3 DEF Unseen, Quiet
    <2>4. QED
      BY <1>3, <1>4, <2>2, <2>3, SeenOrNot
      DEF OpenDevice, CloseDevice, DeviceControl, Next
  <1>5. CASE DriverEntry \/ EntryStep \/ DriverUnload \/ CleanupStep
    <2>1. driver # "discarding"
      BY DEF RecordedInv
    <2>2. CASE ShutdownMonitor \/ CleanList
      BY <1>1, <2>2 DEF ShutdownMonitor, CleanList, DriverGoto, Quiet
    <2>3. QED
      BY <1>2, <1>5, <2>1, <2>2
      DEF EntryStep, CleanupStep, DriverEntry, RegisterCreateRoutine, RegisterLoadRoutine,
          TakeSnapshot, QueryProcess, EnumerationEnds, AddCurrent, FindCurrent, NameCurrent,
          DiscardCurrent, EnumerateNext, DriverGoto, DriverUnload, RemoveLoadRoutine,
          RemoveCreateRoutine, Uninit, vars, recordVars
  <1>6. CASE UNCHANGED allVars
    BY <1>2, <1>6 DEF allVars, vars
  <1>7. QED
    BY <1>4, <1>5, <1>6 DEF LifecycleNext

\* In every load, not only in the first, the driver keeps the promise of StartGate
\* from DriverEntry to DriverUnload, as long as memory lasts: also to a process
\* that the enumeration and its own callback recorded together.
THEOREM LoadedKeepsPromise ==
    ASSUME "pool" \notin Faults
    PROVE  LifecycleSpec =>
             [][driver = "loaded" /\ driver' = "loaded" =>
                  [Promise!Next]_(Promise!vars)]_allVars
  <1>1. LifecycleInit => ResumedIsSet /\ RuledIsJudged
    BY GateInvInit DEF LifecycleInit, GateInv
  <1>2. ASSUME LoadedInv, ResumedIsSet, RuledIsJudged, [LifecycleNext]_allVars
        PROVE  [driver = "loaded" /\ driver' = "loaded" =>
                  [Promise!Next]_(Promise!vars)]_allVars
    <2>1. driver = "loaded" => GateInv
      BY <1>2 DEF LoadedInv, LoadedGateInv, Unseen, GateInv
    <2>2. QED
      BY <1>2, <2>1, LoadedStep, PromiseStep DEF LoadedInv
  <1>3. LoadedInv /\ ResumedIsSet /\ RuledIsJudged /\ [LifecycleNext]_allVars
          => ResumedIsSet' /\ RuledIsJudged'
    BY LifecycleKeepsRules
  <1>4. QED
    BY <1>1, <1>2, <1>3, LoadedInvariant, PTL DEF LifecycleSpec
=============================================================================
