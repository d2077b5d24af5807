--------------------------- MODULE DriverLifecycle ---------------------------
(***************************************************************************)
(* Loading and unloading the driver: DriverEntry, Initialize with its      *)
(* enumeration of the processes that are there already, DriverUnload and   *)
(* Cleanup, while processes come and go. The processes and the requests    *)
(* are those of DriverMonitor; here a process callback reaches the driver  *)
(* only while its notify routine is registered, and a request only while a *)
(* client has the device open.                                             *)
(*                                                                         *)
(* One thread runs DriverEntry or DriverUnload; `driver' is where it is.   *)
(***************************************************************************)
EXTENDS DriverMonitor

CONSTANT EntryFails   \* whether a call of DriverEntry may fail

ASSUME LifecycleAssumption == EntryFails \in BOOLEAN

VARIABLES
  driver,         \* where the thread in DriverEntry or DriverUnload is
  device,         \* gDeviceObject exists
  instance,       \* the ProcessMonitor in gProcessMonitor is constructed
  m_shutdown,     \* ProcessMonitor::m_shutdown
  createRoutine,  \* CreateProcessNotifyRoutine is registered
  loadRoutine,    \* LoadImageNotifyRoutine is registered
  procInfos,      \* pids of the snapshot that are still to be visited
  current,        \* pids the enumeration is at: none or one
  held,           \* the record it found is still the one in the list
  open,           \* a client has the device open
  midway          \* ghost: created before createRoutine, not running then

entryVars == <<procInfos, current, held, midway>>
routineVars == <<createRoutine, loadRoutine>>
lifeVars == <<driver, device, instance, m_shutdown, routineVars, entryVars, open>>
allVars == <<vars, lifeVars>>

DriverState ==
  {"unloaded", "constructed", "registered", "snapshot", "enumerating", "adding",
   "finding", "naming", "discarding", "loaded",
   "removing", "draining", "resetting", "cleaning", "uninit"}

DriverGoto(from, to) == driver = from /\ driver' = to

\* The thread is in StartupProcessManagerList.
Enumerating == {"enumerating", "adding", "finding", "naming", "discarding"}

Alive == {p \in Pid : thread[p] # "absent"}

CallbackThreads == {p \in Pid : thread[p] \in InCallback}

-----------------------------------------------------------------------------
(* DriverEntry and Initialize.                                              *)

\* mutant: the object of the previous load is taken over with its m_shutdown
DriverEntryKeepsShutdown ==
  /\ ~device
  /\ DriverGoto("unloaded", "constructed")
  /\ device' = TRUE /\ instance' = TRUE
  /\ UNCHANGED <<vars, m_shutdown, routineVars, entryVars, open>>

\* IoCreateDevice, IoCreateSymbolicLink and ProcessMonitor::Init, which
\* constructs the monitor and initialises its list. An entry that failed
\* earlier has left its device behind, so that its name is taken.
DriverEntry ==
  /\ \/ /\ ~device
        /\ DriverGoto("unloaded", "constructed")
        /\ device' = TRUE /\ instance' = TRUE
     \/ /\ EntryFails
        /\ DriverGoto("unloaded", "removing")
        /\ \/ UNCHANGED <<device, instance>>
           \/ ~device /\ device' = TRUE /\ instance' \in BOOLEAN
  /\ m_shutdown' = FALSE
  /\ UNCHANGED <<vars, routineVars, entryVars, open>>

RegisterCreateRoutine ==
  /\ \/ DriverGoto("constructed", "registered") /\ createRoutine' = TRUE
     \/ EntryFails /\ DriverGoto("constructed", "removing") /\ UNCHANGED createRoutine
  /\ midway' = {p \in Pid : thread[p] = "created"}
  /\ UNCHANGED <<vars, device, instance, m_shutdown, loadRoutine, procInfos,
                 current, held, open>>

RegisterLoadRoutine ==
  /\ \/ DriverGoto("registered", "snapshot") /\ loadRoutine' = TRUE
     \/ EntryFails /\ DriverGoto("registered", "removing") /\ UNCHANGED loadRoutine
  /\ UNCHANGED <<vars, device, instance, m_shutdown, createRoutine, entryVars, open>>

\* GetSystemProcessInformation; without a snapshot DriverEntry still succeeds.
TakeSnapshot ==
  /\ \/ DriverGoto("snapshot", "enumerating") /\ procInfos' = Alive
     \/ "pool" \in Faults /\ DriverGoto("snapshot", "loaded") /\ UNCHANGED procInfos
  /\ UNCHANGED <<vars, device, instance, m_shutdown, routineVars, current, held,
                 midway, open>>

\* mutant: a process that cannot be queried ends the enumeration
QueryProcessStops(p) ==
  /\ p \in procInfos
  /\ \/ /\ thread[p] \notin {"absent", "created"}
        /\ DriverGoto("enumerating", "adding")
        /\ current' = {p} /\ procInfos' = procInfos \ {p}
     \/ /\ thread[p] \in {"absent", "created"} \/ "pool" \in Faults
        /\ DriverGoto("enumerating", "loaded")
        /\ current' = {} /\ procInfos' = {}
  /\ UNCHANGED <<vars, device, instance, m_shutdown, routineVars, held, midway, open>>

\* GetProcessImageFileName and GetMainModuleImageBase: they fail for a process
\* that is gone and for one whose loader data does not exist yet.
QueryProcess(p) ==
  /\ p \in procInfos
  /\ procInfos' = procInfos \ {p}
  /\ \/ /\ thread[p] \notin {"absent", "created"}
        /\ DriverGoto("enumerating", "adding")
        /\ current' = {p}
     \/ /\ thread[p] \in {"absent", "created"} \/ "pool" \in Faults
        /\ driver = "enumerating"
        /\ UNCHANGED <<driver, current>>
  /\ UNCHANGED <<vars, device, instance, m_shutdown, routineVars, held, midway, open>>

EnumerationEnds ==
  /\ procInfos = {}
  /\ DriverGoto("enumerating", "loaded")
  /\ UNCHANGED <<vars, device, instance, m_shutdown, routineVars, entryVars, open>>

\* OnCreateProcess for an enumerated process, whether or not it still exists.
AddCurrent ==
  /\ ListFree
  /\ DriverGoto("adding", "finding")
  /\ \/ m_activeProcesses' = m_activeProcesses \cup current
     \/ "pool" \in Faults /\ UNCHANGED m_activeProcesses
  /\ UNCHANGED <<thread, recordVars, rules, listenerVars, signaled, osVars, device,
                 instance, m_shutdown, routineVars, entryVars, open>>

\* mutant: the record of the previous process is kept
EnumerateNextKeeps(from) ==
  /\ DriverGoto(from, "enumerating")
  /\ UNCHANGED <<current, held>>

EnumerateNext(from) ==
  /\ DriverGoto(from, "enumerating")
  /\ current' = {} /\ held' = FALSE

\* mutant: a record that has its name already is taken for a stale one
FindCurrentDropsNamed ==
  /\ DriverGoto("finding", "naming")
  /\ m_activeProcesses' = m_activeProcesses \ {p \in current : imageName[p]}
  /\ held' = (current \subseteq m_activeProcesses')
  /\ UNCHANGED <<thread, recordVars, rules, listenerVars, signaled, osVars, device,
                 instance, m_shutdown, routineVars, procInfos, current, midway, open>>

\* OnLoadProcessImage for an enumerated process: lookup and early returns ...
FindCurrent ==
  /\ \/ /\ \E p \in current : p \in m_activeProcesses /\ ~imageName[p]
        /\ DriverGoto("finding", "naming")
        /\ held' = TRUE /\ UNCHANGED current
     \/ /\ \A p \in current : p \in m_activeProcesses => imageName[p]
        /\ EnumerateNext("finding")
  /\ UNCHANGED <<vars, device, instance, m_shutdown, routineVars, procInfos, midway, open>>

\* ... then the name, stored in the record that was found even if that has left
\* the list. No listener can be registered yet, so there is no gate.
NameCurrent ==
  /\ \/ /\ EnumerateNext("naming")
        /\ imageName' = [p \in Pid |-> IF held /\ p \in current THEN TRUE ELSE imageName[p]]
     \/ /\ "pool" \in Faults
        /\ DriverGoto("naming", "discarding")
        /\ UNCHANGED <<imageName, current, held>>
  /\ UNCHANGED <<thread, marker, resumeEvent, m_activeProcesses, rules, listenerVars,
                 signaled, osVars, device, instance, m_shutdown, routineVars,
                 procInfos, midway, open>>

\* A failed name deletes what the list holds for the pid. A thread of that
\* process that is in its own callback goes on with the record it has.
DiscardCurrent ==
  /\ ListFree
  /\ EnumerateNext("discarding")
  /\ m_activeProcesses' = m_activeProcesses \ current
  /\ \E p \in current :
       IF thread[p] \in InCallback THEN UNCHANGED recordVars ELSE NewRecord(p)
  /\ UNCHANGED <<thread, rules, listenerVars, signaled, osVars, device, instance,
                 m_shutdown, routineVars, procInfos, midway, open>>

-----------------------------------------------------------------------------
(* DriverUnload and Cleanup, which DriverEntry runs as well when it fails.  *)

\* The system starts no unload while the device is open.
DriverUnload ==
  /\ ~open
  /\ DriverGoto("loaded", "removing")
  /\ device' = FALSE
  /\ UNCHANGED <<vars, instance, m_shutdown, routineVars, entryVars, open>>

\* mutant: the load routine stays registered
RemoveLoadRoutineForgotten ==
  /\ DriverGoto("removing", "draining")
  /\ UNCHANGED <<vars, device, instance, m_shutdown, routineVars, entryVars, open>>

RemoveLoadRoutine ==
  /\ DriverGoto("removing", "draining")
  /\ loadRoutine' = FALSE
  /\ UNCHANGED <<vars, device, instance, m_shutdown, createRoutine, entryVars, open>>

\* PsRemoveLoadImageNotifyRoutine waits for the callbacks that run, those
\* blocked at the gate among them; then the create routine is removed.
RemoveCreateRoutine ==
  /\ CallbackThreads = {}
  /\ DriverGoto("draining", "resetting")
  /\ createRoutine' = FALSE
  /\ UNCHANGED <<vars, device, instance, m_shutdown, loadRoutine, entryVars, open>>

\* ProcessMonitor::Cleanup: m_shutdown is set, Reset, ...
ShutdownMonitor ==
  /\ instance
  /\ DriverGoto("resetting", "cleaning")
  /\ m_shutdown' = TRUE
  /\ IoctlReset
  /\ UNCHANGED <<device, instance, routineVars, entryVars, open>>

\* ... then the list is cleared.
CleanList ==
  /\ ListFree
  /\ DriverGoto("cleaning", "uninit")
  /\ m_activeProcesses' = {}
  /\ imageName' = [p \in Pid |-> FALSE]
  /\ marker' = [p \in Pid |-> "Clean"]
  /\ resumeEvent' = [p \in Pid |-> "null"]
  /\ UNCHANGED <<thread, rules, listenerVars, signaled, osVars, device, instance,
                 m_shutdown, routineVars, entryVars, open>>

Uninit ==
  /\ DriverGoto("uninit", "unloaded")
  /\ instance' = FALSE
  /\ procInfos' = {} /\ midway' = {}
  /\ UNCHANGED <<vars, device, m_shutdown, routineVars, current, held, open>>

-----------------------------------------------------------------------------
(* Processes and clients.                                                   *)

\* The record of p is dropped from the list: the enumeration may have it.
Dropped(p) == held' = (held /\ p \notin current)

NotCalled(p) == UNCHANGED <<helperVars, rules, listenerVars, signaled, terminators>>

ProcessStarts(p) ==
  /\ IF createRoutine /\ ~m_shutdown
     THEN OnCreateProcess(p)
     ELSE /\ starts < MaxStarts /\ starts' = starts + 1
          /\ Goto(p, {"absent"}, "created")
          /\ NotCalled(p) /\ UNCHANGED doomed
  /\ UNCHANGED lifeVars

ProcessExits(p) ==
  /\ IF createRoutine
     THEN OnDeleteProcess(p)
     ELSE /\ Goto(p, {"created", "running"}, "absent")
          /\ doomed' = doomed \ {p}
          /\ NotCalled(p) /\ UNCHANGED starts
  /\ IF createRoutine THEN Dropped(p) ELSE UNCHANGED held
  /\ midway' = midway \ {p}
  /\ UNCHANGED <<driver, device, instance, m_shutdown, routineVars, procInfos,
                 current, open>>

ImageLoaded(p) ==
  /\ IF loadRoutine /\ ~m_shutdown
     THEN LoadImage(p) \/ LoadImageUnnamed(p)
     ELSE Goto(p, {"created"}, "running") /\ NotCalled(p) /\ UNCHANGED <<doomed, starts>>
  /\ UNCHANGED lifeVars

CallbackStep(p) ==
  /\ LoadStep(p)
  /\ IF p \in m_activeProcesses' THEN UNCHANGED held ELSE Dropped(p)
  /\ UNCHANGED <<driver, device, instance, m_shutdown, routineVars, procInfos,
                 current, midway, open>>

\* A terminating thread may outlive the driver. It would run code that is no
\* longer there; the model lets it finish.
Terminator(p) == RunTerminator(p) /\ UNCHANGED lifeVars

\* A device that DriverEntry creates cannot be opened before it has returned.
OpenDevice ==
  /\ driver = "loaded" /\ ~open
  /\ open' = TRUE
  /\ UNCHANGED <<vars, driver, device, instance, m_shutdown, routineVars, entryVars>>

CloseDevice ==
  /\ open /\ rules = {}
  /\ open' = FALSE
  /\ UNCHANGED <<vars, driver, device, instance, m_shutdown, routineVars, entryVars>>

DeviceControl == open /\ Request /\ UNCHANGED lifeVars

-----------------------------------------------------------------------------
\* The driver is not loaded, and processes exist.
LifecycleInit ==
  /\ Init
  /\ m_activeProcesses = {}
  /\ driver = "unloaded"
  /\ device = FALSE
  /\ instance = FALSE
  /\ m_shutdown = FALSE
  /\ createRoutine = FALSE
  /\ loadRoutine = FALSE
  /\ procInfos = {} /\ current = {} /\ held = FALSE /\ midway = {}
  /\ open = FALSE

EntryStep ==
  \/ RegisterCreateRoutine
  \/ RegisterLoadRoutine
  \/ TakeSnapshot
  \/ \E p \in Pid : QueryProcess(p)
  \/ EnumerationEnds
  \/ AddCurrent
  \/ FindCurrent
  \/ NameCurrent
  \/ DiscardCurrent

CleanupStep ==
  \/ RemoveLoadRoutine
  \/ RemoveCreateRoutine
  \/ ShutdownMonitor
  \/ CleanList
  \/ Uninit

ProcessLife(p) ==
  \/ ProcessStarts(p)
  \/ ProcessExits(p)
  \/ ImageLoaded(p)
  \/ CallbackStep(p)
  \/ Terminator(p)

LifecycleNext ==
  \/ DriverEntry
  \/ EntryStep
  \/ DriverUnload
  \/ CleanupStep
  \/ OpenDevice
  \/ CloseDevice
  \/ DeviceControl
  \/ \E p \in Pid : ProcessLife(p)

LifecycleSpec == LifecycleInit /\ [][LifecycleNext]_allVars

\* The thread that loads or unloads the driver keeps running, and so do those
\* inside its callbacks.
LifecycleFairness ==
  /\ WF_allVars(EntryStep)
  /\ WF_allVars(CleanupStep)
  /\ \A p \in Pid : SF_allVars(CallbackStep(p)) /\ WF_allVars(Terminator(p))

FairLifecycleSpec == LifecycleSpec /\ LifecycleFairness

-----------------------------------------------------------------------------
(* Properties.                                                              *)

\* Every variable of the life cycle holds a value of its type, and the
\* enumeration refers to a process and its record only while it is at them.
LifecycleTypeOK ==
  /\ driver \in DriverState
  /\ device \in BOOLEAN
  /\ instance \in BOOLEAN
  /\ m_shutdown \in BOOLEAN
  /\ createRoutine \in BOOLEAN
  /\ loadRoutine \in BOOLEAN
  /\ procInfos \in SUBSET Pid
  /\ current \in SUBSET Pid
  /\ held \in BOOLEAN
  /\ open \in BOOLEAN
  /\ midway \in SUBSET Pid
  /\ driver \in Enumerating \ {"enumerating"} <=> current # {}
  /\ held => driver \in {"naming", "discarding"}

\* Once the driver is loaded, a running process has a record, however starts,
\* exits and reuses of its pid interleaved with the enumeration. The exception
\* is a process that was being created when the create routine was registered.
RunningIsRecorded ==
  driver = "loaded" =>
    \A p \in Pid : thread[p] = "running" /\ p \notin midway => p \in m_activeProcesses

\* Who can still reach the ProcessMonitor object.
InUse ==
  \/ CallbackThreads # {}
  \/ createRoutine
  \/ loadRoutine
  \/ open
  \/ rules # {}
  \/ driver \in Enumerating

\* The monitor object is not destroyed while a callback, a request or the
\* enumeration can still use it.
MonitorOutlivesUsers == InUse => instance

\* While the driver stays loaded, every step of a process or of a client is one
\* the driver takes part in: no process starts, exits or loads its image unseen,
\* in whichever load of the driver.
LoadedIsDriver ==
  [][driver = "loaded" /\ driver' = "loaded" => [Next]_vars]_allVars

\* The driver can always be unloaded: a process blocked at the gate, which the
\* Reset in Cleanup comes too late for, holds it up only until its timeout.
UnloadCompletes == driver = "draining" /\ instance ~> driver = "unloaded"

-----------------------------------------------------------------------------
(* The inductive invariant of the gate across loads and unloads.            *)

\* Cleanup has taken the create routine away and not cleared the list yet: exits
\* go unseen, so that the records are no longer those of the processes.
Unseen == driver \in {"resetting", "cleaning"}

\* Without the create routine nobody is in a callback, and no record that counts
\* has an event.
NoRoutineNoGate ==
  ~createRoutine =>
    /\ CallbackThreads = {} /\ ~loadRoutine
    /\ Unseen \/ resumeEvent = [p \in Pid |-> "null"]

\* Where the routines are registered they are in force, and they are registered
\* from their registration to the unload.
RoutinesInForce ==
  /\ createRoutine \/ loadRoutine \/ driver = "constructed" => ~m_shutdown
  /\ driver = "registered" => createRoutine
  /\ driver \in Enumerating \cup {"snapshot", "loaded"} => createRoutine /\ loadRoutine

RoutineInv == NoRoutineNoGate /\ RoutinesInForce

\* While the driver sees every exit, the gate is as sound as in DriverMonitor.
LoadedGateInv == ~Unseen => GateIsSound

-----------------------------------------------------------------------------
(* What comments in the code say and the code does not do.                  *)

\* "Its safe to call, even if Initialize() failed": Cleanup works on a monitor
\* that has been constructed.
CleanupIsSafe == driver \in {"resetting", "cleaning", "uninit"} => instance
=============================================================================
