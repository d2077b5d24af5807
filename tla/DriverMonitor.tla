---------------------------- MODULE DriverMonitor ----------------------------
(***************************************************************************)
(* The kernel driver's ProcessMonitor: the record the driver keeps of each *)
(* process, the gate in OnLoadProcessImage where a starting process waits  *)
(* for a verdict, and the device-control requests that deliver verdicts.   *)
(*                                                                         *)
(* Threads: the initial thread of every process (it runs the create, load  *)
(* and exit callbacks), the threads that issue device-control requests,    *)
(* and the system threads that terminate processes.                        *)
(*                                                                         *)
(* Locks: m_lock and the list lock are reader/writer locks. A region under *)
(* an exclusive lock is one action. A shared region is split wherever      *)
(* another shared holder can interfere; who is inside is read off `thread' *)
(* and `rules', so MLockFree and ListFree are what a writer waits for.     *)
(***************************************************************************)
EXTENDS Naturals, FiniteSets

CONSTANTS
  Pid,             \* process ids (reused after the process is gone)
  Event,           \* user-mode event objects a client may register
  NoEvent,         \* the null event pointer / a handle that does not resolve
  Faults,          \* the resource failures the kernel may return
  MaxStarts,       \* bound: number of process creations in a behaviour
  MaxTerminators   \* bound: pending terminating system threads per pid

FaultKinds == {"pool", "name", "handle", "thread"}

ASSUME ConstantsAssumption ==
  /\ NoEvent \notin Event
  /\ Faults \subseteq FaultKinds
  /\ MaxStarts \in Nat
  /\ MaxTerminators \in Nat \ {0}

VARIABLES
  thread,             \* where the initial thread of each process is
  imageName,          \* ProcessHelper: the image name has been stored
  marker,             \* ProcessHelper: the verdict on the process
  resumeEvent,        \* ProcessHelper: the event its thread waits on
  m_activeProcesses,  \* pids that have a record in the list
  rules,              \* AppendRule calls between marker write and resume check
  m_userNotifyEvent,  \* the registered user event, or NoEvent
  m_userModeEvent,    \* whether the last registration resolved its handle
  signaled,           \* state of each user-mode event object
  terminators,        \* pending SystemThreadToTerminateTargetProcess per pid
  doomed,             \* processes ZwTerminateProcess was called on
  starts              \* number of processes created so far

recordVars == <<imageName, marker, resumeEvent>>
helperVars == <<recordVars, m_activeProcesses>>
listenerVars == <<m_userNotifyEvent, m_userModeEvent>>
osVars == <<terminators, doomed, starts>>
vars == <<thread, imageName, marker, resumeEvent, m_activeProcesses, rules,
          m_userNotifyEvent, m_userModeEvent, signaled, terminators, doomed,
          starts>>

-----------------------------------------------------------------------------
ProcessMarker == {"Clean", "Disallowed", "Allowed"}

\* sync::Event as resumeEvent: null pointer, allocated but not yet passed to
\* KeInitializeEvent, initialised and not signaled, signaled.
ResumeState == {"null", "raw", "clear", "set"}

\* The record of p is constructed anew, or none is left.
NewRecord(p) ==
  /\ imageName' = [imageName EXCEPT ![p] = FALSE]
  /\ marker' = [marker EXCEPT ![p] = "Clean"]
  /\ resumeEvent' = [resumeEvent EXCEPT ![p] = "null"]

\* "absent" .. "created" .. "running" are outside OnLoadProcessImage; the
\* others name the point the thread has reached inside it.
ThreadState == {"absent", "created", "naming", "discard", "named", "armed",
                "ready", "waiting", "timedout", "resumed", "running"}

IsSuspended(p) == resumeEvent[p] \in {"raw", "clear"}

\* Event::Set. On an event that KeInitializeEvent has not reached yet the
\* signal is lost, because the initialisation writes the state afterwards.
Signal(event) == IF event = "clear" THEN "set" ELSE event

InGate == {p \in Pid : thread[p] \in {"armed", "ready"}}

\* mutant: the gate does not hold m_lock while it arms the event
MLockFreeNoGate == rules = {}

MLockFree == rules = {} /\ InGate = {}

ListFree == rules = {}

\* An exclusive request that waits: ERESOURCE lets no new shared holder in
\* while the resource is held shared and such a request is queued.
ResetWaiting == \E q \in Pid : thread[q] = "timedout"

ListWriterWaiting ==
  \E q \in Pid : \/ thread[q] = "discard"
                 \/ q \in doomed /\ thread[q] \in {"created", "running"}

Goto(p, from, to) ==
  /\ thread[p] \in from
  /\ thread' = [thread EXCEPT ![p] = to]

-----------------------------------------------------------------------------
(* Process callbacks: CreateProcessNotifyRoutine, LoadImageNotifyRoutine.   *)

OnCreateProcess(p) ==
  /\ starts < MaxStarts
  /\ ListFree
  /\ Goto(p, {"absent"}, "created")
  /\ starts' = starts + 1
  /\ \/ m_activeProcesses' = m_activeProcesses \cup {p}
     \/ "pool" \in Faults /\ UNCHANGED m_activeProcesses
  /\ UNCHANGED <<recordVars, rules, listenerVars, signaled, terminators, doomed>>

\* mutant: a later image load is not recognised by the stored image name
LoadImageAgain(p) ==
  /\ Goto(p, {"created", "running"},
          IF p \in m_activeProcesses THEN "naming" ELSE "running")
  /\ UNCHANGED <<helperVars, rules, listenerVars, signaled, osVars>>

\* Lookup in the list and the early returns of OnLoadProcessImage: no record,
\* or a name is already stored because this image is a later DLL.
LoadImage(p) ==
  /\ Goto(p, {"created", "running"},
          IF p \in m_activeProcesses /\ ~imageName[p]
          THEN "naming" ELSE "running")
  /\ UNCHANGED <<helperVars, rules, listenerVars, signaled, osVars>>

\* LoadImageNotifyRoutine returns at once when the system has no image name.
LoadImageUnnamed(p) ==
  /\ "name" \in Faults
  /\ Goto(p, {"created"}, "running")
  /\ UNCHANGED <<helperVars, rules, listenerVars, signaled, osVars>>

AssignImageName(p) ==
  /\ \/ /\ Goto(p, {"naming"}, "named")
        /\ imageName' = [imageName EXCEPT ![p] = TRUE]
     \/ /\ "pool" \in Faults
        /\ Goto(p, {"naming"}, "discard")
        /\ UNCHANGED imageName
  /\ UNCHANGED <<marker, resumeEvent, m_activeProcesses, rules, listenerVars, signaled, osVars>>

\* mutant: no return after the record is dropped
DiscardRecordFallThrough(p) ==
  /\ ListFree
  /\ Goto(p, {"discard"}, "named")
  /\ m_activeProcesses' = m_activeProcesses \ {p}
  /\ UNCHANGED <<recordVars, rules, listenerVars, signaled, osVars>>

DiscardRecord(p) ==
  /\ ListFree
  /\ Goto(p, {"discard"}, "running")
  /\ m_activeProcesses' = m_activeProcesses \ {p}
  /\ NewRecord(p)
  /\ UNCHANGED <<rules, listenerVars, signaled, osVars>>

\* Under m_lock shared: without a listener the process just goes on, otherwise
\* the resume event is allocated.
ArmResumeEvent(p) ==
  /\ ~MLockFree => ~ResetWaiting
  /\ \/ /\ m_userNotifyEvent # NoEvent
        /\ Goto(p, {"named"}, "armed")
        /\ resumeEvent' = [resumeEvent EXCEPT ![p] = "raw"]
     \/ /\ m_userNotifyEvent = NoEvent \/ "pool" \in Faults
        /\ Goto(p, {"named"}, "running")
        /\ UNCHANGED resumeEvent
  /\ UNCHANGED <<imageName, marker, m_activeProcesses, rules, listenerVars, signaled, osVars>>

InitResumeEvent(p) ==
  /\ Goto(p, {"armed"}, "ready")
  /\ resumeEvent' = [resumeEvent EXCEPT ![p] = "clear"]
  /\ UNCHANGED <<imageName, marker, m_activeProcesses, rules, listenerVars, signaled, osVars>>

\* Still under m_lock shared; the lock is released before the wait.
NotifyUser(p) ==
  /\ Goto(p, {"ready"}, "waiting")
  /\ signaled' = [signaled EXCEPT ![m_userNotifyEvent] = TRUE]
  /\ UNCHANGED <<helperVars, rules, listenerVars, osVars>>

Resume(p) ==
  /\ resumeEvent[p] = "set"
  /\ Goto(p, {"waiting"}, "resumed")
  /\ UNCHANGED <<helperVars, rules, listenerVars, signaled, osVars>>

\* mutant: the wait has no timeout
WaitForever(p) == FALSE /\ UNCHANGED vars

\* mutant: a wait that timed out is taken for an answer
WaitTimeoutIsAnswer(p) ==
  /\ resumeEvent[p] # "set"
  /\ Goto(p, {"waiting"}, "resumed")
  /\ UNCHANGED <<helperVars, rules, listenerVars, signaled, osVars>>

\* KeWaitForSingleObject gives up after waitTimeout (4 minutes).
WaitTimeout(p) ==
  /\ resumeEvent[p] # "set"
  /\ Goto(p, {"waiting"}, "timedout")
  /\ UNCHANGED <<helperVars, rules, listenerVars, signaled, osVars>>

\* mutant: the marker is read before the wait, when it is still Clean
ApplyVerdictNever(p) ==
  /\ Goto(p, {"resumed"}, "running")
  /\ UNCHANGED <<helperVars, rules, listenerVars, signaled, osVars>>

\* Reads the marker; LoadImageNotifyRoutine then schedules the termination.
ApplyVerdict(p) ==
  /\ Goto(p, {"resumed"}, "running")
  /\ \/ /\ marker[p] = "Disallowed"
        /\ terminators[p] < MaxTerminators
        /\ terminators' = [terminators EXCEPT ![p] = @ + 1]
     \/ /\ marker[p] # "Disallowed" \/ "thread" \in Faults
        /\ UNCHANGED terminators
  /\ UNCHANGED <<helperVars, rules, listenerVars, signaled, doomed, starts>>

\* A process ends outside the load callback; a terminated one is still inside
\* the kernel wait until that wait returns.
OnDeleteProcess(p) ==
  /\ ListFree
  /\ Goto(p, {"created", "running"}, "absent")
  /\ m_activeProcesses' = m_activeProcesses \ {p}
  /\ NewRecord(p)
  /\ doomed' = doomed \ {p}
  /\ UNCHANGED <<rules, listenerVars, signaled, terminators, starts>>

-----------------------------------------------------------------------------
(* Device-control requests: ProcessIrp.                                     *)

ClearListener ==
  /\ m_userNotifyEvent' = NoEvent
  /\ signaled' = IF m_userNotifyEvent = NoEvent THEN signaled
                 ELSE [signaled EXCEPT ![m_userNotifyEvent] = TRUE]
  /\ UNCHANGED m_userModeEvent

\* ProcessMonitor::Reset, under m_lock exclusive.
Reset ==
  /\ MLockFree
  /\ ClearListener
  /\ resumeEvent' = [q \in Pid |->
                       IF q \in m_activeProcesses /\ IsSuspended(q)
                       THEN Signal(resumeEvent[q]) ELSE resumeEvent[q]]
  /\ UNCHANGED <<imageName, marker>>

IoctlReset ==
  /\ Reset
  /\ UNCHANGED <<thread, m_activeProcesses, rules, osVars>>

\* The loading thread whose wait timed out resets the whole monitor.
TimeoutReset(p) ==
  /\ Goto(p, {"timedout"}, "resumed")
  /\ Reset
  /\ UNCHANGED <<m_activeProcesses, rules, osVars>>

\* IOCTL_REGISTER_EVENT, under m_lock exclusive. The previous event is dropped
\* first; e = NoEvent is a handle that does not resolve.
RegisterEvent(e) ==
  /\ MLockFree
  /\ e = NoEvent => "handle" \in Faults
  /\ m_userNotifyEvent' = e
  /\ m_userModeEvent' = (e # NoEvent)
  /\ signaled' = IF e # NoEvent /\ \E q \in m_activeProcesses : IsSuspended(q)
                 THEN [signaled EXCEPT ![e] = TRUE] ELSE signaled
  /\ UNCHANGED <<thread, helperVars, rules, osVars>>

\* mutant: the record is not looked up
AppendRuleAnyPid(p, blacklistRule) ==
  /\ p \notin rules
  /\ marker' = [marker EXCEPT ![p] = IF blacklistRule THEN "Disallowed" ELSE "Allowed"]
  /\ rules' = rules \cup {p}
  /\ UNCHANGED <<thread, imageName, resumeEvent, m_activeProcesses,
                 listenerVars, signaled, osVars>>

\* AppendRule, first half: the marker is written; m_lock and the list are held
\* shared until the second half. A pid without a record changes nothing. Two
\* rules for the same pid are taken one after the other.
AppendRule(p, blacklistRule) ==
  /\ p \notin rules
  /\ ~MLockFree => ~ResetWaiting
  /\ ~ListFree => ~ListWriterWaiting
  /\ IF p \in m_activeProcesses
     THEN /\ marker' = [marker EXCEPT ![p] =
                          IF blacklistRule THEN "Disallowed" ELSE "Allowed"]
          /\ rules' = rules \cup {p}
     ELSE UNCHANGED <<marker, rules>>
  /\ UNCHANGED <<thread, imageName, resumeEvent, m_activeProcesses, listenerVars, signaled, osVars>>

\* AppendRule, second half: a suspended process is resumed, locks released.
AppendRuleResume(p) ==
  /\ p \in rules
  /\ rules' = rules \ {p}
  /\ resumeEvent' = [resumeEvent EXCEPT ![p] =
                       IF IsSuspended(p) THEN Signal(@) ELSE @]
  /\ UNCHANGED <<thread, imageName, marker, m_activeProcesses, listenerVars, signaled, osVars>>

\* IOCTL_TERMINATE_ALL: resume the black processes that are suspended, start a
\* terminating thread for each of the others.
TerminateBlackMarked ==
  LET black == {q \in m_activeProcesses : marker[q] = "Disallowed"}
      free  == {q \in black : ~IsSuspended(q)}
  IN /\ \A q \in free : terminators[q] < MaxTerminators
     /\ resumeEvent' = [q \in Pid |-> IF q \in black \ free
                                      THEN Signal(resumeEvent[q])
                                      ELSE resumeEvent[q]]
     /\ \E started \in SUBSET free :
          /\ started # free => "thread" \in Faults
          /\ terminators' = [q \in Pid |->
               IF q \in started THEN terminators[q] + 1 ELSE terminators[q]]
     /\ UNCHANGED <<thread, imageName, marker, m_activeProcesses, rules,
                    listenerVars, signaled, doomed, starts>>

\* QueryProcessesCount and QueryProcesses: records whose marker is Clean.
CleanProcesses == {q \in m_activeProcesses : marker[q] = "Clean"}

-----------------------------------------------------------------------------
(* System threads and the environment.                                      *)

\* SystemThreadToTerminateTargetProcess looks the process up by pid when it
\* gets to run; a pid that is gone is ignored.
RunTerminator(p) ==
  /\ terminators[p] > 0
  /\ terminators' = [terminators EXCEPT ![p] = @ - 1]
  /\ doomed' = IF thread[p] = "absent" THEN doomed ELSE doomed \cup {p}
  /\ UNCHANGED <<thread, helperVars, rules, listenerVars, signaled, starts>>

\* The owner of a user-mode event sets or resets it.
SetUserEvent(e) ==
  /\ signaled' = [signaled EXCEPT ![e] = TRUE]
  /\ UNCHANGED <<thread, helperVars, rules, listenerVars, osVars>>

ClearUserEvent(e) ==
  /\ signaled' = [signaled EXCEPT ![e] = FALSE]
  /\ UNCHANGED <<thread, helperVars, rules, listenerVars, osVars>>

-----------------------------------------------------------------------------
\* Right after DriverEntry. Processes that were there before have a record
\* with a name, unless the enumeration failed for them; one that ended while it
\* was enumerated may have left a stale record; one may still be starting.
Init ==
  /\ thread \in [Pid -> {"absent", "created", "running"}]
  /\ m_activeProcesses \in SUBSET Pid
  /\ imageName \in [Pid -> BOOLEAN]
  /\ \A p \in Pid : imageName[p] => p \in m_activeProcesses
  /\ marker = [p \in Pid |-> "Clean"]
  /\ resumeEvent = [p \in Pid |-> "null"]
  /\ rules = {}
  /\ m_userNotifyEvent = NoEvent
  /\ m_userModeEvent = FALSE
  /\ signaled = [e \in Event |-> FALSE]
  /\ terminators = [p \in Pid |-> 0]
  /\ doomed = {}
  /\ starts = 0

\* The steps of the thread of p inside OnLoadProcessImage.
LoadStep(p) ==
  \/ AssignImageName(p)
  \/ DiscardRecord(p)
  \/ ArmResumeEvent(p)
  \/ InitResumeEvent(p)
  \/ NotifyUser(p)
  \/ Resume(p)
  \/ WaitTimeout(p)
  \/ TimeoutReset(p)
  \/ ApplyVerdict(p)

ProcessStep(p) ==
  \/ OnCreateProcess(p)
  \/ LoadImage(p)
  \/ LoadImageUnnamed(p)
  \/ LoadStep(p)
  \/ OnDeleteProcess(p)
  \/ RunTerminator(p)

\* Requests of any client, in any order.
Request ==
  \/ IoctlReset
  \/ \E e \in Event \cup {NoEvent} : RegisterEvent(e)
  \/ \E p \in Pid, black \in BOOLEAN : AppendRule(p, black)
  \/ \E p \in Pid : AppendRuleResume(p)
  \/ TerminateBlackMarked
  \/ \E e \in Event : SetUserEvent(e) \/ ClearUserEvent(e)

Next == Request \/ \E p \in Pid : ProcessStep(p)

Spec == Init /\ [][Next]_vars

\* A thread inside the driver keeps running, a wait ends after its timeout, and
\* a thread that asks for a lock exclusively gets it, as ERESOURCE serves its
\* queue in order: strong fairness, because the lock may be taken shared in
\* between. Starting a terminating thread waits only for the bound
\* MaxTerminators, which the code does not have.
DriverFairness ==
  \A p \in Pid :
    /\ SF_vars(LoadStep(p))
    /\ SF_vars(p \in doomed /\ OnDeleteProcess(p))
    /\ WF_vars(AppendRuleResume(p))
    /\ WF_vars(RunTerminator(p))

FairSpec == Spec /\ DriverFairness

-----------------------------------------------------------------------------
(* Properties.                                                              *)

\* Every variable holds a value of its type.
TypeOK ==
  /\ thread \in [Pid -> ThreadState]
  /\ imageName \in [Pid -> BOOLEAN]
  /\ marker \in [Pid -> ProcessMarker]
  /\ resumeEvent \in [Pid -> ResumeState]
  /\ m_activeProcesses \in SUBSET Pid
  /\ rules \in SUBSET m_activeProcesses
  /\ m_userNotifyEvent \in Event \cup {NoEvent}
  /\ m_userModeEvent \in BOOLEAN
  /\ signaled \in [Event -> BOOLEAN]
  /\ terminators \in [Pid -> 0 .. MaxTerminators]
  /\ doomed \in SUBSET Pid
  /\ starts \in 0 .. MaxStarts

\* The thread of p is blocked in resumeEvent.Wait and nothing has woken it.
Suspended(p) == thread[p] = "waiting" /\ resumeEvent[p] = "clear"

\* A process blocked at the gate still has its record in the list, the only
\* way for AppendRule, TerminateBlackMarked and Reset to find and resume it.
SuspendedIsListed == \A p \in Pid : Suspended(p) => p \in m_activeProcesses

\* A process is blocked only while a listener is registered that can be told
\* of it: a Reset racing with a thread on its way into the wait never leaves
\* it behind. The exception is a client whose registration failed.
SuspendedHasListener ==
  (\E p \in Pid : Suspended(p)) =>
    m_userNotifyEvent # NoEvent \/ ~m_userModeEvent

\* Where a thread still has the wait for its resume event to get through.
AtGate == {"armed", "ready", "waiting", "timedout"}

\* A record that counts as suspended is that of a process at the gate, however it
\* gets out. TerminateBlackMarked resumes such a process where it terminates the
\* others, so that one that had left with its event clear would get away.
SuspendedIsAtGate == \A p \in Pid : IsSuspended(p) => thread[p] \in AtGate

\* A verdict that comes after its process has ended is dropped, and does not
\* wait for the next process with that pid.
VerdictNotInherited ==
  \A p \in Pid : thread[p] = "absent" => marker[p] = "Clean"

ResumeRank(event) == CASE event = "null"  -> 0
                       [] event = "raw"   -> 1
                       [] event = "clear" -> 2
                       [] event = "set"   -> 3

\* A process goes through the gate at most once in its life: its resume event
\* is never initialised again (the assertion in Event::Initialize).
EventMovesOn ==
  \A p \in Pid : thread'[p] # "absent" =>
    ResumeRank(resumeEvent[p]) <= ResumeRank(resumeEvent'[p])

GatedOnce == [][EventMovesOn]_vars

\* Whatever the clients do or fail to do, a process blocked at the gate gets
\* to run again.
SuspendedResumes ==
  \A p \in Pid : thread[p] = "waiting" ~> thread[p] = "running"

\* A process that is denied while it is blocked ends, unless a later rule for
\* the same pid takes the verdict back.
DeniedEnds ==
  \A p \in Pid :
    (thread[p] = "waiting" /\ marker[p] = "Disallowed")
      ~> (thread[p] = "absent" \/ marker[p] # "Disallowed")

-----------------------------------------------------------------------------
(* The inductive invariant: what holds of a process at each point of        *)
(* OnLoadProcessImage.                                                      *)

InCallback == ThreadState \ {"absent", "created", "running"}

\* A thread that found its record keeps it until it leaves the callback.
CallbackIsListed == \A p \in Pid : thread[p] \in InCallback => p \in m_activeProcesses

\* A name is on its way only to a record that has none.
NameStage == \A p \in Pid : thread[p] \in {"naming", "discard"} => ~imageName[p]

\* The name is stored on the way to the gate, and only then is there an event.
NamedAtGate ==
  \A p \in Pid :
    /\ thread[p] = "named" => imageName[p]
    /\ ~imageName[p] => resumeEvent[p] = "null"

\* The state of the resume event that each point of the callback implies.
EventStage ==
  \A p \in Pid :
    /\ thread[p] \in {"absent", "created", "naming", "discard", "named"}
         => resumeEvent[p] = "null"
    /\ thread[p] = "armed" <=> resumeEvent[p] = "raw"
    /\ thread[p] \in {"ready", "waiting", "timedout"} => resumeEvent[p] # "null"

\* m_lock, held shared inside the gate, keeps the listener registered.
GateHasListener == InGate # {} => m_userNotifyEvent # NoEvent

\* What the gate rests on, whoever has stored the name.
GateIsSound ==
  /\ CallbackIsListed
  /\ NamedAtGate
  /\ EventStage
  /\ GateHasListener
  /\ SuspendedHasListener

DriverInv ==
  /\ TypeOK
  /\ NameStage
  /\ GateIsSound

\* The list holds no record of a process that is gone: the enumeration left none
\* behind.
NoStaleRecord == \A p \in m_activeProcesses : thread[p] # "absent"

\* A verdict is nowhere but on a record of the list.
VerdictIsListed == \A p \in Pid \ m_activeProcesses : marker[p] = "Clean"
=============================================================================
