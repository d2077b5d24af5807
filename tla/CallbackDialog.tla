---------------------------- MODULE CallbackDialog ----------------------------
(***************************************************************************)
(* The dialog that asks the user for verdicts, against the clock: it closes *)
(* itself after a countdown, and the driver gives up on each process after  *)
(* a wait of its own. A process that starts while a dialog is open is not  *)
(* in it, and waits for the next one.                                      *)
(*                                                                         *)
(* Time passes in seconds, one Tick at a time; what the monitoring thread  *)
(* does between two ticks takes none, but its steps interleave with those  *)
(* of the processes. The driver is reduced to what the dialog depends on:  *)
(* who waits, for how long, and who has no verdict yet.                    *)
(***************************************************************************)
EXTENDS Naturals, FiniteSets

CONSTANTS
  Pid,               \* process ids
  BlackListTimeout,  \* kBlackListTimeout, the countdown of the dialog
  WaitTimeout,       \* waitTimeout of the driver, in seconds
  UnitsPerSecond,    \* the unit of kernel timeouts
  UnsignedRange      \* number of values of an unsigned

\* The code: 180 and 240 seconds, 10^7 units, 2^32 values.
ASSUME TimeAssumption ==
  /\ IsFiniteSet(Pid)
  /\ BlackListTimeout \in Nat
  /\ WaitTimeout \in Nat
  /\ UnitsPerSecond \in Nat \ {0}
  /\ UnsignedRange \in Nat \ {0}
  /\ BlackListTimeout + 1 < WaitTimeout
  /\ WaitTimeout * UnitsPerSecond < UnsignedRange

VARIABLES
  listening,           \* the driver has the event of the client
  process,             \* absent, created, starting, waiting at the gate, or running
  gray,                \* processes without a verdict
  waitLeft,            \* seconds left to each process that waits
  notifyEvent,         \* the event of the client is signaled
  monitor,             \* what the monitoring thread is doing
  dispatchCount,       \* how many processes it has counted
  m_currentTime,       \* the countdown of the dialog
  m_checkedProcesses,  \* the processes it shows
  checks,              \* its rows that are checked
  mishaps              \* ghost: what went wrong since the last Start Monitor

vars == <<listening, process, gray, waitLeft, notifyEvent, monitor, dispatchCount,
          m_currentTime, m_checkedProcesses, checks, mishaps>>
driverVars == <<listening, process, gray, waitLeft>>
rowVars == <<m_currentTime, m_checkedProcesses, checks>>
monitorVars == <<monitor, dispatchCount, rowVars>>

ProcessState == {"absent", "created", "starting", "waiting", "running"}
MonitorState == {"wait", "list", "clear", "dialog"}
Mishap == {"late arrival", "left out", "lost wake-up", "early verdict"}

Waiting == {p \in Pid : process[p] = "waiting"}

\* Who has a record but no name yet counts, and takes a place in the list, but is
\* not shown.
Nameless == {p \in Pid : process[p] = "created"}

\* mutant: the driver waits no longer than the dialog
WaitIntervalShort == WaitTimeout \div 2

\* Event::Wait turns the timeout into kernel units, in unsigned arithmetic.
WaitInterval == ((WaitTimeout * UnitsPerSecond) % UnsignedRange) \div UnitsPerSecond

\* A wait runs out before the dialog after the one that has this much left.
TooLate(wait, left) == left + BlackListTimeout + 2 >= wait

\* The ghost notes a mishap, if it is one.
Noting(kind, happens) == mishaps' = IF happens THEN mishaps \cup {kind} ELSE mishaps

-----------------------------------------------------------------------------
(* The driver and its processes.                                            *)

\* A process is created ...
Arrive(p) ==
  /\ process[p] = "absent"
  /\ process' = [process EXCEPT ![p] = "created"]
  /\ gray' = gray \cup {p}
  /\ UNCHANGED <<listening, waitLeft, notifyEvent, monitorVars, mishaps>>

\* ... and its image loaded, which puts its name on record.
AssignImageName(p) ==
  /\ process[p] = "created"
  /\ process' = [process EXCEPT ![p] = "starting"]
  /\ UNCHANGED <<listening, gray, waitLeft, notifyEvent, monitorVars, mishaps>>

\* With a listener the process waits at the gate and the client is woken. The gate
\* does not look for a verdict that came before it.
Gate(p) ==
  /\ process[p] = "starting"
  /\ IF listening
     THEN /\ process' = [process EXCEPT ![p] = "waiting"]
          /\ waitLeft' = [waitLeft EXCEPT ![p] = WaitInterval]
          /\ notifyEvent' = TRUE
          /\ IF p \notin gray
             THEN Noting("early verdict", TRUE)
             ELSE Noting("late arrival",
                         /\ monitor = "dialog" /\ p \notin m_checkedProcesses
                         /\ TooLate(WaitInterval, m_currentTime))
     ELSE /\ process' = [process EXCEPT ![p] = "running"]
          /\ UNCHANGED <<waitLeft, notifyEvent, mishaps>>
  /\ UNCHANGED <<listening, gray, monitorVars>>

\* A process that ends leaves its row in the dialog.
Leave(p) ==
  /\ process[p] \in {"created", "running"}
  /\ process' = [process EXCEPT ![p] = "absent"]
  /\ gray' = gray \ {p}
  /\ UNCHANGED <<listening, waitLeft, notifyEvent, monitorVars, mishaps>>

\* A wait that has run out resets the monitor: the listener is dropped, which
\* signals its event, and everyone who waits goes on without a verdict.
TimeOut(p) ==
  /\ p \in Waiting /\ waitLeft[p] = 0
  /\ listening' = FALSE
  /\ notifyEvent' = (notifyEvent \/ listening)
  /\ process' = [q \in Pid |-> IF q \in Waiting THEN "running" ELSE process[q]]
  /\ UNCHANGED <<gray, waitLeft, monitorVars, mishaps>>

\* Stop Monitor and Start Monitor, while no dialog is open: the event is reset
\* and registered again.
Restart ==
  /\ ~listening /\ monitor = "wait" /\ Waiting = {}
  /\ listening' = TRUE
  /\ notifyEvent' = FALSE
  /\ mishaps' = {}
  /\ UNCHANGED <<process, gray, waitLeft, monitorVars>>

-----------------------------------------------------------------------------
(* The monitoring thread and the dialog.                                    *)

\* Dispatch first asks how many gray processes there are.
CountGray ==
  /\ notifyEvent /\ monitor = "wait"
  /\ dispatchCount' = Cardinality(gray)
  /\ monitor' = IF gray = {} THEN "clear" ELSE "list"
  /\ UNCHANGED <<driverVars, notifyEvent, rowVars, mishaps>>

\* It clears the event when there were none, whoever has come since.
ClearNotifyEvent ==
  /\ monitor = "clear"
  /\ monitor' = "wait"
  /\ notifyEvent' = FALSE
  /\ Noting("lost wake-up", Waiting \cap gray # {})
  /\ UNCHANGED <<driverVars, dispatchCount, rowVars>>

\* A row for each process, all of them unchecked.
InitGreyList(processes) ==
  /\ m_checkedProcesses' = processes
  /\ checks' = {}

\* It lists as many gray processes as it has counted, in the order of the driver's
\* list, and opens the dialog if there are any with a name.
OpenDialog(listed) ==
  /\ monitor = "list"
  /\ IF Cardinality(gray) <= dispatchCount THEN listed = gray
                                            ELSE Cardinality(listed) = dispatchCount
  /\ IF listed \subseteq Nameless
     THEN /\ monitor' = "wait"
          /\ UNCHANGED <<rowVars, mishaps>>
     ELSE /\ monitor' = "dialog"
          /\ m_currentTime' = BlackListTimeout
          /\ InitGreyList(listed \ Nameless)
          /\ Noting("left out",
                    \E p \in Waiting \ listed : TooLate(waitLeft[p], BlackListTimeout))
  /\ UNCHANGED <<driverVars, notifyEvent, dispatchCount>>

ToggleCheck(p) ==
  /\ monitor = "dialog" /\ p \in m_checkedProcesses
  /\ checks' = IF p \in checks THEN checks \ {p} ELSE checks \cup {p}
  /\ UNCHANGED <<driverVars, notifyEvent, monitor, dispatchCount, m_currentTime,
                 m_checkedProcesses, mishaps>>

OnBnClickedBtnCheckUncheckAll ==
  /\ monitor = "dialog"
  /\ checks' = {}
  /\ UNCHANGED <<driverVars, notifyEvent, monitor, dispatchCount, m_currentTime,
                 m_checkedProcesses, mishaps>>

\* mutant: the checks of a dialog outlive it
DecideKeepsChecks ==
  /\ monitor' = "wait"
  /\ gray' = gray \ m_checkedProcesses
  /\ process' = [p \in Pid |->
       IF process[p] \in {"absent", "created", "starting"} \/ p \notin m_checkedProcesses
       THEN process[p]
       ELSE IF p \in checks THEN "absent" ELSE "running"]
  /\ m_checkedProcesses' = {}
  /\ UNCHANGED <<listening, notifyEvent, dispatchCount, checks, mishaps>>

\* The dialog hands the checks back, Dispatch sends a rule for each row, and the
\* denied processes are terminated. Rows are matched to processes by pid. To a
\* process that has not come to the gate a rule is no more than a mark.
Decide ==
  /\ monitor' = "wait"
  /\ gray' = gray \ m_checkedProcesses
  /\ process' = [p \in Pid |->
       IF process[p] \in {"absent", "created", "starting"} \/ p \notin m_checkedProcesses
       THEN process[p]
       ELSE IF p \in checks THEN "absent" ELSE "running"]
  /\ m_checkedProcesses' = {}
  /\ checks' = {}
  /\ UNCHANGED <<listening, notifyEvent, dispatchCount, mishaps>>

\* OK or Cancel, which does the same.
OnOK ==
  /\ monitor = "dialog"
  /\ Decide
  /\ UNCHANGED <<waitLeft, m_currentTime>>

\* mutant: the countdown stops at zero
OnTimerStays ==
  /\ m_currentTime' = IF m_currentTime > 0 THEN m_currentTime - 1 ELSE 0
  /\ UNCHANGED <<listening, process, gray, notifyEvent, monitor, dispatchCount,
                 m_checkedProcesses, checks, mishaps>>

\* The timer of the dialog: down to zero, and closed by the tick after that.
OnTimer ==
  \/ /\ m_currentTime > 0
     /\ m_currentTime' = m_currentTime - 1
     /\ UNCHANGED <<listening, process, gray, notifyEvent, monitor, dispatchCount,
                    m_checkedProcesses, checks, mishaps>>
  \/ /\ m_currentTime = 0
     /\ Decide
     /\ UNCHANGED m_currentTime

\* A second passes once all that is due has been done. While nobody without a verdict
\* has a name Dispatch is called again and again, which does not stop the time.
Tick ==
  /\ monitor = "wait" /\ notifyEvent => gray # {} /\ gray \subseteq Nameless
  /\ \A p \in Waiting : waitLeft[p] > 0
  /\ waitLeft' = [p \in Pid |-> IF p \in Waiting THEN waitLeft[p] - 1 ELSE waitLeft[p]]
  /\ \/ monitor = "dialog" /\ OnTimer
     \/ /\ monitor = "wait"
        /\ UNCHANGED <<listening, process, gray, notifyEvent, monitorVars, mishaps>>

-----------------------------------------------------------------------------
\* Right after Start Monitor: those who run already have no verdict.
Init ==
  /\ listening = TRUE
  /\ process \in [Pid -> {"absent", "running"}]
  /\ gray = {p \in Pid : process[p] = "running"}
  /\ waitLeft = [p \in Pid |-> 0]
  /\ notifyEvent = FALSE
  /\ monitor = "wait"
  /\ dispatchCount = 0
  /\ m_currentTime = 0
  /\ m_checkedProcesses = {}
  /\ checks = {}
  /\ mishaps = {}

MonitorStep ==
  \/ CountGray
  \/ ClearNotifyEvent
  \/ \E listed \in SUBSET gray : OpenDialog(listed)

Next ==
  \/ \E p \in Pid :
       \/ Arrive(p) \/ AssignImageName(p) \/ Gate(p) \/ Leave(p) \/ TimeOut(p)
       \/ ToggleCheck(p)
  \/ Restart
  \/ MonitorStep
  \/ OnBnClickedBtnCheckUncheckAll
  \/ OnOK
  \/ Tick

Spec == Init /\ [][Next]_vars

\* Time goes on, and what is due before the next second gets done.
FairSpec ==
  /\ Spec
  /\ SF_vars(Tick)
  /\ WF_vars(MonitorStep)
  /\ \A p \in Pid : WF_vars(TimeOut(p))

-----------------------------------------------------------------------------
(* Properties.                                                              *)

\* Every variable holds a value of its type, and only rows that are shown are
\* checked.
DialogTypeOK ==
  /\ listening \in BOOLEAN
  /\ process \in [Pid -> ProcessState]
  /\ gray \in SUBSET Pid
  /\ waitLeft \in [Pid -> 0 .. WaitTimeout]
  /\ notifyEvent \in BOOLEAN
  /\ monitor \in MonitorState
  /\ dispatchCount \in Nat
  /\ m_currentTime \in 0 .. BlackListTimeout
  /\ m_checkedProcesses \in SUBSET Pid
  /\ checks \in SUBSET m_checkedProcesses
  /\ mishaps \in SUBSET Mishap

\* The driver gives up on the user, which ends the monitoring for everyone, only
\* after one of four mishaps: a process came to the gate under a dialog it was not
\* in and that had too much of its countdown left, with 180 and 240 seconds in the
\* first 122 seconds; a waiting process was not listed, because another one took
\* its place after the count; the event of a waiting process was cleared; or its
\* verdict had come before it began to wait.
GivesUpOnlyAfterMishap == ~listening => mishaps # {}

\* No dialog stays open, whether the user is there or not: this is why a
\* session may rely on its callback to return.
DialogCloses == monitor = "dialog" ~> monitor # "dialog"

-----------------------------------------------------------------------------
(* The inductive invariant.                                                 *)

\* Without a mishap, who waits is gray, and the client has been told.
WaitingIsDue ==
  Waiting # {} => listening /\ (mishaps = {} => notifyEvent /\ Waiting \subseteq gray)

\* Without a mishap, a wait outlasts what the dialogs still take.
WaitOutlasts ==
  mishaps = {} =>
    \A p \in Waiting :
      /\ monitor # "dialog" => waitLeft[p] > BlackListTimeout + 1
      /\ monitor = "dialog" /\ p \in m_checkedProcesses => waitLeft[p] > m_currentTime + 1
      /\ monitor = "dialog" /\ p \notin m_checkedProcesses
           => ~TooLate(waitLeft[p], m_currentTime)

DialogInv ==
  /\ DialogTypeOK
  /\ WaitingIsDue
  /\ WaitOutlasts
  /\ GivesUpOnlyAfterMishap
=============================================================================
