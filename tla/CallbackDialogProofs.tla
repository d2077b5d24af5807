------------------------- MODULE CallbackDialogProofs -------------------------
(***************************************************************************)
(* The countdown of the dialog against the wait of the driver, for any     *)
(* number of processes and any two times that TimeAssumption allows.       *)
(***************************************************************************)
EXTENDS CallbackDialog, FiniteSetTheorems, TLAPS

\* The wait does not wrap: its product with the unit of kernel timeouts is less
\* than the range of an unsigned.
LEMMA WaitDoesNotWrap == WaitInterval = WaitTimeout
  <1> DEFINE units == WaitTimeout * UnitsPerSecond
  <1>1. units \in Nat /\ units < UnsignedRange
    BY TimeAssumption
  <1>2. units % UnsignedRange = units
    <2> HIDE DEF units
    <2>1. QED
      BY <1>1, TimeAssumption
  <1>3. units \div UnitsPerSecond = WaitTimeout
    BY TimeAssumption
  <1>4. QED
    BY <1>2, <1>3 DEF WaitInterval

\* The times of the source meet the assumption: 180 and 240 seconds, in units of
\* 100 nanoseconds, and a wait of 32 bits.
LEMMA SourceTimes ==
  /\ 180 + 1 < 240
  /\ 240 * 10000000 < 4294967296
  OBVIOUS

\* Initially nobody waits and the driver listens.
LEMMA DialogInit == Init => DialogInv
  <1> SUFFICES ASSUME Init PROVE DialogInv
    OBVIOUS
  <1>1. DialogTypeOK
    <2>1. 0 \in 0 .. WaitTimeout /\ 0 \in 0 .. BlackListTimeout
      BY TimeAssumption
    <2>2. QED
      BY <2>1 DEF Init, DialogTypeOK, ProcessState, MonitorState
  <1>2. Waiting = {}
    BY DEF Init, Waiting
  <1>3. QED
    BY <1>1, <1>2 DEF Init, DialogInv, WaitingIsDue, WaitOutlasts, GivesUpOnlyAfterMishap

-----------------------------------------------------------------------------
(* Processes.                                                               *)

\* What the ghost has noted stays noted.
LEMMA NotingKeeps ==
  ASSUME DialogTypeOK, NEW kind \in Mishap, NEW happens, Noting(kind, happens)
  PROVE  /\ mishaps' \in SUBSET Mishap
         /\ mishaps' = {} => mishaps = {} /\ ~happens
  BY DEF DialogTypeOK, Noting

\* Nobody who waits comes or leaves.
LEMMA ArriveLeaveKeeps ==
  ASSUME DialogInv, NEW p \in Pid, Arrive(p) \/ AssignImageName(p) \/ Leave(p)
  PROVE  DialogInv'
  <1>1. Waiting' = Waiting /\ p \notin Waiting
    BY DEF DialogInv, Arrive, AssignImageName, Leave, DialogTypeOK, Waiting
  <1>2. DialogTypeOK'
    BY DEF DialogInv, Arrive, AssignImageName, Leave, DialogTypeOK, ProcessState, monitorVars, rowVars
  <1>3. Waiting \subseteq gray => Waiting \subseteq gray'
    BY <1>1 DEF Arrive, AssignImageName, Leave
  <1>4. UNCHANGED <<listening, waitLeft, notifyEvent, monitor, m_currentTime,
                    m_checkedProcesses, mishaps>>
    BY DEF Arrive, AssignImageName, Leave, monitorVars, rowVars
  <1>5. QED
    BY <1>1, <1>2, <1>3, <1>4
    DEF DialogInv, WaitingIsDue, WaitOutlasts, TooLate, GivesUpOnlyAfterMishap

\* Who comes to the gate in time and without a verdict gets a wait that outlasts the
\* dialog that is open and the one after it.
LEMMA GateKeeps ==
  ASSUME DialogInv, NEW p \in Pid, Gate(p)
  PROVE  DialogInv'
  <1> USE DEF DialogInv, monitorVars, rowVars
  <1>1. CASE ~listening
    <2>1. Waiting' = Waiting /\ p \notin Waiting
      BY <1>1 DEF Gate, DialogTypeOK, Waiting
    <2>2. DialogTypeOK'
      BY <1>1 DEF Gate, DialogTypeOK, ProcessState
    <2>3. QED
      BY <1>1, <2>1, <2>2
      DEF Gate, WaitingIsDue, WaitOutlasts, TooLate, GivesUpOnlyAfterMishap
  <1>2. CASE listening
    <2>1. /\ process' = [process EXCEPT ![p] = "waiting"]
          /\ waitLeft' = [waitLeft EXCEPT ![p] = WaitTimeout]
          /\ notifyEvent' = TRUE
          /\ UNCHANGED <<listening, gray, monitorVars>>
      BY <1>2, WaitDoesNotWrap DEF Gate
    <2>2. /\ mishaps' \in SUBSET Mishap
          /\ mishaps' = {} =>
               /\ mishaps = {} /\ p \in gray
               /\ monitor = "dialog" /\ p \notin m_checkedProcesses
                    => ~TooLate(WaitTimeout, m_currentTime)
      BY <1>2, WaitDoesNotWrap, NotingKeeps DEF Gate, Mishap
    <2>3. WaitTimeout \in 0 .. WaitTimeout
      BY TimeAssumption
    <2>4. DialogTypeOK'
      BY <2>1, <2>2, <2>3 DEF DialogTypeOK, ProcessState
    <2>5. Waiting' = Waiting \cup {p}
      BY <2>1 DEF DialogTypeOK, Waiting
    <2>6. WaitingIsDue'
      BY <1>2, <2>1, <2>2, <2>5 DEF WaitingIsDue
    <2>7. WaitOutlasts'
      <3> SUFFICES ASSUME mishaps' = {}, NEW q \in Waiting'
                   PROVE /\ monitor # "dialog" => waitLeft'[q] > BlackListTimeout + 1
                         /\ monitor = "dialog" /\ q \in m_checkedProcesses
                              => waitLeft'[q] > m_currentTime + 1
                         /\ monitor = "dialog" /\ q \notin m_checkedProcesses
                              => ~TooLate(waitLeft'[q], m_currentTime)
        BY <2>1 DEF WaitOutlasts, TooLate
      <3>1. CASE q = p
        <4>1. waitLeft'[q] = WaitTimeout
          BY <2>1, <3>1 DEF DialogTypeOK
        <4>2. QED
          BY <2>2, <3>1, <4>1, TimeAssumption DEF DialogTypeOK
      <3>2. CASE q # p
        <4>1. q \in Waiting /\ waitLeft'[q] = waitLeft[q]
          BY <2>1, <2>5, <3>2 DEF DialogTypeOK
        <4>2. QED
          BY <2>2, <4>1 DEF WaitOutlasts
      <3>3. QED
        BY <3>1, <3>2
    <2>8. QED
      BY <1>2, <2>1, <2>4, <2>6, <2>7 DEF GivesUpOnlyAfterMishap
  <1>3. QED
    BY <1>1, <1>2

\* A wait that has run out was not one of those that outlast the dialog.
LEMMA TimeOutKeeps ==
  ASSUME DialogInv, NEW p \in Pid, TimeOut(p)
  PROVE  DialogInv'
  <1> USE DEF DialogInv, TimeOut, monitorVars, rowVars
  <1>1. Waiting' = {}
    BY DEF DialogTypeOK, Waiting
  <1>2. DialogTypeOK'
    BY DEF DialogTypeOK, ProcessState
  <1>3. mishaps # {}
    BY TimeAssumption DEF DialogTypeOK, WaitOutlasts, TooLate
  <1>4. QED
    BY <1>1, <1>2, <1>3 DEF WaitingIsDue, WaitOutlasts, GivesUpOnlyAfterMishap

-----------------------------------------------------------------------------
(* The monitoring thread and the dialog.                                    *)

\* The count is a number; no process is touched.
LEMMA CountKeeps ==
  ASSUME DialogInv, CountGray
  PROVE  DialogInv'
  <1> USE DEF DialogInv, CountGray, driverVars, rowVars
  <1>1. Cardinality(gray) \in Nat
    BY TimeAssumption, FS_Subset, FS_CardinalityType DEF DialogTypeOK
  <1>2. DialogTypeOK'
    BY <1>1 DEF DialogTypeOK, MonitorState
  <1>3. Waiting' = Waiting
    BY DEF Waiting
  <1>4. QED
    BY <1>2, <1>3 DEF WaitingIsDue, WaitOutlasts, GivesUpOnlyAfterMishap

\* Whoever has no verdict when the event is cleared has lost a wake-up, if he waits.
LEMMA ClearKeeps ==
  ASSUME DialogInv, ClearNotifyEvent
  PROVE  DialogInv'
  <1> USE DEF DialogInv, driverVars, rowVars
  <1>1. /\ mishaps' \in SUBSET Mishap
        /\ mishaps' = {} => mishaps = {} /\ Waiting \cap gray = {}
    BY NotingKeeps DEF ClearNotifyEvent, Mishap
  <1>2. DialogTypeOK'
    BY <1>1 DEF ClearNotifyEvent, DialogTypeOK, MonitorState
  <1>3. Waiting' = Waiting
    BY DEF ClearNotifyEvent, Waiting
  <1>4. mishaps' = {} => Waiting = {}
    BY <1>1 DEF WaitingIsDue
  <1>5. mishaps # {} => mishaps' # {}
    BY <1>1
  <1>6. UNCHANGED <<listening, gray>>
    BY DEF ClearNotifyEvent
  <1>7. WaitingIsDue' /\ WaitOutlasts'
    BY <1>3, <1>4, <1>6 DEF WaitingIsDue, WaitOutlasts
  <1>8. QED
    BY <1>2, <1>5, <1>6, <1>7 DEF GivesUpOnlyAfterMishap

\* Whoever waits when a dialog opens is in it, with time to spare, or can wait for
\* the next one.
LEMMA OpenDialogKeeps ==
  ASSUME DialogInv, NEW listed \in SUBSET gray, OpenDialog(listed)
  PROVE  DialogInv'
  <1> USE DEF DialogInv, driverVars
  <1>1. Waiting' = Waiting
    BY DEF OpenDialog, Waiting
  <1>2. CASE listed \subseteq Nameless
    BY <1>1, <1>2
    DEF OpenDialog, rowVars, DialogTypeOK, MonitorState, WaitingIsDue, WaitOutlasts, TooLate,
        GivesUpOnlyAfterMishap
  <1>3. CASE ~(listed \subseteq Nameless)
    <2>1. /\ monitor = "list" /\ monitor' = "dialog"
          /\ m_currentTime' = BlackListTimeout
          /\ m_checkedProcesses' = listed \ Nameless /\ checks' = {}
          /\ UNCHANGED <<driverVars, notifyEvent, dispatchCount>>
      BY <1>3 DEF OpenDialog, InitGreyList
    <2>2. /\ mishaps' \in SUBSET Mishap
          /\ mishaps' = {} =>
               /\ mishaps = {}
               /\ \A p \in Waiting \ listed : ~TooLate(waitLeft[p], BlackListTimeout)
      BY <1>3, NotingKeeps DEF OpenDialog, Mishap
    <2>n. Waiting \cap Nameless = {}
      BY DEF Waiting, Nameless
    <2>3. mishaps # {} => mishaps' # {}
      BY <2>2
    <2>4. DialogTypeOK'
      BY <2>1, <2>2, TimeAssumption DEF DialogTypeOK, MonitorState
    <2>5. WaitingIsDue'
      BY <1>1, <2>1, <2>2 DEF WaitingIsDue
    <2>6. WaitOutlasts'
      BY <1>1, <2>1, <2>2, <2>n, TimeAssumption
      DEF WaitOutlasts, TooLate, DialogTypeOK, Waiting
    <2>7. QED
      BY <2>1, <2>3, <2>4, <2>5, <2>6 DEF GivesUpOnlyAfterMishap
  <1>4. QED
    BY <1>2, <1>3

\* A verdict frees those who are in the dialog; the others can wait for another
\* dialog.
LEMMA DecideKeeps ==
  ASSUME DialogInv, monitor = "dialog", Decide,
         m_currentTime' = m_currentTime,
         \/ waitLeft' = waitLeft
         \/ /\ m_currentTime = 0
            /\ waitLeft' = [p \in Pid |-> IF p \in Waiting THEN waitLeft[p] - 1
                                                           ELSE waitLeft[p]]
            /\ \A p \in Waiting : waitLeft[p] > 0
  PROVE  DialogInv'
  <1> USE DEF DialogInv, Decide
  <1>1. Waiting' = Waiting \ m_checkedProcesses
    BY DEF DialogTypeOK, Waiting
  <1>w. \A p \in Pid : waitLeft'[p] \in 0 .. WaitTimeout
    BY TimeAssumption DEF DialogTypeOK, Waiting
  <1>2. DialogTypeOK'
    BY <1>w DEF DialogTypeOK, ProcessState, MonitorState
  <1>3. notifyEvent' = notifyEvent
    OBVIOUS
  <1>4. WaitingIsDue'
    BY <1>1, <1>3 DEF WaitingIsDue
  <1>5. WaitOutlasts'
    <2>1. CASE waitLeft' = waitLeft
      BY <1>1, <2>1, TimeAssumption DEF WaitOutlasts, TooLate, DialogTypeOK, Waiting
    <2>2. CASE m_currentTime = 0 /\ \A p \in Waiting : waitLeft'[p] = waitLeft[p] - 1
      BY <1>1, <2>2, TimeAssumption DEF WaitOutlasts, TooLate, DialogTypeOK, Waiting
    <2>3. QED
      BY <2>1, <2>2 DEF Waiting
  <1>6. QED
    BY <1>2, <1>4, <1>5 DEF GivesUpOnlyAfterMishap

\* Nobody waits when the event is registered anew, and the rows and their checks
\* are of no concern to those who wait.
LEMMA OtherKeeps ==
  ASSUME DialogInv,
         \/ Restart
         \/ OnBnClickedBtnCheckUncheckAll
         \/ \E p \in Pid : ToggleCheck(p)
         \/ UNCHANGED vars
  PROVE  DialogInv'
  <1> USE DEF DialogInv, DialogTypeOK, WaitingIsDue, WaitOutlasts, TooLate,
              GivesUpOnlyAfterMishap, driverVars, monitorVars, rowVars, Waiting
  <1>1. CASE Restart
    BY <1>1 DEF Restart
  <1>2. CASE OnBnClickedBtnCheckUncheckAll
    BY <1>2 DEF OnBnClickedBtnCheckUncheckAll
  <1>3. ASSUME NEW p \in Pid, ToggleCheck(p) PROVE DialogInv'
    BY <1>3 DEF ToggleCheck
  <1>4. CASE UNCHANGED vars
    BY <1>4 DEF vars
  <1>5. QED
    BY <1>1, <1>2, <1>3, <1>4

\* A second takes as much from the waits as from the countdown.
LEMMA TickKeeps ==
  ASSUME DialogInv, Tick
  PROVE  DialogInv'
  <1>w. \A p \in Pid : waitLeft'[p] \in 0 .. WaitTimeout
    BY TimeAssumption DEF DialogInv, Tick, DialogTypeOK, Waiting
  <1>1. CASE monitor = "dialog" /\ m_currentTime = 0 /\ Decide /\ UNCHANGED m_currentTime
    BY <1>1, DecideKeeps DEF Tick
  <1>2. CASE /\ monitor = "dialog" /\ m_currentTime > 0
             /\ m_currentTime' = m_currentTime - 1
             /\ UNCHANGED <<listening, process, gray, notifyEvent, monitor, dispatchCount,
                            m_checkedProcesses, checks, mishaps>>
    <2>1. DialogTypeOK'
      BY <1>2, <1>w, TimeAssumption DEF DialogInv, Tick, DialogTypeOK
    <2>2. Waiting' = Waiting
      BY <1>2 DEF Waiting
    <2>3. WaitOutlasts'
      BY <1>2, <2>2, TimeAssumption
      DEF DialogInv, DialogTypeOK, Tick, WaitOutlasts, TooLate, Waiting
    <2>4. QED
      BY <1>2, <2>1, <2>2, <2>3 DEF DialogInv, WaitingIsDue, GivesUpOnlyAfterMishap
  <1>3. CASE monitor = "wait" /\ UNCHANGED <<listening, process, gray, notifyEvent,
                                             monitorVars, mishaps>>
    <2>1. DialogTypeOK'
      BY <1>3, <1>w DEF DialogInv, Tick, DialogTypeOK, monitorVars, rowVars
    <2>2. Waiting' = Waiting /\ (mishaps = {} => Waiting = {})
      BY <1>3 DEF DialogInv, Tick, WaitingIsDue, Waiting, Nameless
    <2>3. QED
      BY <1>3, <2>1, <2>2 DEF DialogInv, WaitingIsDue, WaitOutlasts, GivesUpOnlyAfterMishap,
         monitorVars, rowVars
  <1>4. QED
    BY <1>1, <1>2, <1>3 DEF Tick, OnTimer

-----------------------------------------------------------------------------
\* The invariant holds for every pair of times that leaves the dialog a second.
THEOREM DialogInvariant == Spec => []DialogInv
  <1>1. DialogInv /\ [Next]_vars => DialogInv'
    <2> SUFFICES ASSUME DialogInv, [Next]_vars PROVE DialogInv'
      OBVIOUS
    <2>1. CASE OnOK
      BY <2>1, DecideKeeps DEF OnOK
    <2>2. CASE Restart \/ OnBnClickedBtnCheckUncheckAll
               \/ (\E p \in Pid : ToggleCheck(p)) \/ UNCHANGED vars
      BY <2>2, OtherKeeps
    <2>3. CASE \E p \in Pid : \/ Arrive(p) \/ AssignImageName(p) \/ Gate(p) \/ Leave(p)
                                \/ TimeOut(p)
      BY <2>3, ArriveLeaveKeeps, GateKeeps, TimeOutKeeps
    <2>4. CASE MonitorStep
      BY <2>4, CountKeeps, ClearKeeps, OpenDialogKeeps DEF MonitorStep
    <2>5. QED
      BY <2>1, <2>2, <2>3, <2>4, TickKeeps DEF Next
  <1>2. QED
    BY <1>1, DialogInit, PTL DEF Spec

\* The types of the dialog and of the waits are kept.
THEOREM DialogTypeCorrect == Spec => []DialogTypeOK
  <1>1. DialogInv => DialogTypeOK
    BY DEF DialogInv
  <1>2. QED
    BY <1>1, DialogInvariant, PTL

\* The driver gives up on the user only after a process came too early into the
\* countdown of a dialog it was not in, was left out of the list, lost its wake-up,
\* or began to wait with its verdict given.
THEOREM DriverGivesUpOnlyAfterMishap == Spec => []GivesUpOnlyAfterMishap
  <1>1. DialogInv => GivesUpOnlyAfterMishap
    BY DEF DialogInv
  <1>2. QED
    BY <1>1, DialogInvariant, PTL
=============================================================================
