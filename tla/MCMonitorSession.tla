--------------------------- MODULE MCMonitorSession ---------------------------
(* Small instances of MonitorSession for TLC.                               *)
EXTENDS MonitorSession

LoadFaults == {"pool", "name"}
NoFault == {}

\* A smaller set of initial states: the enumeration missed and left nothing.
CleanStart ==
  /\ m_activeProcesses = {p \in Pid : thread[p] = "running"}
  /\ \A p \in m_activeProcesses : imageName[p]
  /\ \A p \in Pid : thread[p] # "created"

\* With the bound on process starts spent and every process gone there is
\* nothing left to do; any other state without a step is a deadlock.
AllGone ==
  /\ starts = MaxStarts
  /\ \A p \in Pid : thread[p] = "absent"
  /\ UNCHANGED allVars

CleanInit == SessionInit /\ CleanStart

MCSessionSpec == CleanInit /\ [][SessionNext \/ AllGone]_allVars
MCFairSessionSpec == CleanInit /\ [][SessionNext]_allVars /\ SessionFairness
===============================================================================
