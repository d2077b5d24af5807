--------------------------- MODULE MCDriverMonitor ---------------------------
(* Small instances of DriverMonitor for TLC.                               *)
EXTENDS DriverGate, TLC

AllFaults == FaultKinds
NoThreadFault == FaultKinds \ {"thread"}

\* A smaller set of initial states: the enumeration missed and left nothing.
CleanStart ==
  /\ m_activeProcesses = {p \in Pid : thread[p] = "running"}
  /\ \A p \in m_activeProcesses : imageName[p]
  /\ \A p \in Pid : thread[p] # "created"

CleanInit == Init /\ CleanStart

MCFairSpec == CleanInit /\ [][Next]_vars /\ DriverFairness

\* Pids are only compared for equality.
PidSymmetry == Permutations(Pid)
=============================================================================
