-------------------------- MODULE MCDriverLifecycle --------------------------
(* Small instances of DriverLifecycle for TLC.                             *)
EXTENDS DriverLifecycle, TLC

NameFault == {"name"}
PoolFault == {"pool"}
NoFault == {}

\* Pids are only compared for equality.
PidSymmetry == Permutations(Pid)
==============================================================================
