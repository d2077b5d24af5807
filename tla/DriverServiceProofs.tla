-------------------------- MODULE DriverServiceProofs --------------------------
(***************************************************************************)
(* A service that is to stay has its file, for any number of programs that *)
(* start and stop it and one that installs it.                             *)
(***************************************************************************)
EXTENDS DriverService, TLAPS

OneInstaller == \A a, b \in Installer : a = b

\* Initially there is no service.
LEMMA ServiceInvInit == Init => ServiceInv
  BY DEF Init, ServiceInv, ServiceTypeOK, InstallerOrder, ServiceHasBinary,
         CallState, Installed

\* A step of the call that its caller is in, under the names the steps share.
LEMMA InstallerSteps ==
  ASSUME OneInstaller, ServiceInv, NEW c \in Caller,
         \/ Install(c) \/ CopyBinary(c) \/ CreateService(c)
         \/ Uninstall(c) \/ DeleteService(c) \/ DeleteBinary(c) \/ CloseServiceHandle(c)
  PROVE  ServiceInv'
  <1> USE DEF OneInstaller, ServiceInv, ServiceTypeOK, InstallerOrder, ServiceHasBinary,
          CallState, Installed, Continue
  <1>1. CASE Install(c)
    BY <1>1 DEF Install
  <1>2. CASE CopyBinary(c)
    BY <1>2 DEF CopyBinary
  <1>3. CASE CreateService(c)
    BY <1>3 DEF CreateService
  <1>4. CASE Uninstall(c)
    BY <1>4 DEF Uninstall
  <1>5. CASE DeleteService(c)
    BY <1>5 DEF DeleteService
  <1>6. CASE DeleteBinary(c)
    BY <1>6 DEF DeleteBinary
  <1>7. CASE CloseServiceHandle(c)
    BY <1>7 DEF CloseServiceHandle, StoppedOrGone, Removable
  <1>8. QED
    BY <1>1, <1>2, <1>3, <1>4, <1>5, <1>6, <1>7

\* The steps of the others do not touch the file, and drop a service only if it
\* is marked and nobody is about to delete its file.
LEMMA OtherSteps ==
  ASSUME ServiceInv, NEW c \in Caller,
         \/ Start(c) \/ StartService(c) \/ Stop(c) \/ ControlService(c)
         \/ OpenSession(c) \/ CloseSession(c) \/ Crash(c)
  PROVE  ServiceInv'
  <1> USE DEF ServiceInv, ServiceTypeOK, InstallerOrder, ServiceHasBinary,
          CallState, Installed, Continue
  <1>1. CASE Start(c)
    BY <1>1 DEF Start
  <1>2. CASE StartService(c)
    BY <1>2 DEF StartService
  <1>3. CASE Stop(c)
    BY <1>3 DEF Stop
  <1>4. CASE ControlService(c)
    <2>1. CASE Running /\ sessions = {} /\ StoppedOrGone(call')
      BY <1>4, <2>1 DEF ControlService, StoppedOrGone, Removable, Running
    <2>2. CASE ~(Running /\ sessions = {} /\ StoppedOrGone(call'))
      BY <1>4, <2>2 DEF ControlService, Running
    <2>3. QED
      BY <2>1, <2>2
  <1>5. CASE OpenSession(c)
    BY <1>5 DEF OpenSession
  <1>6. CASE CloseSession(c)
    BY <1>6 DEF CloseSession, Leave, StoppedOrGone, Removable
  <1>7. CASE Crash(c)
    BY <1>7 DEF Crash, Leave, StoppedOrGone, Removable
  <1>8. QED
    BY <1>1, <1>2, <1>3, <1>4, <1>5, <1>6, <1>7

\* The order of the steps of an installer survives everything that happens in
\* between: stops that wait for a session, crashes, restarts of the system.
THEOREM ServiceInvariant == ASSUME OneInstaller PROVE Spec => []ServiceInv
  <1>1. ServiceInv /\ [Next]_vars => ServiceInv'
    <2> SUFFICES ASSUME ServiceInv, [Next]_vars PROVE ServiceInv'
      OBVIOUS
    <2>1. CASE Restart
      BY <2>1 DEF Restart, ServiceInv, ServiceTypeOK, InstallerOrder, ServiceHasBinary,
         CallState, Installed
    <2>2. ASSUME NEW c \in Caller, CallerStep(c) PROVE ServiceInv'
      BY <2>2, InstallerSteps, OtherSteps DEF CallerStep, CallBegins, CallContinues
    <2>3. CASE UNCHANGED vars
      BY <2>3 DEF vars, ServiceInv, ServiceTypeOK, InstallerOrder, ServiceHasBinary,
         Installed
    <2>4. QED
      BY <2>1, <2>2, <2>3 DEF Next
  <1>2. QED
    BY <1>1, ServiceInvInit, PTL DEF Spec

\* The types of the service, and a mark is that of a service.
THEOREM ServiceTypeCorrect == ASSUME OneInstaller PROVE Spec => []ServiceTypeOK
  <1>1. ServiceInv => ServiceTypeOK
    BY DEF ServiceInv
  <1>2. QED
    BY <1>1, ServiceInvariant, PTL

\* A service that is to stay can be started: its file is there.
THEOREM ServiceKeepsBinary == ASSUME OneInstaller PROVE Spec => []ServiceHasBinary
  <1>1. ServiceInv => ServiceHasBinary
    BY DEF ServiceInv
  <1>2. QED
    BY <1>1, ServiceInvariant, PTL
================================================================================
