---------------------------- MODULE DriverService ----------------------------
(***************************************************************************)
(* Installing, starting, stopping and removing the driver's service: the   *)
(* exported functions Install, Start, Stop and Uninstall of ProcessDll and *)
(* the ServiceController calls behind them. Each call asks the service     *)
(* control manager for the state of the service first and acts on the      *)
(* answer afterwards; in between other processes act, a step fails, or the *)
(* caller dies.                                                            *)
(*                                                                         *)
(* The service control manager, the file system and the loading of drivers *)
(* belong to Windows and are modelled as the calls use them. A caller is a *)
(* process that has loaded the DLL; each makes one call at a time.         *)
(***************************************************************************)
EXTENDS Naturals

CONSTANTS
  Caller,      \* processes that use the DLL
  Installer    \* those of them that call Install and Uninstall

ASSUME ServiceAssumption == Installer \subseteq Caller

VARIABLES
  service,    \* the service: none, stopped, running, or pending a stop
  marked,     \* the service is marked for deletion
  binary,     \* the driver's file is in the drivers directory
  call,       \* where each caller is in its call
  sessions    \* callers that have the driver's device open

vars == <<service, marked, binary, call, sessions>>

CallState == {"idle", "copying", "creating", "starting", "stopping",
              "deleting", "erasing", "closing"}

Continue(c, from, to) ==
  /\ call[c] = from
  /\ call' = [call EXCEPT ![c] = to]

\* ServiceController::QueryStatus.
Installed == service # "none"
Running == service = "running"

\* The driver's image is mapped: its file can be neither replaced nor deleted.
InMemory == service \in {"running", "pending"}

\* A service marked for deletion goes when it has stopped and the last handle
\* to it, held by an Uninstall, is closed.
Removable(calls) == marked /\ \A c \in Caller : calls[c] \notin {"erasing", "closing"}

StoppedOrGone(calls) ==
  IF Removable(calls) THEN service' = "none" /\ marked' = FALSE
                      ELSE service' = "stopped" /\ UNCHANGED marked

-----------------------------------------------------------------------------
Install(c) ==
  /\ c \in Installer
  /\ ~Installed
  /\ Continue(c, "idle", "copying")
  /\ UNCHANGED <<service, marked, binary, sessions>>

CopyBinary(c) ==
  /\ \/ /\ ~InMemory
        /\ Continue(c, "copying", "creating")
        /\ binary' = TRUE
     \/ /\ Continue(c, "copying", "idle")
        /\ UNCHANGED binary
  /\ UNCHANGED <<service, marked, sessions>>

CreateService(c) ==
  /\ Continue(c, "creating", "idle")
  /\ service' \in IF Installed THEN {service} ELSE {service, "stopped"}
  /\ UNCHANGED <<marked, binary, sessions>>

-----------------------------------------------------------------------------
Start(c) ==
  /\ Installed /\ ~Running
  /\ Continue(c, "idle", "starting")
  /\ UNCHANGED <<service, marked, binary, sessions>>

\* Fails when the service is gone, runs or is marked, when there is no file, and
\* when DriverEntry fails.
StartService(c) ==
  /\ Continue(c, "starting", "idle")
  /\ service' \in IF service = "stopped" /\ ~marked /\ binary
                  THEN {"stopped", "running"} ELSE {service}
  /\ UNCHANGED <<marked, binary, sessions>>

Stop(c) ==
  /\ Running
  /\ Continue(c, "idle", "stopping")
  /\ UNCHANGED <<service, marked, binary, sessions>>

\* While a session has the device open the driver stays until it is closed.
ControlService(c) ==
  /\ Continue(c, "stopping", "idle")
  /\ \/ Running /\ sessions = {} /\ StoppedOrGone(call')
     \/ Running /\ sessions # {} /\ service' = "pending" /\ UNCHANGED marked
     \/ ~Running /\ UNCHANGED <<service, marked>>
  /\ UNCHANGED <<binary, sessions>>

-----------------------------------------------------------------------------
Uninstall(c) ==
  /\ c \in Installer
  /\ Installed /\ ~Running
  /\ Continue(c, "idle", "deleting")
  /\ UNCHANGED <<service, marked, binary, sessions>>

\* mutant: the result of OpenService is not checked
DeleteServiceUnchecked(c) ==
  /\ Continue(c, "deleting", "erasing")
  /\ marked' = TRUE
  /\ UNCHANGED <<service, binary, sessions>>

\* mutant: the file goes before the service is marked
DeleteServiceAfterBinary(c) ==
  /\ Continue(c, "deleting", "erasing")
  /\ binary' = (binary /\ InMemory)
  /\ UNCHANGED <<service, marked, sessions>>

\* Deleting a service that is marked already counts as done.
DeleteService(c) ==
  /\ IF Installed
     THEN Continue(c, "deleting", "erasing") /\ marked' = TRUE
     ELSE Continue(c, "deleting", "idle") /\ UNCHANGED marked
  /\ UNCHANGED <<service, binary, sessions>>

DeleteBinary(c) ==
  /\ Continue(c, "erasing", "closing")
  /\ binary' = (binary /\ InMemory)
  /\ UNCHANGED <<service, marked, sessions>>

\* The call returns: its service handle is closed.
CloseServiceHandle(c) ==
  /\ Continue(c, "closing", "idle")
  /\ IF service = "stopped" THEN StoppedOrGone(call') ELSE UNCHANGED <<service, marked>>
  /\ UNCHANGED <<binary, sessions>>

-----------------------------------------------------------------------------
(* Sessions with the driver, crashes and restarts of the system.            *)

\* Init of the DLL opens the device.
OpenSession(c) ==
  /\ Running
  /\ call[c] = "idle" /\ c \notin sessions
  /\ sessions' = sessions \cup {c}
  /\ UNCHANGED <<service, marked, binary, call>>

\* The device is closed; a stop that waits for that takes effect.
Leave(c, calls) ==
  /\ sessions' = sessions \ {c}
  /\ IF service = "stopped" \/ (service = "pending" /\ sessions' = {})
     THEN StoppedOrGone(calls) ELSE UNCHANGED <<service, marked>>

CloseSession(c) ==
  /\ call[c] = "idle" /\ c \in sessions
  /\ Leave(c, call)
  /\ UNCHANGED <<binary, call>>

\* The caller's process dies and all its handles are closed.
Crash(c) ==
  /\ call' = [call EXCEPT ![c] = "idle"]
  /\ Leave(c, call')
  /\ UNCHANGED binary

\* The service starts with the system; one marked for deletion is dropped.
Restart ==
  /\ service' \in IF ~Installed \/ marked THEN {"none"}
                  ELSE IF binary THEN {"stopped", "running"} ELSE {"stopped"}
  /\ marked' = FALSE
  /\ call' = [c \in Caller |-> "idle"]
  /\ sessions' = {}
  /\ UNCHANGED binary

-----------------------------------------------------------------------------
Init ==
  /\ service = "none"
  /\ marked = FALSE
  /\ binary \in BOOLEAN
  /\ call = [c \in Caller |-> "idle"]
  /\ sessions = {}

CallBegins(c) ==
  \/ Install(c)
  \/ Start(c)
  \/ Stop(c)
  \/ Uninstall(c)

CallContinues(c) ==
  \/ CopyBinary(c)
  \/ CreateService(c)
  \/ StartService(c)
  \/ ControlService(c)
  \/ DeleteService(c)
  \/ DeleteBinary(c)
  \/ CloseServiceHandle(c)

CallerStep(c) ==
  \/ CallBegins(c)
  \/ CallContinues(c)
  \/ OpenSession(c)
  \/ CloseSession(c)
  \/ Crash(c)

Next == Restart \/ \E c \in Caller : CallerStep(c)

Spec == Init /\ [][Next]_vars

-----------------------------------------------------------------------------
(* Properties.                                                              *)

\* Every variable holds a value of its type, and a mark is that of a service.
ServiceTypeOK ==
  /\ service \in {"none", "stopped", "running", "pending"}
  /\ marked \in BOOLEAN /\ (marked => Installed)
  /\ binary \in BOOLEAN
  /\ call \in [Caller -> CallState]
  /\ sessions \in SUBSET Caller

\* A service that is to stay has its file, so that the driver can be started,
\* by a call or by the system: Install copies the file before it creates the
\* service, Uninstall marks the service before it deletes the file, and neither
\* a crash in between nor a stop that waits for a session changes that.
ServiceHasBinary == Installed /\ ~marked => binary

-----------------------------------------------------------------------------
(* The inductive invariant.                                                 *)

\* Who works on the file is an installer: it has copied the file before it
\* creates the service, and marked the service before it deletes the file.
InstallerOrder ==
  \A c \in Caller :
    /\ call[c] \in {"copying", "creating", "deleting", "erasing", "closing"} => c \in Installer
    /\ call[c] = "creating" => binary
    /\ call[c] = "erasing" => marked

ServiceInv ==
  /\ ServiceTypeOK
  /\ InstallerOrder
  /\ ServiceHasBinary
=============================================================================
