----------------------------- MODULE DriverGate -----------------------------
(***************************************************************************)
(* DriverMonitor implements StartGate: how the state of the driver maps to *)
(* the promise.                                                            *)
(***************************************************************************)
EXTENDS DriverMonitor

\* Between allocating the event and leaving the callback a process is held.
HeldThread == {"armed", "ready", "waiting", "timedout", "resumed"}

GateStage ==
  [p \in Pid |-> IF thread[p] = "absent" THEN "absent"
                 ELSE IF thread[p] \in HeldThread THEN "held" ELSE "free"]

\* An event is set for a process without a verdict only by Reset.
GateFreed ==
  {p \in Pid : /\ thread[p] \in HeldThread
               /\ resumeEvent[p] = "set"
               /\ marker[p] = "Clean"}

GateSentenced == {p \in Pid : terminators[p] > 0}

Promise == INSTANCE StartGate WITH
  SentenceFails <- "thread" \in Faults,
  stage <- GateStage,
  verdict <- marker,
  listening <- m_userNotifyEvent # NoEvent,
  freed <- GateFreed,
  sentenced <- GateSentenced

\* The driver keeps the promise of StartGate, whatever its clients request and
\* wherever their requests meet the thread in OnLoadProcessImage: no process
\* leaves the gate without a verdict unless a Reset let it go, no process that
\* was denied leaves it unsentenced, and nobody else is sentenced.
KeepsPromise == Promise!Spec

-----------------------------------------------------------------------------
(* The invariants that the refinement rests on.                             *)

\* A thread is through its wait only with the event set.
ResumedIsSet == \A p \in Pid : thread[p] = "resumed" => resumeEvent[p] = "set"

\* While a rule is applied the record holds its verdict.
RuledIsJudged == \A p \in rules : marker[p] # "Clean"

\* It needs the gate, not who stores the names: it is inductive where the
\* enumeration of DriverLifecycle stores some of them as well.
GateInv == TypeOK /\ GateIsSound /\ ResumedIsSet /\ RuledIsJudged
=============================================================================
