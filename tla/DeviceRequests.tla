---------------------------- MODULE DeviceRequests ----------------------------
(***************************************************************************)
(* The layout of device-control requests: the buffer sizes the client      *)
(* passes, the checks of ProcessIrp in the driver, and how much of the     *)
(* process list a buffer takes. Client and driver may be built for         *)
(* different pointer widths, a 32-bit client runs on a 64-bit driver.      *)
(***************************************************************************)
EXTENDS Naturals, FiniteSets, Sequences
LOCAL INSTANCE SequencesExt

CONSTANTS
  ClientPointer,  \* size of a pointer in the client
  DriverPointer   \* size of a pointer in the driver

ASSUME PointerAssumption ==
  /\ ClientPointer \in {4, 8}
  /\ DriverPointer \in {4, 8}
  /\ ClientPointer <= DriverPointer

SizeofULONG == 4
SizeofPROCESS_INFO == SizeofULONG + 260 * 2

\* The check of each request. IoIs32bitProcess exists in the 64-bit driver
\* only, and there a 32-bit client registers a handle of its own width.
IoIs32bitProcess == DriverPointer = 8 /\ ClientPointer = 4

RegisterEventAccepted(inputBufferSize) ==
  IF IoIs32bitProcess THEN inputBufferSize = 4
                      ELSE inputBufferSize = DriverPointer

\* mutant: the size of the structure is asked for, the client passes less
RuleAcceptedStructure(inputBufferSize) == inputBufferSize >= SizeofPROCESS_INFO

RuleAccepted(inputBufferSize) == inputBufferSize >= DriverPointer

CountAccepted(outputBufferSize) == outputBufferSize >= SizeofULONG

ListAccepted(outputBufferSize) == outputBufferSize >= SizeofPROCESS_INFO

\* The sizes the client passes: Allow and Block pass that of the pointer.
RuleSize == ClientPointer
RegisterEventSize == ClientPointer
ListSize(dispatchCount) == dispatchCount * SizeofPROCESS_INFO

RuleTaken == RuleAccepted(RuleSize)

\* mutant: the capacity is compared before the entry is counted
FillListOffByOne(list, capacity) ==
  FoldLeft(LAMBDA written, p :
             IF Len(written) > capacity THEN written ELSE Append(written, p),
           <<>>, list)

\* The loop of QueryProcesses: an entry is written and counted, and the loop left
\* if the count now equals the capacity.
FillList(list, capacity) ==
  FoldLeft(LAMBDA written, p :
             IF written # <<>> /\ Len(written) = capacity THEN written
                                                          ELSE Append(written, p),
           <<>>, list)

\* What the loop may have written, over every order that the gray records may have
\* in the list of the driver.
QueryProcesses(gray, outputBufferSize) ==
  LET capacity == outputBufferSize \div SizeofPROCESS_INFO
  IN {listed \in SUBSET gray :
        \E list \in SetToSeqs(gray) : listed = ToSet(FillList(list, capacity))}

BytesWritten(listed) == Cardinality(listed) * SizeofPROCESS_INFO
=============================================================================
