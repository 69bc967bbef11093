-------------------------------- MODULE MCBuses --------------------------------
(***************************************************************************)
(* The two drivers of SerialBus for TLC: each behaviour is one of Iic or   *)
(* of Spi, as driver says.                                                 *)
(***************************************************************************)
EXTENDS SerialBus

CONSTANT MaxCallbacks   \* bound: calls of setCallback

ASSUME BusesAssumption == MaxCallbacks \in Nat

VARIABLES m_func, callbacks, overtook, driver

iicVars == <<m_func, callbacks, overtook>>
allVars == <<busVars, iicVars, driver>>

IicDriver == INSTANCE Iic
SpiDriver == INSTANCE Spi

Init == driver \in {"iic", "spi"} /\ IicDriver!Init

IicStep == driver = "iic" /\ IicDriver!Next /\ UNCHANGED driver
SpiStep == driver = "spi" /\ SpiDriver!Next /\ UNCHANGED <<iicVars, driver>>

Next == IicStep \/ SpiStep

Spec == Init /\ [][Next]_allVars

\* The fairness of the driver that runs.
IicRuns(Step) == driver = "iic" /\ Step /\ UNCHANGED driver
SpiRuns(Step) == driver = "spi" /\ Step /\ UNCHANGED <<iicVars, driver>>

FairSpec ==
  /\ Spec
  /\ WF_allVars(IicRuns(ConfigureStep /\ UNCHANGED iicVars))
  /\ WF_allVars(IicRuns(IicDriver!CallStep))
  /\ WF_allVars(IicRuns(IicDriver!WorkerStep))
  /\ WF_allVars(SpiRuns(ConfigureStep \/ SpiDriver!SetUpFails))
  /\ WF_allVars(SpiRuns(SpiDriver!CallStep))
  /\ WF_allVars(SpiRuns(SpiDriver!WorkerStep))

-----------------------------------------------------------------------------
\* Every variable has its type.
TypeOK == IicDriver!TypeOK

\* Every transfer is made once, in order and with the buffers of its own
\* bundle; with the IIC driver, as long as no write is started between the
\* worker's looks at the two statuses.
BundlesMatch ==
  IF driver = "iic" THEN IicDriver!BundlesMatch ELSE SpiDriver!BundlesMatch

\* The caller of a blocking transfer and the worker never use the bus together,
\* under the same conditions.
BusIsExclusive ==
  IF driver = "iic" THEN IicDriver!BusIsExclusive ELSE SpiDriver!BusIsExclusive

\* A caller that sees no direction running may reuse its buffers.
EndIsTold ==
  IF driver = "iic" THEN IicDriver!EndIsTold ELSE SpiDriver!EndIsTold

\* What waits comes to its end: who polls the status of a transfer after a
\* configure that succeeded, and who has the thread end in configure or the
\* destructor.
WaitsEnd ==
  /\ (driver = "iic") => IicDriver!TransferEnds
  /\ (driver = "spi") => SpiDriver!TransferEnds
  /\ TerminationReturns

\* iic.cpp says that write writes "data".  It does not always: a write started
\* when the worker has published the end of a read, and not looked at the
\* write status yet, is made with the buffer of the read.
WritesItsData == configures <= 1 => OwnBundles
=============================================================================
