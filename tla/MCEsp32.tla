-------------------------------- MODULE MCEsp32 --------------------------------
(***************************************************************************)
(* The parts for the ESP32 for TLC: part says which one a behaviour is of, *)
(* and the others stay as they began.                                      *)
(***************************************************************************)
EXTENDS Esp32Task, Esp32Dio, Esp32UartRx, Esp32UartTx, Esp32Spi, Esp32Iic

OnePort == [c \in Chips |-> 1]

VARIABLE part

allVars == <<part, taskVars, pinVars, rxVars, txVars, spiVars, iicVars>>

EspInit ==
  /\ part \in {"task", "pin", "rx", "tx", "spi", "iic"}
  /\ TaskInit /\ PinInit /\ RxInit /\ TxInit /\ SpiInit /\ IicInit

Runs(p, others) == part = p /\ UNCHANGED <<part, others>>
NotTask == Runs("task", <<pinVars, rxVars, txVars, spiVars, iicVars>>)
NotPin == Runs("pin", <<taskVars, rxVars, txVars, spiVars, iicVars>>)
NotRx == Runs("rx", <<taskVars, pinVars, txVars, spiVars, iicVars>>)
NotTx == Runs("tx", <<taskVars, pinVars, rxVars, spiVars, iicVars>>)
NotSpi == Runs("spi", <<taskVars, pinVars, rxVars, txVars, iicVars>>)
NotIic == Runs("iic", <<taskVars, pinVars, rxVars, txVars, spiVars>>)

TaskRuns == TaskNext /\ NotTask
PinRuns == PinNext /\ NotPin
RxRuns == RxNext /\ NotRx
TxRuns == TxNext /\ NotTx
SpiRuns == SpiNext /\ NotSpi
IicRuns == IicNext /\ NotIic

EspNext == TaskRuns \/ PinRuns \/ RxRuns \/ TxRuns \/ SpiRuns \/ IicRuns

\* The scheduler runs every task that can run, and a caller goes through with a
\* call it began; nobody has to make one, and no byte or edge has to come.
EspSpec ==
  /\ EspInit /\ [][EspNext]_allVars
  /\ WF_allVars(RunnerStep /\ NotTask) /\ WF_allVars(OwnerStep /\ NotTask)
  /\ WF_allVars(HandlerStep /\ NotPin) /\ WF_allVars(UserStep /\ NotPin)
  /\ WF_allVars(EventTaskStep /\ NotRx) /\ WF_allVars(ReaderStep /\ NotRx)
  /\ WF_allVars(MonitorStep /\ NotTx) /\ WF_allVars(WriterStep /\ NotTx)

-----------------------------------------------------------------------------
\* Every variable has its type.
TypeOK == TaskTypeOK /\ PinTypeOK /\ RxTypeOK /\ TxTypeOK /\ SpiTypeOK /\ IicTypeOK

\* Whoever was told that a task, or the callbacks of a pin, have ended never sees
\* it run again: no second task of the same object, no call after disabling.
NothingRunsAfterEnd == OneTaskAtMost /\ PinQuietAfterDisable

\* What a task is given it answers in the order it was given, the callback of a
\* pin is told the level there was, and a status that says that a transfer has
\* ended is true: the caller's buffer is not touched any more.
ToldRight == ServedInOrder /\ LevelTold /\ BufferBelongsToCaller /\ EndedHasLeft

\* Objects that share a bus, or the library's driver of a port, do not get in
\* each other's way.
BusIsShared == OneSelected /\ SlotsAreReturned /\ OwnerHasDriver

\* Transfers that can end do.
UartTransfersEnd == RxReadEnds /\ TxWriteEnds

\* Whoever has a task end gets to the end of the wait for it, unless what the
\* task waits for itself is in the hands of the one who waits.
TerminationsEnd == TerminateEnds /\ PinDisableReturns /\ TxConfigureEnds
=============================================================================
