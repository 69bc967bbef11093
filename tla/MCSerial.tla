-------------------------------- MODULE MCSerial --------------------------------
(***************************************************************************)
(* The two copies of the serial driver for TLC: each behaviour is one of   *)
(* Uart or of LinuxSerialFile, as driver says.                             *)
(***************************************************************************)
EXTENDS LinuxSerialFile

VARIABLE driver

serialVars == <<vars, driver>>

SerialInit == driver \in {"uart", "file"} /\ Init

UartRuns == driver = "uart" /\ Next /\ UNCHANGED driver
FileRuns == driver = "file" /\ FileNext /\ UNCHANGED driver

SerialNext == UartRuns \/ FileRuns

SerialSpec == SerialInit /\ [][SerialNext]_serialVars

\* The fairness of Uart, for the driver that runs.
UartSure(step) == driver = "uart" /\ step /\ UNCHANGED driver
FileSure(step) == driver = "file" /\ step /\ UNCHANGED driver

SerialFairSpec ==
  /\ SerialSpec
  /\ WF_serialVars(ConfigureStep /\ UNCHANGED driver)
  /\ \A k \in Callers :
       /\ WF_serialVars(UartSure(SureCallStep(k)))
       /\ WF_serialVars(FileSure(~ReadsInCaller(k) /\ FileCallStep(k)))
  /\ \A c \in Channels :
       /\ WF_serialVars(UartSure(SureWorkerStep(c)))
       /\ WF_serialVars(FileSure(~ReadsInThread(c) /\ FileWorkerStep(c)))

-----------------------------------------------------------------------------
\* A callback is told how many bytes its own transfer moved, as long as no other
\* transfer of the channel was started behind its back; the write callback of
\* a serial file is not.
CallbackToldSize ==
  IF driver = "uart" THEN OnlyLaterStartsSpoilSize ELSE OnlyLaterReadsSpoilSize

\* What waits comes to its end, unless it waits for the peer of a read: who
\* polls the status of a transfer after a configure that succeeded, and who has
\* a thread end in configure or the destructor.
WaitsEnd == ConfiguredTransferEnds /\ TerminationsReturn
=============================================================================
