---------------------------------- MODULE Spi ----------------------------------
(***************************************************************************)
(* The Linux SPI driver, drivers/linux/spi/spi.cpp, on top of SerialBus.   *)
(*                                                                         *)
(* A bundle says itself what it is: its rx_size is greater than its        *)
(* tx_size for a read, smaller for a write and equal for a transfer in     *)
(* both directions, which is asynchronous only when both directions are.   *)
(* There are no callbacks, and nothing counts bytes.                       *)
(***************************************************************************)
EXTENDS SerialBus

vars == busVars

Init == BusInit

\* An ioctl that sets the bus up fails: the file is closed, but its number is
\* kept and still looks valid.
SetUpFails ==
  /\ conf = "ready"
  /\ m_linux_handle' = "stale"
  /\ conf' = "idle" /\ configured' = "failed"
  /\ UNCHANGED <<m_is_async, m_status, m_bytes, task, worker, call, started, ended, configures>>

\* What xSpiXfer leads to: it succeeds as a whole or fails.
Outcomes == {[status |-> s, count |-> 0] : s \in {"ok", "failed"}}

Read == Start({"read"})
Write == Start({"write"})
TransferBoth == Start({"read", "write"})

BlockingTransfer == TransferInCaller(Outcomes)

-----------------------------------------------------------------------------
(***************************************************************************)
(* transferDataAsync                                                       *)
(***************************************************************************)
\* Mutant: the sizes are compared the wrong way round.
DirectionsSwapped(bundle) ==
  IF bundle = Dummy THEN {{"read"}, {"write"}, Directions}
  ELSE {IF started[bundle] = Directions THEN Directions ELSE Directions \ started[bundle]}

\* The directions of a bundle; those of the dummy bundle, which has no value,
\* can be any.
DirectionsOf(bundle) ==
  IF bundle = Dummy THEN {{"read"}, {"write"}, Directions} ELSE {started[bundle]}

Take ==
  /\ queue # <<>>
  /\ \E directions \in DirectionsOf(Head(queue)) :
       TakeBundle([at |-> "transfer", bundle |-> Head(queue), directions |-> directions])

\* The status of the read is stored first, and copied to that of the write.
Transfer ==
  /\ worker.at = "transfer"
  /\ worker.directions # Directions
  /\ \E outcome \in Outcomes : Publish(worker.directions, worker.bundle, outcome)
  /\ worker' = [worker EXCEPT !.at = "get"]
  /\ UNCHANGED <<m_linux_handle, m_is_async, task, call, conf, configured, started, configures>>

\* Mutant: the copy is left out.
TransferStoresReadOnly ==
  /\ worker.at = "transfer"
  /\ worker.directions = Directions
  /\ \E outcome \in Outcomes :
       m_status' = [m_status EXCEPT !["read"] = outcome.status]
  /\ worker' = [worker EXCEPT !.at = "get"]
  /\ ended' = Append(ended, [transfer |-> {Current("read")}, bundle |-> worker.bundle,
                             status |-> m_status'["read"]])
  /\ UNCHANGED <<m_linux_handle, m_is_async, m_bytes, task, call, conf, configured, started,
                 configures>>

\* The status of the read is stored ...
TransferStoresRead ==
  /\ worker.at = "transfer"
  /\ worker.directions = Directions
  /\ \E outcome \in Outcomes : m_status' = [m_status EXCEPT !["read"] = outcome.status]
  /\ worker' = [worker EXCEPT !.at = "published"]
  /\ UNCHANGED <<m_linux_handle, m_is_async, m_bytes, task, call, conf, configured, started,
                 ended, configures>>

\* ... and then read again for the write, which ends the transfer.
CopyStatus ==
  /\ worker.at = "published"
  /\ Publish({"write"}, worker.bundle, [status |-> m_status["read"], count |-> 0])
  /\ worker' = [worker EXCEPT !.at = "get"]
  /\ UNCHANGED <<m_linux_handle, m_is_async, task, call, conf, configured, started, configures>>

-----------------------------------------------------------------------------
CallStep == Send \/ BlockingTransfer
WorkerStep == Take \/ LeaveOnTimeout \/ Transfer \/ TransferStoresRead \/ CopyStatus

Next ==
  \/ Configure \/ ConfigureStep \/ SetUpFails \/ Destroy
  \/ Read \/ Write \/ TransferBoth
  \/ CallStep \/ WorkerStep

Spec == Init /\ [][Next]_vars

Fairness ==
  /\ WF_vars(ConfigureStep \/ SetUpFails)
  /\ WF_vars(CallStep) /\ WF_vars(WorkerStep)

-----------------------------------------------------------------------------
(***************************************************************************)
(* Properties                                                              *)
(***************************************************************************)
\* As long as configure is not called again, ...
Undisturbed == configures <= 1

\* ... every transfer is made once, with its own buffers,
BundlesMatch == Undisturbed => OwnBundles

\* the bus is used by one thread at a time,
BusIsExclusive == Undisturbed => OneAtATime

\* and a caller that sees no direction running may reuse the buffers.
EndIsTold == Undisturbed => EndedIsEnded

\* After a configure that succeeded, polling the status of a transfer ends,
\* unless the object is destroyed.
TransferEnds ==
  \A d \in Directions :
    (m_status[d] = "running" /\ configured = "ok")
      ~> (m_status[d] # "running" \/ configured = "destroyed")
=============================================================================
