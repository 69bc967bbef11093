------------------------------ MODULE LinuxSerialFile ------------------------------
(***************************************************************************)
(* The driver for a serial file, drivers/linux/utils/linux_serial_file.cpp *)
(* (and, built on it, drivers/linux/std_in_out): a second copy of the UART *)
(* driver's code, here in terms of the first one.  The copies differ where *)
(* a transfer ends: a read does not reset the count of its bytes again,    *)
(* and the data of a write callback is sized with the bytes of the last    *)
(* read.                                                                   *)
(***************************************************************************)
EXTENDS Uart

FileConfigure == Configure \/ ConfigureStep

FileDestroy == Destroy

FileSetCallback(c) == SetCallback(c)

\* Mutant: a read that failed is not published.
FileReadUnlessFailed(transfer, outcome) ==
  /\ m_bytes' = IF outcome.status = "ok" THEN [m_bytes EXCEPT !["rx"] = outcome.count] ELSE m_bytes
  /\ m_status' = [m_status EXCEPT !["rx"] = IF outcome.status = "failed" THEN @ ELSE outcome.status]
  /\ ended' = [ended EXCEPT !["rx"] =
       Append(@, [transfer |-> transfer, status |-> outcome.status, count |-> outcome.count])]

\* The bytes are counted when there are any, and the status is published.
FileReadBlocking(transfer, outcome) ==
  /\ m_bytes' = IF outcome.status = "ok" THEN [m_bytes EXCEPT !["rx"] = outcome.count] ELSE m_bytes
  /\ m_status' = [m_status EXCEPT !["rx"] = outcome.status]
  /\ ended' = [ended EXCEPT !["rx"] =
       Append(@, [transfer |-> transfer, status |-> outcome.status, count |-> outcome.count])]

FileWriteBlocking(transfer, outcome) == Publish("tx", transfer, outcome)

FilePublish(c, transfer, outcome) ==
  IF c = "rx" THEN FileReadBlocking(transfer, outcome) ELSE FileWriteBlocking(transfer, outcome)

FileTransferInCaller(k) ==
  LET c == call[k].channel IN
  /\ call[k].at = "transfer"
  /\ \E outcome \in Outcomes(c) : FilePublish(c, started[c], outcome)
  /\ call' = [call EXCEPT ![k] = Idle]
  /\ UNCHANGED <<m_linux_handle, m_is_async, m_func, task, worker, conf, configured,
                 started, bounds>>

FileCallStep(k) == Send(k) \/ FileTransferInCaller(k)

FileRead(k) == Start(k, "rx") \/ (call[k].channel = "rx" /\ FileCallStep(k))

FileWrite(k) == Start(k, "tx") \/ (call[k].channel = "tx" /\ FileCallStep(k))

-----------------------------------------------------------------------------
\* The thread takes a bundle, and the count of the bytes stays as it is.
FileTakeBundle(c) ==
  /\ worker[c].at = "get"
  /\ queue[c] # <<>>
  /\ queue' = [queue EXCEPT ![c] = Tail(@)]
  /\ worker' = [worker EXCEPT ![c] =
       IF m_terminate[c] THEN [@ EXCEPT !.at = "exited"]
       ELSE [at |-> "transfer", transfer |-> Head(queue[c]), count |-> 0, size |-> 0]]
  /\ UNCHANGED <<members, thread, m_terminate, call, conf, configured, history, bounds>>

FileTransfer(c) ==
  /\ worker[c].at = "transfer"
  /\ \E outcome \in Outcomes(c) :
       /\ FilePublish(c, worker[c].transfer, outcome)
       /\ worker' = [worker EXCEPT ![c].at = "published", ![c].count = outcome.count]
  /\ UNCHANGED <<m_linux_handle, m_is_async, m_func, task, call, conf, configured,
                 started, bounds>>

\* Either callback is told the bytes of the last read.
FileTestCallback(c) ==
  /\ worker[c].at = "published"
  /\ worker' = [worker EXCEPT
       ![c] = IF m_func[c] # "null"
                THEN [@ EXCEPT !.at = "invoke", !.size = m_bytes["rx"]]
                ELSE [@ EXCEPT !.at = "get"]]
  /\ UNCHANGED <<members, task, call, conf, configured, history, bounds>>

FileWorkerStep(c) ==
  \/ FileTakeBundle(c) \/ LeaveOnTimeout(c) \/ FileTransfer(c)
  \/ FileTestCallback(c) \/ InvokeCallback(c) \/ ReturnFromCallback(c)

FileNext ==
  \/ FileConfigure \/ FileDestroy
  \/ \E k \in Callers : FileRead(k) \/ FileWrite(k)
  \/ \E c \in Channels : FileSetCallback(c) \/ FileWorkerStep(c)

-----------------------------------------------------------------------------
\* A read callback is told how many bytes its own read moved, as long as no
\* other read is started behind its back.  A write callback is not: it is told
\* the bytes of the last read.
OnlyLaterReadsSpoilSize ==
  configures <= 1 =>
    ((worker["rx"].at = "callback" /\ ("rx" \in Chained \/ started["rx"] = worker["rx"].transfer))
       => worker["rx"].size = worker["rx"].count)
=============================================================================
