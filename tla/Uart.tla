-------------------------------- MODULE Uart --------------------------------
(***************************************************************************)
(* The Linux UART driver, drivers/linux/uart/uart.cpp.                     *)
(*                                                                         *)
(* A driver has two channels, "rx" (read) and "tx" (write), whose code is  *)
(* the same but for the system calls: a transfer runs in the caller        *)
(* (blocking) or on a worker task of its own (asynchronous), its status    *)
(* can be polled while it runs, and a callback can be called at its end.   *)
(* The tasks are used through what StlTask says of them: a queue of        *)
(* UART_QUEUE_SIZE bundles, one thread that takes them in order, and a     *)
(* terminate that wakes the thread up with a dummy item and joins it.      *)
(*                                                                         *)
(* The members are plain variables that the application's thread and the   *)
(* two worker threads read and write without a lock.  The n-th transfer    *)
(* started on a channel is the number n; a dummy bundle is transfer 0.     *)
(***************************************************************************)
EXTENDS Integers, Sequences

CONSTANTS
  UART_QUEUE_SIZE,
  MaxBytes,         \* bound: bytes one transfer moves
  MaxTransfers,     \* bound: transfers started on a channel
  MaxConfigures,    \* bound: calls of configure, and of the destructor
  MaxCallbacks,     \* bound: calls of setCallback
  Chained           \* channels whose transfers are started by the read callback

Channels == {"rx", "tx"}
Callers == {"main", "callback"}

ASSUME UartAssumption ==
  /\ UART_QUEUE_SIZE \in Nat
  /\ MaxBytes \in Nat \ {0} /\ MaxTransfers \in Nat
  /\ MaxConfigures \in Nat /\ MaxCallbacks \in Nat
  /\ Chained \subseteq Channels

Dummy == 0
Transfers == 0 .. MaxTransfers

Statuses == {"notConfigured", "idle", "running", "ok", "timedOut", "failed"}

\* -1 stored in the unsigned m_bytes_written.
Wrapped == -1
ByteCounts == {Wrapped} \cup 0 .. MaxBytes

VARIABLES
  m_linux_handle,   \* "closed", "open", or "stale": closed, but not negative
  m_is_async,       \* m_is_async_mode_rx and _tx
  m_status,         \* m_read_status and m_write_status
  m_bytes,          \* m_bytes_read and m_bytes_written
  m_func,           \* m_func_rx and m_func_tx: "null" or "set"
  thread,           \* whether the channel's task has a thread
  m_terminate,      \* the task's flag
  queue,            \* the task's input queue
  worker,           \* [at, transfer, count, size]: where the thread is, ...
  call,             \* [at, channel]: where a caller is in read or write
  conf,             \* where the application is in configure or the destructor
  configured,       \* what configure returned last, or "destroyed"
  started,          \* transfers started on a channel
  ended,            \* transfers whose end was published, in order
  configures, callbacks

members == <<m_linux_handle, m_is_async, m_status, m_bytes, m_func>>
task == <<thread, m_terminate, queue>>
history == <<started, ended>>
bounds == <<configures, callbacks>>
vars == <<members, task, worker, call, conf, configured, history, bounds>>

\* count is what the transfer's system call reported, size what the callback
\* is told.
NoWorker == [at |-> "none", transfer |-> Dummy, count |-> 0, size |-> 0]
Idle == [at |-> "idle", channel |-> "rx"]

Init ==
  /\ m_linux_handle = "closed"
  /\ m_is_async = [c \in Channels |-> FALSE]
  /\ m_status = [c \in Channels |-> "notConfigured"]
  /\ m_bytes = [c \in Channels |-> 0]
  /\ m_func = [c \in Channels |-> "null"]
  /\ thread = [c \in Channels |-> FALSE]
  /\ m_terminate = [c \in Channels |-> FALSE]
  /\ queue = [c \in Channels |-> <<>>]
  /\ worker = [c \in Channels |-> NoWorker]
  /\ call = [k \in Callers |-> Idle]
  /\ conf = "idle" /\ configured = "never"
  /\ started = [c \in Channels |-> 0]
  /\ ended = [c \in Channels |-> <<>>]
  /\ configures = 0 /\ callbacks = 0

\* Who starts the next transfer of a channel: the application, or, when they
\* are chained as in echo_non_blocking.cpp, the read callback after the first.
Starter(c) == IF c \in Chained /\ started[c] > 0 THEN "callback" ELSE "main"

\* A caller is free: the application in none of the driver's functions, the
\* read callback while the rx thread is in it.
Free(k) ==
  /\ call[k] = Idle
  /\ IF k = "main" THEN conf = "idle" ELSE worker["rx"].at = "callback"

-----------------------------------------------------------------------------
(***************************************************************************)
(* configure                                                               *)
(***************************************************************************)
Configure ==
  /\ Free("main")
  /\ configures < MaxConfigures
  /\ configures' = configures + 1
  /\ m_status' = [c \in Channels |-> "notConfigured"]
  /\ \E rx, tx \in BOOLEAN : m_is_async' = [m_is_async EXCEPT !["rx"] = rx, !["tx"] = tx]
  /\ conf' = "rx"
  /\ UNCHANGED <<m_linux_handle, m_bytes, m_func, task, worker, call, configured,
                 history, callbacks>>

\* configure goes through the channels in this order; the destructor, whose
\* members are destroyed from the last one on, the other way.
AfterTask(c) ==
  IF configured = "destroyed" THEN IF c = "tx" THEN "rx" ELSE "over"
  ELSE IF c = "rx" THEN "tx" ELSE "open"

\* The task is created; configure gives up when it already exists.  What it
\* tests for tx is "result &= create(...)", where result has no value yet when
\* rx is blocking.
CreateTask(c) ==
  /\ conf = c /\ m_is_async[c] /\ configured # "destroyed"
  /\ \E result \in IF c = "tx" /\ ~m_is_async["rx"] THEN BOOLEAN ELSE {TRUE} :
       IF result /\ ~thread[c]
         THEN conf' = AfterTask(c) /\ UNCHANGED configured
         ELSE conf' = "idle" /\ configured' = c
  /\ IF thread[c]
       THEN UNCHANGED <<task, worker>>
       ELSE /\ thread' = [thread EXCEPT ![c] = TRUE]
            /\ m_terminate' = [m_terminate EXCEPT ![c] = FALSE]
            /\ worker' = [worker EXCEPT ![c].at = "get"]
            /\ UNCHANGED queue
  /\ UNCHANGED <<members, call, history, bounds>>

\* A blocking channel, or any in the destructor, has its task terminated: flag,
\* dummy item, join.
TerminateTask(c) ==
  /\ conf = c /\ (~m_is_async[c] \/ configured = "destroyed")
  /\ IF thread[c]
       THEN /\ m_terminate' = [m_terminate EXCEPT ![c] = TRUE]
            /\ conf' = IF c = "rx" THEN "wakeRx" ELSE "wakeTx"
       ELSE conf' = AfterTask(c) /\ UNCHANGED m_terminate
  /\ UNCHANGED <<members, thread, queue, worker, call, configured, history, bounds>>

WakeTask(c) ==
  /\ conf = IF c = "rx" THEN "wakeRx" ELSE "wakeTx"
  /\ queue' = IF Len(queue[c]) < UART_QUEUE_SIZE
                THEN [queue EXCEPT ![c] = Append(@, Dummy)]
                ELSE queue
  /\ conf' = IF c = "rx" THEN "joinRx" ELSE "joinTx"
  /\ UNCHANGED <<members, thread, m_terminate, worker, call, configured, history,
                 bounds>>

JoinTask(c) ==
  /\ conf = IF c = "rx" THEN "joinRx" ELSE "joinTx"
  /\ worker[c].at = "exited"
  /\ worker' = [worker EXCEPT ![c] = NoWorker]
  /\ thread' = [thread EXCEPT ![c] = FALSE]
  /\ conf' = AfterTask(c)
  /\ UNCHANGED <<members, m_terminate, queue, call, configured, history, bounds>>

\* The file is opened, or cannot be.
OpenFile ==
  /\ conf = "open"
  /\ conf' = "idle"
  /\ \/ /\ m_linux_handle' = "open"
        /\ m_status' = [c \in Channels |-> "idle"]
        /\ configured' = "ok"
     \/ /\ m_linux_handle' = "closed"
        /\ configured' = "open"
        /\ UNCHANGED m_status
  /\ UNCHANGED <<m_is_async, m_bytes, m_func, task, worker, call, history, bounds>>

\* The destructor closes the file, which keeps its number; then the tasks, which
\* are members, are destroyed.
Destroy ==
  /\ Free("main") /\ configures < MaxConfigures
  /\ m_linux_handle' = IF m_linux_handle = "open" THEN "stale" ELSE m_linux_handle
  /\ conf' = "tx" /\ configured' = "destroyed"
  /\ UNCHANGED <<m_is_async, m_status, m_bytes, m_func, task, worker, call, history, bounds>>

-----------------------------------------------------------------------------
(***************************************************************************)
(* read, write and setCallback; a call that is refused changes nothing     *)
(***************************************************************************)
\* Mutant: the test for a running transfer is left out.
StartAlways(k, c) ==
  /\ Free(k) /\ k = Starter(c)
  /\ started[c] < MaxTransfers
  /\ m_linux_handle # "closed"
  /\ started' = [started EXCEPT ![c] = @ + 1]
  /\ m_status' = [m_status EXCEPT ![c] = "running"]
  /\ m_bytes' = [m_bytes EXCEPT ![c] = 0]
  /\ call' = [call EXCEPT ![k] = [at |-> IF m_is_async[c] THEN "send" ELSE "transfer",
                                  channel |-> c]]
  /\ UNCHANGED <<m_linux_handle, m_is_async, m_func, task, worker, conf, configured,
                 ended, bounds>>

\* Mutant: a new transfer does not reset the byte count.
StartKeepsBytes(k, c) ==
  /\ Free(k) /\ k = Starter(c)
  /\ started[c] < MaxTransfers
  /\ m_linux_handle # "closed"
  /\ m_status[c] # "running"
  /\ started' = [started EXCEPT ![c] = @ + 1]
  /\ m_status' = [m_status EXCEPT ![c] = "running"]
  /\ call' = [call EXCEPT ![k] = [at |-> IF m_is_async[c] THEN "send" ELSE "transfer",
                                  channel |-> c]]
  /\ UNCHANGED <<m_linux_handle, m_is_async, m_bytes, m_func, task, worker, conf,
                 configured, ended, bounds>>

\* Up to the hand-over: checkInputs, the busy test and the new status.
Start(k, c) ==
  /\ Free(k) /\ k = Starter(c)
  /\ started[c] < MaxTransfers
  /\ m_linux_handle # "closed"
  /\ m_status[c] # "running"
  /\ started' = [started EXCEPT ![c] = @ + 1]
  /\ m_status' = [m_status EXCEPT ![c] = "running"]
  /\ m_bytes' = [m_bytes EXCEPT ![c] = 0]
  /\ call' = [call EXCEPT ![k] = [at |-> IF m_is_async[c] THEN "send" ELSE "transfer",
                                  channel |-> c]]
  /\ UNCHANGED <<m_linux_handle, m_is_async, m_func, task, worker, conf, configured,
                 ended, bounds>>

\* Mutant: the bundle is put on a full queue too.
SendUnchecked(k) ==
  LET c == call[k].channel IN
  /\ call[k].at = "send"
  /\ call' = [call EXCEPT ![k] = Idle]
  /\ queue' = [queue EXCEPT ![c] = Append(@, started[c])]
  /\ UNCHANGED <<members, thread, m_terminate, worker, conf, configured, history,
                 bounds>>

\* The bundle goes to the task's queue without waiting; if it is full the
\* transfer is called off.
Send(k) ==
  LET c == call[k].channel IN
  /\ call[k].at = "send"
  /\ call' = [call EXCEPT ![k] = Idle]
  /\ IF Len(queue[c]) < UART_QUEUE_SIZE
       THEN /\ queue' = [queue EXCEPT ![c] = Append(@, started[c])]
            /\ UNCHANGED m_status
       ELSE /\ m_status' = [m_status EXCEPT ![c] = "idle"]
            /\ UNCHANGED queue
  /\ UNCHANGED <<m_linux_handle, m_is_async, m_bytes, m_func, thread, m_terminate,
                 worker, conf, configured, history, bounds>>

\* What a system call reports, and the status and byte count it leads to.  A
\* read that moved nothing timed out.  A write that failed is not noticed:
\* only tcdrain's result is looked at.
Outcomes(c) ==
  IF c = "rx"
    THEN {[count |-> n, status |-> IF n > 0 THEN "ok" ELSE "timedOut"] : n \in 0 .. MaxBytes}
           \cup {[count |-> 0, status |-> "failed"]}
    ELSE {[count |-> n, status |-> "ok"] : n \in {Wrapped} \cup 0 .. MaxBytes}
           \cup {[count |-> 0, status |-> "failed"]}

\* Mutant: the byte count is the number asked for, not the number moved.
PublishSize(c, transfer, outcome) ==
  /\ m_bytes' = [m_bytes EXCEPT
       ![c] = IF outcome.status = "ok" THEN MaxBytes ELSE IF c = "rx" THEN 0 ELSE @]
  /\ m_status' = [m_status EXCEPT ![c] = outcome.status]
  /\ ended' = [ended EXCEPT ![c] =
       Append(@, [transfer |-> transfer, status |-> outcome.status, count |-> outcome.count])]

Publish(c, transfer, outcome) ==
  /\ m_bytes' = [m_bytes EXCEPT
       ![c] = IF outcome.status = "ok" THEN outcome.count ELSE IF c = "rx" THEN 0 ELSE @]
  /\ m_status' = [m_status EXCEPT ![c] = outcome.status]
  /\ ended' = [ended EXCEPT ![c] =
       Append(@, [transfer |-> transfer, status |-> outcome.status, count |-> outcome.count])]

\* A blocking transfer.
TransferInCaller(k) ==
  LET c == call[k].channel IN
  /\ call[k].at = "transfer"
  /\ \E outcome \in Outcomes(c) : Publish(c, started[c], outcome)
  /\ call' = [call EXCEPT ![k] = Idle]
  /\ UNCHANGED <<m_linux_handle, m_is_async, m_func, task, worker, conf, configured,
                 started, bounds>>

SetCallback(c) ==
  /\ Free("main")
  /\ callbacks < MaxCallbacks
  /\ m_status[c] # "running"
  /\ callbacks' = callbacks + 1
  /\ \E func \in {"null", "set"} : m_func' = [m_func EXCEPT ![c] = func]
  /\ UNCHANGED <<m_linux_handle, m_is_async, m_status, m_bytes, task, worker, call,
                 conf, configured, history, configures>>

-----------------------------------------------------------------------------
(***************************************************************************)
(* The channel's thread                                                    *)
(***************************************************************************)
\* The thread takes a bundle; a terminated one drops it and leaves.
TakeBundle(c) ==
  /\ worker[c].at = "get"
  /\ queue[c] # <<>>
  /\ queue' = [queue EXCEPT ![c] = Tail(@)]
  /\ IF m_terminate[c]
       THEN /\ worker' = [worker EXCEPT ![c].at = "exited"]
            /\ UNCHANGED m_bytes
       ELSE /\ worker' = [worker EXCEPT ![c] =
                 [at |-> "transfer", transfer |-> Head(queue[c]), count |-> 0, size |-> 0]]
            /\ m_bytes' = IF c = "rx" THEN [m_bytes EXCEPT ![c] = 0] ELSE m_bytes
  /\ UNCHANGED <<m_linux_handle, m_is_async, m_status, m_func, thread, m_terminate,
                 call, conf, configured, history, bounds>>

\* The wait for a bundle times out: the thread looks at the flag.
LeaveOnTimeout(c) ==
  /\ worker[c].at = "get"
  /\ queue[c] = <<>> /\ m_terminate[c]
  /\ worker' = [worker EXCEPT ![c].at = "exited"]
  /\ UNCHANGED <<members, task, call, conf, configured, history, bounds>>

\* Mutant: the status is not set when the read or the write fails.
TransferFailsSilently(c) ==
  /\ worker[c].at = "transfer"
  /\ \E outcome \in Outcomes(c) :
       /\ IF outcome.status = "failed"
            THEN UNCHANGED <<m_bytes, m_status, ended>>
            ELSE Publish(c, worker[c].transfer, outcome)
       /\ worker' = [worker EXCEPT ![c].at = "published", ![c].count = outcome.count]
  /\ UNCHANGED <<m_linux_handle, m_is_async, m_func, task, call, conf, configured,
                 started, bounds>>

\* Mutant: the end of a failed transfer is published, then it is tried again.
TransferRetried(c) ==
  /\ worker[c].at = "transfer"
  /\ \E outcome \in Outcomes(c) :
       /\ Publish(c, worker[c].transfer, outcome)
       /\ worker' = IF outcome.status = "failed" THEN worker
                    ELSE [worker EXCEPT ![c].at = "published", ![c].count = outcome.count]
  /\ UNCHANGED <<m_linux_handle, m_is_async, m_func, task, call, conf, configured,
                 started, bounds>>

\* The system calls, and the end of the transfer published.
Transfer(c) ==
  /\ worker[c].at = "transfer"
  /\ \E outcome \in Outcomes(c) :
       /\ Publish(c, worker[c].transfer, outcome)
       /\ worker' = [worker EXCEPT ![c].at = "published", ![c].count = outcome.count]
  /\ UNCHANGED <<m_linux_handle, m_is_async, m_func, task, call, conf, configured,
                 started, bounds>>

\* Mutant: a timed out or failed transfer does not call back.
TestCallbackOnBytes(c) ==
  /\ worker[c].at = "published"
  /\ worker' = [worker EXCEPT
       ![c] = IF m_func[c] # "null" /\ @.count # 0
                THEN [@ EXCEPT !.at = "invoke", !.size = m_bytes[c]]
                ELSE [@ EXCEPT !.at = "get"]]
  /\ UNCHANGED <<members, task, call, conf, configured, history, bounds>>

\* m_func is tested and, if there is one, its data container is built ...
TestCallback(c) ==
  /\ worker[c].at = "published"
  /\ worker' = [worker EXCEPT
       ![c] = IF m_func[c] # "null"
                THEN [@ EXCEPT !.at = "invoke", !.size = m_bytes[c]]
                ELSE [@ EXCEPT !.at = "get"]]
  /\ UNCHANGED <<members, task, call, conf, configured, history, bounds>>

\* ... and m_func is called: the value tested, or one read again by then.
InvokeCallback(c) ==
  /\ worker[c].at = "invoke"
  /\ \E at \in {"callback"} \cup (IF m_func[c] = "null" THEN {"crashed"} ELSE {}) :
       worker' = [worker EXCEPT ![c].at = at]
  /\ UNCHANGED <<members, task, call, conf, configured, history, bounds>>

ReturnFromCallback(c) ==
  /\ worker[c].at = "callback"
  /\ c = "rx" => call["callback"] = Idle
  /\ worker' = [worker EXCEPT ![c].at = "get"]
  /\ UNCHANGED <<members, task, call, conf, configured, history, bounds>>

-----------------------------------------------------------------------------
ConfigureStep ==
  \/ \E c \in Channels : CreateTask(c) \/ TerminateTask(c) \/ WakeTask(c) \/ JoinTask(c)
  \/ OpenFile

CallStep == \E k \in Callers : Send(k) \/ TransferInCaller(k)

WorkerStep(c) ==
  \/ TakeBundle(c) \/ LeaveOnTimeout(c) \/ Transfer(c)
  \/ TestCallback(c) \/ InvokeCallback(c) \/ ReturnFromCallback(c)

Next ==
  \/ Configure \/ Destroy \/ ConfigureStep
  \/ \E k \in Callers, c \in Channels : Start(k, c)
  \/ CallStep
  \/ \E c \in Channels : SetCallback(c) \/ WorkerStep(c)

Spec == Init /\ [][Next]_vars

\* A read waits for its peer, which need not send anything (LinuxIo's
\* ReadReturns): the caller, or the thread, is then in the system call.
ReadsInCaller(k) == call[k].at = "transfer" /\ call[k].channel = "rx"
ReadsInThread(c) == worker[c].at = "transfer" /\ c = "rx"

\* The scheduler runs the threads, a write returns, and a caller goes through
\* with a call it began, as long as it does not wait for a peer; nobody has to
\* make a call.
SureCallStep(k) == ~ReadsInCaller(k) /\ (Send(k) \/ TransferInCaller(k))
SureWorkerStep(c) == ~ReadsInThread(c) /\ WorkerStep(c)

FairSpec ==
  /\ Spec
  /\ WF_vars(ConfigureStep)
  /\ \A k \in Callers : WF_vars(SureCallStep(k))
  /\ \A c \in Channels : WF_vars(SureWorkerStep(c))

-----------------------------------------------------------------------------
(***************************************************************************)
(* Properties                                                              *)
(***************************************************************************)
MembersTypeOK ==
  /\ m_linux_handle \in {"closed", "open", "stale"}
  /\ m_is_async \in [Channels -> BOOLEAN]
  /\ m_status \in [Channels -> Statuses]
  /\ m_bytes \in [Channels -> ByteCounts]
  /\ m_func \in [Channels -> {"null", "set"}]

TaskTypeOK ==
  /\ thread \in [Channels -> BOOLEAN] /\ m_terminate \in [Channels -> BOOLEAN]
  /\ queue \in [Channels -> Seq(Transfers)]
  /\ \A c \in Channels : Len(queue[c]) <= UART_QUEUE_SIZE

PlacesTypeOK ==
  /\ worker \in [Channels ->
       [at : {"none", "get", "transfer", "published", "invoke", "callback", "crashed",
              "exited"},
        transfer : Transfers, count : ByteCounts, size : ByteCounts]]
  /\ call \in [Callers -> [at : {"idle", "send", "transfer"}, channel : Channels]]
  /\ conf \in {"idle", "rx", "wakeRx", "joinRx", "tx", "wakeTx", "joinTx", "open",
              "over"}
  /\ configured \in {"never", "ok", "rx", "tx", "open", "destroyed"}

Ends == [transfer : Transfers, status : {"ok", "timedOut", "failed"}, count : ByteCounts]

HistoryTypeOK ==
  /\ started \in [Channels -> Transfers] /\ ended \in [Channels -> Seq(Ends)]
  /\ configures \in 0 .. MaxConfigures /\ callbacks \in 0 .. MaxCallbacks

\* Every variable has its type.
TypeOK == MembersTypeOK /\ TaskTypeOK /\ PlacesTypeOK /\ HistoryTypeOK

\* Somebody will still publish the end of a transfer of the channel.
Pending(c) ==
  \/ \E k \in Callers : call[k].at # "idle" /\ call[k].channel = c
  \/ thread[c] /\ \E i \in DOMAIN queue[c] : queue[c][i] # Dummy
  \/ worker[c].at = "transfer"

\* After a configure that succeeded, and until the next one begins, a status that
\* says "running" is true: whoever polls it waits for something.
RunningIsPending ==
  (configured = "ok" /\ conf = "idle") =>
    \A c \in Channels : m_status[c] = "running" => Pending(c)

\* A status that does not say so is true as well: as long as configure is not
\* called again, a caller that sees a transfer end may reuse its buffer.  When
\* the destructor has returned, nobody uses a buffer or calls back, whatever was
\* running when it began, and whatever the callbacks started meanwhile.
EndedIsEnded ==
  /\ configures <= 1 => \A c \in Channels : Pending(c) => m_status[c] = "running"
  /\ conf = "over" =>
       /\ \A c \in Channels : worker[c].at = "none" /\ ~Pending(c)
       /\ call = [k \in Callers |-> Idle]

\* Every transfer ends once, in the order they were started.
EndInOrder ==
  configures <= 1 =>
    \A c \in Channels : \A i \in DOMAIN ended[c] : ended[c][i].transfer = i

\* Once a transfer has ended, getBytesRead and getBytesWritten tell what its
\* system call reported; as long as configure is not called again, and the
\* object lives.
BytesOfLastTransfer ==
  (configures <= 1 /\ configured # "destroyed") =>
    \A c \in Channels :
      (m_status[c] # "running" /\ ended[c] # <<>>) =>
        m_bytes[c] = ended[c][Len(ended[c])].count

\* A callback is told how many bytes its own transfer moved.
CallbackToldItsBytes ==
  \A c \in Channels : worker[c].at = "callback" => worker[c].size = worker[c].count

\* It is, unless the next transfer of the channel was started behind its back:
\* a read callback that starts the next read itself, as in
\* echo_non_blocking.cpp, always learns how many bytes its own read moved.
OnlyLaterStartsSpoilSize ==
  configures <= 1 =>
    \A c \in Channels :
      (/\ worker[c].at = "callback"
       /\ (c = "rx" /\ c \in Chained) \/ started[c] = worker[c].transfer)
        => worker[c].size = worker[c].count

Crashed == \E c \in Channels : worker[c].at = "crashed"

\* After a configure that succeeded, a transfer that is running ends, so that
\* polling its status terminates; unless it is a read and waits for its peer, or
\* a callback cleared between its test and its call ends the process.  A read
\* that waits for ever does not keep the writes from ending.
ConfiguredTransferEnds ==
  \A c \in Channels :
    (m_status[c] = "running" /\ configured = "ok")
      ~> (\/ m_status[c] # "running" \/ Crashed \/ ReadsInThread(c)
          \/ configured = "destroyed"
          \/ c = "rx" /\ \E k \in Callers : ReadsInCaller(k))

\* configure and the destructor return, although they wait for the threads;
\* unless the read of one of them waits for its peer for ever.
TerminationsReturn ==
  (conf # "idle") ~> (conf \in {"idle", "over"} \/ Crashed \/ []ReadsInThread("rx"))

\* A transfer of a channel with a callback, which is not taken away, is followed
\* by the callback: a write that the thread has taken, and a read whose system
\* call returned.
CallbackFollows ==
  \A c \in Channels : \A n \in 1 .. MaxTransfers :
    (/\ worker[c].transfer = n /\ m_func[c] = "set"
     /\ worker[c].at = "published" \/ (c = "tx" /\ worker[c].at = "transfer"))
      ~> ((worker[c].at = "callback" /\ worker[c].transfer = n) \/ m_func[c] = "null")
=============================================================================
