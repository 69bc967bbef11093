------------------------------- MODULE SerialBus -------------------------------
(***************************************************************************)
(* What the Linux drivers of the buses, drivers/linux/iic/iic.cpp and      *)
(* drivers/linux/spi/spi.cpp, have in common: one worker task for both     *)
(* directions, a status for each direction, and functions that refuse a    *)
(* transfer while either direction says it is running.  Modules Iic and    *)
(* Spi add what the worker does with a bundle.                             *)
(*                                                                         *)
(* The task is used as in module Uart: a queue of QUEUE_SIZE bundles, one  *)
(* thread that takes them in order, and a terminate that wakes the thread  *)
(* up with a dummy item and joins it.  One thread of the application uses  *)
(* the driver.  The n-th transfer started is the number n, and so is its   *)
(* bundle; the dummy bundle is 0.                                          *)
(***************************************************************************)
EXTENDS Integers, Sequences

CONSTANTS
  QUEUE_SIZE,       \* IIC_QUEUE_SIZE and SPI_QUEUE_SIZE
  Size,             \* bound: bytes of every transfer
  MaxTransfers,     \* bound: transfers started
  MaxConfigures     \* bound: calls of configure, and of the destructor

Directions == {"read", "write"}

ASSUME SerialBusAssumption ==
  /\ QUEUE_SIZE \in Nat /\ Size \in Nat \ {0}
  /\ MaxTransfers \in Nat /\ MaxConfigures \in Nat

Dummy == 0
Statuses == {"notConfigured", "idle", "running", "ok", "failed"}

VARIABLES
  m_linux_handle,   \* "closed", "open", or "stale": closed, but not negative
  m_is_async,       \* m_is_async_mode_rx and _tx
  m_status,         \* m_read_status and m_write_status
  m_bytes,          \* m_bytes_read and m_bytes_written
  thread,           \* whether the task has a thread
  m_terminate,      \* the task's flag
  queue,            \* the task's input queue
  worker,           \* [at, bundle, directions]: what the thread does
  call,             \* where the application is in read, write or transfer
  conf,             \* where the application is in configure or the destructor
  configured,       \* what configure returned last, or "destroyed"
  started,          \* the directions of every transfer started
  ended,            \* the transfers whose end was published, in order
  configures

members == <<m_linux_handle, m_is_async, m_status, m_bytes>>
task == <<thread, m_terminate, queue>>
busVars == <<members, task, worker, call, conf, configured, started, ended, configures>>

Free == call = "idle" /\ conf = "idle"

NoWorker == [at |-> "none", bundle |-> Dummy, directions |-> {}]

\* The transfer a direction is at, or was at last.
Current(d) ==
  LET asked == {n \in DOMAIN started : d \in started[n]}
  IN  IF asked = {} THEN Dummy ELSE CHOOSE n \in asked : \A m \in asked : m <= n

BusInit ==
  /\ m_linux_handle = "closed"
  /\ m_is_async = [d \in Directions |-> FALSE]
  /\ m_status = [d \in Directions |-> "notConfigured"]
  /\ m_bytes = [d \in Directions |-> 0]
  /\ thread = FALSE /\ m_terminate = FALSE /\ queue = <<>> /\ worker = NoWorker
  /\ call = "idle" /\ conf = "idle" /\ configured = "never"
  /\ started = <<>> /\ ended = <<>> /\ configures = 0

-----------------------------------------------------------------------------
(***************************************************************************)
(* configure                                                               *)
(***************************************************************************)
Configure ==
  /\ Free
  /\ configures < MaxConfigures
  /\ configures' = configures + 1
  /\ m_status' = [d \in Directions |-> "notConfigured"]
  /\ m_is_async' \in [Directions -> BOOLEAN]
  /\ conf' = "task"
  /\ UNCHANGED <<m_linux_handle, m_bytes, task, worker, call, configured, started, ended>>

Asynchronous == \E d \in Directions : m_is_async[d]

\* configure gives up when the task already has a thread.
CreateTask ==
  /\ conf = "task" /\ Asynchronous
  /\ IF thread
       THEN /\ conf' = "idle" /\ configured' = "failed"
            /\ UNCHANGED <<thread, m_terminate, worker>>
       ELSE /\ conf' = "open"
            /\ thread' = TRUE /\ m_terminate' = FALSE
            /\ worker' = [worker EXCEPT !.at = "get"]
            /\ UNCHANGED configured
  /\ UNCHANGED <<members, queue, call, started, ended, configures>>

\* Terminate: the flag, a dummy item that is not put on a full queue, the join.
TerminateTask ==
  /\ conf = "task" /\ ~Asynchronous
  /\ IF thread THEN m_terminate' = TRUE /\ conf' = "wake"
               ELSE conf' = "open" /\ UNCHANGED m_terminate
  /\ UNCHANGED <<members, thread, queue, worker, call, configured, started, ended, configures>>

WakeTask ==
  /\ conf = "wake"
  /\ queue' = IF Len(queue) < QUEUE_SIZE THEN Append(queue, Dummy) ELSE queue
  /\ conf' = "join"
  /\ UNCHANGED <<members, thread, m_terminate, worker, call, configured, started, ended,
                 configures>>

JoinTask ==
  /\ conf = "join" /\ worker.at = "exited"
  /\ worker' = NoWorker /\ thread' = FALSE
  /\ conf' = IF configured = "destroyed" THEN "over" ELSE "open"
  /\ UNCHANGED <<members, m_terminate, queue, call, configured, started, ended, configures>>

OpenFile ==
  /\ conf = "open"
  /\ \/ m_linux_handle' = "open" /\ conf' = "ready" /\ UNCHANGED configured
     \/ m_linux_handle' = "closed" /\ conf' = "idle" /\ configured' = "failed"
  /\ UNCHANGED <<m_is_async, m_status, m_bytes, task, worker, call, started, ended, configures>>

Configured ==
  /\ conf = "ready"
  /\ m_status' = [d \in Directions |-> "idle"]
  /\ conf' = "idle" /\ configured' = "ok"
  /\ UNCHANGED <<m_linux_handle, m_is_async, m_bytes, task, worker, call, started, ended,
                 configures>>

ConfigureStep ==
  CreateTask \/ TerminateTask \/ WakeTask \/ JoinTask \/ OpenFile \/ Configured

\* The destructor closes the file, which keeps its number; then the task, which
\* is a member, is terminated as by configure.
Destroy ==
  /\ Free /\ configures < MaxConfigures
  /\ m_linux_handle' = IF m_linux_handle = "open" THEN "stale" ELSE m_linux_handle
  /\ configured' = "destroyed"
  /\ m_terminate' = (m_terminate \/ thread)
  /\ conf' = IF thread THEN "wake" ELSE "over"
  /\ UNCHANGED <<m_is_async, m_status, m_bytes, thread, queue, worker, call, started, ended,
                 configures>>

-----------------------------------------------------------------------------
(***************************************************************************)
(* read, write and transfer; a call that is refused changes nothing        *)
(***************************************************************************)
\* Mutant: only the direction of the transfer itself is tested.
StartBesideOther(directions) ==
  /\ Free
  /\ Len(started) < MaxTransfers
  /\ m_linux_handle # "closed"
  /\ \A d \in directions : m_status[d] # "running"
  /\ started' = Append(started, directions)
  /\ m_status' = [d \in Directions |-> IF d \in directions THEN "running" ELSE m_status[d]]
  /\ m_bytes' = [d \in Directions |-> IF d \in directions THEN 0 ELSE m_bytes[d]]
  /\ call' = IF \A d \in directions : m_is_async[d] THEN "send" ELSE "transfer"
  /\ UNCHANGED <<m_linux_handle, m_is_async, task, worker, conf, configured, ended, configures>>

\* Up to the hand-over: checkInputs, the busy tests and the new statuses.
Start(directions) ==
  /\ Free
  /\ Len(started) < MaxTransfers
  /\ m_linux_handle # "closed"
  /\ \A d \in Directions : m_status[d] # "running"
  /\ started' = Append(started, directions)
  /\ m_status' = [d \in Directions |-> IF d \in directions THEN "running" ELSE m_status[d]]
  /\ m_bytes' = [d \in Directions |-> IF d \in directions THEN 0 ELSE m_bytes[d]]
  /\ call' = IF \A d \in directions : m_is_async[d] THEN "send" ELSE "transfer"
  /\ UNCHANGED <<m_linux_handle, m_is_async, task, worker, conf, configured, ended, configures>>

\* Mutant: the bundle is put on a full queue too.
SendUnchecked ==
  /\ call = "send"
  /\ call' = "idle"
  /\ queue' = Append(queue, Len(started))
  /\ UNCHANGED <<members, thread, m_terminate, worker, conf, configured, started, ended,
                 configures>>

\* Mutant: the statuses are set back to idle as soon as the bundle is queued.
SendIdle ==
  /\ call = "send"
  /\ call' = "idle"
  /\ m_status' = [d \in Directions |->
       IF d \in started[Len(started)] THEN "idle" ELSE m_status[d]]
  /\ queue' = IF Len(queue) < QUEUE_SIZE THEN Append(queue, Len(started)) ELSE queue
  /\ UNCHANGED <<m_linux_handle, m_is_async, m_bytes, thread, m_terminate, worker, conf,
                 configured, started, ended, configures>>

\* The bundle goes to the task's queue without waiting; if it is full the
\* transfer is called off.
Send ==
  /\ call = "send"
  /\ call' = "idle"
  /\ IF Len(queue) < QUEUE_SIZE
       THEN queue' = Append(queue, Len(started)) /\ UNCHANGED m_status
       ELSE /\ m_status' = [d \in Directions |->
                 IF d \in started[Len(started)] THEN "idle" ELSE m_status[d]]
            /\ UNCHANGED queue
  /\ UNCHANGED <<m_linux_handle, m_is_async, m_bytes, thread, m_terminate, worker, conf,
                 configured, started, ended, configures>>

\* The end of a transfer in some directions, made with some bundle: outcome is
\* what the system calls led to, [status, count].
Publish(directions, bundle, outcome) ==
  /\ m_status' = [d \in Directions |-> IF d \in directions THEN outcome.status ELSE m_status[d]]
  /\ m_bytes' = [d \in Directions |-> IF d \in directions THEN outcome.count ELSE m_bytes[d]]
  /\ ended' = Append(ended,
       [transfer |-> {Current(d) : d \in directions}, bundle |-> bundle, status |-> outcome.status])

\* A blocking transfer.
TransferInCaller(outcomes) ==
  /\ call = "transfer"
  /\ \E outcome \in outcomes : Publish(started[Len(started)], Len(started), outcome)
  /\ call' = "idle"
  /\ UNCHANGED <<m_linux_handle, m_is_async, task, worker, conf, configured, started, configures>>

-----------------------------------------------------------------------------
(***************************************************************************)
(* The task's thread                                                       *)
(***************************************************************************)
\* It takes a bundle, and drops it and leaves when it is terminated; the
\* wait for a bundle can time out, which lets it see the flag too.
TakeBundle(taken) ==
  /\ worker.at = "get"
  /\ queue # <<>>
  /\ queue' = Tail(queue)
  /\ worker' = IF m_terminate THEN [worker EXCEPT !.at = "exited"] ELSE taken
  /\ UNCHANGED <<members, thread, m_terminate, call, conf, configured, started, ended, configures>>

LeaveOnTimeout ==
  /\ worker.at = "get"
  /\ queue = <<>> /\ m_terminate
  /\ worker' = [worker EXCEPT !.at = "exited"]
  /\ UNCHANGED <<members, task, call, conf, configured, started, ended, configures>>

-----------------------------------------------------------------------------
(***************************************************************************)
(* Properties                                                              *)
(***************************************************************************)
\* Every variable has its type.
BusTypeOK ==
  /\ m_linux_handle \in {"closed", "open", "stale"}
  /\ m_is_async \in [Directions -> BOOLEAN]
  /\ m_status \in [Directions -> Statuses]
  /\ m_bytes \in [Directions -> 0 .. Size]
  /\ thread \in BOOLEAN /\ m_terminate \in BOOLEAN
  /\ queue \in Seq(0 .. MaxTransfers) /\ Len(queue) <= QUEUE_SIZE
  /\ worker.at \in {"none", "get", "test", "transfer", "published", "invoke", "callback",
                    "crashed", "exited"}
  /\ worker.bundle \in 0 .. MaxTransfers /\ worker.directions \subseteq Directions
  /\ call \in {"idle", "send", "transfer"}
  /\ conf \in {"idle", "task", "wake", "join", "open", "ready", "over"}
  /\ configured \in {"never", "ok", "failed", "destroyed"}
  /\ started \in Seq(SUBSET Directions) /\ Len(started) <= MaxTransfers
  /\ \A i \in DOMAIN ended : ended[i].bundle \in 0 .. MaxTransfers
  /\ configures \in 0 .. MaxConfigures

\* The transfers that somebody has still to end.
Pending ==
  ((IF call # "idle" THEN {Len(started)} ELSE {})
     \cup (IF thread THEN {queue[i] : i \in DOMAIN queue} \ {Dummy} ELSE {})
     \cup (IF worker.at \in {"test", "transfer"} THEN {worker.bundle} ELSE {}))
  \ UNION {ended[i].transfer : i \in DOMAIN ended}

\* One bundle, or one call, at a time has anything to do with the bus: the
\* caller of a blocking transfer and the worker never use it together.
OneAtATime ==
  /\ \A m, n \in Pending : m = n
  /\ call = "transfer" => worker.at \notin {"test", "transfer"}

\* A caller that sees no direction running may reuse its buffers, and so may one
\* that has destroyed the object.
EndedIsEnded ==
  /\ (\A d \in Directions : m_status[d] # "running") => Pending = {}
  /\ conf = "over" => worker = NoWorker /\ Pending = {}

\* configure and the destructor return, although they wait for the thread.
TerminationReturns == (conf # "idle") ~> (conf \in {"idle", "over"} \/ worker.at = "crashed")

\* Every transfer ends once, in order, and is made with its own bundle.
OwnBundles ==
  \A i \in DOMAIN ended : ended[i].transfer = {ended[i].bundle} /\ ended[i].bundle = i
=============================================================================
