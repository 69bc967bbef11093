------------------------------ MODULE Esp32UartTx ------------------------------
(***************************************************************************)
(* Transmission with the UART driver of the ESP32,                         *)
(* drivers/esp32/uart/uart.cpp.  An asynchronous write gives its bytes to  *)
(* ESP-IDF's driver and has a worker task (as in Esp32Task, with queues of *)
(* one input and one output) wait until they have left: txMonitorTask then *)
(* publishes the status and calls back.  The task's output, which nobody   *)
(* needs, is taken out by the next write.                                  *)
(***************************************************************************)
EXTENDS Integers, Sequences

CONSTANTS
  MaxWrites,        \* bound: calls of write
  MaxTxConfigures,  \* bound: calls of configure
  MaxTxCallbacks    \* bound: calls of setCallback

ASSUME Esp32UartTxAssumption ==
  MaxWrites \in Nat /\ MaxTxConfigures \in Nat /\ MaxTxCallbacks \in Nat

VARIABLES
  tx_status, tx_async,  \* m_write_status and m_is_async_mode_tx
  tx_func,              \* m_func_tx: "null" or "set"
  tx_mutex,             \* "free", "writer" or "monitor"
  monitor_handle,       \* whether the task of m_tx_monitor_task_handle exists
  monitor_terminate,    \* its m_terminate
  monitor,              \* [at, write]: where it is
  monitor_input, monitor_output,  \* its queues; a dummy input is 0
  writer,               \* where the application is in write or configure
  writes, tx_configures, tx_callbacks,
  left,                 \* the last write whose bytes have left
  refused               \* whether a write that runs was refused by the IDF or by the task's queue

txMembers == <<tx_status, tx_async, tx_func, tx_mutex>>
monitorTask == <<monitor_handle, monitor_terminate, monitor, monitor_input, monitor_output>>
txGhosts == <<writes, tx_configures, tx_callbacks, left, refused>>
txVars == <<txMembers, monitorTask, writer, txGhosts>>

NoMonitor == [at |-> "none", write |-> 0]

TxInit ==
  /\ tx_status = "notConfigured" /\ tx_async = FALSE /\ tx_func = "null" /\ tx_mutex = "free"
  /\ monitor_handle = FALSE /\ monitor_terminate = FALSE /\ monitor = NoMonitor
  /\ monitor_input = <<>> /\ monitor_output = <<>>
  /\ writer = "idle"
  /\ writes = 0 /\ tx_configures = 0 /\ tx_callbacks = 0 /\ left = 0 /\ refused = FALSE

-----------------------------------------------------------------------------
(***************************************************************************)
(* configure                                                               *)
(***************************************************************************)
\* The status and the mode are set; then the IDF's driver is not installed, or
\* refuses its parameters or the receiver's threshold, and configure returns,
\* or it goes on to the task.
TxConfigure ==
  /\ writer = "idle"
  /\ tx_configures < MaxTxConfigures /\ tx_configures' = tx_configures + 1
  /\ tx_status' = "notConfigured" /\ tx_async' \in BOOLEAN
  /\ writer' \in {"idle", "task"}
  /\ UNCHANGED <<tx_func, tx_mutex, monitorTask, writes, tx_callbacks, left, refused>>

\* The task is created, with empty queues, unless there is one.
CreateMonitor ==
  /\ writer = "task" /\ tx_async /\ tx_mutex = "free"
  /\ tx_func' = "null"
  /\ \/ /\ ~monitor_handle
        /\ monitor_handle' \in BOOLEAN
        /\ monitor_terminate' = FALSE /\ monitor_input' = <<>> /\ monitor_output' = <<>>
        /\ monitor' = IF monitor_handle' THEN [NoMonitor EXCEPT !.at = "get"] ELSE monitor
     \/ monitor_handle /\ UNCHANGED monitorTask
  /\ writer' = "pins"
  /\ UNCHANGED <<tx_status, tx_async, tx_mutex, txGhosts>>

\* Or it is terminated: the flag and a dummy input, ...
TerminateMonitor ==
  /\ writer = "task" /\ ~tx_async
  /\ IF monitor_handle
       THEN /\ monitor_terminate' = TRUE
            /\ monitor_input' = IF monitor_input = <<>> THEN <<0>> ELSE monitor_input
            /\ writer' = "join"
       ELSE writer' = "pins" /\ UNCHANGED <<monitor_terminate, monitor_input>>
  /\ UNCHANGED <<txMembers, monitor_handle, monitor, monitor_output, txGhosts>>

\* ... and a wait for its end.
JoinMonitor ==
  /\ writer = "join" /\ monitor.at = "left"
  /\ monitor_handle' = FALSE /\ monitor' = NoMonitor
  /\ writer' = "pins"
  /\ UNCHANGED <<txMembers, monitor_terminate, monitor_input, monitor_output, txGhosts>>

TxSetPins ==
  /\ writer = "pins"
  /\ tx_status' \in {"idle", "notConfigured"}
  /\ writer' = "idle"
  /\ UNCHANGED <<tx_async, tx_func, tx_mutex, monitorTask, txGhosts>>

-----------------------------------------------------------------------------
(***************************************************************************)
(* write and setCallback                                                   *)
(***************************************************************************)
TxWrite ==
  /\ writer = "idle" /\ tx_status # "running"
  /\ writes < MaxWrites /\ writes' = writes + 1
  /\ tx_status' = "running" /\ refused' = FALSE
  /\ writer' = IF tx_async THEN "lock" ELSE "transfer"
  /\ UNCHANGED <<tx_async, tx_func, tx_mutex, monitorTask, tx_configures, tx_callbacks, left>>

\* A blocking write.
WriteBytes ==
  /\ writer = "transfer"
  /\ tx_status' \in {"ok", "failed"}
  /\ left' = IF tx_status' = "ok" THEN writes ELSE left
  /\ writer' = "idle"
  /\ UNCHANGED <<tx_async, tx_func, tx_mutex, monitorTask, writes, tx_configures, tx_callbacks, refused>>

\* An asynchronous one: the IDF takes the bytes, or refuses them and the status
\* stays as it is.
LockAndWrite ==
  /\ writer = "lock" /\ tx_mutex = "free"
  /\ \/ writer' = "drain" /\ tx_mutex' = "writer" /\ UNCHANGED refused
     \/ writer' = "idle" /\ refused' = TRUE /\ UNCHANGED tx_mutex
  /\ UNCHANGED <<tx_status, tx_async, tx_func, monitorTask, writes, tx_configures, tx_callbacks, left>>

\* Mutant: the output of the task stays in its queue.
Undrained == monitor_output
Drained == IF monitor_output = <<>> THEN <<>> ELSE Tail(monitor_output)

\* An output of the task is taken out, ...
DrainMonitor ==
  /\ writer = "drain"
  /\ monitor_output' = Drained
  /\ writer' = "send"
  /\ UNCHANGED <<txMembers, monitor_handle, monitor_terminate, monitor, monitor_input, txGhosts>>

\* ... and it is sent the write, without waiting for room.
SendToMonitor ==
  /\ writer = "send"
  /\ monitor_input' = IF monitor_input = <<>> THEN <<writes>> ELSE monitor_input
  /\ refused' = (monitor_input # <<>> \/ ~monitor_handle)
  /\ tx_mutex' = "free"
  /\ writer' = "idle"
  /\ UNCHANGED <<tx_status, tx_async, tx_func, monitor_handle, monitor_terminate, monitor,
                 monitor_output, writes, tx_configures, tx_callbacks, left>>

TxSetCallback ==
  /\ writer = "idle" /\ tx_status # "running"
  /\ tx_callbacks < MaxTxCallbacks /\ tx_callbacks' = tx_callbacks + 1
  /\ tx_func' \in {"null", "set"}
  /\ UNCHANGED <<tx_status, tx_async, tx_mutex, monitorTask, writer, writes, tx_configures, left,
                 refused>>

-----------------------------------------------------------------------------
(***************************************************************************)
(* The task: run of Esp32Task around txMonitorTask                         *)
(***************************************************************************)
MonitorGoes(from, to) == monitor.at = from /\ monitor' = [monitor EXCEPT !.at = to]

GetWrite ==
  /\ monitor.at = "get" /\ monitor_input # <<>>
  /\ monitor_input' = Tail(monitor_input)
  /\ monitor' = IF monitor_terminate THEN [NoMonitor EXCEPT !.at = "left"]
                ELSE [at |-> "wait", write |-> Head(monitor_input)]
  /\ UNCHANGED <<txMembers, monitor_handle, monitor_terminate, monitor_output, writer, txGhosts>>

\* The bytes have left, or the driver was deleted.
WaitTxDone ==
  /\ MonitorGoes("wait", "lock")
  /\ left' = monitor.write
  /\ UNCHANGED <<txMembers, monitor_handle, monitor_terminate, monitor_input, monitor_output,
                 writer, writes, tx_configures, tx_callbacks, refused>>

\* Mutant: the bytes are not waited for.
PublishAtOnce ==
  /\ monitor.at \in {"wait", "lock"} /\ tx_mutex = "free"
  /\ monitor' = [monitor EXCEPT !.at = "test"]
  /\ tx_mutex' = "monitor" /\ tx_status' = "ok"
  /\ UNCHANGED <<tx_async, tx_func, monitor_handle, monitor_terminate, monitor_input,
                 monitor_output, writer, txGhosts>>

PublishWrite ==
  /\ MonitorGoes("lock", "test")
  /\ tx_mutex = "free" /\ tx_mutex' = "monitor"
  /\ tx_status' = "ok"
  /\ UNCHANGED <<tx_async, tx_func, monitor_handle, monitor_terminate, monitor_input,
                 monitor_output, writer, txGhosts>>

TestTxCallback ==
  /\ MonitorGoes("test", IF tx_func = "null" THEN "put" ELSE "invoke")
  /\ tx_mutex' = "free"
  /\ UNCHANGED <<tx_status, tx_async, tx_func, monitor_handle, monitor_terminate, monitor_input,
                 monitor_output, writer, txGhosts>>

\* The function is called, if it is still there.
InvokeTxCallback ==
  /\ MonitorGoes("invoke", IF tx_func = "null" THEN "crashed" ELSE "callback")
  /\ UNCHANGED <<txMembers, monitor_handle, monitor_terminate, monitor_input, monitor_output,
                 writer, txGhosts>>

TxCallbackReturns ==
  /\ MonitorGoes("callback", "put")
  /\ UNCHANGED <<txMembers, monitor_handle, monitor_terminate, monitor_input, monitor_output,
                 writer, txGhosts>>

\* The task goes on when there is room for its output.
PutStatus ==
  /\ monitor_output = <<>>
  /\ MonitorGoes("put", "get")
  /\ monitor_output' = <<monitor.write>>
  /\ UNCHANGED <<txMembers, monitor_handle, monitor_terminate, monitor_input, writer, txGhosts>>

MonitorStep ==
  \/ GetWrite \/ WaitTxDone \/ PublishWrite \/ TestTxCallback
  \/ InvokeTxCallback \/ TxCallbackReturns \/ PutStatus

WriterStep ==
  \/ CreateMonitor \/ TerminateMonitor \/ JoinMonitor \/ TxSetPins
  \/ WriteBytes \/ LockAndWrite \/ DrainMonitor \/ SendToMonitor

TxNext == TxConfigure \/ TxWrite \/ TxSetCallback \/ WriterStep \/ MonitorStep

TxSpec == TxInit /\ [][TxNext]_txVars

-----------------------------------------------------------------------------
(***************************************************************************)
(* Properties                                                              *)
(***************************************************************************)
\* Every variable has its type.
TxTypeOK ==
  /\ tx_status \in {"notConfigured", "idle", "running", "ok", "failed"}
  /\ tx_async \in BOOLEAN /\ tx_func \in {"null", "set"}
  /\ tx_mutex \in {"free", "writer", "monitor"}
  /\ monitor_handle \in BOOLEAN /\ monitor_terminate \in BOOLEAN
  /\ monitor \in [at : {"none", "get", "wait", "lock", "test", "invoke", "callback", "put",
                        "left", "crashed"}, write : 0 .. MaxWrites]
  /\ monitor_input \in Seq(0 .. MaxWrites) /\ Len(monitor_input) <= 1
  /\ monitor_output \in Seq(0 .. MaxWrites) /\ Len(monitor_output) <= 1
  /\ writer \in {"idle", "task", "join", "pins", "transfer", "lock", "drain", "send"}
  /\ left \in 0 .. MaxWrites /\ refused \in BOOLEAN

\* A status that says that a write has ended tells of the last one, whose bytes
\* have left (or, of a blocking one, were taken): its buffer may be used again.
EndedHasLeft == (tx_configures <= 1 /\ tx_status = "ok") => left = writes

\* A write the IDF has taken ends: the task takes it and is never stuck at the
\* output of an earlier write for good.
TxWriteEnds ==
  (tx_configures = 1 /\ tx_status = "running" /\ monitor_handle /\ writer = "idle" /\ ~refused)
    ~> (tx_status # "running" \/ monitor.at = "crashed")

\* A configure that terminates the task ends when there is room for its output;
\* after two writes it may wait for ever.
TxConfigureEnds ==
  (writer = "join" /\ monitor_output = <<>>) ~> (writer # "join" \/ monitor.at = "crashed")
=============================================================================
