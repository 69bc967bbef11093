------------------------------ MODULE Esp32UartRx ------------------------------
(***************************************************************************)
(* Reception with the UART driver of the ESP32,                            *)
(* drivers/esp32/uart/uart.cpp, above ESP-IDF's own driver ("the IDF"),    *)
(* which keeps the bytes received and tells of them in a queue of events.  *)
(*                                                                         *)
(* An asynchronous read leaves its buffer in m_data; rxEventTask takes the *)
(* events, and at the end of a burst of bytes fills the buffer, publishes  *)
(* the status and calls back.  The buffer is under m_rx_mutex, the status  *)
(* and the callback are not.  The buffer of the n-th read is the number n. *)
(*                                                                         *)
(* configure deletes the IDF's driver with its queue and installs another; *)
(* installs numbers them.  A task that waits on a queue that was deleted   *)
(* may wait for ever, or end the program ("crashed").                      *)
(***************************************************************************)
EXTENDS Integers, Sequences

CONSTANTS
  EventQueueSize,   \* events the IDF keeps
  MaxBuffered,      \* bound: bytes the IDF keeps
  MaxReads,         \* bound: calls of read
  MaxInstalls,      \* bound: calls of configure
  MaxSetCallbacks,  \* bound: calls of setCallback
  MaxBursts         \* bound: bursts of bytes, and overflows

ASSUME Esp32UartRxAssumption ==
  /\ EventQueueSize \in Nat /\ MaxBuffered \in Nat \ {0} /\ MaxReads \in Nat
  /\ MaxInstalls \in Nat /\ MaxSetCallbacks \in Nat /\ MaxBursts \in Nat

NoBuffer == 0

VARIABLES
  rx_status, rx_async,  \* m_read_status and m_is_async_mode_rx
  rx_func,              \* m_func_rx: "null" or "set"
  rx_buffer,            \* m_data.rx_buffer
  rx_mutex,             \* "free" or "task": the reader holds it within a step
  rx_terminate,         \* m_terminate
  event_handle,         \* m_event_task_handle: "null" or "set"
  event_task,           \* [at, queue, buffer]: where the task is, the queue it waits on,
                        \* the buffer it tells of
  event_queue, buffered,  \* what the IDF keeps
  installs,             \* the driver of the IDF, 0 before the first
  installed,            \* whether it is there
  reader,               \* where the application is in read or configure
  reads, set_callbacks, bursts,
  reused,               \* whether a buffer was filled that was no running read's
  silent_ends           \* whether a read ended without a callback

rxMembers == <<rx_status, rx_async, rx_func, rx_buffer, rx_mutex, rx_terminate, event_handle>>
idf == <<event_queue, buffered, installs, installed>>
rxGhosts == <<reads, set_callbacks, bursts, reused, silent_ends>>
rxVars == <<rxMembers, event_task, idf, reader, rxGhosts>>

NoEventTask == [at |-> "none", queue |-> 0, buffer |-> NoBuffer]

RxInit ==
  /\ rx_status = "notConfigured" /\ rx_async = FALSE /\ rx_func = "null"
  /\ rx_buffer = NoBuffer /\ rx_mutex = "free" /\ rx_terminate = FALSE
  /\ event_handle = "null" /\ event_task = NoEventTask
  /\ event_queue = <<>> /\ buffered = 0 /\ installs = 0 /\ installed = FALSE
  /\ reader = "idle"
  /\ reads = 0 /\ set_callbacks = 0 /\ bursts = 0
  /\ reused = FALSE /\ silent_ends = FALSE

-----------------------------------------------------------------------------
(***************************************************************************)
(* configure                                                               *)
(***************************************************************************)
\* The IDF's driver is deleted and installed, with a new queue, or cannot be.
RxConfigure ==
  /\ reader = "idle"
  /\ installs < MaxInstalls /\ installs' = installs + 1
  /\ rx_status' = "notConfigured" /\ rx_async' \in BOOLEAN
  /\ event_queue' = <<>> /\ buffered' = 0
  /\ installed' \in BOOLEAN
  /\ reader' = IF installed' THEN "task" ELSE "idle"
  /\ UNCHANGED <<rx_func, rx_buffer, rx_mutex, rx_terminate, event_handle, event_task, rxGhosts>>

\* For asynchronous reads the task is created, unless there was ever one, or
\* there is no memory for it.
RxCreateTask ==
  /\ reader = "task" /\ rx_async /\ rx_mutex = "free"
  /\ rx_func' = "null" /\ rx_buffer' = NoBuffer
  /\ \/ /\ event_handle = "null"
        /\ event_handle' = "set"
        /\ event_task' = [NoEventTask EXCEPT !.at = "receive", !.queue = installs]
     \/ UNCHANGED <<event_handle, event_task>>
  /\ reader' = "pins"
  /\ UNCHANGED <<rx_status, rx_async, rx_mutex, rx_terminate, idf, rxGhosts>>

Post(event) ==
  event_queue' = IF Len(event_queue) < EventQueueSize THEN Append(event_queue, event) ELSE event_queue

\* terminateRxEventTask: the flag and an event; nobody waits for the task.
TerminateRxEventTask ==
  /\ reader = "task" /\ ~rx_async
  /\ IF event_handle = "set"
       THEN rx_terminate' = TRUE /\ Post("none")
       ELSE UNCHANGED <<rx_terminate, event_queue>>
  /\ reader' = "pins"
  /\ UNCHANGED <<rx_status, rx_async, rx_func, rx_buffer, rx_mutex, event_handle, event_task,
                 buffered, installs, installed, rxGhosts>>

\* The pins are set; or that fails, and the driver is deleted.
RxSetPins ==
  /\ reader = "pins"
  /\ \/ rx_status' = "idle" /\ UNCHANGED <<event_queue, buffered, installed>>
     \/ /\ event_queue' = <<>> /\ buffered' = 0 /\ installed' = FALSE
        /\ UNCHANGED rx_status
  /\ reader' = "idle"
  /\ UNCHANGED <<rx_async, rx_func, rx_buffer, rx_mutex, rx_terminate, event_handle, event_task,
                 installs, rxGhosts>>

-----------------------------------------------------------------------------
(***************************************************************************)
(* read and setCallback                                                    *)
(***************************************************************************)
RxRead ==
  /\ reader = "idle" /\ rx_status # "running"
  /\ reads < MaxReads /\ reads' = reads + 1
  /\ rx_status' = "running"
  /\ reader' = IF rx_async THEN "setBuffer" ELSE "transfer"
  /\ UNCHANGED <<rx_async, rx_func, rx_buffer, rx_mutex, rx_terminate, event_handle, event_task,
                 idf, set_callbacks, bursts, reused, silent_ends>>

\* An asynchronous read leaves its buffer; a blocking one takes what there is.
SetBuffer ==
  /\ reader = "setBuffer" /\ rx_mutex = "free"
  /\ rx_buffer' = reads
  /\ reader' = "idle"
  /\ UNCHANGED <<rx_status, rx_async, rx_func, rx_mutex, rx_terminate, event_handle, event_task,
                 idf, rxGhosts>>

ReadBytes ==
  /\ reader = "transfer"
  /\ \E n \in 0 .. buffered :
       /\ buffered' = buffered - n
       /\ rx_status' \in IF n > 0 THEN {"ok"} ELSE {"timedOut", "failed"}
  /\ reader' = "idle"
  /\ UNCHANGED <<rx_async, rx_func, rx_buffer, rx_mutex, rx_terminate, event_handle, event_task,
                 event_queue, installs, installed, rxGhosts>>

RxSetCallback ==
  /\ reader = "idle" /\ rx_status # "running"
  /\ set_callbacks < MaxSetCallbacks /\ set_callbacks' = set_callbacks + 1
  /\ rx_func' \in {"null", "set"}
  /\ UNCHANGED <<rx_status, rx_async, rx_buffer, rx_mutex, rx_terminate, event_handle, event_task,
                 idf, reader, reads, bursts, reused, silent_ends>>

-----------------------------------------------------------------------------
(***************************************************************************)
(* The IDF: bytes come, with an event when the FIFO is full ("data") or    *)
(* the line is idle after them ("idle"), or they overflow.                 *)
(***************************************************************************)
Burst ==
  /\ installed /\ bursts < MaxBursts /\ bursts' = bursts + 1
  /\ \/ /\ buffered < MaxBuffered /\ buffered' = buffered + 1
        /\ \E event \in {"data", "idle"} : Post(event)
     \/ buffered = MaxBuffered /\ UNCHANGED buffered /\ Post("overflow")
  /\ UNCHANGED <<rxMembers, event_task, installs, installed, reader, reads, set_callbacks, reused, silent_ends>>

-----------------------------------------------------------------------------
(***************************************************************************)
(* rxEventTask                                                             *)
(***************************************************************************)
\* The task goes back to wait, on the queue there is by then.
Receiving == [NoEventTask EXCEPT !.at = "receive", !.queue = installs]

ReceiveEvent ==
  /\ event_task.at = "receive" /\ event_task.queue = installs /\ installed
  /\ event_queue # <<>>
  /\ event_queue' = Tail(event_queue)
  /\ event_task' =
       IF rx_terminate THEN [event_task EXCEPT !.at = "deleted"]
       ELSE IF Head(event_queue) = "idle" THEN [event_task EXCEPT !.at = "lock"]
       ELSE IF Head(event_queue) = "overflow" THEN [event_task EXCEPT !.at = "flush"]
       ELSE Receiving
  /\ UNCHANGED <<rxMembers, buffered, installs, installed, reader, rxGhosts>>

ReceiveFromDeleted ==
  /\ event_task.at = "receive" /\ (event_task.queue # installs \/ ~installed)
  /\ event_task' = [event_task EXCEPT !.at = "crashed"]
  /\ UNCHANGED <<rxMembers, idf, reader, rxGhosts>>

\* After an overflow everything there is is dropped, events included.
Flush ==
  /\ event_task.at = "flush"
  /\ buffered' = 0 /\ event_queue' = <<>>
  /\ event_task' = Receiving
  /\ UNCHANGED <<rxMembers, installs, installed, reader, rxGhosts>>

\* There is nothing to do without a buffer, or without bytes.
LockForEvent ==
  /\ event_task.at = "lock" /\ rx_mutex = "free"
  /\ IF rx_buffer = NoBuffer \/ buffered = 0
       THEN event_task' = Receiving /\ UNCHANGED rx_mutex
       ELSE event_task' = [event_task EXCEPT !.at = "fill"] /\ rx_mutex' = "task"
  /\ UNCHANGED <<rx_status, rx_async, rx_func, rx_buffer, rx_terminate, event_handle,
                 idf, reader, rxGhosts>>

\* Mutant: the status is not published.
StatusKept == rx_status
StatusRead == "ok"

\* The buffer is filled and the status published, ...
FillBuffer ==
  /\ event_task.at = "fill"
  /\ \E n \in 0 .. buffered : n > 0 /\ buffered' = buffered - n
  /\ rx_status' = StatusRead
  /\ reused' = (reused \/ ~(rx_buffer = reads /\ rx_status = "running"))
  /\ event_task' = [event_task EXCEPT !.at = "test", !.buffer = rx_buffer]
  /\ UNCHANGED <<rx_async, rx_func, rx_buffer, rx_mutex, rx_terminate, event_handle,
                 event_queue, installs, installed, reader, reads, set_callbacks, bursts, silent_ends>>

\* Mutant: the buffer stays.
BufferLeft == rx_buffer
BufferAfterEnd == NoBuffer

\* ... the buffer is given back, if there is a callback, ...
TestRxCallback ==
  /\ event_task.at = "test"
  /\ rx_mutex' = "free"
  /\ IF rx_func = "null"
       THEN event_task' = Receiving /\ silent_ends' = TRUE /\ UNCHANGED rx_buffer
       ELSE event_task' = [event_task EXCEPT !.at = "invoke"] /\ rx_buffer' = BufferAfterEnd
            /\ UNCHANGED silent_ends
  /\ UNCHANGED <<rx_status, rx_async, rx_func, rx_terminate, event_handle, idf, reader,
                 reads, set_callbacks, bursts, reused>>

\* ... and it is called, if it is still there, with the status there is by then.
InvokeRxCallback ==
  /\ event_task.at = "invoke"
  /\ event_task' = IF rx_func = "null" THEN [event_task EXCEPT !.at = "crashed"]
                   ELSE [event_task EXCEPT !.at = "callback"]
  /\ UNCHANGED <<rxMembers, idf, reader, rxGhosts>>

RxCallbackReturns ==
  /\ event_task.at = "callback"
  /\ event_task' = Receiving
  /\ UNCHANGED <<rxMembers, idf, reader, rxGhosts>>

EventTaskStep ==
  \/ ReceiveEvent \/ Flush \/ LockForEvent \/ FillBuffer
  \/ TestRxCallback \/ InvokeRxCallback \/ RxCallbackReturns

ReaderStep ==
  RxCreateTask \/ TerminateRxEventTask \/ RxSetPins \/ SetBuffer \/ ReadBytes

RxNext ==
  \/ RxConfigure \/ RxRead \/ RxSetCallback \/ ReaderStep
  \/ Burst \/ EventTaskStep \/ ReceiveFromDeleted

RxSpec == RxInit /\ [][RxNext]_rxVars

-----------------------------------------------------------------------------
(***************************************************************************)
(* Properties                                                              *)
(***************************************************************************)
\* Every variable has its type.
RxTypeOK ==
  /\ rx_status \in {"notConfigured", "idle", "running", "ok", "timedOut", "failed"}
  /\ rx_async \in BOOLEAN /\ rx_func \in {"null", "set"} /\ rx_buffer \in 0 .. MaxReads
  /\ rx_mutex \in {"free", "task"} /\ rx_terminate \in BOOLEAN
  /\ event_handle \in {"null", "set"}
  /\ event_task \in
       [at : {"none", "receive", "flush", "lock", "fill", "test", "invoke", "callback",
              "deleted", "crashed"},
        queue : 0 .. MaxInstalls, buffer : 0 .. MaxReads]
  /\ event_queue \in Seq({"data", "idle", "overflow", "none"}) /\ Len(event_queue) <= EventQueueSize
  /\ buffered \in 0 .. MaxBuffered /\ installs \in 0 .. MaxInstalls /\ installed \in BOOLEAN
  /\ reader \in {"idle", "task", "pins", "setBuffer", "transfer"}
  /\ reused \in BOOLEAN /\ silent_ends \in BOOLEAN

\* The buffer of a read belongs to its caller again when the read has ended: as
\* long as every read ended with a callback, and configure is not called again,
\* bytes go only into the buffer of the read that runs.
BufferBelongsToCaller == (installs <= 1 /\ ~silent_ends) => ~reused

\* A read that runs with bytes there and the end of their burst told ends, if
\* the IDF's driver is the first and no overflow drops the event.
RxReadEnds ==
  (/\ installs = 1 /\ installed /\ rx_status = "running" /\ rx_buffer = reads /\ buffered > 0
   /\ event_task.at \notin {"none", "flush"}
   /\ \E i \in DOMAIN event_queue : event_queue[i] = "idle"
   /\ \A i \in DOMAIN event_queue : event_queue[i] # "overflow")
    ~> (rx_status # "running" \/ event_task.at = "crashed")
=============================================================================
