# A TLA+ model of test_driver

test_driver is a hardware abstraction layer: drivers for serial lines, buses,
digital pins and timers with one interface on Linux, ESP32, Pi Pico and Silabs.
Its logic is less in the hardware access than in what stands between a caller
and the hardware: bounded queues built from a mutex and condition variables,
worker tasks with a start, a suspension and a termination of their own, drivers
that let a caller start a transfer, poll its status and be called back while a
task does the work, and objects that share a bus, a terminal or an interrupt
handler without knowing of each other.  That part is modelled here, with its
source as the only reference; paths below are relative to `src/`.

- [The system](#the-system)
- [The modules](#the-modules)
- [The runs](#the-runs)
- [Bounds](#bounds)
- [Fairness](#fairness)
- [What is proved](#what-is-proved)
- [What the models found](#what-the-models-found)
- [Not modelled, and the plan](#not-modelled-and-the-plan)

To run a model: `tlc -config StlQueue.cfg MCStlQueue.tla` (the table of runs names
the pairs).  To check the proofs: `tlapm StlQueueProofs.tla`, and likewise
`StlQueueRefinement`, `StlQueueWakeUps`, `StlTaskProofs`, `SerialProofs`,
`BusesProofs`, `PartsProofs` and `Esp32Proofs`.

## The system

| part | state | operations | who it meets | what is hard | what makes it correct |
|---|---|---|---|---|---|
| **Queue**, `drivers/linux/task_system/stl_queue.*` | ring buffer, two indices and a count under a mutex, two condition variables | `put`, `get` with a timeout, `getActualSize` | any threads; the task below has two | barging, deadlines that pass while a notification arrives, spurious wake-ups, `notify_one` given to the wrong waiter, size 0 | it is a bounded FIFO; no wake-up is lost; calls with a deadline return |
| **LinuxQueue**, `drivers/linux/utils/linux_queue.hpp` | `std::queue` under a mutex, two condition variables | `put`, `get`, `getActualSize` | not used by the drivers | it waits once and does not look again | an element is taken only when there is one |
| **Task**, `drivers/linux/task_system/stl_worker_task.*` | thread handle, terminate flag, state, profile, input and output queue | `create` (two forms), `setState`, `terminate`, `setInputData`, `getOutputData`, and the thread's loop | its owner, its clients, the worker function | termination races the thread's wait; queues outlive threads; the output queue may be full | one thread per task; inputs in order and at most once; outputs complete; terminate returns |
| **UART**, `drivers/linux/uart/uart.*` | file, mode, status, byte count and callback of each direction; two tasks | `configure`, `read`, `write`, `setCallback`, destructor, two worker functions | the application, its callbacks, the tasks | members without a lock; the status is what keeps two transfers apart; callbacks that start transfers; reads that wait for a peer | the status tells the truth; each transfer ends once, with its own byte count |
| **Serial file**, `drivers/linux/utils/linux_serial_file.*` | as the UART | as the UART | as the UART; the terminal below is built on it | as the UART, of which it is a copy with differences | as the UART |
| **Standard input and output**, `drivers/linux/std_in_out` | settings of the terminal and a counter, both of the class | constructor, `configure`, destructor | the objects of the class | a counter of calls stands for objects | the user's terminal is given back |
| **IIC**, **SPI**, `drivers/linux/iic`, `drivers/linux/spi` | as the UART, with one task for both directions | as the UART; SPI has `transfer` in both directions | as the UART | one bus reached from the caller and from the task | one transfer at a time, each with its own buffer |
| **System calls**, `drivers/linux/utils/linux_io.*` | none | three reads with a timeout, by chunks | the drivers above, a peer | partial reads, the timeout that restarts, bytes that come between two calls | never more bytes than the buffer holds; the read returns |
| **DIO (Linux)**, `drivers/linux/dio` | line, its queue of events, event thread, function | `configure`, `write`, `toggle`, `setCallback`, `enableCallback`, destructor | the event thread, the kernel | enabling again, disabling twice, a line released under the thread | an enabled callback is called, in order; a disabled one is not |
| **DIO (Pi Pico)**, `drivers/pipico/dio` | a list of the objects with a callback | as above | one interrupt handler for all lines | the handler comes while the list changes | the object that owns the line is called |
| **DIO (ESP32)**, `drivers/esp32/dio` | level, terminate flag, event task | as above | interrupt handler, event task | notifications are a flag; the task is ended by a hand-shake | a callback is told the level there was; none after disabling |
| **Task (ESP32)**, `drivers/esp32/task_system` | FreeRTOS queues, a task handle, flags | as the Linux task | owner, clients, FreeRTOS | termination is a hand-shake without a timeout | one task at a time; inputs served in order |
| **UART (ESP32)**, `drivers/esp32/uart` | buffer, statuses, callbacks; an event task and a monitor task | `configure`, `read`, `write`, `setCallback` | ESP-IDF's driver and its event queue | configure deletes a queue a task waits on; who owns the buffer | a status that says a transfer ended is true |
| **SPI, IIC (ESP32)**, `drivers/esp32/spi`, `drivers/esp32/iic` | a device handle, a configured flag | `configure`, transfers, destructor | other objects of the host or port | slots, chip selects, and a driver of the port that several objects install and delete | objects of one bus do not get in each other's way |
| **Communication base**, `interfaces/communication_base`, and **I2C (Silabs)**, `drivers/silabs/i2c` | a key and a flag; flags that say a transfer runs | `lock`, `unlock`; `read`, `write` | application threads | key and flag are not one step | one holder; free when all have gone |
| **Timers**, `interfaces/peripherals_base/spt_base.*`, `drivers/silabs/pit` | start time, duration or deadline, mode | `start`, `stop`, `hasExpired`; `initialize`, `write`, `read` | the clock | scaling in 32 bits, counters that wrap, two looks at the clock | never early |
| mutexes, interfaces, common types, build files, examples | - | - | - | - | - |

The Linux drivers of a direction that is asynchronous put a *bundle* (buffer,
size, timeout) on their task's input queue, of size 1, without waiting.  The
task's thread takes it and runs the driver's worker function, which makes the
system calls, stores the byte count, publishes the status and calls the
callback.  The tasks' output queue has size 0: it is "full" and "empty" and never
makes anybody wait.  A blocking direction makes the system calls in the caller.
The callback runs on the task's thread and may itself use the driver, as the
non-blocking echo example does.  On the ESP32 the vendor's driver keeps the
bytes; the tasks there wait for its events, and the output queue has one place.

## The modules

| module | models | kind |
|---|---|---|
| `QueueCalls` | calls and results of the queue interface, `interfaces/task_interface/queue_interface.hpp` | vocabulary |
| `QueueSpec` | a bounded FIFO whose calls take effect at one moment | abstract specification |
| `StlQueue` | `stl_queue.tpp`, one action per step between two synchronisation points | component |
| `LinuxQueue` | `linux_queue.hpp`, at the same grain | component |
| `StlTask` | `stl_worker_task.tpp`: owner, clients, worker thread | component, on top of the abstract queue |
| `Uart` | `uart.cpp` with the two tasks and the callbacks of `examples/uart/echo_non_blocking.cpp` | component, on top of the abstract task |
| `LinuxSerialFile` | `linux_serial_file.cpp`, in terms of `Uart` | component |
| `SerialBus` | what `iic.cpp` and `spi.cpp` share | component |
| `Iic`, `Spi` | the rest of the two drivers, extending `SerialBus` | components |
| `LinuxIo` | the three reads of `linux_io.cpp` | component |
| `LinuxDio`, `PicoDio`, `Esp32Dio` | the callbacks of a pin on each platform | components |
| `DioOutput` | `configure`, `write` and `toggle` of an output, on the three platforms | component |
| `Pit`, `Spt` | `drv_pit.cpp`, `spt_base.cpp` | components |
| `Locks` | `drv_comm_base.cpp` and the `drv_i2c.cpp` that takes its lock | component |
| `StdInOut` | `std_in_out.cpp` | component |
| `Esp32Task` | `idf_freertos_worker_task.tpp` | component |
| `Esp32UartRx`, `Esp32UartTx` | the two directions of the ESP32's `uart.cpp` | components |
| `Esp32Spi`, `Esp32Iic` | the ESP32's `spi.cpp`, `iic.cpp` | components |
| `MCStlQueue`, `MCLinuxQueue` | sets for TLC | instances |
| `MCSerial`, `MCBuses` | the UART and the serial file, the IIC and the SPI, behind one choice | compositions |
| `MCParts`, `MCEsp32` | parts that do not meet, one per behaviour | compositions |
| `StlQueueProofs`, `StlQueueRefinement`, `StlQueueWakeUps`, `StlTaskProofs`, `SerialProofs`, `BusesProofs`, `PartsProofs`, `Esp32Proofs` | theorems | proofs |

Each layer uses the one below by what has been shown of it: `StlQueue`
implements `QueueSpec`, so `StlTask` has sequences for its queues; what
`StlTask` shows (one thread, inputs in order, a terminate that leaves its dummy
item behind) is how `Uart`, `Iic` and `Spi` see their tasks; `Esp32UartTx` sees
its task as `Esp32Task` does.  `MCParts` and `MCEsp32` choose one part at the
start: parts that share nothing interleave to no purpose, and one run of each
composition explores their sum and not their product.

### StlQueue

The variables have the members' names: `m_data`, `m_front_index`,
`m_rear_index`, `m_count`.  `owner` is the thread that holds the mutex;
`m_not_full` and `m_not_empty` are the threads waiting on the condition
variables; `pc`, `call`, `status`, `item` and `result` are each thread's
position and locals.

| action | code |
|---|---|
| `Invoke`, `Lock` | the call and its `std::unique_lock` |
| `PutTest`, `GetTest` | the loop's condition, the timeout tests, and the wait they lead to |
| `DeadlinePasses`, `SpuriousWakeUp`, `Relock` | `std::condition_variable`: leaving the wait, taking the mutex again, comparing the clock with the deadline; a thread that was notified may still find its deadline passed |
| `PutStore`, `PutCommit`, `GetFetch`, `GetCommit` | the copy of the item, then index, count, `notify_one` and return |
| `GetActualSize` | the count, read under the mutex |

`notify_one` picks any waiter.  `Garbage` is the contents of a cell or of a
caller's variable that nobody has written.  `QueueSpec` has the queue as a
sequence, and `Abstract` maps it to `Held`, the items from the front index on.

`Init` is an assumption: the indices and the count begin at zero.  The class gives
them no value (`stl_queue.hpp:52-54`), so it is true of a queue in static storage and
not of one in automatic storage: the local queue of `ex_queue.cpp:21`, those in the
local UART of `hello_world.cpp:50` or the local task of `ex_task_multicore.cpp:29`
begin with whatever was there, an index beyond the ring included.  Nothing here is
claimed of those, nor, for a task or a driver that holds one, by the modules above,
which have the queue's promises for granted.

### LinuxQueue

The same, except that `put` and `get` test once, wait at most once, and then go
on (`Push`, `Pop`).  `front()` and `pop()` on an empty `std::queue` are undefined:
the caller gets `Garbage`.

### StlTask

`m_thread_handle`, `m_terminate`, `m_state`, `m_type` are the members; the two
queues are sequences; `owner` is where the owner is in `terminate`; `worker`,
`input`, `result` and `output` are the thread's position in `run` and its locals.
`Terminate`, `WakeUp` (the dummy item, which is not put when the queue is full)
and `Join` are the three steps of `terminate`, so that the thread can move
between them.  `GetInput` and `GetInputTimeout`, `CheckTerminate`, `Decide`,
`Apply` and `PutOutput` are the thread's loop; `Sleep` is the loop of a periodic
task.  Inputs are numbered tickets, `sent` counts them, and `applied` and
`received` record what the worker function ran on and what clients got.
`m_state` has no initialiser (`stl_worker_task.hpp:69`) and `CreateProfile` does not
set it, so `Init` leaves it open.  The
owner is one thread that does not call `create` or `terminate` from within
itself; clients call at any time.

### Uart

`Channels` is `{"rx", "tx"}`, and every member that exists twice is a function of
the channel.  `configure` is split where other threads can move: `Configure`,
then for each channel `CreateTask`, or `TerminateTask`, `WakeTask`, `JoinTask`,
then `OpenFile`.  `Destroy` is the destructor: the file is closed, its number kept
(`"stale"`), and then the tasks, as members, are terminated from the last one on
by the same steps, while transfers and callbacks go on beside it.  `read` and `write` are `Start` (tests, status, byte count)
followed by `Send` or, for a blocking channel, `TransferInCaller`.  The thread
does `TakeBundle`, `Transfer` (system calls, byte count and status),
`TestCallback`, `InvokeCallback` and `ReturnFromCallback`, or `LeaveOnTimeout`.
Reading the byte count for the callback belongs to `TestCallback`, after the
status was published, as in the code.  `Outcomes` is everything a system call
can report; a write that fails leaves -1 in the count (`Wrapped`).  A callback
cleared between its test and its call makes the thread go to `"crashed"`.
`started` and `ended` are histories.  Channels in `Chained` are restarted by the
read callback.

### SerialBus, Iic, Spi

`SerialBus` has `configure`, the busy tests and the hand-over of both drivers,
with one task.  `Iic` adds a worker function in the code's order: look at the
read status, read, publish, call back, then look at the write status, write,
publish, call back, all with one bundle.  `overtook` remembers whether a write
was started between the two looks.  `Spi` adds transfers in both directions,
whose end is published in two steps (`TransferStoresRead`, `CopyStatus`), and the
failing `ioctl`s of `configure`, which leave a closed descriptor in
`m_linux_handle` (`"stale"`).  `Destroy` is the destructor of both, as in `Uart`.

### LinuxSerialFile

The code is a second copy of the UART's, and so the model is `Uart` with the
differences: `FileReadBlocking` does not reset the byte count a second time, and
`FileTestCallback` sizes the data of a write callback with the bytes of the last
read.  `MCSerial` runs either driver.  `StdInOut` inherits these transfers; its
own module has the counter `m_termios_counter`, the settings kept by the first
`configure` (`StdConfigure`) and written back by the last destructor
(`StdDestroy`); `irregular` remembers that an object was configured twice, or
destroyed without a configure.

### LinuxIo

One read runs beside its peer (`Arrive`) and the clock (`Tick`, until the
timeout).  `Poll` or `Sleep`, `CountAvailable` (`FIONREAD`, and the restart of the
time), `Read` and `IoTest` are the steps between which bytes may come;
`PollBreaks` is a hang-up or an error.  The first function waits for its first
byte with `UINT32_MAX`, which is -1, no timeout, for `poll`.  `CountAvailable` and
`Sleep` have two outcomes: the number of bytes, or any number at all (`ByteCounts`),
because `bytesAvailableSyscall` does not look at what `ioctl` returns and its count
has no value when that fails (229-234).  `Read` then reads nothing where nothing is.

### LinuxDio, PicoDio, Esp32Dio, DioOutput

`LinuxDio` has the two handles with what they may be besides null ("closed",
"released"), the event thread (`ListenerTest`, `ListenerWait`, `ListenerRead`,
`ListenerInvoke`, `ListenerCall`), and the calls of the application: `EnableCallback` and
`RequestLine`, `DisableCallback` and `Join`, `DioDestroy`, `LastJoin` and
`Release`.  libgpiod's events are a bounded sequence.  A call on a handle that was
closed, and a second join, are `"crashed"`; so is the thread when the function was
cleared between its second test (325) and its call (327).  The constructor does not
set the pointer to the thread, which begins null or stale.

`PicoDio` has the vector `g_dio_ptr` and the handler, which may come between any
two steps of `PicoEnable`, `PushBack`, `EnableIrq` and `PicoDisable`, `Erase`.
`Esp32Dio` has the interrupt handler (`PinEdge`: it reads the level and notifies),
the event task (`TakeNotification`, `TestFunction`, `TestAgain`, `CallFunction`,
`FunctionReturns`, `LeaveTask`: the level is read between the two tests of the function,
and the function may be cleared before either, or before the call) and `enableCallback` (`PinEnable`, `InstallHandler`, `PinDisable`,
`SignalTask`, `WaitForTask`); notifications are flags.  `DioOutput` is the output
side of the three: what level the object remembers when the hardware refused.

### Pit, Spt

`Pit` reads a counter that goes back to 0 after `MAX_COUNT`; `write` looks at it
twice (`Write`, `EndOfWrite`), and `PitRead` compares, tells and rearms.  `age` is
the time that really passed.  `Spt` has the clock `now`, a 32-bit product
(`DurationWidth`) and 64-bit differences (`TimeWidth`); `SetBack` is the Linux
system clock that is set back, and `HasExpired` and `Restart` are the two looks
of a periodic timer.

### Locks

`CompareKey`, `TestAndSet`, `StoreKey` are `lock`; `KeepKey`, `ClearKey`,
`ClearLock` are `unlock`; `StartTransfer`, `EndTransfer` and `TellDone` are what
`drv_i2c.cpp` does around them, the last one after the lock was given back.  The
keys are the I2C driver's, which are addresses of 8 bits: the branches of `lock` and
`unlock` for the master key (`UINT32_MAX`, let through without the lock) and for the
empty key are never met by it and left out.

### Esp32Task, Esp32UartTx, Esp32UartRx

`Esp32Task` has the owner's `Create`, `SetState`, `Terminate`, `WakeWorker`,
`TakeEnd` and the task's `GetInput`, `TestFlag`, `PutOutput`, `NotifyEnd`.  Unlike
the Linux task, `create` empties the queues, waits have no end that matters, and
the task's end is a notification.

`Esp32UartTx` is `write` (`TxWrite`, `LockAndWrite`, `DrainMonitor`,
`SendToMonitor`, or `WriteBytes` for a blocking one), the task that waits for the
bytes to leave (`GetWrite` to `PutStatus`) and a `configure` that creates or ends
it, or returns before that because the IDF refused the driver, its parameters or its
threshold (`TxConfigure`), or fails after it at the pins (`TxSetPins`).  `Esp32UartRx` has the vendor driver's bytes and events (`Burst`, a queue that
drops events when full), `RxConfigure`, which deletes that queue, and the event
task (`ReceiveEvent`, `LockForEvent`, `FillBuffer`, `TestRxCallback`, ...), which
may still wait on a queue that was deleted (`ReceiveFromDeleted`).  `rx_buffer` is
the number of the read whose buffer it is, so a byte written into another's
buffer can be told.

### Esp32Spi, Esp32Iic

`Esp32Spi` has the slots a host has for devices, the vendor driver's lock, and the
chip select callbacks around a transaction (`Acquire`, `CsSelect`, `MoveBytes`,
`CsUnselect`).  `Esp32Iic` has the objects of a port and the one driver of it that
`IicConfigure` installs and `IicDestroy` deletes; `evicted` are the objects whose
driver another's destructor took away.

## The runs

| run | module, configuration | result | what it shows |
|---|---|---|---|
| `stl_queue` | `MCStlQueue`, `StlQueue.cfg` | passes | two producers and a consumer: types, mutual exclusion, one consistent ring, no lost wake-up, the bounded FIFO of `QueueSpec`; calls with a deadline return, and the others wait for ever only in a queue that stays full or empty |
| `linux_queue_stolen` | `MCLinuxQueue`, `LinuxQueue_stolen.cfg` | violated | with two consumers, `get` takes from an empty queue |
| `stl_task` | `StlTask`, `StlTask.cfg` | passes | two lives of a task with suspension and periodic ticks: one thread, inputs in order and at most once; if nobody suspends or terminates it, none lost when `m_state` began as run, and none processed when it did not; outputs in order; a terminate, or an input, waits for ever only if nobody takes the outputs |
| `stl_task_dummy` | `StlTask`, `StlTask_dummy.cfg` | violated | the dummy item outlives the thread it was meant to wake |
| `serial` | `MCSerial`, `Serial.cfg` | passes | UART and serial file, with chained reads and a reconfiguration or the destructor at any moment: a status that says running is true, one that does not is true as well, transfers end once and in order, the byte count is that of the last transfer, and a callback gets its own unless a later start overtakes it; when the destructor has returned nobody works for the object |
| `serial_live` | `MCSerial`, `Serial_live.cfg` | passes | after a configure that succeeded a transfer ends, unless it is a read that waits for its peer, and callbacks follow; a read that waits holds up no write; configure and the destructor return (`WaitsEnd`) |
| `uart_size` | `Uart`, `Uart_size.cfg` | violated | a callback is told the byte count of the next transfer |
| `buses` | `MCBuses`, `Buses.cfg` | passes | IIC and SPI: each transfer is made once, with its own buffers and alone on the bus; who sees it end may reuse its buffers, and so may who has destroyed the object; each ends, and so do configure and the destructor |
| `buses_data` | `MCBuses`, `Buses_data.cfg` | violated | an IIC write is made with the buffer of a read |
| `parts` | `MCParts`, `Parts.cfg` | passes | `BoundsAreKept`: the older queue goes wrong only after a spurious wake-up, and no read overfills its buffer. `PinsAreRight`: events in order and once, none after disabling, the right object called, a toggle inverts. `NeverEarly`: neither timer. `LockIsSound`: one holder, and nothing left behind. `TerminalRestored`. `WaitsEnd`: a read of bytes that were sent returns, and so does a first disabling |
| `esp32` | `MCEsp32`, `Esp32.cfg` | passes | `NothingRunsAfterEnd`: one task of an object, no call after disabling. `ToldRight`: inputs served in order, the level that was there, a status that says a transfer ended. `BusIsShared`: chip selects, slots, the port's driver. `UartTransfersEnd`, `TerminationsEnd`: where nothing the waiter itself holds is in the way |
| `io_timeout` | `LinuxIo`, `LinuxIo_timeout.cfg` | violated | a read with a timeout that has none: the first byte is waited for without an end |

Several properties of the drivers are conditional, and the condition is where the
code's guarantee ends; each was reached by trying without it.

- `configures <= 1` (`Uart`, `SerialBus`), `installs <= 1`, `tx_configures <= 1`
  (ESP32): a `configure` called with transfers running resets their statuses,
  after which the busy tests protect nothing; the ESP32's deletes a queue a task
  waits on as well.
- `m_state = "run"` (`NothingLost`): a task made by `create(profile)` may begin in any
  state, and one that is not "run" drops its inputs (line 248) until somebody calls
  `setState`.  `ex_task_multicore.cpp:29,41,66-71` makes its task so, on the stack, and
  expects each item back.
- `Misled` (`LinuxIo`): a count of bytes that was never written can have a read go on,
  or end, in any way; whether bytes fit in the buffer does not depend on it.
- a listener, or a handler, that is `"crashed"`: a function that is cleared between
  its test and its call ends the program before a disabling can return.
- `~overtook`: the IIC worker's second look.  `~silent_ends`: the ESP32's event
  task keeps the buffer of a read that ended without a callback, and the next
  bytes go into it.
- `configured = "ok"`: `read` and `write` do not test for a driver that is not
  configured, and a bundle on a queue without a thread stays there.
- `enables = 1` (`LinuxDio`), `disabled = 0` (`Esp32Dio`), `twice = {}` (`PicoDio`):
  the callbacks of a pin can be enabled and disabled once; on Linux enabling
  again takes the line from under the thread, and after a disabling no thread
  comes back.
- `~irregular`, `~reconfigured`, `evicted`: a counter or a slot that belongs to a
  call and not to an object.
- `~wrapped`, `~rearmed`, `duration < DurationWidth`, `~set_back`: a counter that
  starts again between write's two looks, a periodic timer written again with its
  deadline, a product beyond 32 bits, a clock that goes back.
- `spoilt` (`DioOutput`): a call that failed leaves a level that is not the pin's.
- `Len(output_queue) < OUTPUT_SIZE`, `monitor_output = <<>>`: the one who
  terminates an ESP32 task is the one who would have to take its outputs.

What these conditions exclude is not checked, it is known to go wrong: the models
contain those steps, and the property without its condition is violated.  Two of them
only say where a property stops to speak, and what goes wrong beyond is not put as a
property: `~rearmed` (later periods of a PIT timer) and the `disabled = 0` of
`LevelTold` (a second event task ends instead of telling a level).  The list
of hazards in `PROJECT.json` credits no property with them.  A hazard there without
properties, or the part of one that its note sets apart, is either such a failure of
the code or, for the data races on `m_state` and `m_terminate` and for the callback
cleared between test and call, outside what the properties say.

Each property was also confronted with a plausible mistake in the code it is
about: the definitions named as mutants in the modules are those mistakes, and
TLC finds the property violated with each.

`CHECK_DEADLOCK FALSE` is in every configuration because every model stops when
the bounded calls are used up, and, except for the waits the liveness properties
look at, nothing is expected to go on.

## Bounds

- `StlQueue`: size 2 is the least that has an index wrap and a queue that is
  neither full nor empty; three threads with two calls each give a waiter, a
  notifier and a thread that barges in between; one spurious wake-up is enough to
  be one more than the notifications.  One item is used: the order of items
  follows from the refinement, which is proved for any set of items, threads,
  calls and any size, 0 included.
- `LinuxQueue`: the overflow and the early take need one spurious wake-up each,
  so two; four calls of a producer fill a queue of two and overflow it twice.
- `StlTask`: two inputs queued and one in hand, an output queue of one that can
  be full while the thread has a result, two lives so that the second inherits
  queues, flags and state.  The proofs hold for any sizes and bounds.
- `MCSerial`: two transfers on each channel with a queue of one bundle let a
  transfer be started while the thread is still in the callback of the previous
  one, which is where the byte count goes wrong; two calls of
  configure, or one and the destructor, let a task be kept, replaced, left or ended.  In run `serial` the application calls `setCallback`
  once, so no callback is cleared; run `serial_live` has two calls, and one
  transfer of each channel, enough for one that waits beside one that must end.
- `SerialBus`: two transfers, two calls of configure, or one and the destructor, and
  two of `setCallback`.
- `MaxBytes` and `Size` only tell "none", "some" and "all" apart.
- `LinuxIo`: a buffer of one or two bytes and four that come: more than fit, all
  at once or one by one; two units of time, so that one can pass between them.
- `LinuxDio`, `PicoDio`, `Esp32Dio`: three edges are one in hand, one queued and
  one that finds the queue of two full, or the flag set; five calls are configure,
  set, enable, disable and one more of any of them; two objects and two lines of
  the Pi Pico that may be one.
- `Pit`: a counter of six values starts again at least once in the nine units a
  behaviour lasts, and `CountWidth` is larger than its length and less than twice
  that, so that the sum of two counts may be cut, as 2^32 does to a counter of 32
  bits.  `Spt`: products from three units on are beyond `DurationWidth`.  The proofs
  hold for any lengths and widths.
- `Locks`, `StdInOut`, `Esp32Spi`, `Esp32Iic`: three users, or objects, are one in the
  way, one that waits and one that comes later (two on the SPI host, whose third
  slot is what a second configure takes).  The proofs hold for any number.
- `Esp32Task`: two lives, queues of one, four inputs: one in hand, one queued, one
  output that blocks, and one of the second life.  `Esp32UartTx`: four writes and two configures, for a task
  that has one output unread and another to put.  `Esp32UartRx`: two installs, two
  reads, three bursts and a queue of two events, so that an event is dropped.

## Fairness

`StlQueue`: weak fairness of each thread's steps inside a call.  It stands for a
scheduler that runs every ready thread and a mutex that is not refused for ever to
a thread that asks for it again and again; weak fairness of `Lock` and `Relock`
would not be enough for a mutex taken continually, but calls are finite in number,
as they are for any property that says "once the callers stop".  Deadlines pass
because the clock does.  Nobody has to make a call, and spurious wake-ups need not
happen.

`StlTask`: the thread takes steps (its waits have timeouts), the worker function
returns, and an owner that began a terminate goes through with it.  Clients need
not send or take anything.

`MCSerial`: the same for each thread, except that a read need not return: the first
byte is waited for without an end (run `io_timeout`).  Writes return, a caller
finishes a call it began, and a callback returns.

`SerialBus`: transfers on the bus return, for this side gives the clock and waits
for nobody.

`LinuxIo`: the reading thread runs and time passes; no byte has to come, and a
hang-up or an error of `poll` is not relied upon.  `LinuxDio`: the event thread
runs (its wait has a timeout) and a caller goes through with its call; no edge has
to come.  The timers, locks and outputs have no liveness: their calls do not wait.

`MCEsp32`: FreeRTOS runs every task that can run, a caller goes through with its
call, and bytes given to the vendor's driver leave.  Nobody has to call, take an
output or send a byte.

## What is proved

Every safety property and every refinement a passing run checks is a theorem; what
stays with TLC is liveness.  The theorems are about the specifications the runs
check, compositions included, and hold for every value of the constants: any
capacity, any set of threads, users, objects and items, any width and any bound.
The assumptions are those named in the modules (`QueueAssumption`,
`TaskAssumption`, `UartAssumption`, `SerialBusAssumption`, `LocksAssumption`,
`Esp32TaskAssumption`, ...): finite sets of threads and of terminal objects, natural
numbers, sizes that are not 0 where the platform refuses 0, and values such as
`Garbage`, `NoThread`, `Dummy` and `EmptyKey` that differ from the rest.  Two
theorems assume more, and say so where they are stated: `BundlesAlwaysMatch` that
the queue holds a bundle, and `BoundsAreKeptBetweenTwo` that the older queue has
one producer and one consumer.

The invariants that are proved inductive were checked with TLC first, on the
instances of the runs (those of `BusesProofs` for queues of size 0, 1 and 2).  Where
a property has a condition, as `configures <= 1`, so has its theorem; why the code
gives no more is told with [the runs](#the-runs).

- `StlQueueProofs`: type correctness, mutual exclusion, `RingConsistent`, and
  `GetsOnlyPutItems` (a get returns only what was put; no run repeats it, the
  refinement includes it).  The inductive invariant `IInv` adds to them `LocalInv`:
  what a thread knows at each place of its call (a putter past its test has room,
  a getter an item; the cell it wrote or read is still that cell; a waiter waits
  in the right set).  Without it neither the ring nor the count is preserved by
  the commits.  The lemmas about `%` (`NextCell`, `RingShift`, `RingInjective`)
  carry the arithmetic of the ring, so that the steps need none.
- `StlQueueRefinement`: `Spec => ImplementsQueueSpec`.  A put takes effect at
  `PutCommit`, a get at `GetCommit`, a failing call at the test that gives up;
  every other step stutters.  `CommitAppends` and `CommitRemovesHead` relate the
  ring to `Append` and `Tail`.
- `StlQueueWakeUps`: `NoLostWakeUp`.  The argument counts: while somebody waits
  for room, there are at least as many putters awake as free cells
  (`RoomIsClaimed`), and the same for items (`ItemsAreClaimed`).  A notification
  makes one more awake, a barging thread takes a cell together with its claim,
  and a thread that gives up has seen no room.
- `StlTaskProofs`: type correctness, `OneWorker`, `InOrderAtMostOnce`,
  `NothingLost` and `OutputsMatch`.  The inductive invariant adds what the
  thread's locals are at each place (`Thread`) and what the flags say as long as
  nobody suspended or terminated the task (`Untouched`: the worker function is
  reached only with `m_state` at run).  `NothingLost` has two halves: a task whose
  `m_state` is run loses nothing; one that began otherwise has processed nothing.  Every step changes
  `Accepted`, the items processed, in hand and queued, in one of a few shapes
  (an item appended, one dropped, a dummy put in), and the order lemmas are about
  these shapes.
- `SerialProofs`: all of the UART's and the serial file's safety properties, `TypeOK`,
  `RunningIsPending`, `EndedIsEnded`, `EndInOrder`, `BytesOfLastTransfer` and
  `CallbackToldSize`.  Neither driver has a lock; what keeps two transfers of a
  channel apart is that nobody starts one while the status says "running", and
  `Sole` says what that is worth: exactly one of a caller, the queue and the
  channel's thread has the transfer, and it is the last one started.  `Ordered` counts
  from there: what has ended is what was started but for the one in hand.
  `ToldInv` says that nobody changes the count between the end of a transfer and its
  callback as long as nothing else was started.  All three hold until `configure` is
  called a second time.  `LifeInv` and `SettledInv` (who runs at each place of
  `configure` and of the destructor, and which channels have a thread) hold always,
  and `RunningIsPending` and the types rest on them.  Every step of either driver is
  first brought into one of a few shapes (`SerialStep`), which the preservation
  lemmas are about: the serial file's differences are dealt with once.
- `BusesProofs`: `TypeOK`, `BusIsExclusive`, `EndIsTold` and `BundlesMatch` of IIC and
  SPI.  `OneHasIt` is the argument: there is `Nothing` to do, or the transfer is with
  a caller (`Calling`), `Queued`, with the thread (`Working`), or the thread has
  `Left`; in each case the statuses of both directions are known, which is what
  makes one task enough for two directions.  `Configuring` says when there is a
  thread, `Ordered` counts the ends.  All hold while `configure` was called once and
  no write was started between the IIC worker's two looks (run `buses_data` shows
  what such a write does).  `BundlesMatch` needs room for a bundle:
  `IIC_QUEUE_SIZE` and `SPI_QUEUE_SIZE` are 1 unless they are redefined
  (`interfaces/peripherals_base/iic_base.hpp:24`, `spi_base.hpp:25`); with 0 every
  asynchronous transfer is called off and none ends.
- `PartsProofs`: the parts of `MCParts`, each with an invariant of its own, and
  `PartsInv`, that all hold whichever part runs.
  - The lock and the I2C driver, for any users and keys: `FlagInv` (the flag is up
    exactly while one user has the port) gives exclusion; `KeyInv` (what the key is at
    every place, also when nobody has the port) is what makes `unlock` find its own
    key and take the flag down; `DoneInv` is about the driver's own flags, set after
    the lock was given back.
  - The terminal, for any finite set of objects: `Counted` says that the counter is
    the number of configured objects as long as nothing irregular happened, and
    `Kept`, always, what the settings kept are; the cardinality lemmas of the library
    carry the count.
  - The timers: the PIT's counter is seen from the look `write` took at it, `Ahead` as
    long as it has not started again and `Behind` after that, and in both cases the
    deadline is where it has to be (`DeadlineIsRight`), so that the steps need no
    remainders but the cut to 32 bits.  The software timer has told expiries for no
    more than the time before its present period (`ToldIsPast`).
  - The older queue: an awake getter finds an element and an awake putter finds room
    unless a wake-up was spurious (`QueueInv`).  It is true of one producer and one
    consumer, as many as the run has; with more it is false, which is what run
    `linux_queue_stolen` shows.
  - The reads with a timeout: `IoInv` relates what was read, what the kernel holds and
    what may still come, so that the next system call is asked for no more than there
    is room for.
  - The pins of Linux: events were kept only for a line that was requested with them
    (`LineInv`), and the thread is live only between an enabling and the disabling
    after it (`ThreadInv`); the edges told, in flight and queued are those kept.  The
    Pi Pico's vector holds exactly the objects that are enabled but for the one the
    program is putting in (`VectorInv`), as long as objects own their lines and none is
    enabled twice.  An output remembers its level unless a call failed (`OutInv`).
- `Esp32Proofs`: the parts of `MCEsp32`, and `EspInv`, that all hold whichever runs.
  - The task: whoever waits for its end has told it to (`Endings`); in its first life
    the inputs served, in hand and queued are the last ones put, in order, and the
    results are what was served (`FirstLife`).
  - The callbacks of a pin: whoever holds a handle of the task is in the driver
    (`PinStages`), and what is still to be told of the last edge is on its way, in
    `m_value` or in what was reported (`LevelOnItsWay`).
  - Reads: the task holds the mutex from finding a buffer to giving it back
    (`MutexOfTask`), and a buffer it may find is that of the read that runs
    (`BufferOfRunningRead`), as long as no read ended without being told.
  - Writes: the monitor has at most the last write, and only while the status runs, so
    whoever sets the status to "ok" does so for the last (`OnlyTheLastWrite`).
  - The SPI: a chip select is active exactly between its two callbacks
    (`SelectedInv`), and only the object with the lock is between them (`LockInv`);
    the slots and the port's driver are inductive as they stand.

In a composition, a step of one part leaves the variables of the others alone, so
the invariant of each part is kept by every step (`PartsAreAlone`, and the same in
`EspInvariant`).

Only model-checked: the liveness properties (`DeadlinesAreKept`,
`OnlyJustifiedWaits`, `InputsAreTaken`, `TerminateReturns`, `WaitsEnd`,
`CallbackFollows`, `UartTransfersEnd`, `TerminationsEnd`), because fairness and
`ENABLED` are beyond the provers used, and the counterexamples of the runs that
expect a violation.

## What the models found

| run | where | what |
|---|---|---|
| `linux_queue_stolen` | `drivers/linux/utils/linux_queue.hpp:63` | `get` tests with `if`: a woken getter whose element was taken calls `front()` on an empty queue |
| `stl_task_dummy` | `drivers/linux/task_system/stl_worker_task.tpp:149` | the dummy item can stay on the queue; the next thread runs the worker function on an uninitialised value |
| `uart_size` | `drivers/linux/uart/uart.cpp:370` | the status is published before the callback's byte count is read |
| `io_timeout` | `drivers/linux/utils/linux_io.cpp:67` | a read with a timeout waits for its first byte without one, and the third function goes on with a full buffer |
| `buses_data` | `drivers/linux/iic/iic.cpp:323` | a write started between the worker's two looks is sent from the buffer of the read, possibly beside the write itself |

Others are visible in the models, or were met in the code, without a run of their
own, because neither doc nor test promises anything there:

- `drivers/linux/uart/uart.cpp`: a failed write is a success of -1 bytes, since the
  test looks at an unsigned count (408); a callback cleared between its test and
  its call (372); a `configure` that reads `result` before it has a value (129).
  A terminate, and so a `configure` that changes the mode, and the destructor, wait
  for a task that reads, and the read waits for its peer.  The destructor closes the
  file first (38), so that transfers that still run are made on a closed descriptor,
  or on whatever has its number by then; those still queued are dropped, and their
  status says running for good.
- `drivers/linux/spi/spi.cpp:123`: transfers on a stale descriptor after a failed
  `configure`; byte counts that IIC writes (`iic.cpp:283`) and SPI never store.  `setAddress` of
  IIC changes the device that transfers already on the queue go to (`iic.cpp:312`).
- `drivers/linux/task_system/stl_queue.hpp:32`: indices without a value in a queue
  of automatic storage; `stl_worker_task.hpp:69`, `stl_worker_task.tpp:81-101`:
  `create(profile)` leaves `m_state` without a value in a new task, which may drop every
  input (248), and a task created again keeps the state it was left in; `drivers/linux/utils/linux_queue.hpp:87`: the size is read
  without the mutex.
- `drivers/linux/utils/linux_io.cpp:232`: a count without a value when `FIONREAD` fails;
  after a hang-up, `poll` says at once, and for ever, that there is something to read.
- `drivers/linux/dio/dio.cpp`: enabling again, or after a disabling, leaves no
  working thread; a chip handle is closed twice after a configure that failed;
  `readAsyncThread` passes `m_sync.arg` and not the `m_arg` that was set (327).
- `drivers/silabs/pit/drv_pit.cpp:124`: a periodic timer is written again with its
  deadline as its period.
- `drivers/esp32/uart/uart.cpp:436`: the read callback is told `EVENT_WRITE`.
- `drivers/examples/uart/echo_non_blocking.cpp:142`: one buffer for two transfers.

Data races on plain members (`m_terminate`, the statuses) are modelled as
interleavings of reads and writes: the code that polls a status looks at one
field of it, `code`, which is stored and loaded as a whole.  A compiler that keeps
such a member in a register is not modelled.

## Not modelled, and the plan

Not modelled, for there is no state that anything could disturb: the mutexes
(each call is one call of the platform's; where the ESP32's UART uses one, it is
in that model), interfaces without code, common types, build files, and the
blocking examples.

Left out of the modelled parts: the settings of the line and the bus, addresses
and speeds; `delay` and `getElapsedTime` of the
timers, and the PIT's `halt` and `resume`, which set a flag nothing reads; core
affinity and priorities; the error codes of the vendors' libraries and what is
behind them; several application threads on one Linux driver (the drivers do not
protect themselves against that); and the contents of buffers.

What would come next:

1. `StlTask` on two `StlQueue`s in the place of its sequences, shown to implement
   `StlTask` by the refinement already proved for the queue;
2. theorems that state what a composition relies on as an interface of its own: that
   the thread `Uart` and `SerialBus` see is `StlTask`'s, and the task `Esp32UartTx`
   sees `Esp32Task`'s, as refinements and not by reading the two side by side;
3. the invariants behind the liveness properties (who is enabled while somebody
   waits), from which a prover with `ENABLED` could go on.
