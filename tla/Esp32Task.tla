------------------------------- MODULE Esp32Task -------------------------------
(***************************************************************************)
(* Task<TI, INPUT_SIZE, TO, OUTPUT_SIZE> of the ESP32,                     *)
(* drivers/esp32/task_system/idf_freertos_worker_task.tpp: a FreeRTOS task *)
(* that takes inputs from a queue, calls the worker function and puts its  *)
(* outputs into another.  One application task creates, suspends and       *)
(* terminates it; any task puts inputs and gets outputs.                   *)
(*                                                                         *)
(* The worker waits for an input and for room for an output with the       *)
(* largest timeout there is, 49 days, which here never ends.  The n-th     *)
(* input is the number n; the dummy of terminate, and the input of a       *)
(* periodic task, which has none, is 0.                                    *)
(***************************************************************************)
EXTENDS Integers, Sequences

CONSTANTS
  INPUT_SIZE, OUTPUT_SIZE,
  MaxInputs,      \* bound: inputs put
  MaxCreates      \* bound: calls of create

ASSUME Esp32TaskAssumption ==
  /\ INPUT_SIZE \in Nat \ {0} /\ OUTPUT_SIZE \in Nat \ {0}
  /\ MaxInputs \in Nat /\ MaxCreates \in Nat

NoInput == 0
Inputs == 0 .. MaxInputs

VARIABLES
  m_task_handle,       \* "null" or "set"
  m_task_terminate,    \* m_terminate
  m_type,              \* m_profile.type: "worker" or "periodic"
  input_queue, output_queue,
  runner,              \* [at, input]: where the task is in run
  suspended,           \* whether the task is
  owner_at,            \* where the application task is in terminate
  owner_notified,      \* its notification
  inputs, creates,
  served,              \* the inputs the worker function was called with, in order
  results              \* the outputs that were got, in order

queues == <<input_queue, output_queue>>
taskGhosts == <<inputs, creates, served, results>>
taskVars == <<m_task_handle, m_task_terminate, m_type, queues, runner, suspended, owner_at,
              owner_notified, taskGhosts>>

Nobody == [at |-> "none", input |-> NoInput]

TaskInit ==
  /\ m_task_handle = "null" /\ m_task_terminate = FALSE /\ m_type = "worker"
  /\ input_queue = <<>> /\ output_queue = <<>>
  /\ runner = Nobody /\ suspended = FALSE
  /\ owner_at = "idle" /\ owner_notified = FALSE
  /\ inputs = 0 /\ creates = 0 /\ served = <<>> /\ results = <<>>

-----------------------------------------------------------------------------
\* Both create functions: the queues are emptied; there may be no memory for
\* the task.
Create ==
  /\ owner_at = "idle" /\ m_task_handle = "null"
  /\ creates < MaxCreates /\ creates' = creates + 1
  /\ m_task_terminate' = FALSE
  /\ m_type' \in {"worker", "periodic"}
  /\ input_queue' = <<>> /\ output_queue' = <<>>
  /\ \/ m_task_handle' = "set" /\ runner' = [Nobody EXCEPT !.at = "get"] /\ suspended' = FALSE
     \/ UNCHANGED <<m_task_handle, runner, suspended>>
  /\ UNCHANGED <<owner_at, owner_notified, inputs, served, results>>

SetState ==
  /\ owner_at = "idle" /\ m_task_handle = "set"
  /\ suspended' \in BOOLEAN
  /\ UNCHANGED <<m_task_handle, m_task_terminate, m_type, queues, runner, owner_at,
                 owner_notified, taskGhosts>>

\* terminate: the flag is set, ...
Terminate ==
  /\ owner_at = "idle" /\ m_task_handle = "set"
  /\ m_task_terminate' = TRUE
  /\ owner_at' = "wake"
  /\ UNCHANGED <<m_task_handle, m_type, queues, runner, suspended, owner_notified, taskGhosts>>

\* ... a dummy input wakes the task up, unless the queue has inputs enough, ...
WakeWorker ==
  /\ owner_at = "wake"
  /\ owner_at' = "take"
  /\ input_queue' = IF Len(input_queue) < INPUT_SIZE THEN Append(input_queue, NoInput) ELSE input_queue
  /\ UNCHANGED <<m_task_handle, m_task_terminate, m_type, output_queue, runner, suspended,
                 owner_notified, taskGhosts>>

\* Mutant: terminate does not wait for the notification.
Unnotified == TRUE
Notified == owner_notified

\* ... and its notification is awaited.
TakeEnd ==
  /\ owner_at = "take" /\ Notified
  /\ owner_notified' = FALSE
  /\ m_task_handle' = "null"
  /\ owner_at' = "idle"
  /\ UNCHANGED <<m_task_terminate, m_type, queues, runner, suspended, taskGhosts>>

\* setInputData and getOutputData; one that finds the queue full, or empty, and
\* does not wait, changes nothing.
SetInputData ==
  /\ inputs < MaxInputs /\ Len(input_queue) < INPUT_SIZE
  /\ inputs' = inputs + 1
  /\ input_queue' = Append(input_queue, inputs + 1)
  /\ UNCHANGED <<m_task_handle, m_task_terminate, m_type, output_queue, runner, suspended,
                 owner_at, owner_notified, creates, served, results>>

GetOutputData ==
  /\ output_queue # <<>>
  /\ results' = Append(results, Head(output_queue))
  /\ output_queue' = Tail(output_queue)
  /\ UNCHANGED <<m_task_handle, m_task_terminate, m_type, input_queue, runner, suspended,
                 owner_at, owner_notified, inputs, creates, served>>

-----------------------------------------------------------------------------
Runner(from) == runner.at = from /\ ~suspended

\* run: an input is waited for, or the period; ...
GetInput ==
  /\ Runner("get")
  /\ \/ /\ m_type = "worker" /\ input_queue # <<>>
        /\ runner' = [at |-> "test", input |-> Head(input_queue)]
        /\ input_queue' = Tail(input_queue)
     \/ /\ m_type = "periodic"
        /\ Len(served) < MaxInputs \/ m_task_terminate   \* bound
        /\ runner' = [at |-> "test", input |-> NoInput]
        /\ UNCHANGED input_queue
  /\ UNCHANGED <<m_task_handle, m_task_terminate, m_type, output_queue, suspended, owner_at,
                 owner_notified, taskGhosts>>

\* Mutant: the flag is not tested.
NotTested == FALSE
Tested == m_task_terminate

\* ... the flag is tested, and the worker function called; ...
TestFlag ==
  /\ Runner("test")
  /\ IF Tested
       THEN runner' = [Nobody EXCEPT !.at = "leave"] /\ UNCHANGED served
       ELSE runner' = [runner EXCEPT !.at = "put"] /\ served' = Append(served, runner.input)
  /\ UNCHANGED <<m_task_handle, m_task_terminate, m_type, queues, suspended, owner_at,
                 owner_notified, inputs, creates, results>>

\* Mutant: the queue has room for one output more.
RoomForMore == Len(output_queue) <= OUTPUT_SIZE
Room == Len(output_queue) < OUTPUT_SIZE

\* ... and the output is put, when there is room.
PutOutput ==
  /\ Runner("put")
  /\ Room
  /\ output_queue' = Append(output_queue, runner.input)
  /\ runner' = [Nobody EXCEPT !.at = "get"]
  /\ UNCHANGED <<m_task_handle, m_task_terminate, m_type, input_queue, suspended, owner_at,
                 owner_notified, taskGhosts>>

\* The task ends: the application task is notified.
NotifyEnd ==
  /\ Runner("leave")
  /\ owner_notified' = TRUE
  /\ runner' = Nobody
  /\ UNCHANGED <<m_task_handle, m_task_terminate, m_type, queues, suspended, owner_at, taskGhosts>>

RunnerStep == GetInput \/ TestFlag \/ PutOutput \/ NotifyEnd
OwnerStep == WakeWorker \/ TakeEnd

TaskNext ==
  \/ Create \/ SetState \/ Terminate \/ OwnerStep
  \/ SetInputData \/ GetOutputData \/ RunnerStep

TaskSpec == TaskInit /\ [][TaskNext]_taskVars

-----------------------------------------------------------------------------
(***************************************************************************)
(* Properties                                                              *)
(***************************************************************************)
\* Every variable has its type.
TaskTypeOK ==
  /\ m_task_handle \in {"null", "set"} /\ m_task_terminate \in BOOLEAN
  /\ m_type \in {"worker", "periodic"}
  /\ input_queue \in Seq(Inputs) /\ Len(input_queue) <= INPUT_SIZE
  /\ output_queue \in Seq(Inputs) /\ Len(output_queue) <= OUTPUT_SIZE
  /\ runner \in [at : {"none", "get", "test", "put", "leave"}, input : Inputs]
  /\ suspended \in BOOLEAN /\ owner_notified \in BOOLEAN
  /\ owner_at \in {"idle", "wake", "take"}
  /\ inputs \in 0 .. MaxInputs /\ creates \in 0 .. MaxCreates
  /\ served \in Seq(Inputs) /\ results \in Seq(Inputs)

\* When there is no task in the handle none runs: the next create makes the
\* only one, and after a terminate that returned the worker function is not
\* called, and its argument can be freed.
OneTaskAtMost ==
  /\ m_task_handle = "null" => runner.at = "none" /\ ~owner_notified
  /\ (m_task_handle = "set" /\ runner.at = "none") => owner_notified

Within(at) == IF runner.at = at THEN <<runner.input>> ELSE <<>>

\* In the first life of a worker task, until it is terminated, each input is
\* served once, in the order they were put, and each output is got once, in
\* the order of the inputs.
ServedInOrder ==
  (creates = 1 /\ m_type = "worker" /\ m_task_handle = "set" /\ ~m_task_terminate) =>
    /\ \A i \in 1 .. Len(served \o Within("test") \o input_queue) - 1 :
         LET all == served \o Within("test") \o input_queue IN all[i + 1] = all[i] + 1
    /\ results \o output_queue \o Within("put") = served

\* terminate returns, if the task is not suspended and there is room for the
\* output of the worker function; otherwise it may wait for ever.
TerminateEnds ==
  (owner_at = "take" /\ ~suspended /\ Len(output_queue) < OUTPUT_SIZE) ~> (owner_at = "idle")
=============================================================================
