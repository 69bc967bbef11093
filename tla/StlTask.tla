------------------------------ MODULE StlTask ------------------------------
(***************************************************************************)
(* Task<TI, IN, TO, OUT> of drivers/linux/task_system/stl_worker_task.tpp: *)
(* a std::thread that takes items from an input queue (or wakes up         *)
(* periodically), runs the worker function on them and puts what it        *)
(* returns on an output queue.                                             *)
(*                                                                         *)
(* Three parties interleave: the owner (create, setState, terminate; one   *)
(* thread, as in the drivers), clients (setInputData, getOutputData) and   *)
(* the worker thread (run).  The two queues are used through what QueueSpec*)
(* promises, which StlQueue is shown to implement: a call takes effect at  *)
(* one instant, and one that cannot succeed waits or fails.                *)
(*                                                                         *)
(* The n-th item a client sends is the ticket n.  The worker function is   *)
(* taken to return its argument, as in the examples, so that outputs can   *)
(* be matched with inputs.                                                 *)
(***************************************************************************)
EXTENDS Integers, Sequences

CONSTANTS
  INPUT_SIZE, OUTPUT_SIZE,  \* template arguments: capacities of the queues
  MaxSends,                 \* bound: items clients send
  MaxCreates,               \* bound: successful calls of create
  MaxTerminates,            \* bound: calls of terminate on a live task
  MaxStates,                \* bound: successful calls of setState
  MaxTicks                  \* bound: activations of periodic tasks

ASSUME TaskAssumption ==
  /\ INPUT_SIZE \in Nat /\ OUTPUT_SIZE \in Nat
  /\ MaxSends \in Nat /\ MaxCreates \in Nat /\ MaxTerminates \in Nat
  /\ MaxStates \in Nat /\ MaxTicks \in Nat

\* An uninitialised TI: terminate's wake-up item, or input before the first get.
Dummy == 0
Items == 0 .. MaxSends

VARIABLES
  m_thread_handle,  \* "null" or "thread"
  m_terminate,
  m_state,          \* "run", or "suspend" for any value that is not run
  m_type,           \* m_profile.type: "worker" or "periodic"
  m_input_queue, m_output_queue,
  owner,            \* where the owner is: "idle", "wakeUp" or "join"
  worker,           \* where the thread is, "none" when there is none
  input, result, output,   \* locals of run
  sent,             \* tickets accepted by setInputData so far
  applied,          \* items the worker function was run on, in order
  received,         \* items getOutputData returned, in order
  creates, terminates, states, ticks

flags == <<m_terminate, m_state, m_type>>
queues == <<m_input_queue, m_output_queue>>
locals == <<input, result, output>>
clients == <<sent, received>>
bounds == <<creates, terminates, states, ticks>>
vars == <<m_thread_handle, flags, queues, owner, worker, locals, clients,
          applied, bounds>>

WorkerPlaces == {"none", "get", "check", "decide", "apply", "put", "exited"}

\* m_state, m_terminate and m_profile have no initialisers: m_state is what the
\* object's memory held; the other two are set before anything reads them.
Init ==
  /\ m_thread_handle = "null"
  /\ m_terminate = FALSE /\ m_type = "worker"
  /\ m_state \in {"run", "suspend"}
  /\ m_input_queue = <<>> /\ m_output_queue = <<>>
  /\ owner = "idle" /\ worker = "none"
  /\ input = Dummy /\ result = FALSE /\ output = Dummy
  /\ sent = 0 /\ applied = <<>> /\ received = <<>>
  /\ creates = 0 /\ terminates = 0 /\ states = 0 /\ ticks = 0

-----------------------------------------------------------------------------
(***************************************************************************)
(* The owner                                                               *)
(***************************************************************************)
\* The thread starts with its locals uninitialised.
StartThread ==
  /\ owner = "idle"
  /\ m_thread_handle = "null"
  /\ creates < MaxCreates
  /\ creates' = creates + 1
  /\ m_thread_handle' = "thread"
  /\ m_terminate' = FALSE
  /\ worker' = "get"
  /\ input' = Dummy
  /\ UNCHANGED <<queues, owner, result, output, clients, applied, terminates,
                 states, ticks>>

\* create(function, user_arg, priority); the queues are not emptied.
Create ==
  /\ StartThread
  /\ m_state' = "run"
  /\ m_type' = "worker"

\* create(function, user_arg, parameters) leaves m_state alone: in a new object
\* it is what the memory held.
CreateProfile ==
  /\ StartThread
  /\ \E type \in {"worker", "periodic"} : m_type' = type
  /\ UNCHANGED m_state

SetState ==
  /\ owner = "idle"
  /\ m_thread_handle # "null"
  /\ states < MaxStates
  /\ states' = states + 1
  /\ \E state \in {"run", "suspend"} : m_state' = state
  /\ UNCHANGED <<m_thread_handle, m_terminate, m_type, queues, owner, worker,
                 locals, clients, applied, creates, terminates, ticks>>

\* terminate, also called by the destructor: raise the flag, ...
Terminate ==
  /\ owner = "idle"
  /\ m_thread_handle # "null"
  /\ terminates < MaxTerminates
  /\ terminates' = terminates + 1
  /\ m_terminate' = TRUE
  /\ owner' = "wakeUp"
  /\ UNCHANGED <<m_thread_handle, m_state, m_type, queues, worker, locals,
                 clients, applied, creates, states, ticks>>

\* ... put a dummy item on the input queue if it has room (timeout 0), ...
WakeUp ==
  /\ owner = "wakeUp"
  /\ m_input_queue' = IF Len(m_input_queue) < INPUT_SIZE
                      THEN Append(m_input_queue, Dummy)
                      ELSE m_input_queue
  /\ owner' = "join"
  /\ UNCHANGED <<m_thread_handle, flags, m_output_queue, worker, locals, clients,
                 applied, bounds>>

\* Mutant: the thread is detached instead of joined.
Detach ==
  /\ owner = "join"
  /\ m_thread_handle' = "null"
  /\ owner' = "idle"
  /\ UNCHANGED <<flags, queues, worker, locals, clients, applied, bounds>>

\* ... and join and delete the thread.
Join ==
  /\ owner = "join"
  /\ worker = "exited"
  /\ worker' = "none"
  /\ m_thread_handle' = "null"
  /\ owner' = "idle"
  /\ UNCHANGED <<flags, queues, locals, clients, applied, bounds>>

-----------------------------------------------------------------------------
(***************************************************************************)
(* Clients: a call that fails or still waits changes nothing               *)
(***************************************************************************)
\* Mutant: an item the queue has no room for is accepted.
SetInputDataFull ==
  /\ sent < MaxSends
  /\ sent' = sent + 1
  /\ m_input_queue' = Append(m_input_queue, sent')
  /\ UNCHANGED <<m_thread_handle, flags, m_output_queue, owner, worker, locals,
                 received, applied, bounds>>

\* Mutant: the result of the queue's put is ignored.
SetInputDataIgnored ==
  /\ sent < MaxSends
  /\ sent' = sent + 1
  /\ m_input_queue' = IF Len(m_input_queue) < INPUT_SIZE
                      THEN Append(m_input_queue, sent')
                      ELSE m_input_queue
  /\ UNCHANGED <<m_thread_handle, flags, m_output_queue, owner, worker, locals,
                 received, applied, bounds>>

SetInputData ==
  /\ sent < MaxSends
  /\ Len(m_input_queue) < INPUT_SIZE
  /\ sent' = sent + 1
  /\ m_input_queue' = Append(m_input_queue, sent')
  /\ UNCHANGED <<m_thread_handle, flags, m_output_queue, owner, worker, locals,
                 received, applied, bounds>>

GetOutputData ==
  /\ m_output_queue # <<>>
  /\ received' = Append(received, Head(m_output_queue))
  /\ m_output_queue' = Tail(m_output_queue)
  /\ UNCHANGED <<m_thread_handle, flags, m_input_queue, owner, worker, locals,
                 sent, applied, bounds>>

-----------------------------------------------------------------------------
(***************************************************************************)
(* The worker thread                                                       *)
(***************************************************************************)
\* m_input_queue.get(input, 5000) returns an item, ...
GetInput ==
  /\ worker = "get" /\ m_type = "worker"
  /\ m_input_queue # <<>>
  /\ input' = Head(m_input_queue)
  /\ m_input_queue' = Tail(m_input_queue)
  /\ result' = TRUE
  /\ worker' = "check"
  /\ UNCHANGED <<m_thread_handle, flags, m_output_queue, owner, output, clients,
                 applied, bounds>>

\* ... or times out on an empty queue.
GetInputTimeout ==
  /\ worker = "get" /\ m_type = "worker"
  /\ m_input_queue = <<>>
  /\ result' = FALSE
  /\ worker' = "check"
  /\ UNCHANGED <<m_thread_handle, flags, queues, owner, input, output, clients,
                 applied, bounds>>

\* A periodic task sleeps instead; input keeps what it held.
Sleep ==
  /\ worker = "get" /\ m_type = "periodic"
  /\ ticks < MaxTicks \/ m_terminate
  /\ ticks' = IF ticks < MaxTicks THEN ticks + 1 ELSE ticks
  /\ result' = TRUE
  /\ worker' = "check"
  /\ UNCHANGED <<m_thread_handle, flags, queues, owner, input, output, clients,
                 applied, creates, terminates, states>>

\* Mutant: the flag is not read after the queue woke the worker up.
CheckNothing ==
  /\ worker = "check"
  /\ worker' = "decide"
  /\ UNCHANGED <<m_thread_handle, flags, queues, owner, locals, clients, applied,
                 bounds>>

\* Mutant: a get that timed out ends the thread too.
LeaveOnTimeout ==
  /\ worker = "check"
  /\ worker' = IF m_terminate \/ ~result THEN "exited" ELSE "decide"
  /\ UNCHANGED <<m_thread_handle, flags, queues, owner, locals, clients, applied,
                 bounds>>

CheckTerminate ==
  /\ worker = "check"
  /\ worker' = IF m_terminate THEN "exited" ELSE "decide"
  /\ UNCHANGED <<m_thread_handle, flags, queues, owner, locals, clients, applied,
                 bounds>>

\* Mutant: the result of the get is not tested, a timeout runs the function too.
DecideAlways ==
  /\ worker = "decide"
  /\ worker' = IF m_state = "run" THEN "apply" ELSE "get"
  /\ UNCHANGED <<m_thread_handle, flags, queues, owner, locals, clients, applied,
                 bounds>>

\* Run the function or drop the item: while suspended, inputs are consumed.
Decide ==
  /\ worker = "decide"
  /\ worker' = IF result /\ m_state = "run" THEN "apply" ELSE "get"
  /\ UNCHANGED <<m_thread_handle, flags, queues, owner, locals, clients, applied,
                 bounds>>

Apply ==
  /\ worker = "apply"
  /\ output' = input
  /\ applied' = Append(applied, input)
  /\ worker' = "put"
  /\ UNCHANGED <<m_thread_handle, flags, queues, owner, input, result, clients,
                 bounds>>

\* Mutant: the output is put without waiting for room.
PutOutputNoWait ==
  /\ worker = "put"
  /\ m_output_queue' = IF Len(m_output_queue) < OUTPUT_SIZE
                       THEN Append(m_output_queue, output)
                       ELSE m_output_queue
  /\ worker' = "get"
  /\ UNCHANGED <<m_thread_handle, flags, m_input_queue, owner, locals, clients,
                 applied, bounds>>

\* m_output_queue.put(output) waits for room for ever, except that a queue of
\* size 0 refuses at once.
PutOutput ==
  /\ worker = "put"
  /\ \/ OUTPUT_SIZE = 0 /\ UNCHANGED m_output_queue
     \/ /\ Len(m_output_queue) < OUTPUT_SIZE
        /\ m_output_queue' = Append(m_output_queue, output)
  /\ worker' = "get"
  /\ UNCHANGED <<m_thread_handle, flags, m_input_queue, owner, locals, clients,
                 applied, bounds>>

-----------------------------------------------------------------------------
WorkerStep ==
  \/ GetInput \/ GetInputTimeout \/ Sleep
  \/ CheckTerminate \/ Decide \/ Apply \/ PutOutput

Next ==
  \/ Create \/ CreateProfile \/ SetState \/ Terminate \/ WakeUp \/ Join
  \/ SetInputData \/ GetOutputData
  \/ WorkerStep

Spec == Init /\ [][Next]_vars

\* The scheduler runs the worker thread, the worker function returns, and the
\* owner goes through with a terminate it began.  Nobody has to call anything.
Fairness == WF_vars(WorkerStep) /\ WF_vars(WakeUp \/ Join)

FairSpec == Spec /\ Fairness

-----------------------------------------------------------------------------
(***************************************************************************)
(* Properties                                                              *)
(***************************************************************************)
\* Every variable has its type.
TypeOK ==
  /\ m_thread_handle \in {"null", "thread"}
  /\ m_terminate \in BOOLEAN
  /\ m_state \in {"run", "suspend"}
  /\ m_type \in {"worker", "periodic"}
  /\ m_input_queue \in Seq(Items) /\ Len(m_input_queue) <= INPUT_SIZE
  /\ m_output_queue \in Seq(Items) /\ Len(m_output_queue) <= OUTPUT_SIZE
  /\ owner \in {"idle", "wakeUp", "join"}
  /\ worker \in WorkerPlaces
  /\ input \in Items /\ result \in BOOLEAN /\ output \in Items
  /\ sent \in 0 .. MaxSends
  /\ applied \in Seq(Items) /\ received \in Seq(Items)
  /\ creates \in 0 .. MaxCreates /\ terminates \in 0 .. MaxTerminates
  /\ states \in 0 .. MaxStates /\ ticks \in 0 .. MaxTicks

\* There is a worker thread exactly while the task has a handle to it, so a
\* task never has two threads on its queues and terminate leaves none behind;
\* a thread leaves its loop only while its owner is waiting to join it.
OneWorker ==
  /\ worker = "none" <=> m_thread_handle = "null"
  /\ owner # "idle" => m_thread_handle = "thread" /\ m_terminate
  /\ worker = "exited" => owner # "idle"

\* The item the worker took and has neither run the function on nor dropped.
InHand ==
  IF worker \in {"check", "decide", "apply"} /\ result THEN <<input>> ELSE <<>>

\* The items processed, in hand and queued.
Accepted == applied \o InHand \o m_input_queue

InOrder(items, last) ==
  /\ \A i, j \in DOMAIN items :
       (i < j /\ items[i] # Dummy /\ items[j] # Dummy) => items[i] < items[j]
  /\ \A i \in DOMAIN items : items[i] <= last

\* Inputs are processed at most once and in the order clients sent them, also
\* across suspensions, terminations and new threads.
InOrderAtMostOnce == InOrder(Accepted, sent)

\* Neither suspended nor terminated, a task loses no accepted input if m_state
\* is run, as create(function, ...) makes it.  Otherwise, as create(parameters)
\* may leave a new object, its thread drops them all and the function never runs.
NothingLost ==
  (states = 0 /\ terminates = 0) =>
    /\ (m_state = "run" \/ worker = "none") =>
         \A ticket \in 1 .. sent : \E i \in DOMAIN Accepted : Accepted[i] = ticket
    /\ m_state # "run" => applied = <<>>

\* What the worker function returned and the thread still has to put.
Returned == IF worker = "put" THEN <<output>> ELSE <<>>

\* With an output queue, clients receive what the worker function returned:
\* every result once, in order.
OutputsMatch ==
  OUTPUT_SIZE # 0 => applied = received \o m_output_queue \o Returned

\* The function of a worker task only runs on inputs that a client sent.
OnlyClientInputs ==
  worker = "apply" /\ m_type = "worker" => input # Dummy

\* The worker waits for room on an output queue that nobody empties.
OutputBlocked ==
  worker = "put" /\ OUTPUT_SIZE # 0 /\ Len(m_output_queue) = OUTPUT_SIZE

\* terminate returns: the one thing that can hold it up for ever is a worker
\* whose output nobody takes.
TerminateReturns == <>[](owner # "idle") => <>[]OutputBlocked

Waiting(ticket) ==
  /\ \E i \in DOMAIN m_input_queue : m_input_queue[i] = ticket
  /\ worker # "none" /\ m_type = "worker"

\* An input on the queue of a worker task, also one left over from an earlier
\* thread, stays there for ever only if nobody takes the task's outputs.
InputsAreTaken ==
  \A ticket \in 1 .. MaxSends : <>[]Waiting(ticket) => <>[]OutputBlocked
=============================================================================
