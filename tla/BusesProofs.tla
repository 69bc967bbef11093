------------------------------ MODULE BusesProofs ------------------------------
(***************************************************************************)
(* The Linux drivers of the buses, for any size of the queue and any       *)
(* number of transfers.                                                    *)
(*                                                                         *)
(* While configure is not called again (and, with IIC, no write overtakes  *)
(* the worker), one transfer at most is in flight: the last one started,   *)
(* which is in exactly one place, the caller, the queue or the worker, and *)
(* whose directions are the ones that say running (InFlight).  The         *)
(* destructor adds a dummy bundle behind it, and the thread leaves what it *)
(* has not taken yet (Left).                                               *)
(***************************************************************************)
EXTENDS MCBuses, SequenceTheorems, NaturalsInduction, WellFoundedInduction, TLAPS

Last == Len(started)

\* The calls a driver can make of Start.
Kinds == IF driver = "iic" THEN {{"read"}, {"write"}} ELSE {{"read"}, {"write"}, Directions}

WorkerPlaces ==
  {"none", "get", "test", "transfer", "published", "invoke", "callback", "crashed", "exited"}

Workers == [at : WorkerPlaces, bundle : 0 .. MaxTransfers, directions : SUBSET Directions]

Ends == [transfer : SUBSET (0 .. MaxTransfers), bundle : 0 .. MaxTransfers, status : Statuses]

MemberTypes ==
  /\ m_linux_handle \in {"closed", "open", "stale"}
  /\ m_status \in [Directions -> Statuses]
  /\ m_bytes \in [Directions -> 0 .. Size]
  /\ call \in {"idle", "send", "transfer"}
  /\ conf \in {"idle", "task", "wake", "join", "open", "ready", "over"}
  /\ configured \in {"never", "ok", "failed", "destroyed"}
  /\ configures \in 0 .. MaxConfigures
  /\ driver \in {"iic", "spi"}

FlagTypes == m_is_async \in [Directions -> BOOLEAN] /\ thread \in BOOLEAN /\ m_terminate \in BOOLEAN

QueueTypes ==
  /\ queue \in Seq(0 .. MaxTransfers) /\ Len(queue) <= QUEUE_SIZE
  /\ \A i \in 1 .. Len(queue) : queue[i] <= Last

StartTypes ==
  /\ started \in Seq(Kinds) /\ Last <= MaxTransfers
  /\ call # "idle" => Last > 0

EndTypes == ended \in Seq(Ends)

IicTypes ==
  /\ m_func \in [Directions -> {"null", "set"}]
  /\ callbacks \in 0 .. MaxCallbacks /\ overtook \in BOOLEAN
  /\ driver = "spi" => ~overtook

Types ==
  MemberTypes /\ FlagTypes /\ QueueTypes /\ StartTypes /\ EndTypes /\ IicTypes /\ worker \in Workers

-----------------------------------------------------------------------------
(* Who has the transfer, as long as nothing disturbs.                       *)

Quiet == \A d \in Directions : m_status[d] # "running"
Running(D) == \A d \in Directions : m_status[d] = "running" <=> d \in D
Async(D) == \A d \in D : m_is_async[d]
Finished == UNION {ended[i].transfer : i \in DOMAIN ended}

\* configure or the destructor has the thread end, or is through with it.
Ending == conf \in {"wake", "join", "over"}

\* The queue, behind which the destructor may have put a dummy bundle.
QueueIs(q) == queue = q \/ (conf \in {"join", "over"} /\ queue = Append(q, Dummy))

\* The IIC worker has not come back from a transfer that is over.
LookingBack ==
  /\ driver = "iic"
  /\ \/ worker.at \in {"published", "invoke", "callback"} /\ worker.directions = {"write"}
     \/ /\ worker.at \in {"published", "invoke", "callback"} /\ worker.directions = {"read"}
        /\ m_status["write"] # "running" /\ m_is_async["read"] /\ worker.bundle \in Finished
     \/ /\ worker.at = "test" /\ worker.directions = {"write"}
        /\ m_status["write"] # "running" /\ m_is_async["read"] /\ worker.bundle \in Finished

WorkerAway == worker.at \in {"none", "get", "crashed"} \/ LookingBack

\* It has the last transfer, which has not ended.
WorkerBusy ==
  \/ worker.at = "transfer" /\ worker.directions = started[Last] /\ Running(started[Last])
  \/ driver = "iic" /\ worker.at = "test" /\ worker.directions = {"read"} /\ Running(started[Last])
  \/ /\ driver = "iic" /\ worker.at = "test" /\ worker.directions = {"write"}
     /\ started[Last] = {"write"} /\ Running({"write"})
  \/ /\ driver = "spi" /\ worker.at = "published"
     /\ started[Last] = Directions /\ Running({"write"})

Nothing == call = "idle" /\ QueueIs(<<>>) /\ Quiet /\ WorkerAway

Calling ==
  /\ call # "idle" /\ Last > 0 /\ queue = <<>> /\ Running(started[Last]) /\ WorkerAway
  /\ call = "send" <=> Async(started[Last])

Queued ==
  /\ call = "idle" /\ Last > 0 /\ QueueIs(<<Last>>) /\ Running(started[Last]) /\ WorkerAway
  /\ Async(started[Last])

Working ==
  /\ call = "idle" /\ Last > 0 /\ QueueIs(<<>>) /\ worker.bundle = Last /\ WorkerBusy
  /\ Async(started[Last])

Left == call = "idle" /\ QueueIs(<<>>) /\ worker.at \in {"exited", "none"} /\ Ending

OneHasIt == Nothing \/ Calling \/ Queued \/ Working \/ Left

\* What configure and the destructor do, and when the task has a thread.
Configuring ==
  /\ call # "idle" => conf = "idle"
  /\ thread <=> worker.at # "none"
  /\ worker.at = "none" => worker = NoWorker
  /\ configures = 0 => /\ conf \in {"idle", "over"} /\ m_linux_handle = "closed"
                       /\ ~thread /\ ~Asynchronous /\ Last = 0
  /\ conf \in {"over", "task"} => ~thread
  /\ conf \in {"wake", "join"} => thread /\ m_terminate /\ configured = "destroyed"
  /\ m_terminate => Ending
  /\ conf \in {"idle", "task", "open", "ready"} => configured # "destroyed"
  /\ conf \in {"task", "open", "ready"} => Last = 0
  /\ conf # "task" /\ Asynchronous => thread \/ Ending
  /\ Last = 0 => Nothing \/ Left

\* Every transfer but the one in flight has ended, with its own bundle.
Ordered ==
  QUEUE_SIZE > 0 => OwnBundles /\ Len(ended) = IF Quiet THEN Last ELSE Last - 1

Calm == configures <= 1 /\ ~overtook => OneHasIt /\ Configuring /\ Ordered

BusInv == Types /\ Calm

-----------------------------------------------------------------------------
(* The steps of the two drivers that SerialBus gives to both.               *)

LEMMA IicHasBus ==
  /\ IicDriver!Directions = Directions /\ IicDriver!Statuses = Statuses
  /\ IicDriver!members = members /\ IicDriver!task = task
  /\ IicDriver!Configure = Configure /\ IicDriver!ConfigureStep = ConfigureStep
  /\ IicDriver!Destroy = Destroy /\ IicDriver!Send = Send
  /\ IicDriver!LeaveOnTimeout = LeaveOnTimeout
  /\ IicDriver!Free = Free /\ IicDriver!BusInit = BusInit /\ IicDriver!BusTypeOK = BusTypeOK
  BY DEF IicDriver!Directions, IicDriver!Statuses, Directions, Statuses,
         IicDriver!members, IicDriver!task, members, task,
         IicDriver!Configure, Configure, IicDriver!Free, Free,
         IicDriver!ConfigureStep, ConfigureStep, IicDriver!CreateTask, CreateTask,
         IicDriver!TerminateTask, TerminateTask, IicDriver!WakeTask, WakeTask,
         IicDriver!JoinTask, JoinTask, IicDriver!OpenFile, OpenFile, IicDriver!Configured,
         Configured, IicDriver!Asynchronous, Asynchronous, IicDriver!Dummy, Dummy,
         IicDriver!NoWorker, NoWorker, IicDriver!Destroy, Destroy, IicDriver!Send, Send,
         IicDriver!LeaveOnTimeout, LeaveOnTimeout, IicDriver!BusInit, BusInit,
         IicDriver!BusTypeOK, BusTypeOK

LEMMA IicTakes ==
  /\ \A D : IicDriver!Start(D) = Start(D)
  /\ \A D, n, o : IicDriver!Publish(D, n, o) = Publish(D, n, o)
  /\ \A S : IicDriver!TransferInCaller(S) = TransferInCaller(S)
  /\ \A w : IicDriver!TakeBundle(w) = TakeBundle(w)
  BY DEF IicDriver!Directions, Directions, IicDriver!members, IicDriver!task, members, task,
         IicDriver!Free, Free, IicDriver!Start, Start, IicDriver!Publish, Publish,
         IicDriver!Current, Current, IicDriver!Dummy, Dummy, IicDriver!TransferInCaller,
         TransferInCaller, IicDriver!TakeBundle, TakeBundle

LEMMA SpiHasBus ==
  /\ SpiDriver!Directions = Directions
  /\ SpiDriver!members = members /\ SpiDriver!task = task
  /\ SpiDriver!Configure = Configure /\ SpiDriver!ConfigureStep = ConfigureStep
  /\ SpiDriver!Destroy = Destroy /\ SpiDriver!Send = Send
  /\ SpiDriver!LeaveOnTimeout = LeaveOnTimeout
  BY DEF SpiDriver!Directions, Directions,
         SpiDriver!members, SpiDriver!task, members, task,
         SpiDriver!Configure, Configure, SpiDriver!Free, Free,
         SpiDriver!ConfigureStep, ConfigureStep, SpiDriver!CreateTask, CreateTask,
         SpiDriver!TerminateTask, TerminateTask, SpiDriver!WakeTask, WakeTask,
         SpiDriver!JoinTask, JoinTask, SpiDriver!OpenFile, OpenFile, SpiDriver!Configured,
         Configured, SpiDriver!Asynchronous, Asynchronous, SpiDriver!Dummy, Dummy,
         SpiDriver!NoWorker, NoWorker, SpiDriver!Destroy, Destroy, SpiDriver!Send, Send,
         SpiDriver!LeaveOnTimeout, LeaveOnTimeout

LEMMA SpiTakes ==
  /\ \A D : SpiDriver!Start(D) = Start(D)
  /\ \A D, n, o : SpiDriver!Publish(D, n, o) = Publish(D, n, o)
  /\ \A S : SpiDriver!TransferInCaller(S) = TransferInCaller(S)
  /\ \A w : SpiDriver!TakeBundle(w) = TakeBundle(w)
  BY DEF SpiDriver!Directions, Directions, SpiDriver!members, SpiDriver!task, members, task,
         SpiDriver!Free, Free, SpiDriver!Start, Start, SpiDriver!Publish, Publish,
         SpiDriver!Current, Current, SpiDriver!Dummy, Dummy, SpiDriver!TransferInCaller,
         TransferInCaller, SpiDriver!TakeBundle, TakeBundle

-----------------------------------------------------------------------------
(***************************************************************************)
(* What a step of either driver does                                       *)
(***************************************************************************)
\* The end of a transfer is published.
EndsWith(D, bundle) ==
  \E status \in Statuses \ {"running"}, count \in 0 .. Size :
    Publish(D, bundle, [status |-> status, count |-> count])

EndsInCaller ==
  /\ call = "transfer" /\ EndsWith(started[Last], Last) /\ call' = "idle"
  /\ UNCHANGED <<m_linux_handle, m_is_async, task, worker, conf, configured, started, configures>>

Starts(D) ==
  /\ Start(D)
  /\ overtook' = (overtook \/ (driver = "iic" /\ D = {"write"} /\ IicDriver!BetweenLooks))
  /\ UNCHANGED <<m_func, callbacks>>

\* The worker goes on to some place, with some directions and the same bundle.
Moves(at, D) == worker' = [worker EXCEPT !.at = at, !.directions = D]

MovesAfter(d) == IF d = "read" THEN Moves("test", {"write"}) ELSE Moves("get", worker.directions)

Takes ==
  \E D \in SUBSET Directions :
    /\ TakeBundle([at |-> IF driver = "iic" THEN "test" ELSE "transfer",
                   bundle |-> Head(queue), directions |-> D])
    /\ driver = "iic" => D = {"read"}
    /\ driver = "spi" /\ Head(queue) # Dummy => D = started[Head(queue)]

Walks(d) ==
  /\ driver = "iic" /\ worker.directions = {d}
  /\ \/ worker.at = "test" /\ m_status[d] = "running" /\ Moves("transfer", {d})
     \/ worker.at = "test" /\ m_status[d] # "running" /\ MovesAfter(d)
     \/ worker.at \in {"published", "callback"} /\ MovesAfter(d)
     \/ worker.at = "published" /\ Moves("invoke", {d})
     \/ worker.at = "invoke" /\ (Moves("callback", {d}) \/ Moves("crashed", {d}))
  /\ UNCHANGED <<members, task, call, conf, configured, started, ended, configures>>

EndsInThread ==
  /\ worker.at = "transfer" /\ EndsWith(worker.directions, worker.bundle)
  /\ worker' = [worker EXCEPT !.at = IF driver = "iic" THEN "published" ELSE "get"]
  /\ driver = "spi" => worker.directions # Directions
  /\ UNCHANGED <<m_linux_handle, m_is_async, task, call, conf, configured, started, configures>>

StoresRead ==
  /\ driver = "spi" /\ SpiDriver!TransferStoresRead

CopiesStatus ==
  /\ driver = "spi" /\ SpiDriver!CopyStatus

SetsCallback ==
  /\ m_func' \in [Directions -> {"null", "set"}] /\ callbacks' \in 0 .. MaxCallbacks
  /\ UNCHANGED <<busVars, overtook>>

ThreadStep ==
  \/ Takes \/ LeaveOnTimeout \/ \E d \in Directions : Walks(d)
  \/ EndsInThread \/ StoresRead \/ CopiesStatus

BusStep ==
  /\ UNCHANGED driver
  /\ \/ /\ UNCHANGED iicVars
        /\ \/ Configure \/ CreateTask \/ TerminateTask \/ WakeTask \/ JoinTask \/ OpenFile
           \/ Configured \/ Destroy \/ SpiDriver!SetUpFails
           \/ Send \/ EndsInCaller \/ ThreadStep
     \/ \E D \in Kinds : Starts(D)
     \/ SetsCallback

LEMMA StartsHaveKinds == \A D \in Kinds : D \subseteq Directions /\ D # {}
  BY DEF Kinds, Directions

LEMMA WorkerMoves ==
  ASSUME worker \in Workers, NEW at \in WorkerPlaces, NEW D \in SUBSET Directions
  PROVE  /\ [worker EXCEPT !.at = at, !.directions = D] \in Workers
         /\ [worker EXCEPT !.at = at, !.directions = D].at = at
         /\ [worker EXCEPT !.at = at, !.directions = D].directions = D
         /\ [worker EXCEPT !.at = at, !.directions = D].bundle = worker.bundle
         /\ [worker EXCEPT !.at = at] = [worker EXCEPT !.at = at, !.directions = worker.directions]
         /\ [worker EXCEPT !.directions = D] = [worker EXCEPT !.at = worker.at, !.directions = D]
  BY DEF Workers

LEMMA IicEnds ==
  ASSUME Types, NEW d \in Directions, NEW D, NEW bundle, NEW outcome \in IicDriver!Outcomes(d),
         Publish(D, bundle, outcome)
  PROVE  EndsWith(D, bundle)
  <1>1. 0 \in 0 .. Size /\ {"ok", "failed"} \subseteq Statuses \ {"running"}
    BY SerialBusAssumption DEF Statuses
  <1>2. PICK status \in Statuses \ {"running"}, count \in 0 .. Size :
          outcome = [status |-> status, count |-> count]
    BY <1>1 DEF IicDriver!Outcomes
  <1> QED BY <1>2 DEF EndsWith

LEMMA SpiEnds ==
  ASSUME Types, NEW D, NEW bundle, NEW outcome \in SpiDriver!Outcomes,
         Publish(D, bundle, outcome)
  PROVE  EndsWith(D, bundle)
  <1>1. 0 \in 0 .. Size /\ {"ok", "failed"} \subseteq Statuses \ {"running"}
    BY SerialBusAssumption DEF Statuses
  <1>2. PICK status \in Statuses \ {"running"}, count \in 0 .. Size :
          outcome = [status |-> status, count |-> count]
    BY <1>1 DEF SpiDriver!Outcomes
  <1> QED BY <1>2 DEF EndsWith

LEMMA IicSteps ==
  ASSUME Types, driver = "iic", IicDriver!Next, UNCHANGED driver
  PROVE  BusStep
  <1>1. CASE IicDriver!ConfigureAll
    BY <1>1, IicHasBus DEF IicDriver!ConfigureAll, ConfigureStep, BusStep, iicVars
  <1>2. CASE IicDriver!Read \/ IicDriver!Write
    <2>1. IicDriver!Read \/ IicDriver!Write =>
             \E D \in {{"read"}, {"write"}} : Starts(D)
      BY IicTakes, Zenon DEF IicDriver!Read, IicDriver!Write, Starts, IicTypes, Types
    <2> QED BY <1>2, <2>1 DEF BusStep, Kinds
  <1>3. CASE IicDriver!CallStep
    <2>1. CASE IicDriver!Send
      BY <1>3, <2>1, IicHasBus DEF IicDriver!CallStep, BusStep, iicVars
    <2>2. CASE IicDriver!BlockingTransfer
      <3>1. PICK d \in started[Last] : IicDriver!TransferInCaller(IicDriver!Outcomes(d))
        BY <2>2 DEF IicDriver!BlockingTransfer, Last
      <3>2. TransferInCaller(IicDriver!Outcomes(d)) /\ call # "idle"
        BY <3>1, IicTakes DEF TransferInCaller
      <3>3. d \in Directions
        <4>1. Last \in 1 .. Len(started) /\ started[Last] \in Kinds
          BY <3>2 DEF Types, StartTypes, Last
        <4> QED BY <4>1, StartsHaveKinds
      <3>4. EndsInCaller
        BY <3>2, <3>3, IicEnds DEF TransferInCaller, EndsInCaller, Last
      <3> QED BY <1>3, <3>4 DEF IicDriver!CallStep, BusStep, iicVars
    <2> QED BY <1>3, <2>1, <2>2 DEF IicDriver!CallStep
  <1>4. ASSUME NEW d \in IicDriver!Directions, IicDriver!SetCallback(d) PROVE SetsCallback
    <2>1. d \in Directions /\ UNCHANGED <<busVars, overtook>>
      BY <1>4, IicHasBus
      DEF IicDriver!SetCallback, IicDriver!busVars, busVars, IicDriver!members, members,
          IicDriver!task, task
    <2>2. m_func' \in [Directions -> {"null", "set"}] /\ callbacks' \in 0 .. MaxCallbacks
      BY <1>4, <2>1, BusesAssumption DEF IicDriver!SetCallback, Types, IicTypes
    <2> QED BY <2>1, <2>2 DEF SetsCallback
  <1>5. CASE IicDriver!WorkerStep
    <2>0. UNCHANGED iicVars
      BY <1>5 DEF IicDriver!WorkerStep, iicVars
    <2>1. CASE IicDriver!Take
      <3>1. TakeBundle([at |-> "test", bundle |-> Head(queue), directions |-> {"read"}])
        BY <2>1, IicTakes DEF IicDriver!Take
      <3>2. Takes
        BY <3>1 DEF Takes, Directions
      <3> QED BY <2>0, <3>2 DEF BusStep, ThreadStep
    <2>2. CASE IicDriver!LeaveOnTimeout
      BY <2>0, <2>2, IicHasBus DEF BusStep, ThreadStep
    <2>3. ASSUME NEW d \in IicDriver!Directions,
                 \/ IicDriver!Test(d) \/ IicDriver!TestCallback(d)
                 \/ IicDriver!InvokeCallback(d) \/ IicDriver!ReturnFromCallback(d)
          PROVE  ThreadStep
      <3>1. d \in Directions /\ worker.directions = {d} /\ worker \in Workers
        BY <2>3, IicHasBus
        DEF IicDriver!Test, IicDriver!TestCallback, IicDriver!InvokeCallback,
            IicDriver!ReturnFromCallback, Types
      <3>2. UNCHANGED <<members, task, call, conf, configured, started, ended, configures>>
        BY <2>3
        DEF IicDriver!Test, IicDriver!TestCallback, IicDriver!InvokeCallback,
            IicDriver!ReturnFromCallback, IicDriver!members, members, IicDriver!task, task
      <3>3. \A at \in WorkerPlaces : [worker EXCEPT !.at = at] = [worker EXCEPT !.at = at, !.directions = {d}]
        BY <3>1, WorkerMoves
      <3>4. IicDriver!After(d) = IF d = "read" THEN [worker EXCEPT !.at = "test", !.directions = {"write"}]
                                 ELSE [worker EXCEPT !.at = "get", !.directions = worker.directions]
        BY <3>1, <3>3 DEF IicDriver!After, WorkerPlaces
      <3>5. worker' = IicDriver!After(d) => MovesAfter(d)
        BY <3>4 DEF MovesAfter, Moves
      <3>6. \A at \in WorkerPlaces : worker' = [worker EXCEPT !.at = at] => Moves(at, {d})
        BY <3>3 DEF Moves
      <3>7. Walks(d)
        <4>1. CASE IicDriver!Test(d)
          BY <3>1, <3>2, <3>5, <3>6, <4>1 DEF IicDriver!Test, Walks, WorkerPlaces
        <4>2. CASE IicDriver!TestCallback(d)
          BY <3>1, <3>2, <3>5, <3>6, <4>2 DEF IicDriver!TestCallback, Walks, WorkerPlaces
        <4>3. CASE IicDriver!InvokeCallback(d)
          <5>1. PICK at \in {"callback", "crashed"} : worker' = [worker EXCEPT !.at = at]
            BY <4>3 DEF IicDriver!InvokeCallback
          <5> QED BY <3>1, <3>2, <3>6, <4>3, <5>1 DEF IicDriver!InvokeCallback, Walks, WorkerPlaces
        <4>4. CASE IicDriver!ReturnFromCallback(d)
          BY <3>1, <3>2, <3>5, <4>4 DEF IicDriver!ReturnFromCallback, Walks, WorkerPlaces
        <4> QED BY <2>3, <4>1, <4>2, <4>3, <4>4
      <3> QED BY <3>1, <3>7 DEF ThreadStep
    <2>4. ASSUME NEW d \in IicDriver!Directions, IicDriver!Transfer(d) PROVE ThreadStep
      <3>1. d \in Directions /\ worker.at = "transfer" /\ worker.directions = {d}
        BY <2>4, IicHasBus DEF IicDriver!Transfer
      <3>2. EndsWith(worker.directions, worker.bundle)
        BY <2>4, <3>1, IicTakes, IicEnds DEF IicDriver!Transfer
      <3> QED BY <2>4, <3>1, <3>2
              DEF IicDriver!Transfer, EndsInThread, ThreadStep, IicDriver!task, task
    <2> QED BY <1>5, <2>0, <2>1, <2>2, <2>3, <2>4 DEF IicDriver!WorkerStep, BusStep
  <1> QED BY <1>1, <1>2, <1>3, <1>4, <1>5 DEF IicDriver!Next, BusStep

LEMMA HeadIsStarted ==
  ASSUME QueueTypes, queue # <<>>
  PROVE  /\ Head(queue) \in 0 .. MaxTransfers /\ Head(queue) <= Last
         /\ Tail(queue) \in Seq(0 .. MaxTransfers) /\ Len(Tail(queue)) = Len(queue) - 1
         /\ \A i \in 1 .. Len(Tail(queue)) : Tail(queue)[i] = queue[i + 1]
  <1>1. queue \in Seq(0 .. MaxTransfers) /\ Len(queue) \in Nat
    BY DEF QueueTypes
  <1>2. Len(queue) > 0 /\ Head(queue) = queue[1]
    BY <1>1
  <1>3. queue[1] <= Last
    BY <1>1, <1>2 DEF QueueTypes
  <1> QED BY <1>1, <1>2, <1>3, HeadTailProperties

LEMMA SpiSteps ==
  ASSUME Types, driver = "spi", SpiDriver!Next, UNCHANGED <<iicVars, driver>>
  PROVE  BusStep
  <1>1. CASE \/ SpiDriver!Configure \/ SpiDriver!ConfigureStep \/ SpiDriver!Destroy
             \/ SpiDriver!SetUpFails \/ SpiDriver!Send
    BY <1>1, SpiHasBus DEF ConfigureStep, BusStep
  <1>2. CASE SpiDriver!Read \/ SpiDriver!Write \/ SpiDriver!TransferBoth
    <2>1. PICK D \in {{"read"}, {"write"}, Directions} : Start(D)
      BY <1>2, SpiTakes
      DEF SpiDriver!Read, SpiDriver!Write, SpiDriver!TransferBoth, Directions
    <2>2. overtook \in BOOLEAN /\ UNCHANGED <<m_func, callbacks, overtook>>
      BY DEF Types, IicTypes, iicVars
    <2>3. Starts(D)
      BY <2>1, <2>2 DEF Starts
    <2> QED BY <2>3 DEF BusStep, Kinds
  <1>3. CASE SpiDriver!BlockingTransfer
    <2>1. TransferInCaller(SpiDriver!Outcomes)
      BY <1>3, SpiTakes DEF SpiDriver!BlockingTransfer
    <2>2. EndsInCaller
      BY <2>1, SpiEnds DEF TransferInCaller, EndsInCaller, Last
    <2> QED BY <2>2 DEF BusStep
  <1>4. CASE SpiDriver!WorkerStep
    <2>1. CASE SpiDriver!Take
      <3>1. PICK D \in SpiDriver!DirectionsOf(Head(queue)) :
              TakeBundle([at |-> "transfer", bundle |-> Head(queue), directions |-> D])
        BY <2>1, SpiTakes DEF SpiDriver!Take
      <3>2. queue # <<>>
        BY <2>1 DEF SpiDriver!Take
      <3>3. D \in SUBSET Directions /\ (Head(queue) # Dummy => D = started[Head(queue)])
        <4>1. CASE Head(queue) = 0
          BY <3>1, <4>1, SpiHasBus DEF SpiDriver!DirectionsOf, SpiDriver!Dummy, Dummy, Directions
        <4>2. CASE Head(queue) # 0
          <5>1. Head(queue) \in 1 .. Last
            BY <3>2, <4>2, HeadIsStarted DEF Types, StartTypes, Last
          <5>2. started[Head(queue)] \in Kinds
            BY <5>1 DEF Types, StartTypes, Last
          <5> QED BY <3>1, <4>2, <5>2, StartsHaveKinds DEF SpiDriver!DirectionsOf, SpiDriver!Dummy
        <4> QED BY <4>1, <4>2
      <3>4. Takes
        BY <3>1, <3>3 DEF Takes
      <3> QED BY <3>4 DEF BusStep, ThreadStep
    <2>2. CASE SpiDriver!LeaveOnTimeout
      BY <2>2, SpiHasBus DEF BusStep, ThreadStep
    <2>3. CASE SpiDriver!Transfer
      <3>1. EndsWith(worker.directions, worker.bundle)
        BY <2>3, SpiTakes, SpiEnds DEF SpiDriver!Transfer
      <3> QED BY <2>3, <3>1, SpiHasBus
              DEF SpiDriver!Transfer, EndsInThread, ThreadStep, BusStep, SpiDriver!task, task
    <2>4. CASE SpiDriver!TransferStoresRead \/ SpiDriver!CopyStatus
      BY <2>4 DEF StoresRead, CopiesStatus, ThreadStep, BusStep
    <2> QED BY <1>4, <2>1, <2>2, <2>3, <2>4 DEF SpiDriver!WorkerStep
  <1> QED BY <1>1, <1>2, <1>3, <1>4 DEF SpiDriver!Next, SpiDriver!CallStep

LEMMA StepCases ==
  ASSUME Types, Next
  PROVE  BusStep
  BY IicSteps, SpiSteps DEF Next, IicStep, SpiStep

-----------------------------------------------------------------------------
(* Types                                                                    *)

\* The transfer a direction is at is one that was started.
LEMMA CurrentIsStarted ==
  ASSUME StartTypes, NEW d
  PROVE  Current(d) \in 0 .. Last
  <1> DEFINE asked == {n \in DOMAIN started : d \in started[n]}
             over == {Last - n : n \in asked}
  <1>1. Last \in Nat /\ asked \subseteq 1 .. Last
    BY DEF StartTypes, Last
  <1>2. CASE asked = {}
    BY <1>1, <1>2 DEF Current, Dummy
  <1>3. CASE asked # {}
    <2>1. over # {} /\ over \subseteq Nat
      BY <1>1, <1>3
    <2>2. IsWellFoundedOn(OpToRel(<, Nat), Nat)
      BY NatLessThanWellFounded
    <2>3. PICK i \in over : \A j \in over : ~(<<j, i>> \in OpToRel(<, Nat))
      BY <2>1, <2>2, WFMin
    <2>4. \A j \in over : ~(j < i)
      <3> SUFFICES ASSUME NEW j \in over PROVE ~(j < i)
        OBVIOUS
      <3>1. <<j, i>> \in Nat \X Nat /\ <<j, i>>[1] = j /\ <<j, i>>[2] = i
        BY <2>1
      <3>2. j < i => <<j, i>> \in OpToRel(<, Nat)
        BY <3>1, Zenon DEF OpToRel
      <3> QED BY <2>3, <3>2, Zenon
    <2>5. PICK n \in asked : i = Last - n
      OBVIOUS
    <2>6. \A m \in asked : m <= n
      <3> SUFFICES ASSUME NEW m \in asked PROVE m <= n
        OBVIOUS
      <3>1. ~(Last - m < i) /\ m \in Nat /\ n \in Nat
        BY <1>1, <2>4
      <3> QED BY <1>1, <2>5, <3>1
    <2>7. Current(d) = CHOOSE m \in asked : \A o \in asked : o <= m
      BY <1>3 DEF Current
    <2>8. Current(d) \in asked
      BY <2>6, <2>7
    <2> QED BY <1>1, <2>8
  <1> QED BY <1>2, <1>3

\* It is the last one when that has the direction.
LEMMA CurrentIsLast ==
  ASSUME StartTypes, Last > 0, NEW d \in started[Last]
  PROVE  Current(d) = Last
  <1> DEFINE asked == {n \in DOMAIN started : d \in started[n]}
  <1>1. Last \in Nat /\ asked \subseteq 1 .. Last /\ Last \in asked
    BY DEF StartTypes, Last
  <1>2. Current(d) = CHOOSE m \in asked : \A o \in asked : o <= m
    BY <1>1 DEF Current
  <1>3. \A m \in asked : m <= Last
    BY <1>1
  <1>4. Current(d) \in asked /\ \A o \in asked : o <= Current(d)
    BY <1>1, <1>2, <1>3
  <1> QED BY <1>1, <1>4

LEMMA BusInitTypes == Init => Types
  <1> SUFFICES ASSUME Init PROVE Types
    OBVIOUS
  <1> USE DEF Init, IicDriver!Init
  <1>1. BusInit
    BY IicHasBus
  <1>2. MemberTypes
    BY <1>1, SerialBusAssumption DEF BusInit, MemberTypes, Statuses
  <1>3. FlagTypes
    BY <1>1 DEF BusInit, FlagTypes
  <1>4. m_func \in [Directions -> {"null", "set"}] /\ callbacks \in 0 .. MaxCallbacks
    BY BusesAssumption DEF IicDriver!Directions, Directions
  <1>5. overtook = FALSE
    OBVIOUS
  <1>6. QueueTypes /\ StartTypes /\ EndTypes
    BY <1>1, SerialBusAssumption DEF BusInit, QueueTypes, StartTypes, EndTypes, Last
  <1>7. worker \in Workers
    BY <1>1, SerialBusAssumption DEF BusInit, NoWorker, Workers, WorkerPlaces, Dummy
  <1> QED BY <1>2, <1>3, <1>4, <1>5, <1>6, <1>7 DEF Types, IicTypes

\* What the queue is like with one more bundle, or one less.
LEMMA QueueGrows ==
  ASSUME QueueTypes, NEW n \in 0 .. MaxTransfers, n <= Last, Len(queue) < QUEUE_SIZE,
         queue' = Append(queue, n), UNCHANGED started
  PROVE  QueueTypes'
  <1>1. /\ Append(queue, n) \in Seq(0 .. MaxTransfers)
        /\ Len(Append(queue, n)) = Len(queue) + 1 /\ Len(queue) \in Nat
        /\ \A i \in 1 .. Len(queue) + 1 :
             Append(queue, n)[i] = IF i <= Len(queue) THEN queue[i] ELSE n
    BY AppendProperties DEF QueueTypes
  <1>2. Len(Append(queue, n)) <= QUEUE_SIZE
    BY <1>1, SerialBusAssumption
  <1> QED BY <1>1, <1>2 DEF QueueTypes, Last

LEMMA QueueShrinks ==
  ASSUME QueueTypes, queue # <<>>, queue' = Tail(queue), UNCHANGED started
  PROVE  QueueTypes' /\ Head(queue) \in 0 .. MaxTransfers /\ Head(queue) <= Last
  <1>1. /\ Head(queue) \in 0 .. MaxTransfers /\ Head(queue) <= Last
        /\ Tail(queue) \in Seq(0 .. MaxTransfers) /\ Len(Tail(queue)) = Len(queue) - 1
        /\ \A i \in 1 .. Len(Tail(queue)) : Tail(queue)[i] = queue[i + 1]
    BY HeadIsStarted
  <1>2. Len(queue) \in Nat /\ Len(queue) <= QUEUE_SIZE
    BY DEF QueueTypes
  <1>3. Len(Tail(queue)) <= QUEUE_SIZE
    BY <1>1, <1>2, SerialBusAssumption
  <1>4. \A i \in 1 .. Len(Tail(queue)) : Tail(queue)[i] <= Last
    BY <1>1, <1>2 DEF QueueTypes
  <1> QED BY <1>1, <1>3, <1>4 DEF QueueTypes, Last

\* What publishing an end leaves.
LEMMA PublishTypes ==
  ASSUME Types, NEW D \in SUBSET Directions, NEW bundle \in 0 .. MaxTransfers,
         NEW status \in Statuses, NEW count \in 0 .. Size,
         Publish(D, bundle, [status |-> status, count |-> count])
  PROVE  /\ m_status' \in [Directions -> Statuses] /\ m_bytes' \in [Directions -> 0 .. Size]
         /\ EndTypes'
         /\ \A d \in Directions : m_status'[d] = IF d \in D THEN status ELSE m_status[d]
         /\ ended' = Append(ended, [transfer |-> {Current(d) : d \in D}, bundle |-> bundle,
                                  status |-> status])
         /\ [transfer |-> {Current(d) : d \in D}, bundle |-> bundle, status |-> status] \in Ends
  <1>1. /\ m_status' = [d \in Directions |-> IF d \in D THEN status ELSE m_status[d]]
        /\ m_bytes' = [d \in Directions |-> IF d \in D THEN count ELSE m_bytes[d]]
        /\ ended' = Append(ended, [transfer |-> {Current(d) : d \in D}, bundle |-> bundle,
                                 status |-> status])
    BY DEF Publish
  <1>2. m_status' \in [Directions -> Statuses] /\ m_bytes' \in [Directions -> 0 .. Size]
    BY <1>1 DEF Types, MemberTypes
  <1>3. {Current(d) : d \in D} \in SUBSET (0 .. MaxTransfers)
    <2>1. Last \in Nat /\ Last <= MaxTransfers
      BY DEF Types, StartTypes, Last
    <2>2. \A d \in D : Current(d) \in 0 .. MaxTransfers
      BY <2>1, CurrentIsStarted, SerialBusAssumption DEF Types
    <2> QED BY <2>2
  <1>4. [transfer |-> {Current(d) : d \in D}, bundle |-> bundle, status |-> status] \in Ends
    BY <1>3 DEF Ends
  <1>5. EndTypes'
    BY <1>1, <1>4, AppendProperties DEF Types, EndTypes
  <1> QED BY <1>1, <1>2, <1>4, <1>5

LEMMA TypesNext ==
  ASSUME Types, [Next]_allVars
  PROVE  Types'
  <1>1. CASE UNCHANGED allVars
    BY <1>1
    DEF allVars, busVars, members, task, iicVars, Types, MemberTypes, FlagTypes, QueueTypes, StartTypes,
        EndTypes, IicTypes, Last, Kinds
  <1>2. CASE BusStep
    <2> USE <1>2
    <2>0. driver' = driver /\ Kinds' = Kinds
      BY DEF BusStep, Kinds
    <2> USE <2>0
    <2>1. CASE Configure /\ UNCHANGED iicVars
      <3>1. UNCHANGED <<iicVars, thread, m_terminate, queue, worker, call, started, ended>>
        BY <2>1 DEF Configure, task
      <3>2. MemberTypes'
        BY <2>1, SerialBusAssumption DEF Configure, Types, MemberTypes, Statuses
      <3>3. FlagTypes'
        BY <2>1, <3>1 DEF Configure, Types, FlagTypes
      <3> QED BY <3>1, <3>2, <3>3 DEF Types, QueueTypes, StartTypes, EndTypes, IicTypes, iicVars, Last
    <2>2. CASE (CreateTask \/ TerminateTask \/ JoinTask) /\ UNCHANGED iicVars
      <3>1. UNCHANGED <<iicVars, members, queue, call, started, ended, configures>>
        BY <2>2 DEF CreateTask, TerminateTask, JoinTask
      <3>2. MemberTypes'
        BY <2>2, <3>1 DEF CreateTask, TerminateTask, JoinTask, members, Types, MemberTypes
      <3>3. FlagTypes'
        BY <2>2, <3>1 DEF CreateTask, TerminateTask, JoinTask, members, Types, FlagTypes
      <3>4. worker' \in Workers
        <4>1. [worker EXCEPT !.at = "get"] \in Workers
          BY DEF Types, Workers, WorkerPlaces
        <4>2. NoWorker \in Workers
          BY SerialBusAssumption DEF NoWorker, Workers, WorkerPlaces, Dummy
        <4> QED BY <2>2, <4>1, <4>2 DEF CreateTask, TerminateTask, JoinTask, Types
      <3> QED BY <3>1, <3>2, <3>3, <3>4 DEF Types, QueueTypes, StartTypes, EndTypes, IicTypes, iicVars, Last
    <2>3. CASE WakeTask /\ UNCHANGED iicVars
      <3>1. UNCHANGED <<iicVars, members, thread, m_terminate, worker, call, configured, started, ended, configures>>
        BY <2>3 DEF WakeTask
      <3>2. MemberTypes'
        BY <2>3, <3>1 DEF WakeTask, members, Types, MemberTypes
      <3>3. QueueTypes'
        <4>1. CASE Len(queue) < QUEUE_SIZE
          <5>1. Dummy \in 0 .. MaxTransfers /\ Dummy <= Last
            BY SerialBusAssumption DEF Dummy, Types, StartTypes, Last
          <5> QED BY <2>3, <3>1, <4>1, <5>1, QueueGrows DEF WakeTask, Types
        <4>2. CASE ~(Len(queue) < QUEUE_SIZE)
          BY <2>3, <3>1, <4>2 DEF WakeTask, Types, QueueTypes, Last
        <4> QED BY <4>1, <4>2
      <3> QED BY <3>1, <3>2, <3>3 DEF Types, FlagTypes, StartTypes, EndTypes, IicTypes, members, iicVars, Last
    <2>4. CASE (OpenFile \/ Configured \/ SpiDriver!SetUpFails) /\ UNCHANGED iicVars
      <3>1. UNCHANGED <<iicVars, m_is_async, m_bytes, thread, m_terminate, queue, worker, call, started, ended, configures>>
        BY <2>4 DEF OpenFile, Configured, SpiDriver!SetUpFails, task, SpiDriver!task
      <3>2. MemberTypes'
        BY <2>4, <3>1 DEF OpenFile, Configured, SpiDriver!SetUpFails, Types, MemberTypes, Statuses
      <3> QED BY <3>1, <3>2 DEF Types, FlagTypes, QueueTypes, StartTypes, EndTypes, IicTypes, iicVars, Last
    <2>5. CASE Destroy /\ UNCHANGED iicVars
      <3>1. UNCHANGED <<iicVars, m_is_async, m_status, m_bytes, thread, queue, worker, call, started, ended, configures>>
        BY <2>5 DEF Destroy
      <3>2. MemberTypes'
        BY <2>5, <3>1 DEF Destroy, Types, MemberTypes
      <3>3. FlagTypes'
        BY <2>5, <3>1 DEF Destroy, Types, FlagTypes
      <3> QED BY <3>1, <3>2, <3>3 DEF Types, QueueTypes, StartTypes, EndTypes, IicTypes, iicVars, Last
    <2>6. CASE Send /\ UNCHANGED iicVars
      <3>1. UNCHANGED <<iicVars, m_linux_handle, m_is_async, m_bytes, thread, m_terminate, worker, conf,
                        configured, started, ended, configures>>
        BY <2>6 DEF Send
      <3>2. MemberTypes' /\ (call' # "idle" => call # "idle")
        BY <2>6, <3>1 DEF Send, Types, MemberTypes, Statuses
      <3>3. QueueTypes'
        <4>1. CASE Len(queue) < QUEUE_SIZE
          <5>1. Last \in 0 .. MaxTransfers
            BY SerialBusAssumption DEF Types, StartTypes, Last
          <5> QED BY <2>6, <3>1, <4>1, <5>1, QueueGrows DEF Send, Types, Last
        <4>2. CASE ~(Len(queue) < QUEUE_SIZE)
          BY <2>6, <3>1, <4>2 DEF Send, Types, QueueTypes, Last
        <4> QED BY <4>1, <4>2
      <3> QED BY <3>1, <3>2, <3>3 DEF Types, FlagTypes, StartTypes, EndTypes, IicTypes, iicVars, Last
    <2>7. CASE EndsInCaller /\ UNCHANGED iicVars
      <3>1. UNCHANGED <<iicVars, m_linux_handle, m_is_async, thread, m_terminate, queue, worker, conf,
                        configured, started, configures>>
        BY <2>7 DEF EndsInCaller, task
      <3>2. Last \in 1 .. Len(started) /\ Last \in 0 .. MaxTransfers
        BY <2>7, SerialBusAssumption DEF EndsInCaller, Types, StartTypes, Last
      <3>3. started[Last] \in SUBSET Directions
        <4>1. started[Last] \in Kinds
          BY <3>2 DEF Types, StartTypes
        <4> QED BY <4>1, StartsHaveKinds
      <3>4. m_status' \in [Directions -> Statuses] /\ m_bytes' \in [Directions -> 0 .. Size] /\ EndTypes'
        BY <2>7, <3>2, <3>3, PublishTypes DEF EndsInCaller, EndsWith
      <3>5. MemberTypes' /\ call' = "idle"
        BY <2>7, <3>1, <3>4 DEF EndsInCaller, Types, MemberTypes
      <3> QED BY <3>1, <3>4, <3>5 DEF Types, FlagTypes, QueueTypes, StartTypes, IicTypes, iicVars, Last
    <2>8. CASE ThreadStep /\ UNCHANGED iicVars
      <3>1. UNCHANGED <<iicVars, m_linux_handle, m_is_async, thread, m_terminate, call, conf, configured,
                        started, configures>>
        BY <2>8
        DEF ThreadStep, Takes, TakeBundle, LeaveOnTimeout, Walks, EndsInThread, StoresRead, CopiesStatus,
            SpiDriver!TransferStoresRead, SpiDriver!CopyStatus, members, task, SpiDriver!task
      <3>2. /\ m_status' \in [Directions -> Statuses] /\ m_bytes' \in [Directions -> 0 .. Size]
            /\ EndTypes' /\ QueueTypes' /\ worker' \in Workers
        <4>1. CASE Takes
          <5>1. PICK D \in SUBSET Directions :
                  TakeBundle([at |-> IF driver = "iic" THEN "test" ELSE "transfer",
                              bundle |-> Head(queue), directions |-> D])
            BY <4>1 DEF Takes
          <5>2. QueueTypes' /\ Head(queue) \in 0 .. MaxTransfers
            BY <3>1, <5>1, QueueShrinks, HeadIsStarted DEF TakeBundle, Types
          <5>3. [at |-> IF driver = "iic" THEN "test" ELSE "transfer", bundle |-> Head(queue),
                 directions |-> D] \in Workers
            BY <5>2 DEF Workers, WorkerPlaces
          <5>4. [worker EXCEPT !.at = "exited"] \in Workers
            BY DEF Types, Workers, WorkerPlaces
          <5>5. worker' \in Workers
            BY <5>1, <5>3, <5>4 DEF TakeBundle
          <5> QED BY <3>1, <5>1, <5>2, <5>5 DEF TakeBundle, members, Types, MemberTypes, EndTypes
        <4>2. CASE LeaveOnTimeout
          <5>1. [worker EXCEPT !.at = "exited"] \in Workers
            BY DEF Types, Workers, WorkerPlaces
          <5> QED BY <3>1, <4>2, <5>1
                  DEF LeaveOnTimeout, members, task, Types, MemberTypes, EndTypes, QueueTypes, Last
        <4>3. ASSUME NEW d \in Directions, Walks(d)
              PROVE  UNCHANGED <<m_status, m_bytes, ended, queue>> /\ worker' \in Workers
          <5>1. worker \in Workers /\ worker.directions \in SUBSET Directions /\ {d} \in SUBSET Directions
                /\ {"write"} \in SUBSET Directions
            BY DEF Types, Workers, Directions
          <5>2. \A at \in WorkerPlaces, D \in SUBSET Directions : Moves(at, D) => worker' \in Workers
            <6> SUFFICES ASSUME NEW at \in WorkerPlaces, NEW D \in SUBSET Directions, Moves(at, D)
                         PROVE  worker' \in Workers
              OBVIOUS
            <6>1. [worker EXCEPT !.at = at, !.directions = D] \in Workers
              BY <5>1, WorkerMoves
            <6> QED BY <6>1 DEF Moves
          <5>3. MovesAfter(d) => worker' \in Workers
            BY <5>1, <5>2 DEF MovesAfter, WorkerPlaces
          <5> QED BY <4>3, <5>1, <5>2, <5>3 DEF Walks, members, task, WorkerPlaces
        <4>4. CASE EndsInThread
          <5>1. worker \in Workers /\ worker.directions \in SUBSET Directions
                /\ worker.bundle \in 0 .. MaxTransfers
            BY DEF Types, Workers
          <5>2. [worker EXCEPT !.at = IF driver = "iic" THEN "published" ELSE "get"] \in Workers
            BY <5>1 DEF Workers, WorkerPlaces
          <5> QED BY <3>1, <4>4, <5>1, <5>2, PublishTypes DEF EndsInThread, EndsWith, task, Types, QueueTypes, Last
        <4>5. CASE StoresRead
          <5>1. PICK status \in Statuses : m_status' = [m_status EXCEPT !["read"] = status]
            <6>1. PICK outcome \in SpiDriver!Outcomes : m_status' = [m_status EXCEPT !["read"] = outcome.status]
              BY <4>5 DEF StoresRead, SpiDriver!TransferStoresRead
            <6>2. outcome.status \in Statuses
              BY DEF SpiDriver!Outcomes, Statuses
            <6> QED BY <6>1, <6>2
          <5>2. [worker EXCEPT !.at = "published"] \in Workers
            BY DEF Types, Workers, WorkerPlaces
          <5> QED BY <3>1, <4>5, <5>1, <5>2
                  DEF StoresRead, SpiDriver!TransferStoresRead, SpiDriver!task, Types, MemberTypes,
                      EndTypes, QueueTypes, Last
        <4>6. CASE CopiesStatus
          <5>1. worker \in Workers /\ worker.bundle \in 0 .. MaxTransfers /\ {"write"} \in SUBSET Directions
            BY DEF Types, Workers, Directions
          <5>2. Publish({"write"}, worker.bundle, [status |-> m_status["read"], count |-> 0])
            BY <4>6, SpiTakes DEF CopiesStatus, SpiDriver!CopyStatus
          <5>3. m_status["read"] \in Statuses /\ 0 \in 0 .. Size
            BY SerialBusAssumption DEF Types, MemberTypes, Directions
          <5>4. worker' \in Workers
            BY <4>6, <5>1 DEF CopiesStatus, SpiDriver!CopyStatus, Workers, WorkerPlaces
          <5>5. QueueTypes'
            BY <3>1, <4>6 DEF CopiesStatus, SpiDriver!CopyStatus, SpiDriver!task, Types, QueueTypes, Last
          <5> QED BY <5>1, <5>2, <5>3, <5>4, <5>5, PublishTypes
        <4>7. CASE \E d \in Directions : Walks(d)
          BY <3>1, <4>3, <4>7 DEF Types, MemberTypes, EndTypes, QueueTypes, Last
        <4> QED BY <2>8, <4>1, <4>2, <4>4, <4>5, <4>6, <4>7 DEF ThreadStep
      <3> QED BY <3>1, <3>2 DEF Types, MemberTypes, FlagTypes, StartTypes, IicTypes, iicVars, Last
    <2>9. ASSUME NEW D \in Kinds, Starts(D) PROVE Types'
      <3>1. UNCHANGED <<m_linux_handle, m_is_async, thread, m_terminate, queue, worker, conf, configured,
                        ended, configures, m_func, callbacks>>
        BY <2>9 DEF Starts, Start, task
      <3>2. started' = Append(started, D) /\ Last < MaxTransfers
        BY <2>9 DEF Starts, Start, Last
      <3>3. started' \in Seq(Kinds) /\ Last' = Last + 1 /\ Last \in Nat
        BY <3>2, AppendProperties DEF Types, StartTypes, Last
      <3>4. StartTypes' /\ QueueTypes'
        BY <3>1, <3>2, <3>3, SerialBusAssumption DEF StartTypes, QueueTypes, Types
      <3>5. MemberTypes'
        BY <2>9, <3>1, SerialBusAssumption DEF Starts, Start, Types, MemberTypes, Statuses
      <3>6. IicTypes'
        BY <2>9, <3>1 DEF Starts, Types, MemberTypes, IicTypes
      <3> QED BY <3>1, <3>4, <3>5, <3>6 DEF Types, FlagTypes, EndTypes
    <2>10. CASE SetsCallback
      BY <2>10
      DEF SetsCallback, busVars, members, task, Types, MemberTypes, FlagTypes, QueueTypes, StartTypes,
          EndTypes, IicTypes, Last
    <2> QED BY <2>1, <2>2, <2>3, <2>4, <2>5, <2>6, <2>7, <2>8, <2>9, <2>10 DEF BusStep
  <1> QED BY <1>1, <1>2, StepCases

-----------------------------------------------------------------------------
(* Who has the transfer.                                                    *)

LEMMA LastStarted ==
  ASSUME Types, Last > 0
  PROVE  /\ started[Last] \in Kinds /\ started[Last] \subseteq Directions /\ started[Last] # {}
         /\ Last \in Nat \ {0}
  <1>1. Last \in 1 .. Len(started)
    BY DEF Types, StartTypes, Last
  <1>2. started[Last] \in Kinds
    BY <1>1 DEF Types, StartTypes
  <1> QED BY <1>1, <1>2, StartsHaveKinds

\* A transfer that somebody has to end is not quiet.
LEMMA BusyIsNotQuiet ==
  ASSUME Types, Calling \/ Queued \/ Working
  PROVE  Last > 0 /\ ~Quiet
  <1>1. Last > 0
    BY DEF Calling, Queued, Working
  <1>2. Running(started[Last]) => ~Quiet
    BY <1>1, LastStarted DEF Running, Quiet
  <1>3. Running({"write"}) => ~Quiet
    BY DEF Running, Quiet, Directions
  <1> QED BY <1>1, <1>2, <1>3 DEF Calling, Queued, Working, WorkerBusy

\* What keeps what configure guarantees.
LEMMA ConfiguringStays ==
  ASSUME Configuring,
         UNCHANGED <<conf, configured, configures, thread, m_terminate, m_linux_handle, m_is_async,
                     started>>,
         worker'.at = "none" <=> worker.at = "none",
         worker.at = "none" => UNCHANGED worker,
         call' # "idle" => call # "idle",
         Last = 0 => Nothing' \/ Left'
  PROVE  Configuring'
  BY DEF Configuring, Asynchronous, Ending, Last

LEMMA OrderedStays ==
  ASSUME Ordered, UNCHANGED <<started, ended>>, Quiet' <=> Quiet
  PROVE  Ordered' /\ Finished' = Finished
  BY DEF Ordered, OwnBundles, Last, Finished

LEMMA OrderedEnds ==
  ASSUME Types, Ordered, ~Quiet, Quiet', Last > 0, NEW status,
         [transfer |-> {Last}, bundle |-> Last, status |-> status] \in Ends,
         ended' = Append(ended, [transfer |-> {Last}, bundle |-> Last, status |-> status]),
         UNCHANGED started
  PROVE  Ordered' /\ Finished \subseteq Finished' /\ Last \in Finished'
  <1> DEFINE end == [transfer |-> {Last}, bundle |-> Last, status |-> status]
  <1>1. /\ Len(ended) \in Nat /\ Last \in Nat /\ DOMAIN ended = 1 .. Len(ended)
        /\ DOMAIN ended' = 1 .. Len(ended) + 1 /\ Len(ended') = Len(ended) + 1
        /\ \A i \in 1 .. Len(ended) : ended'[i] = ended[i]
        /\ ended'[Len(ended) + 1] = end
    BY AppendProperties DEF Types, EndTypes, StartTypes, Last
  <1>2. Last' = Last
    BY DEF Last
  <1>3. Finished \subseteq Finished'
    BY <1>1 DEF Finished
  <1>4. Last \in Finished'
    <2>1. Len(ended) + 1 \in DOMAIN ended' /\ Last \in ended'[Len(ended) + 1].transfer
      BY <1>1
    <2> QED BY <2>1 DEF Finished
  <1>5. ASSUME QUEUE_SIZE > 0 PROVE OwnBundles' /\ Len(ended') = Last'
    <2>1. OwnBundles /\ Len(ended) = Last - 1
      BY <1>5 DEF Ordered
    <2>2. Len(ended') = Last'
      BY <1>1, <1>2, <2>1
    <2>3. ASSUME NEW i \in DOMAIN ended'
          PROVE  ended'[i].transfer = {ended'[i].bundle} /\ ended'[i].bundle = i
      <3>1. CASE i = Len(ended) + 1
        BY <1>1, <2>1, <3>1
      <3>2. CASE i \in 1 .. Len(ended)
        BY <1>1, <2>1, <3>2 DEF OwnBundles
      <3> QED BY <1>1, <3>1, <3>2
    <2> QED BY <2>2, <2>3 DEF OwnBundles
  <1> QED BY <1>3, <1>4, <1>5 DEF Ordered

\* The last transfer ends, in the directions that were left.
LEMMA PublishCalm ==
  ASSUME Types, Ordered, ~Quiet, Last > 0, UNCHANGED started,
         NEW D \in SUBSET Directions, D # {}, D \subseteq started[Last], Running(D),
         NEW status \in Statuses \ {"running"}, NEW count \in 0 .. Size,
         Publish(D, Last, [status |-> status, count |-> count])
  PROVE  Quiet' /\ Ordered' /\ Finished \subseteq Finished' /\ Last \in Finished'
  <1>1. Last \in 0 .. MaxTransfers
    BY SerialBusAssumption DEF Types, StartTypes, Last
  <1>2. /\ \A d \in Directions : m_status'[d] = IF d \in D THEN status ELSE m_status[d]
        /\ ended' = Append(ended, [transfer |-> {Current(d) : d \in D}, bundle |-> Last,
                                 status |-> status])
        /\ [transfer |-> {Current(d) : d \in D}, bundle |-> Last, status |-> status] \in Ends
    BY <1>1, PublishTypes
  <1>3. {Current(d) : d \in D} = {Last}
    <2>1. \A d \in D : Current(d) = Last
      BY CurrentIsLast DEF Types
    <2> QED BY <2>1
  <1>4. Quiet'
    BY <1>2 DEF Quiet, Running
  <1>5. /\ [transfer |-> {Last}, bundle |-> Last, status |-> status] \in Ends
        /\ ended' = Append(ended, [transfer |-> {Last}, bundle |-> Last, status |-> status])
    BY <1>2, <1>3
  <1> QED BY <1>4, <1>5, OrderedEnds

LEMMA EndsCalm ==
  ASSUME Types, Ordered, ~Quiet, Last > 0, UNCHANGED started,
         Running(started[Last]), EndsWith(started[Last], Last)
  PROVE  Quiet' /\ Ordered' /\ Finished \subseteq Finished' /\ Last \in Finished'
  BY LastStarted, PublishCalm DEF EndsWith

\* Nothing is in flight, and nothing was started, while configure runs.
LEMMA ConfigureAlone ==
  ASSUME Types, OneHasIt, Configuring, Ordered,
         (configures = 0 /\ conf = "idle") \/ conf \in {"task", "open", "ready"}
  PROVE  Nothing /\ Last = 0 /\ queue = <<>>
  BY DEF Configuring, Left, Nothing, Ending, QueueIs

LEMMA ConfigureCalm ==
  ASSUME Types, OneHasIt, Configuring, Ordered, configures' <= 1, UNCHANGED driver,
         \/ Configure \/ CreateTask \/ TerminateTask \/ OpenFile \/ Configured
         \/ SpiDriver!SetUpFails
  PROVE  OneHasIt' /\ Configuring' /\ Ordered'
  <1>1. (configures = 0 /\ conf = "idle") \/ conf \in {"task", "open", "ready"}
    BY DEF Configure, Free, CreateTask, TerminateTask, OpenFile, Configured, SpiDriver!SetUpFails,
           Types, MemberTypes
  <1>2. Nothing /\ Last = 0 /\ queue = <<>>
    BY <1>1, ConfigureAlone
  <1>3. UNCHANGED <<call, queue, started, ended>>
    BY DEF Configure, CreateTask, TerminateTask, OpenFile, Configured, SpiDriver!SetUpFails,
           task, SpiDriver!task
  <1>4. Quiet'
    <2>1. CASE UNCHANGED m_status
      BY <1>2, <2>1 DEF Nothing, Quiet
    <2>2. CASE Configure \/ Configured
      BY <2>2 DEF Configure, Configured, Quiet
    <2> QED BY <2>1, <2>2
            DEF CreateTask, TerminateTask, OpenFile, SpiDriver!SetUpFails, members
  <1>5. Ordered'
    BY <1>2, <1>3, <1>4, OrderedStays DEF Nothing
  <1>6. worker \in Workers /\ [worker EXCEPT !.at = "get"].at = "get"
    BY DEF Types, Workers
  <1>7. worker'.at \in {"none", "get"} \/ UNCHANGED worker
    BY <1>6
    DEF Configure, CreateTask, TerminateTask, OpenFile, Configured, SpiDriver!SetUpFails
  <1>8. Nothing'
    <2>1. CASE Configure
      <3>1. worker.at = "none" /\ UNCHANGED worker
        BY <1>1, <2>1 DEF Configuring, Configure, Free, Types, MemberTypes
      <3> QED BY <1>2, <1>3, <1>4, <3>1 DEF Nothing, QueueIs, WorkerAway
    <2>2. CASE UNCHANGED m_is_async
      <3>1. WorkerAway'
        <4>1. CASE UNCHANGED worker
          BY <1>2, <1>3, <1>4, <2>2, <4>1
          DEF Nothing, WorkerAway, LookingBack, Finished, Quiet, Directions
        <4>2. CASE worker'.at \in {"none", "get"}
          BY <4>2 DEF WorkerAway
        <4> QED BY <1>7, <4>1, <4>2
      <3> QED BY <1>2, <1>3, <1>4, <3>1 DEF Nothing, QueueIs
    <2> QED BY <2>1, <2>2
            DEF CreateTask, TerminateTask, OpenFile, Configured, SpiDriver!SetUpFails, members
  <1>9. Configuring'
    <2>0. Last' = 0 /\ ~m_terminate /\ configured # "destroyed" /\ call' = "idle"
      BY <1>1, <1>2, <1>3 DEF Configuring, Ending, Nothing, Last
    <2> USE <1>2, <1>8, <2>0
    <2>1. CASE Configure
      <3>1. /\ configures' = configures + 1 /\ configures \in Nat /\ conf' = "task" /\ ~thread
            /\ UNCHANGED <<thread, m_terminate, worker, configured>>
        BY <1>1, <2>1, SerialBusAssumption DEF Configure, Free, task, Types, MemberTypes, Configuring
      <3> QED BY <2>1, <3>1 DEF Configuring, Asynchronous, Ending
    <2>2. CASE CreateTask
      <3>1. ~thread /\ configures # 0
        BY <2>2 DEF CreateTask, Configuring
      <3> QED BY <1>6, <2>2, <3>1 DEF CreateTask, members, Configuring, Asynchronous, Ending
    <2>3. CASE TerminateTask
      <3>1. ~thread /\ configures # 0
        BY <2>3 DEF TerminateTask, Configuring
      <3> QED BY <2>3, <3>1 DEF TerminateTask, members, Configuring, Asynchronous, Ending
    <2>4. CASE OpenFile
      <3>1. configures # 0 /\ UNCHANGED <<thread, m_terminate, worker, m_is_async, configures>>
        BY <2>4 DEF OpenFile, Configuring, task
      <3> QED BY <2>4, <3>1 DEF OpenFile, Configuring, Asynchronous, Ending
    <2>5. CASE Configured
      <3>1. configures # 0 /\ UNCHANGED <<thread, m_terminate, worker, m_is_async, configures>>
        BY <2>5 DEF Configured, Configuring, task
      <3> QED BY <2>5, <3>1 DEF Configured, Configuring, Asynchronous, Ending
    <2>6. CASE SpiDriver!SetUpFails
      <3>1. configures # 0 /\ UNCHANGED <<thread, m_terminate, worker, m_is_async, configures>>
        BY <2>6 DEF SpiDriver!SetUpFails, Configuring, SpiDriver!task
      <3> QED BY <2>6, <3>1 DEF SpiDriver!SetUpFails, Configuring, Asynchronous, Ending
    <2> QED BY <2>1, <2>2, <2>3, <2>4, <2>5, <2>6
  <1> QED BY <1>5, <1>8, <1>9 DEF OneHasIt

\* What waits stays where it is while the destructor goes on.
LEMMA HoldersStay ==
  ASSUME Types, OneHasIt, Configuring,
         UNCHANGED <<driver, m_is_async, m_status, worker, call, started, ended>>,
         \A q : QueueIs(q) => QueueIs(q)',
         Ending => Ending',
         call # "idle" => UNCHANGED queue
  PROVE  OneHasIt' /\ (Nothing => Nothing') /\ (Left => Left')
  <1>1. Quiet' = Quiet /\ Finished' = Finished /\ Last' = Last
    BY DEF Quiet, Finished, Last
  <1>2. WorkerAway' = WorkerAway
    BY <1>1 DEF WorkerAway, LookingBack
  <1>3. WorkerBusy' = WorkerBusy /\ Running(started[Last])' = Running(started[Last])
        /\ Async(started[Last])' = Async(started[Last])
    BY <1>1 DEF WorkerBusy, Running, Async
  <1>4. Nothing => Nothing'
    BY <1>1, <1>2 DEF Nothing
  <1>5. Left => Left'
    BY DEF Left
  <1>6. Calling => Calling'
    BY <1>1, <1>2, <1>3 DEF Calling
  <1>7. Queued => Queued'
    BY <1>1, <1>2, <1>3 DEF Queued
  <1>8. Working => Working'
    BY <1>1, <1>3 DEF Working
  <1> QED BY <1>4, <1>5, <1>6, <1>7, <1>8 DEF OneHasIt

LEMMA DestroyCalm ==
  ASSUME Types, OneHasIt, Configuring, Ordered, UNCHANGED driver,
         Destroy \/ WakeTask \/ JoinTask
  PROVE  OneHasIt' /\ Configuring' /\ Ordered'
  <1>1. CASE Destroy
    <2>1. /\ UNCHANGED <<m_is_async, m_status, worker, call, started, ended, queue, thread, configures>>
          /\ conf = "idle" /\ call = "idle" /\ conf' = IF thread THEN "wake" ELSE "over"
          /\ configured' = "destroyed" /\ m_terminate' = (m_terminate \/ thread)
          /\ (m_linux_handle = "closed" => m_linux_handle' = "closed")
      BY <1>1 DEF Destroy, Free
    <2>2. \A q : QueueIs(q) => QueueIs(q)'
      BY <2>1 DEF QueueIs
    <2>3. Ending' /\ ~m_terminate
      BY <2>1 DEF Ending, Configuring
    <2>4. OneHasIt' /\ (Nothing => Nothing') /\ (Left => Left')
      BY <2>1, <2>2, <2>3, HoldersStay
    <2>5. Ordered'
      BY <2>1, OrderedStays DEF Quiet
    <2>6. Configuring'
      BY <2>1, <2>3, <2>4 DEF Configuring, Asynchronous, Ending, Last
    <2> QED BY <2>4, <2>5, <2>6
  <1>2. CASE WakeTask
    <2>1. /\ UNCHANGED <<members, thread, m_terminate, worker, call, configured, started, ended,
                         configures>>
          /\ conf = "wake" /\ conf' = "join"
          /\ queue' = queue \/ queue' = Append(queue, Dummy)
      BY <1>2 DEF WakeTask
    <2>2. \A q : QueueIs(q) => QueueIs(q)'
      BY <2>1 DEF QueueIs
    <2>3. Ending' /\ call = "idle"
      BY <2>1 DEF Ending, Configuring
    <2>4. OneHasIt' /\ (Nothing => Nothing') /\ (Left => Left')
      BY <2>1, <2>2, <2>3, HoldersStay DEF members
    <2>5. Ordered'
      BY <2>1, OrderedStays DEF Quiet, members
    <2>6. Configuring'
      BY <2>1, <2>3, <2>4 DEF Configuring, Asynchronous, Ending, Last, members
    <2> QED BY <2>4, <2>5, <2>6
  <1>3. CASE JoinTask
    <2>1. /\ UNCHANGED <<members, m_terminate, queue, call, configured, started, ended, configures>>
          /\ conf = "join" /\ worker.at = "exited" /\ worker' = NoWorker /\ thread' = FALSE
          /\ conf' = "over"
      BY <1>3 DEF JoinTask, Configuring
    <2>2. ~WorkerAway /\ ~WorkerBusy
      BY <2>1 DEF WorkerAway, LookingBack, WorkerBusy
    <2>3. Left
      BY <2>2 DEF OneHasIt, Nothing, Calling, Queued, Working
    <2>4. Left' /\ call' = "idle"
      BY <2>1, <2>3 DEF Left, Ending, QueueIs, NoWorker
    <2>5. Ordered'
      BY <2>1, OrderedStays DEF Quiet, members
    <2>6. Configuring'
      BY <2>1, <2>4 DEF Configuring, Asynchronous, Ending, Last, members, NoWorker
    <2> QED BY <2>4, <2>5, <2>6 DEF OneHasIt
  <1> QED BY <1>1, <1>2, <1>3

LEMMA CallCalm ==
  ASSUME Types, OneHasIt, Configuring, Ordered, UNCHANGED driver, ~overtook',
         \/ \E D \in Kinds : Starts(D)
         \/ Send \/ EndsInCaller
  PROVE  OneHasIt' /\ Configuring' /\ Ordered'
  <1>1. ASSUME NEW D \in Kinds, Starts(D) PROVE OneHasIt' /\ Configuring' /\ Ordered'
    <2>1. /\ conf = "idle" /\ call = "idle" /\ m_linux_handle # "closed" /\ Quiet
          /\ started' = Append(started, D) /\ call' # "idle"
          /\ m_status' = [d \in Directions |-> IF d \in D THEN "running" ELSE m_status[d]]
          /\ call' = "send" <=> Async(D)
          /\ UNCHANGED <<m_linux_handle, m_is_async, thread, m_terminate, queue, worker, conf,
                         configured, ended, configures>>
      BY <1>1 DEF Starts, Start, Free, Quiet, Async, task
    <2>2. Nothing /\ queue = <<>> /\ configures # 0
      BY <2>1, BusyIsNotQuiet DEF OneHasIt, Left, Ending, Nothing, QueueIs, Configuring
    <2>3. Last' = Last + 1 /\ Last \in Nat /\ started'[Last'] = D
      BY <2>1, AppendProperties DEF Last, Types, StartTypes
    <2>4. D \subseteq Directions /\ D # {}
      BY StartsHaveKinds
    <2>5. Running(D)' /\ ~Quiet'
      BY <2>1, <2>4 DEF Running, Quiet
    <2>6. WorkerAway'
      <3>1. CASE LookingBack
        <4>1. ~IicDriver!BetweenLooks \/ D # {"write"}
          BY <1>1, <3>1, Zenon DEF Starts, LookingBack
        <4>2. D = {"read"} \/ D = {"write"}
          BY <3>1 DEF LookingBack, Kinds
        <4>3. D = {"write"} => worker.directions = {"write"} /\ worker.at # "test"
          BY <3>1, <4>1 DEF LookingBack, IicDriver!BetweenLooks
        <4>4. D = {"read"} => m_status'["write"] = m_status["write"]
          BY <2>1 DEF Directions
        <4> QED BY <2>1, <3>1, <4>2, <4>3, <4>4 DEF LookingBack, WorkerAway, Finished
      <3>2. CASE ~LookingBack
        BY <2>1, <2>2, <3>2 DEF Nothing, WorkerAway
      <3> QED BY <3>1, <3>2
    <2>7. Calling'
      <3>1. Running(started[Last])' /\ Async(started[Last])' = Async(D)
        BY <2>1, <2>3, <2>5 DEF Running, Async
      <3> QED BY <2>1, <2>2, <2>3, <2>6, <3>1 DEF Calling
    <2>8. Configuring'
      BY <2>1, <2>2, <2>3 DEF Configuring, Asynchronous, Ending
    <2>9. Ordered'
      <3>1. Len(ended) \in Nat
        BY DEF Types, EndTypes
      <3> QED BY <2>1, <2>3, <2>5, <3>1 DEF Ordered, OwnBundles
    <2> QED BY <2>7, <2>8, <2>9 DEF OneHasIt
  <1>2. ASSUME call # "idle" PROVE Calling /\ Last > 0 /\ ~Quiet /\ conf = "idle"
    <2>1. Calling
      BY <1>2 DEF OneHasIt, Nothing, Queued, Working, Left
    <2> QED BY <2>1, <1>2, BusyIsNotQuiet DEF Configuring
  <1>3. CASE Send
    <2>1. /\ call = "send" /\ call' = "idle"
          /\ UNCHANGED <<m_linux_handle, m_is_async, thread, m_terminate, worker, conf, configured,
                         started, ended, configures>>
      BY <1>3 DEF Send
    <2>2. Calling /\ Last > 0 /\ ~Quiet /\ conf = "idle" /\ queue = <<>> /\ Async(started[Last])
          /\ Running(started[Last]) /\ WorkerAway
      BY <1>2, <2>1 DEF Calling
    <2>3. CASE 0 < QUEUE_SIZE
      <3>1. queue' = <<Last>> /\ UNCHANGED m_status
        BY <1>3, <2>2, <2>3 DEF Send, Last
      <3>2. WorkerAway' /\ Last' = Last /\ Async(started[Last])' /\ Running(started[Last])'
        BY <2>1, <2>2, <3>1 DEF WorkerAway, LookingBack, Finished, Last, Async, Running
      <3>3. Queued'
        BY <2>1, <2>2, <3>1, <3>2 DEF Queued, QueueIs
      <3>4. Ordered'
        BY <2>1, <3>1, OrderedStays DEF Quiet
      <3>5. Configuring'
        BY <2>1, <2>2, ConfiguringStays
      <3> QED BY <3>3, <3>4, <3>5 DEF OneHasIt
    <2>4. CASE ~(0 < QUEUE_SIZE)
      <3>1. queue' = <<>>
            /\ m_status' = [d \in Directions |-> IF d \in started[Last] THEN "idle" ELSE m_status[d]]
        BY <1>3, <2>2, <2>4 DEF Send, Last
      <3>2. Quiet'
        BY <2>2, <3>1 DEF Quiet, Running
      <3>3. WorkerAway'
        BY <2>1, <2>2, <3>2 DEF WorkerAway, LookingBack, Finished, Quiet, Directions
      <3>4. Nothing'
        BY <2>1, <3>1, <3>2, <3>3 DEF Nothing, QueueIs
      <3>5. Ordered'
        BY <2>4 DEF Ordered
      <3>6. Configuring'
        BY <2>1, <2>2, ConfiguringStays
      <3> QED BY <3>4, <3>5, <3>6 DEF OneHasIt
    <2> QED BY <2>3, <2>4
  <1>4. CASE EndsInCaller
    <2>1. /\ call = "transfer" /\ call' = "idle" /\ EndsWith(started[Last], Last)
          /\ UNCHANGED <<m_linux_handle, m_is_async, thread, m_terminate, queue, worker, conf, configured,
                         started, configures>>
      BY <1>4 DEF EndsInCaller, task
    <2>2. Calling /\ Last > 0 /\ ~Quiet /\ conf = "idle" /\ queue = <<>>
          /\ Running(started[Last]) /\ WorkerAway
      BY <1>2, <2>1 DEF Calling
    <2>3. Quiet' /\ Ordered' /\ Finished \subseteq Finished'
      BY <2>1, <2>2, EndsCalm
    <2>4. WorkerAway'
      BY <2>1, <2>2, <2>3 DEF WorkerAway, LookingBack, Quiet, Directions
    <2>5. Nothing'
      BY <2>1, <2>2, <2>3, <2>4 DEF Nothing, QueueIs
    <2>6. Configuring'
      BY <2>1, <2>2, ConfiguringStays
    <2> QED BY <2>3, <2>5, <2>6 DEF OneHasIt
  <1> QED BY <1>1, <1>3, <1>4

\* The queue that is taken from.
LEMMA TakenFrom ==
  ASSUME Types, queue # <<>>
  PROVE  /\ QueueIs(<<>>) => Head(queue) = Dummy /\ Tail(queue) = <<>> /\ conf \in {"join", "over"}
         /\ QueueIs(<<Last>>) =>
              /\ Head(queue) = Last
              /\ Tail(queue) = <<>> \/ (Tail(queue) = Append(<<>>, Dummy) /\ conf \in {"join", "over"})
  <1>1. Last \in Nat /\ Dummy \in Nat
    BY DEF Types, StartTypes, Last, Dummy
  <1>2. ASSUME NEW n \in Nat PROVE Head(<<n>>) = n /\ Tail(<<n>>) = <<>> /\ Append(<<>>, n) = <<n>>
    <2>1. <<n>> \in Seq(Nat) /\ <<n>> # <<>> /\ Len(<<n>>) = 1 /\ Head(<<n>>) = n
      OBVIOUS
    <2>2. Tail(<<n>>) \in Seq(Nat) /\ Len(Tail(<<n>>)) = 0
      BY <2>1, HeadTailProperties
    <2>3. Tail(<<n>>) = <<>>
      BY <2>2, EmptySeq
    <2>4. Append(<<>>, n) = <<n>>
      OBVIOUS
    <2> QED BY <2>1, <2>3, <2>4
  <1>3. ASSUME NEW m \in Nat, NEW n \in Nat PROVE Append(<<m>>, n) = <<m, n>>
    <2>1. <<m>> \in Seq(Nat) /\ Len(<<m>>) = 1 /\ <<m>>[1] = m
      OBVIOUS
    <2>2. /\ Append(<<m>>, n) \in Seq(Nat) /\ Len(Append(<<m>>, n)) = 2
          /\ Append(<<m>>, n)[1] = m /\ Append(<<m>>, n)[2] = n
      BY <2>1, AppendProperties
    <2>3. <<m, n>> \in Seq(Nat) /\ Len(<<m, n>>) = 2 /\ <<m, n>>[1] = m /\ <<m, n>>[2] = n
      OBVIOUS
    <2>4. \A i \in 1 .. 2 : Append(<<m>>, n)[i] = <<m, n>>[i]
      BY <2>2, <2>3
    <2> QED BY <2>2, <2>3, <2>4, SeqEqual, Zenon
  <1>4. ASSUME NEW m \in Nat, NEW n \in Nat PROVE Head(<<m, n>>) = m /\ Tail(<<m, n>>) = <<n>>
    OBVIOUS
  <1>5. ASSUME QueueIs(<<>>) PROVE Head(queue) = Dummy /\ Tail(queue) = <<>> /\ conf \in {"join", "over"}
    BY <1>1, <1>2, <1>5 DEF QueueIs
  <1>6. ASSUME QueueIs(<<Last>>)
        PROVE  /\ Head(queue) = Last
               /\ Tail(queue) = <<>> \/ (Tail(queue) = Append(<<>>, Dummy) /\ conf \in {"join", "over"})
    <2>1. CASE queue = <<Last>>
      BY <1>1, <1>2, <2>1
    <2>2. CASE conf \in {"join", "over"} /\ queue = <<Last, Dummy>>
      BY <1>1, <1>2, <1>4, <2>2
    <2> QED BY <1>1, <1>3, <1>6, <2>1, <2>2 DEF QueueIs
  <1> QED BY <1>5, <1>6

LEMMA TakesCalm ==
  ASSUME Types, OneHasIt, Configuring, Ordered, UNCHANGED driver, Takes \/ LeaveOnTimeout
  PROVE  OneHasIt' /\ Configuring' /\ Ordered'
  <1>1. /\ UNCHANGED <<members, thread, m_terminate, call, conf, configured, started, ended,
                       configures>>
        /\ worker.at = "get"
    BY DEF Takes, TakeBundle, LeaveOnTimeout, task
  <1>2. UNCHANGED <<m_linux_handle, m_is_async, m_status>>
    BY <1>1 DEF members
  <1>3. Ordered' /\ Finished' = Finished /\ Last' = Last
    BY <1>1, <1>2, OrderedStays DEF Quiet, Last
  <1>4. ~WorkerBusy /\ ~Working /\ ~Left
    BY <1>1 DEF WorkerBusy, Working, Left
  <1>5. worker \in Workers /\ [worker EXCEPT !.at = "exited"].at = "exited"
    BY DEF Types, Workers
  <1>6. m_terminate => Ending /\ conf # "over" /\ call = "idle"
    BY <1>1 DEF Configuring, Ending
  <1>7. ASSUME m_terminate, QueueIs(<<>>)', worker' = [worker EXCEPT !.at = "exited"]
        PROVE  Left' /\ Configuring'
    <2>1. worker'.at = "exited" /\ Ending'
      BY <1>1, <1>5, <1>6, <1>7 DEF Ending
    <2>2. Left'
      BY <1>1, <1>6, <1>7, <2>1 DEF Left
    <2> QED BY <1>1, <1>2, <2>1, <2>2, ConfiguringStays
  <1>8. CASE LeaveOnTimeout
    <2>1. m_terminate /\ queue = <<>> /\ worker' = [worker EXCEPT !.at = "exited"]
          /\ UNCHANGED queue
      BY <1>8 DEF LeaveOnTimeout, task
    <2> QED BY <1>3, <1>7, <2>1 DEF QueueIs, OneHasIt
  <1>9. CASE Takes
    <2>1. PICK D \in SUBSET Directions :
            /\ queue # <<>> /\ queue' = Tail(queue)
            /\ worker' = IF m_terminate THEN [worker EXCEPT !.at = "exited"]
                         ELSE [at |-> IF driver = "iic" THEN "test" ELSE "transfer",
                               bundle |-> Head(queue), directions |-> D]
            /\ driver = "iic" => D = {"read"}
            /\ driver = "spi" /\ Head(queue) # Dummy => D = started[Head(queue)]
      BY <1>9 DEF Takes, TakeBundle
    <2>2. (QueueIs(<<>>) \/ QueueIs(<<Last>>)) => QueueIs(<<>>)'
      BY <1>1, <2>1, TakenFrom DEF QueueIs
    <2>3. ~Calling
      BY <2>1 DEF Calling
    <2>4. QueueIs(<<>>)'
      BY <1>4, <2>2, <2>3 DEF OneHasIt, Nothing, Queued
    <2>5. CASE m_terminate
      BY <1>3, <1>7, <2>1, <2>4, <2>5 DEF OneHasIt
    <2>6. CASE ~m_terminate
      <3>1. ~Nothing
        <4>1. Nothing => conf \in {"join", "over"}
          BY <2>1, TakenFrom DEF Nothing
        <4> QED BY <1>1, <2>6, <4>1 DEF Configuring
      <3>2. Queued /\ Last > 0 /\ Head(queue) = Last
        BY <1>4, <2>1, <2>3, <3>1, TakenFrom DEF OneHasIt, Queued
      <3>3. /\ worker'.at = IF driver = "iic" THEN "test" ELSE "transfer"
            /\ worker'.bundle = Last /\ worker'.directions = D
            /\ driver = "iic" => D = {"read"}
            /\ driver = "spi" => D = started[Last]
        BY <2>1, <2>6, <3>2, LastStarted DEF Dummy
      <3>4. /\ Running(started[Last])' /\ started'[Last'] = started[Last]
            /\ Async(started[Last])'
        BY <1>1, <1>2, <1>3, <3>2 DEF Queued, Running, Async
      <3>5. driver \in {"iic", "spi"}
        BY DEF Types, MemberTypes
      <3>6. WorkerBusy'
        BY <3>3, <3>4, <3>5 DEF WorkerBusy
      <3>7. Working'
        BY <1>1, <1>3, <2>4, <3>2, <3>3, <3>4, <3>6 DEF Working, Queued
      <3>8. Configuring'
        BY <1>1, <1>2, <3>2, <3>3, LastStarted, ConfiguringStays
      <3> QED BY <1>3, <3>7, <3>8 DEF OneHasIt
    <2> QED BY <2>5, <2>6
  <1> QED BY <1>8, <1>9

LEMMA WalksCalm ==
  ASSUME Types, OneHasIt, Configuring, Ordered, UNCHANGED driver, NEW d \in Directions, Walks(d)
  PROVE  OneHasIt' /\ Configuring' /\ Ordered'
  <1>1. /\ UNCHANGED <<thread, m_terminate, queue, call, conf, configured, started, ended,
                       configures>>
        /\ UNCHANGED <<m_linux_handle, m_is_async, m_status>>
        /\ driver = "iic" /\ worker.directions = {d}
        /\ worker.at \in {"test", "published", "invoke", "callback"}
    BY DEF Walks, task, members
  <1>2. /\ Ordered' /\ Finished' = Finished /\ Last' = Last /\ Quiet' = Quiet
        /\ \A q : QueueIs(q) => QueueIs(q)'
    BY <1>1, OrderedStays DEF Quiet, Last, QueueIs
  <1>3. /\ worker \in Workers /\ {d} \in SUBSET Directions /\ {"write"} \in SUBSET Directions
        /\ d \in {"read", "write"}
    BY DEF Types, Directions
  <1>4. ASSUME NEW at \in WorkerPlaces, NEW D \in SUBSET Directions, Moves(at, D)
        PROVE  worker'.at = at /\ worker'.directions = D /\ worker'.bundle = worker.bundle
    BY <1>3, <1>4, WorkerMoves DEF Moves
  <1>5. MovesAfter(d) =>
          /\ worker'.bundle = worker.bundle
          /\ worker'.at = IF d = "read" THEN "test" ELSE "get"
          /\ d = "read" => worker'.directions = {"write"}
    <2>1. worker.directions \in SUBSET Directions
      BY <1>1, <1>3
    <2> QED BY <1>3, <1>4, <2>1 DEF MovesAfter, WorkerPlaces
  <1>6. worker'.bundle = worker.bundle
        /\ \/ worker.at = "test" /\ m_status[d] = "running" /\ worker'.at = "transfer" /\ worker'.directions = {d}
           \/ worker.at = "test" /\ m_status[d] # "running" /\ MovesAfter(d)
           \/ worker.at # "test" /\ MovesAfter(d)
           \/ /\ worker.at # "test" /\ worker'.at \in {"invoke", "callback"}
              /\ worker'.directions = worker.directions
           \/ worker.at # "test" /\ worker'.at = "crashed"
    <2>1. \A at \in {"transfer", "invoke", "callback", "crashed"} : Moves(at, {d}) =>
            worker'.at = at /\ worker'.directions = {d} /\ worker'.bundle = worker.bundle
      BY <1>3, <1>4 DEF WorkerPlaces
    <2> QED BY <1>1, <1>5, <2>1 DEF Walks
  <1>7. LookingBack => WorkerAway'
    <2> SUFFICES ASSUME LookingBack PROVE WorkerAway'
      OBVIOUS
    <2>1. CASE worker.at = "test"
      <3>1. d = "write" /\ m_status[d] # "running"
        BY <1>1, <1>3, <2>1 DEF LookingBack
      <3> QED BY <1>5, <1>6, <2>1, <3>1 DEF WorkerAway
    <2>2. CASE worker.at # "test" /\ MovesAfter(d)
      <3>1. CASE d = "write"
        BY <1>5, <2>2, <3>1 DEF WorkerAway
      <3>2. CASE d = "read"
        <4>1. m_status["write"] # "running" /\ m_is_async["read"] /\ worker.bundle \in Finished
          BY <1>1, <2>2, <3>2 DEF LookingBack
        <4> QED BY <1>1, <1>2, <1>5, <2>2, <3>2, <4>1 DEF LookingBack, WorkerAway
      <3> QED BY <1>3, <3>1, <3>2
    <2>3. CASE worker.at # "test" /\ worker'.at \in {"invoke", "callback"}
               /\ worker'.directions = worker.directions
      BY <1>1, <1>2, <1>6, <2>3 DEF LookingBack, WorkerAway
    <2>4. CASE worker'.at = "crashed"
      BY <2>4 DEF WorkerAway
    <2> QED BY <1>6, <2>1, <2>2, <2>3, <2>4
  <1>8. WorkerAway => LookingBack
    BY <1>1 DEF WorkerAway
  <1>9. /\ \A D : Running(D)' = Running(D)
        /\ Async(started[Last])' = Async(started[Last])
        /\ started'[Last'] = started[Last]
    BY <1>1, <1>2 DEF Running, Async
  <1>10. Nothing => Nothing'
    BY <1>1, <1>2, <1>7, <1>8 DEF Nothing
  <1>11. Calling => Calling'
    BY <1>1, <1>2, <1>7, <1>8, <1>9 DEF Calling
  <1>12. Queued => Queued'
    BY <1>1, <1>2, <1>7, <1>8, <1>9 DEF Queued
  <1>13. Working => Working'
    <2> SUFFICES ASSUME Working PROVE Working'
      OBVIOUS
    <2>1. started[Last] \in {{"read"}, {"write"}}
      BY <1>1, LastStarted DEF Working, Kinds
    <2>2. worker.at = "test" /\ Running(started[Last])
      BY <1>1 DEF Working, WorkerBusy
    <2>3. CASE m_status[d] = "running"
      <3>1. started[Last] = {d}
        BY <2>1, <2>2, <2>3, <1>3 DEF Running
      <3> QED BY <1>1, <1>2, <1>6, <1>9, <2>2, <2>3, <3>1 DEF Working, WorkerBusy
    <2>4. CASE m_status[d] # "running"
      <3>1. started[Last] # {d}
        BY <2>2, <2>4, <1>3 DEF Running
      <3>2. d = "read" /\ started[Last] = {"write"}
        BY <1>1, <1>3, <2>1, <2>2, <3>1 DEF Working, WorkerBusy
      <3>3. worker'.at = "test" /\ worker'.directions = {"write"} /\ worker'.bundle = worker.bundle
        BY <1>5, <1>6, <2>2, <2>4, <3>2
      <3> QED BY <1>1, <1>2, <1>9, <2>2, <3>2, <3>3 DEF Working, WorkerBusy
    <2> QED BY <2>3, <2>4
  <1>14. ~Left
    BY <1>1 DEF Left
  <1>15. OneHasIt'
    BY <1>10, <1>11, <1>12, <1>13, <1>14 DEF OneHasIt
  <1>16. worker'.at # "none" /\ worker.at # "none"
    BY <1>1, <1>5, <1>6
  <1>17. Configuring'
    BY <1>1, <1>10, <1>14, <1>16, ConfiguringStays DEF Configuring
  <1> QED BY <1>2, <1>15, <1>17

LEMMA WorkerEndsCalm ==
  ASSUME Types, OneHasIt, Configuring, Ordered, UNCHANGED driver,
         EndsInThread \/ StoresRead \/ CopiesStatus
  PROVE  OneHasIt' /\ Configuring' /\ Ordered'
  <1>1. /\ UNCHANGED <<m_linux_handle, m_is_async, thread, m_terminate, queue, call, conf, configured,
                       started, configures>>
        /\ worker.at \in {"transfer", "published"}
        /\ EndsInThread \/ StoresRead => worker.at = "transfer"
        /\ CopiesStatus \/ StoresRead => driver = "spi"
    BY DEF EndsInThread, StoresRead, CopiesStatus, SpiDriver!TransferStoresRead,
           SpiDriver!CopyStatus, task, SpiDriver!task
  <1>2. Working /\ ~Quiet /\ Last > 0 /\ worker.bundle = Last
    <2>1. ~WorkerAway
      BY <1>1 DEF WorkerAway, LookingBack, EndsInThread
    <2>2. Working
      BY <1>1, <2>1 DEF OneHasIt, Nothing, Calling, Queued, Left
    <2> QED BY <2>2, BusyIsNotQuiet DEF Working
  <1>3. /\ Last' = Last /\ started'[Last'] = started[Last]
        /\ \A q : QueueIs(q) => QueueIs(q)'
        /\ Async(started[Last])' = Async(started[Last])
    BY <1>1 DEF Last, QueueIs, Async
  <1>4. worker \in Workers /\ Last \in Nat
    BY LastStarted, <1>2 DEF Types
  <1>5. CASE EndsInThread
    <2>1. worker.directions = started[Last] /\ Running(started[Last])
      BY <1>1, <1>2, <1>5 DEF Working, WorkerBusy
    <2>2. Quiet' /\ Ordered' /\ Finished \subseteq Finished' /\ Last \in Finished'
      BY <1>1, <1>2, <1>5, <2>1, EndsCalm DEF EndsInThread
    <2>3. /\ worker'.at = IF driver = "iic" THEN "published" ELSE "get"
          /\ worker'.directions = started[Last] /\ worker'.bundle = Last
      BY <1>2, <1>4, <1>5, <2>1 DEF EndsInThread, Workers
    <2>4. WorkerAway'
      <3>1. CASE driver = "iic"
        <4>1. started[Last] = {"read"} \/ started[Last] = {"write"}
          BY <1>2, <3>1, LastStarted DEF Kinds
        <4>2. started[Last] = {"read"} => m_is_async["read"]
          BY <1>2 DEF Working, Async
        <4> QED BY <1>1, <2>2, <2>3, <3>1, <4>1, <4>2 DEF WorkerAway, LookingBack, Quiet, Directions
      <3>2. CASE driver # "iic"
        BY <2>3, <3>2 DEF WorkerAway
      <3> QED BY <3>1, <3>2
    <2>5. Nothing'
      BY <1>1, <1>2, <1>3, <2>2, <2>4 DEF Nothing, Working
    <2>6. Configuring'
      BY <1>1, <2>3, <2>5, ConfiguringStays
    <2> QED BY <2>2, <2>5, <2>6 DEF OneHasIt
  <1>6. CASE StoresRead
    <2>1. PICK outcome \in SpiDriver!Outcomes : m_status' = [m_status EXCEPT !["read"] = outcome.status]
      BY <1>6 DEF StoresRead, SpiDriver!TransferStoresRead
    <2>2. outcome.status # "running" /\ m_status \in [Directions -> Statuses]
      BY DEF SpiDriver!Outcomes, Types, MemberTypes
    <2>3. /\ worker.directions = Directions /\ worker' = [worker EXCEPT !.at = "published"]
          /\ UNCHANGED ended
      BY <1>6, SpiHasBus DEF StoresRead, SpiDriver!TransferStoresRead
    <2>4. started[Last] = Directions /\ Running(Directions)
      BY <1>1, <1>2, <1>6, <2>3 DEF Working, WorkerBusy
    <2>5. Running({"write"})' /\ ~Quiet'
      BY <2>1, <2>2, <2>4 DEF Running, Quiet, Directions
    <2>6. worker'.at = "published" /\ worker'.bundle = Last
      BY <1>2, <1>4, <2>3 DEF Workers
    <2>7. Working'
      BY <1>1, <1>2, <1>3, <1>6, <2>4, <2>5, <2>6 DEF Working, WorkerBusy
    <2>8. Ordered'
      BY <1>1, <1>2, <2>3, <2>5, OrderedStays
    <2>9. Configuring'
      BY <1>1, <1>2, <1>4, <2>6, ConfiguringStays
    <2> QED BY <2>7, <2>8, <2>9 DEF OneHasIt
  <1>7. CASE CopiesStatus
    <2>1. /\ Publish({"write"}, Last, [status |-> m_status["read"], count |-> 0])
          /\ worker' = [worker EXCEPT !.at = "get"] /\ worker.at = "published"
      BY <1>2, <1>7, SpiTakes DEF CopiesStatus, SpiDriver!CopyStatus
    <2>2. started[Last] = Directions /\ Running({"write"})
      BY <1>1, <1>2, <1>7, <2>1 DEF Working, WorkerBusy
    <2>3. m_status["read"] \in Statuses \ {"running"} /\ 0 \in 0 .. Size
      BY <2>2, SerialBusAssumption DEF Running, Types, MemberTypes, Directions
    <2>4. Quiet' /\ Ordered'
      <3>1. {"write"} \in SUBSET Directions /\ {"write"} # {} /\ {"write"} \subseteq started[Last]
        BY <2>2 DEF Directions
      <3> QED BY <1>1, <1>2, <2>1, <2>2, <2>3, <3>1, PublishCalm
    <2>5. worker'.at = "get"
      BY <1>4, <2>1 DEF Workers
    <2>6. Nothing'
      BY <1>1, <1>2, <1>3, <2>4, <2>5 DEF Nothing, Working, WorkerAway
    <2>7. Configuring'
      BY <1>1, <2>5, <2>6, ConfiguringStays
    <2> QED BY <2>4, <2>6, <2>7 DEF OneHasIt
  <1> QED BY <1>5, <1>6, <1>7

\* What changes nothing that the invariant is about.
LEMMA CalmStays ==
  ASSUME OneHasIt, Configuring, Ordered,
         UNCHANGED <<driver, members, task, worker, call, conf, configured, started, ended, configures>>
  PROVE  OneHasIt' /\ Configuring' /\ Ordered'
  <1> USE DEF members, task, QueueIs, Quiet, Last
  <1>1. Finished' = Finished /\ WorkerAway' = WorkerAway
    BY DEF Finished, WorkerAway, LookingBack
  <1>2. /\ Running(started[Last])' = Running(started[Last]) /\ WorkerBusy' = WorkerBusy
        /\ Async(started[Last])' = Async(started[Last])
    BY DEF Running, WorkerBusy, Async
  <1>3. Nothing' = Nothing /\ Left' = Left
    BY <1>1 DEF Nothing, Left, Ending
  <1>4. Calling' = Calling /\ Queued' = Queued /\ Working' = Working
    BY <1>1, <1>2 DEF Calling, Queued, Working
  <1>5. Configuring'
    BY <1>3 DEF Configuring, Asynchronous, Ending
  <1> QED BY <1>3, <1>4, <1>5 DEF OneHasIt, Ordered, OwnBundles

LEMMA CalmNext ==
  ASSUME Types, Calm, [Next]_allVars
  PROVE  Calm'
  <1> SUFFICES ASSUME configures' <= 1, ~overtook' PROVE OneHasIt' /\ Configuring' /\ Ordered'
    BY DEF Calm
  <1>1. CASE UNCHANGED allVars
    <2>1. configures <= 1 /\ ~overtook
      BY <1>1 DEF allVars, busVars, iicVars
    <2> QED BY <1>1, <2>1, CalmStays DEF Calm, allVars, busVars
  <1>2. CASE BusStep
    <2>1. configures <= 1
      <3>1. configures \in Nat
        BY SerialBusAssumption DEF Types, MemberTypes
      <3>2. configures' = configures \/ configures' = configures + 1
        BY <1>2
        DEF BusStep, Configure, CreateTask, TerminateTask, WakeTask, JoinTask, OpenFile, Configured, Destroy,
            SpiDriver!SetUpFails, Send, EndsInCaller, ThreadStep, Takes, TakeBundle, LeaveOnTimeout, Walks,
            EndsInThread, StoresRead, CopiesStatus, SpiDriver!TransferStoresRead, SpiDriver!CopyStatus,
            Starts, Start, SetsCallback, busVars
      <3> QED BY <3>1, <3>2
    <2>2. ~overtook
      BY <1>2, Zenon DEF BusStep, iicVars, Starts, SetsCallback
    <2>3. OneHasIt /\ Configuring /\ Ordered /\ UNCHANGED driver
      BY <1>2, <2>1, <2>2 DEF Calm, BusStep
    <2> USE <2>3
    <2>4. CASE \/ Configure \/ CreateTask \/ TerminateTask \/ OpenFile \/ Configured
               \/ SpiDriver!SetUpFails
      BY <2>4, ConfigureCalm
    <2>5. CASE Destroy \/ WakeTask \/ JoinTask
      BY <2>5, DestroyCalm
    <2>6. CASE (\E D \in Kinds : Starts(D)) \/ Send \/ EndsInCaller
      BY <2>6, CallCalm
    <2>7. CASE ThreadStep
      <3>1. CASE Takes \/ LeaveOnTimeout
        BY <3>1, TakesCalm
      <3>2. ASSUME NEW d \in Directions, Walks(d) PROVE OneHasIt' /\ Configuring' /\ Ordered'
        BY <3>2, WalksCalm
      <3>3. CASE EndsInThread \/ StoresRead \/ CopiesStatus
        BY <3>3, WorkerEndsCalm
      <3> QED BY <2>7, <3>1, <3>2, <3>3 DEF ThreadStep
    <2>8. CASE SetsCallback
      BY <2>8, CalmStays DEF SetsCallback, busVars
    <2> QED BY <1>2, <2>4, <2>5, <2>6, <2>7, <2>8 DEF BusStep
  <1> QED BY <1>1, <1>2, StepCases

LEMMA CalmInit == Init => Calm
  <1> SUFFICES ASSUME Init PROVE OneHasIt /\ Configuring /\ Ordered
    BY DEF Calm
  <1>1. BusInit
    BY IicHasBus DEF Init, IicDriver!Init
  <1>2. Last = 0 /\ Quiet /\ Nothing /\ ~Asynchronous
    BY <1>1 DEF BusInit, Last, Quiet, Nothing, QueueIs, WorkerAway, NoWorker, Asynchronous
  <1>3. Configuring
    BY <1>1, <1>2 DEF BusInit, Configuring, NoWorker, Ending
  <1>4. Ordered
    BY <1>1, <1>2 DEF BusInit, Ordered, OwnBundles
  <1> QED BY <1>2, <1>3, <1>4 DEF OneHasIt

\* The invariant: while nobody disturbs the driver, one has the transfer.
THEOREM BusesInvariant == Spec => []BusInv
  <1>1. Init => BusInv
    BY BusInitTypes, CalmInit DEF BusInv
  <1>2. BusInv /\ [Next]_allVars => BusInv'
    BY TypesNext, CalmNext DEF BusInv
  <1> QED BY <1>1, <1>2, PTL DEF Spec

-----------------------------------------------------------------------------
(***************************************************************************)
(* What follows                                                            *)
(***************************************************************************)
LEMMA TypesAreTypes == Types => TypeOK
  <1> SUFFICES ASSUME Types PROVE TypeOK
    OBVIOUS
  <1>1. worker \in Workers
    BY DEF Types
  <1>2. started \in Seq(SUBSET Directions) /\ Len(started) <= MaxTransfers
    <2>1. \A i \in 1 .. Len(started) : started[i] \in SUBSET Directions
      <3> SUFFICES ASSUME NEW i \in 1 .. Len(started) PROVE started[i] \in SUBSET Directions
        OBVIOUS
      <3>1. started[i] \in Kinds
        BY DEF Types, StartTypes
      <3> QED BY <3>1, StartsHaveKinds
    <2> QED BY <2>1 DEF Types, StartTypes, Last
  <1>3. \A i \in DOMAIN ended : ended[i].bundle \in 0 .. MaxTransfers
    <2> SUFFICES ASSUME NEW i \in DOMAIN ended PROVE ended[i].bundle \in 0 .. MaxTransfers
      OBVIOUS
    <2>1. ended[i] \in Ends
      BY DEF Types, EndTypes
    <2> QED BY <2>1 DEF Ends
  <1>4. BusTypeOK
    BY <1>1, <1>2, <1>3
    DEF Types, MemberTypes, FlagTypes, QueueTypes, Workers, WorkerPlaces, BusTypeOK
  <1> QED BY <1>4, IicHasBus DEF TypeOK, IicDriver!TypeOK, Types, IicTypes

\* Every variable of the bus drivers has its type, however often configure is
\* called and whatever the size of the queue.
THEOREM BusesTypes == Spec => []TypeOK
  BY BusesInvariant, TypesAreTypes, PTL DEF BusInv

\* What the properties say is the same for both drivers.
LEMMA SameProperties ==
  /\ IicDriver!OneAtATime = OneAtATime /\ SpiDriver!OneAtATime = OneAtATime
  /\ IicDriver!EndedIsEnded = EndedIsEnded /\ SpiDriver!EndedIsEnded = EndedIsEnded
  /\ IicDriver!OwnBundles = OwnBundles /\ SpiDriver!OwnBundles = OwnBundles
  <1>1. IicDriver!Pending = Pending /\ SpiDriver!Pending = Pending
    BY DEF IicDriver!Pending, SpiDriver!Pending, Pending, IicDriver!Dummy, SpiDriver!Dummy, Dummy
  <1>2. IicDriver!OneAtATime = OneAtATime /\ SpiDriver!OneAtATime = OneAtATime
    BY <1>1 DEF IicDriver!OneAtATime, SpiDriver!OneAtATime, OneAtATime
  <1>3. IicDriver!EndedIsEnded = EndedIsEnded /\ SpiDriver!EndedIsEnded = EndedIsEnded
    BY <1>1
    DEF IicDriver!EndedIsEnded, SpiDriver!EndedIsEnded, EndedIsEnded, IicDriver!NoWorker,
        SpiDriver!NoWorker, NoWorker, IicDriver!Dummy, SpiDriver!Dummy, Dummy, IicDriver!Directions,
        SpiDriver!Directions, Directions
  <1>4. IicDriver!OwnBundles = OwnBundles /\ SpiDriver!OwnBundles = OwnBundles
    BY DEF IicDriver!OwnBundles, SpiDriver!OwnBundles, OwnBundles
  <1> QED BY <1>2, <1>3, <1>4

LEMMA PendingIsLast ==
  ASSUME Types, OneHasIt, Configuring
  PROVE  OneAtATime /\ EndedIsEnded
  <1> DEFINE waiting == {queue[i] : i \in DOMAIN queue} \ {Dummy}
             working == IF worker.at \in {"test", "transfer"} THEN {worker.bundle} ELSE {}
             called == IF call # "idle" THEN {Last} ELSE {}
  <1>1. Pending \subseteq called \cup waiting \cup working /\ Pending \cap Finished = {}
    BY DEF Pending, Finished, Last
  <1>2. QueueIs(<<>>) => waiting = {}
    <2>1. DOMAIN <<>> = {} /\ Append(<<>>, Dummy) = <<Dummy>>
      BY DEF Dummy
    <2> QED BY <2>1 DEF QueueIs
  <1>3. QueueIs(<<Last>>) => waiting \subseteq {Last}
    <2>1. Last \in Nat /\ Dummy \in Nat
      BY DEF Types, StartTypes, Last, Dummy
    <2>2. /\ Len(Append(<<Last>>, Dummy)) = 2 /\ Append(<<Last>>, Dummy)[1] = Last
          /\ Append(<<Last>>, Dummy)[2] = Dummy /\ DOMAIN Append(<<Last>>, Dummy) = 1 .. 2
      <3>1. <<Last>> \in Seq(Nat) /\ Len(<<Last>>) = 1 /\ <<Last>>[1] = Last
        BY <2>1
      <3> QED BY <2>1, <3>1, AppendProperties
    <2>3. DOMAIN <<Last>> = 1 .. 1 /\ <<Last>>[1] = Last
      BY <2>1
    <2> QED BY <2>2, <2>3 DEF QueueIs
  <1>4. WorkerAway => working \subseteq Finished /\ worker.at # "transfer"
    BY DEF WorkerAway, LookingBack
  <1>5. Nothing => Pending = {}
    BY <1>1, <1>2, <1>4 DEF Nothing
  <1>6. Left => Pending = {}
    BY <1>1, <1>2 DEF Left
  <1>7. Calling => Pending \subseteq {Last}
    <2>1. Calling => waiting = {}
      BY <1>2 DEF Calling, QueueIs
    <2> QED BY <1>1, <1>4, <2>1 DEF Calling
  <1>8. Queued => Pending \subseteq {Last}
    BY <1>1, <1>3, <1>4 DEF Queued
  <1>9. Working => Pending \subseteq {Last}
    BY <1>1, <1>2 DEF Working
  <1>10. \A m, n \in Pending : m = n
    BY <1>5, <1>6, <1>7, <1>8, <1>9 DEF OneHasIt
  <1>11. ASSUME call = "transfer" PROVE worker.at \notin {"test", "transfer"}
    <2>1. Calling
      BY <1>11 DEF OneHasIt, Nothing, Queued, Working, Left
    <2>2. ASSUME worker.at = "test" PROVE FALSE
      <3>1. driver = "iic" /\ m_status["write"] # "running" /\ m_is_async["read"]
        BY <2>1, <2>2 DEF Calling, WorkerAway, LookingBack
      <3>2. started[Last] \in {{"read"}, {"write"}}
        BY <2>1, <3>1, LastStarted DEF Calling, Kinds
      <3>3. started[Last] = {"read"}
        BY <2>1, <3>1, <3>2 DEF Calling, Running, Directions
      <3>4. ~Async({"read"})
        BY <1>11, <2>1, <3>3 DEF Calling
      <3> QED BY <3>1, <3>4 DEF Async
    <2> QED BY <1>4, <2>1, <2>2 DEF Calling
  <1>12. Quiet => Pending = {}
    BY <1>5, <1>6, BusyIsNotQuiet DEF OneHasIt
  <1>13. ASSUME conf = "over" PROVE worker = NoWorker /\ Pending = {}
    <2>1. worker = NoWorker /\ worker.at = "none" /\ ~thread /\ call = "idle"
      BY <1>13 DEF Configuring
    <2> QED BY <2>1 DEF Pending
  <1> QED BY <1>10, <1>11, <1>12, <1>13 DEF OneAtATime, EndedIsEnded, Quiet

LEMMA InvariantTells ==
  BusInv => BusIsExclusive /\ EndIsTold /\ (QUEUE_SIZE > 0 => BundlesMatch)
  <1> SUFFICES ASSUME BusInv
               PROVE  BusIsExclusive /\ EndIsTold /\ (QUEUE_SIZE > 0 => BundlesMatch)
    OBVIOUS
  <1> DEFINE Sound == configures <= 1 /\ ~overtook =>
                        OneAtATime /\ EndedIsEnded /\ (QUEUE_SIZE > 0 => OwnBundles)
  <1>1. Sound
    BY PendingIsLast DEF BusInv, Calm, Ordered
  <1>2. CASE driver = "iic"
    <2>1. /\ BusIsExclusive = (configures <= 1 /\ ~overtook => OneAtATime)
          /\ EndIsTold = (configures <= 1 /\ ~overtook => EndedIsEnded)
          /\ BundlesMatch = (configures <= 1 /\ ~overtook => OwnBundles)
      BY <1>2, SameProperties
      DEF BusIsExclusive, EndIsTold, BundlesMatch, IicDriver!BusIsExclusive, IicDriver!EndIsTold,
          IicDriver!BundlesMatch, IicDriver!Undisturbed
    <2> QED BY <1>1, <2>1
  <1>3. CASE driver = "spi"
    <2>1. /\ BusIsExclusive = (configures <= 1 => OneAtATime)
          /\ EndIsTold = (configures <= 1 => EndedIsEnded)
          /\ BundlesMatch = (configures <= 1 => OwnBundles)
      BY <1>3, SameProperties
      DEF BusIsExclusive, EndIsTold, BundlesMatch, SpiDriver!BusIsExclusive, SpiDriver!EndIsTold,
          SpiDriver!BundlesMatch, SpiDriver!Undisturbed
    <2>2. ~overtook
      BY <1>3 DEF BusInv, Types, IicTypes
    <2> QED BY <1>1, <2>1, <2>2
  <1> QED BY <1>2, <1>3 DEF BusInv, Types, MemberTypes

\* A blocking transfer and the worker never use the bus together, and one
\* transfer at most has anything to do with it: the busy tests of read, write
\* and transfer (iic.cpp, spi.cpp) look at both statuses.  For a queue of any
\* size, under the conditions of the property.
THEOREM BusIsAlwaysExclusive == Spec => []BusIsExclusive
  BY BusesInvariant, InvariantTells, PTL

\* A caller that sees no direction running, and one that has destroyed the
\* object, may reuse the buffers: nobody has a transfer left to make.
THEOREM EndIsAlwaysTold == Spec => []EndIsTold
  BY BusesInvariant, InvariantTells, PTL

\* Every transfer ends once, in order and with its own bundle, if the queue has
\* room for one: IIC_QUEUE_SIZE and SPI_QUEUE_SIZE are 1 unless they are
\* redefined.  With 0 every asynchronous transfer is called off.
THEOREM BundlesAlwaysMatch ==
  ASSUME QUEUE_SIZE > 0
  PROVE  Spec => []BundlesMatch
  <1>1. BusInv => BundlesMatch
    BY InvariantTells
  <1> QED BY <1>1, BusesInvariant, PTL
=============================================================================
