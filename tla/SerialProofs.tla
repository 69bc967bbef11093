------------------------------ MODULE SerialProofs ------------------------------
(***************************************************************************)
(* The safety of the two serial drivers, for queues of any size, any       *)
(* number of bytes, transfers and calls, and callbacks that start          *)
(* transfers of any channels.                                              *)
(*                                                                         *)
(* The members have no lock.  What keeps the threads apart is the status:  *)
(* while it says "running", exactly one of a caller, the queue and the     *)
(* channel's thread has the transfer (Sole), and only that one ends it;    *)
(* that is so until configure is called a second time.  LifeInv and        *)
(* SettledInv, about the threads and configure, hold always.               *)
(***************************************************************************)
EXTENDS MCSerial, SequenceTheorems, TLAPS

-----------------------------------------------------------------------------
(***************************************************************************)
(* The inductive invariant                                                 *)
(***************************************************************************)
\* Where configure or the destructor is when it has a channel's thread end.
Ending(c) == IF c = "rx" THEN {"wakeRx", "joinRx"} ELSE {"wakeTx", "joinTx"}

\* The channels whose task the destructor has been through.
GonePast(c) ==
  IF c = "rx" THEN {"over"} ELSE {"rx", "wakeRx", "joinRx", "over"}

\* Who runs, and who cannot, at each place of configure and the destructor.
LifeInv ==
  /\ \A c \in Channels : thread[c] <=> worker[c].at # "none"
  /\ call["callback"] # Idle => worker["rx"].at = "callback"
  /\ conf # "idle" => call["main"] = Idle
  /\ \A c \in Channels :
       conf \in Ending(c) =>
         thread[c] /\ m_terminate[c] /\ (~m_is_async[c] \/ configured = "destroyed")
  /\ \A c \in Channels : thread[c] /\ m_terminate[c] => conf \in Ending(c)
  /\ configured = "destroyed" => conf \notin {"idle", "open"}
  /\ conf = "over" => configured = "destroyed"
  /\ \A c \in Channels : configured = "destroyed" /\ conf \in GonePast(c) => ~thread[c]

\* configure has been through the task of a channel, and nothing came after it.
Settled(c) ==
  /\ configured # "destroyed"
  /\ \/ conf = "open" \/ (conf = "idle" /\ configured = "ok")
     \/ c = "rx" /\ conf \in {"tx", "wakeTx", "joinTx"}

\* From there on the channel has a thread if it needs one, and a bundle on its
\* way to a queue is on its way to such a channel.
SettledInv ==
  /\ \A c \in Channels : Settled(c) => thread[c] = m_is_async[c]
  /\ Settled("rx") => \A k \in Callers : call[k].at = "send" => m_is_async[call[k].channel]
  /\ \A k \in Callers : call[k].at # "idle" => started[call[k].channel] # 0

First == configures <= 1

\* Until the first configure returns nothing has happened yet.
FreshInv ==
  /\ configured = "never" =>
       /\ First /\ m_linux_handle = "closed" /\ conf \in {"idle", "rx", "tx", "open"}
       /\ conf = "idle" <=> configures = 0
       /\ call = [k \in Callers |-> Idle]
       /\ \A c \in Channels :
            /\ queue[c] = <<>> /\ ended[c] = <<>> /\ started[c] = 0 /\ ~m_terminate[c]
            /\ worker[c].at \in {"none", "get"}
            /\ conf \in {"idle", c} => ~thread[c]
       /\ conf = "rx" => ~thread["tx"]
  /\ First /\ conf \notin {"idle", "over"} => configured \in {"never", "destroyed"}
  /\ configures = 0 /\ conf = "idle" => configured = "never"

-----------------------------------------------------------------------------
\* The three that can have a transfer of a channel.
Calls(k, c) == call[k].at # "idle" /\ call[k].channel = c
Called(c) == \E k \in Callers : Calls(k, c)
Queued(c) == \E i \in DOMAIN queue[c] : queue[c][i] # Dummy
Working(c) == worker[c].at = "transfer"
InHand(c) == Called(c) \/ Queued(c) \/ Working(c)

\* One of them has it, and it is the last transfer that was started.
Sole(c) ==
  /\ \A j, k \in Callers : Calls(j, c) /\ Calls(k, c) => j = k
  /\ ~(Called(c) /\ Queued(c)) /\ ~(Called(c) /\ Working(c)) /\ ~(Queued(c) /\ Working(c))
  /\ \A i, j \in DOMAIN queue[c] : queue[c][i] # Dummy /\ queue[c][j] # Dummy => i = j
  /\ \A i \in DOMAIN queue[c] : queue[c][i] \in {Dummy, started[c]}
  /\ Working(c) => worker[c].transfer = started[c] /\ worker[c].transfer # Dummy
  /\ worker[c].transfer <= started[c]
  /\ InHand(c) => m_status[c] = "running" /\ m_bytes[c] = 0

\* What the channels are like as long as configure is not called again.
ModeInv(c) ==
  /\ thread[c] => m_is_async[c]
  /\ \A i \in DOMAIN queue[c] : queue[c][i] = Dummy => m_terminate[c]
  /\ m_terminate[c] => configured = "destroyed"
  /\ \A k \in Callers : Calls(k, c) => (call[k].at = "send" <=> m_is_async[c])

SoleInv == First => \A c \in Channels : Sole(c) /\ ModeInv(c)

\* A transfer of the channel that is started is not called off or dropped.
Live(c) == ~m_is_async[c] \/ (~m_terminate[c] /\ UART_QUEUE_SIZE > 0)

\* The transfers that ended are those started but for the one in hand.
Ordered(c) ==
  /\ \A i \in DOMAIN ended[c] : ended[c][i].transfer = i
  /\ Working(c) => started[c] = Len(ended[c]) + 1 /\ UART_QUEUE_SIZE > 0
  /\ Live(c) => started[c] = Len(ended[c]) + IF InHand(c) THEN 1 ELSE 0
  /\ ended[c] # <<>> => ~m_is_async[c] \/ UART_QUEUE_SIZE > 0

OrderInv == First => \A c \in Channels : Ordered(c)

\* The thread is done with a transfer, and no other was started.
Told(c) ==
  worker[c].at \in {"published", "invoke", "callback"} /\ worker[c].transfer = started[c]

\* As long as that is so nobody changes the count the callback is told.
ToldRight(c) ==
  /\ Told(c) => ~InHand(c)
  /\ Told(c) /\ worker[c].at = "published" => m_bytes[c] = worker[c].count
  /\ (Told(c) /\ worker[c].at # "published" /\ (c = "rx" \/ driver = "uart"))
       => worker[c].size = worker[c].count

\* The reads that the read callback starts itself are not started before it runs.
ChainedTold ==
  /\ worker["rx"].at \in {"published", "invoke"} =>
       Told("rx") /\ worker["rx"].transfer # Dummy
  /\ worker["rx"].at = "callback" => worker["rx"].size = worker["rx"].count

ToldInv ==
  First => (\A c \in Channels : ToldRight(c)) /\ ("rx" \in Chained => ChainedTold)

SerialInv ==
  /\ TypeOK /\ driver \in {"uart", "file"}
  /\ LifeInv /\ SettledInv /\ RunningIsPending /\ FreshInv
  /\ SoleInv /\ OrderInv /\ BytesOfLastTransfer /\ ToldInv

-----------------------------------------------------------------------------
(***************************************************************************)
(* What a step of either driver does                                       *)
(***************************************************************************)
Results == [count : ByteCounts, status : {"ok", "timedOut", "failed"}]

\* A transfer ends: the count is the one reported, if it was 0 before.
EndsWith(c, transfer, outcome) ==
  /\ \E bytes \in ByteCounts :
       m_bytes' = [m_bytes EXCEPT ![c] = bytes] /\ (m_bytes[c] = 0 => bytes = outcome.count)
  /\ m_status' = [m_status EXCEPT ![c] = outcome.status]
  /\ ended' = [ended EXCEPT ![c] =
       Append(@, [transfer |-> transfer, status |-> outcome.status, count |-> outcome.count])]

EndsInCaller(k) ==
  LET c == call[k].channel IN
  /\ call[k].at = "transfer"
  /\ \E outcome \in Results : EndsWith(c, started[c], outcome)
  /\ call' = [call EXCEPT ![k] = Idle]
  /\ UNCHANGED <<m_linux_handle, m_is_async, m_func, task, worker, conf, configured,
                 started, bounds>>

EndsInThread(c) ==
  /\ worker[c].at = "transfer"
  /\ \E outcome \in Results :
       /\ EndsWith(c, worker[c].transfer, outcome)
       /\ worker' = [worker EXCEPT ![c].at = "published", ![c].count = outcome.count]
  /\ UNCHANGED <<m_linux_handle, m_is_async, m_func, task, call, conf, configured,
                 started, bounds>>

Takes(c) ==
  /\ worker[c].at = "get" /\ queue[c] # <<>>
  /\ queue' = [queue EXCEPT ![c] = Tail(@)]
  /\ IF m_terminate[c]
       THEN worker' = [worker EXCEPT ![c].at = "exited"] /\ UNCHANGED m_bytes
       ELSE /\ worker' = [worker EXCEPT ![c] =
                 [at |-> "transfer", transfer |-> Head(queue[c]), count |-> 0, size |-> 0]]
            /\ m_bytes' = m_bytes \/ m_bytes' = [m_bytes EXCEPT ![c] = 0]
  /\ UNCHANGED <<m_linux_handle, m_is_async, m_status, m_func, thread, m_terminate,
                 call, conf, configured, history, bounds>>

Tests(c) ==
  /\ worker[c].at = "published"
  /\ \/ worker' = [worker EXCEPT ![c].at = "get"]
     \/ \E size \in ByteCounts :
          /\ worker' = [worker EXCEPT ![c].at = "invoke", ![c].size = size]
          /\ (c = "rx" \/ driver = "uart") => size = m_bytes[c]
  /\ UNCHANGED <<members, task, call, conf, configured, history, bounds>>

OwnerStep(c) == CreateTask(c) \/ TerminateTask(c) \/ WakeTask(c) \/ JoinTask(c) \/ SetCallback(c)

ThreadStep(c) ==
  \/ Takes(c) \/ LeaveOnTimeout(c) \/ EndsInThread(c) \/ Tests(c)
  \/ InvokeCallback(c) \/ ReturnFromCallback(c)

SerialStep ==
  /\ UNCHANGED driver
  /\ \/ Configure \/ Destroy \/ OpenFile
     \/ \E c \in Channels : OwnerStep(c) \/ ThreadStep(c)
     \/ \E k \in Callers, c \in Channels : Start(k, c)
     \/ \E k \in Callers : Send(k) \/ EndsInCaller(k)

LEMMA ByteCountsHaveZero == 0 \in ByteCounts
  BY UartAssumption DEF ByteCounts

LEMMA OutcomesAreResults ==
  ASSUME NEW c \in Channels, NEW outcome \in Outcomes(c)
  PROVE  outcome \in Results /\ (outcome.status # "ok" => outcome.count = 0)
  <1>1. CASE c = "rx"
    BY <1>1, UartAssumption DEF Outcomes, Results, ByteCounts
  <1>2. CASE c = "tx"
    BY <1>2, UartAssumption DEF Outcomes, Results, ByteCounts
  <1> QED BY <1>1, <1>2 DEF Channels

LEMMA PublishEnds ==
  ASSUME TypeOK, NEW c \in Channels, NEW transfer, NEW outcome \in Outcomes(c),
         Publish(c, transfer, outcome) \/ FilePublish(c, transfer, outcome)
  PROVE  outcome \in Results /\ EndsWith(c, transfer, outcome)
  <1>1. outcome \in Results /\ (outcome.status # "ok" => outcome.count = 0)
    BY OutcomesAreResults
  <1>2. outcome.count \in ByteCounts /\ m_bytes[c] \in ByteCounts
    BY <1>1 DEF Results, TypeOK, MembersTypeOK
  <1>3. CASE Publish(c, transfer, outcome)
    BY <1>1, <1>2, <1>3, ByteCountsHaveZero DEF Publish, EndsWith
  <1>4. CASE c = "rx" /\ FileReadBlocking(transfer, outcome)
    <2>1. m_bytes = [m_bytes EXCEPT ![c] = m_bytes[c]]
      BY DEF TypeOK, MembersTypeOK
    <2> QED BY <1>1, <1>2, <1>4, <2>1 DEF FileReadBlocking, EndsWith
  <1> QED BY <1>3, <1>4 DEF FilePublish, FileWriteBlocking, Channels

LEMMA StepCases ==
  ASSUME TypeOK, SerialNext
  PROVE  SerialStep
  <1> USE DEF SerialStep, OwnerStep, ThreadStep
  <1>1. ASSUME NEW k \in Callers, Send(k) \/ TransferInCaller(k) \/ FileTransferInCaller(k)
        PROVE  Send(k) \/ EndsInCaller(k)
    <2>1. call[k].channel \in Channels
      BY DEF TypeOK, PlacesTypeOK
    <2> QED BY <1>1, <2>1, PublishEnds DEF TransferInCaller, FileTransferInCaller, EndsInCaller
  <1>2. ASSUME NEW c \in Channels, WorkerStep(c) \/ FileWorkerStep(c), UNCHANGED driver,
               driver = "uart" => WorkerStep(c)
        PROVE  ThreadStep(c)
    <2>1. CASE TakeBundle(c) \/ FileTakeBundle(c)
      BY <2>1 DEF TakeBundle, FileTakeBundle, Takes, members
    <2>2. CASE Transfer(c) \/ FileTransfer(c)
      BY <2>2, PublishEnds DEF Transfer, FileTransfer, EndsInThread
    <2>3. CASE TestCallback(c)
      BY <2>3 DEF TestCallback, Tests, TypeOK, MembersTypeOK, PlacesTypeOK
    <2>4. CASE FileTestCallback(c) /\ driver # "uart"
      <3>1. m_bytes["rx"] \in ByteCounts
        BY DEF TypeOK, MembersTypeOK, Channels
      <3>2. CASE m_func[c] # "null"
        BY <2>4, <3>1, <3>2 DEF FileTestCallback, Tests, TypeOK, MembersTypeOK, PlacesTypeOK
      <3>3. CASE m_func[c] = "null"
        BY <2>4, <3>3 DEF FileTestCallback, Tests, TypeOK, MembersTypeOK, PlacesTypeOK
      <3> QED BY <3>2, <3>3
    <2> QED BY <1>2, <2>1, <2>2, <2>3, <2>4 DEF WorkerStep, FileWorkerStep
  <1>3. CASE UartRuns
    BY <1>1, <1>2, <1>3 DEF UartRuns, Next, ConfigureStep, CallStep
  <1>4. CASE FileRuns
    BY <1>1, <1>2, <1>4
    DEF FileRuns, FileNext, FileConfigure, FileDestroy, FileRead, FileWrite, FileCallStep,
        FileSetCallback, ConfigureStep, Channels
  <1> QED BY <1>3, <1>4 DEF SerialNext

-----------------------------------------------------------------------------
(* Types                                                                    *)

LEMMA SerialInitType == SerialInit => TypeOK
  BY UartAssumption, ByteCountsHaveZero
  DEF SerialInit, Init, TypeOK, MembersTypeOK, TaskTypeOK, PlacesTypeOK, HistoryTypeOK,
      Callers, Channels, Statuses, NoWorker, Idle, Transfers, Dummy

LEMMA TypesHaveThese ==
  /\ Dummy \in Transfers /\ 0 \in ByteCounts
  /\ Idle \in [at : {"idle", "send", "transfer"}, channel : Channels]
  /\ NoWorker.at = "none" /\ NoWorker.transfer = Dummy /\ NoWorker.count = 0 /\ NoWorker.size = 0
  /\ NoWorker = [at |-> "none", transfer |-> Dummy, count |-> 0, size |-> 0]
  BY UartAssumption, ByteCountsHaveZero DEF Dummy, Transfers, Idle, Channels, NoWorker

LEMMA EndedIsTyped ==
  ASSUME TypeOK, NEW c \in Channels, NEW transfer \in Transfers, NEW outcome \in Results,
         EndsWith(c, transfer, outcome)
  PROVE  ended' \in [Channels -> Seq(Ends)]
  <1> DEFINE end == [transfer |-> transfer, status |-> outcome.status, count |-> outcome.count]
  <1>1. end \in Ends
    BY DEF Ends, Results
  <1>2. Append(ended[c], end) \in Seq(Ends)
    BY <1>1, AppendProperties DEF TypeOK, HistoryTypeOK
  <1> QED BY <1>2 DEF EndsWith, TypeOK, HistoryTypeOK

LEMMA QueueGrows ==
  ASSUME TypeOK, NEW c \in Channels, NEW n \in Transfers, Len(queue[c]) < UART_QUEUE_SIZE,
         queue' = [queue EXCEPT ![c] = Append(@, n)], UNCHANGED <<thread, m_terminate>>
  PROVE  TaskTypeOK'
  <1>1. /\ Append(queue[c], n) \in Seq(Transfers)
        /\ Len(Append(queue[c], n)) = Len(queue[c]) + 1 /\ Len(queue[c]) \in Nat
    BY AppendProperties DEF TypeOK, TaskTypeOK
  <1>2. Len(Append(queue[c], n)) <= UART_QUEUE_SIZE
    BY <1>1, UartAssumption
  <1> QED BY <1>1, <1>2 DEF TypeOK, TaskTypeOK

LEMMA TypeNext ==
  ASSUME TypeOK, SerialStep
  PROVE  TypeOK'
  <1>1. CASE Configure
    <2>1. MembersTypeOK'
      BY <1>1 DEF Configure, TypeOK, MembersTypeOK, members, Statuses
    <2>2. TaskTypeOK'
      BY <1>1 DEF Configure, TypeOK, TaskTypeOK, task
    <2>3. PlacesTypeOK'
      BY <1>1 DEF Configure, TypeOK, PlacesTypeOK
    <2>4. HistoryTypeOK'
      BY <1>1, UartAssumption DEF Configure, TypeOK, HistoryTypeOK, history, bounds
    <2> QED BY <2>1, <2>2, <2>3, <2>4 DEF TypeOK
  <1>2. CASE Destroy
    <2>1. MembersTypeOK'
      BY <1>2 DEF Destroy, TypeOK, MembersTypeOK, members
    <2>2. TaskTypeOK'
      BY <1>2 DEF Destroy, TypeOK, TaskTypeOK, task
    <2>3. PlacesTypeOK'
      BY <1>2 DEF Destroy, TypeOK, PlacesTypeOK
    <2>4. HistoryTypeOK'
      BY <1>2 DEF Destroy, TypeOK, HistoryTypeOK, history, bounds
    <2> QED BY <2>1, <2>2, <2>3, <2>4 DEF TypeOK
  <1>3. CASE OpenFile
    <2>1. MembersTypeOK'
      BY <1>3 DEF OpenFile, TypeOK, MembersTypeOK, members, Statuses
    <2>2. TaskTypeOK'
      BY <1>3 DEF OpenFile, TypeOK, TaskTypeOK, task
    <2>3. PlacesTypeOK'
      BY <1>3 DEF OpenFile, TypeOK, PlacesTypeOK
    <2>4. HistoryTypeOK'
      BY <1>3 DEF OpenFile, TypeOK, HistoryTypeOK, history, bounds
    <2> QED BY <2>1, <2>2, <2>3, <2>4 DEF TypeOK
  <1>4. ASSUME NEW c \in Channels, CreateTask(c) PROVE TypeOK'
    <2>1. MembersTypeOK'
      BY <1>4 DEF CreateTask, TypeOK, MembersTypeOK, members
    <2>2. TaskTypeOK'
      BY <1>4 DEF CreateTask, TypeOK, TaskTypeOK, task
    <2>3. PlacesTypeOK'
      BY <1>4 DEF CreateTask, TypeOK, PlacesTypeOK, AfterTask, Channels
    <2>4. HistoryTypeOK'
      BY <1>4 DEF CreateTask, TypeOK, HistoryTypeOK, history, bounds
    <2> QED BY <2>1, <2>2, <2>3, <2>4 DEF TypeOK
  <1>5. ASSUME NEW c \in Channels, TerminateTask(c) PROVE TypeOK'
    <2>1. MembersTypeOK'
      BY <1>5 DEF TerminateTask, TypeOK, MembersTypeOK, members
    <2>2. TaskTypeOK'
      BY <1>5 DEF TerminateTask, TypeOK, TaskTypeOK, task
    <2>3. PlacesTypeOK'
      BY <1>5 DEF TerminateTask, TypeOK, PlacesTypeOK, AfterTask, Channels
    <2>4. HistoryTypeOK'
      BY <1>5 DEF TerminateTask, TypeOK, HistoryTypeOK, history, bounds
    <2> QED BY <2>1, <2>2, <2>3, <2>4 DEF TypeOK
  <1>6. ASSUME NEW c \in Channels, WakeTask(c) PROVE TypeOK'
    <2>1. MembersTypeOK'
      BY <1>6 DEF WakeTask, TypeOK, MembersTypeOK, members
    <2>2. TaskTypeOK'
      <3>1. CASE Len(queue[c]) < UART_QUEUE_SIZE
        BY <1>6, <3>1, TypesHaveThese, QueueGrows DEF WakeTask
      <3>2. CASE ~(Len(queue[c]) < UART_QUEUE_SIZE)
        BY <1>6, <3>2 DEF WakeTask, TypeOK, TaskTypeOK
      <3> QED BY <3>1, <3>2
    <2>3. PlacesTypeOK'
      BY <1>6 DEF WakeTask, TypeOK, PlacesTypeOK
    <2>4. HistoryTypeOK'
      BY <1>6 DEF WakeTask, TypeOK, HistoryTypeOK, history, bounds
    <2> QED BY <2>1, <2>2, <2>3, <2>4 DEF TypeOK
  <1>7. ASSUME NEW c \in Channels, JoinTask(c) PROVE TypeOK'
    <2>1. MembersTypeOK'
      BY <1>7 DEF JoinTask, TypeOK, MembersTypeOK, members
    <2>2. TaskTypeOK'
      BY <1>7 DEF JoinTask, TypeOK, TaskTypeOK, task
    <2>3. PlacesTypeOK'
      BY <1>7, TypesHaveThese DEF JoinTask, TypeOK, PlacesTypeOK, AfterTask, Channels
    <2>4. HistoryTypeOK'
      BY <1>7 DEF JoinTask, TypeOK, HistoryTypeOK, history, bounds
    <2> QED BY <2>1, <2>2, <2>3, <2>4 DEF TypeOK
  <1>8. ASSUME NEW c \in Channels, SetCallback(c) PROVE TypeOK'
    <2>1. MembersTypeOK'
      BY <1>8 DEF SetCallback, TypeOK, MembersTypeOK, members
    <2>2. TaskTypeOK'
      BY <1>8 DEF SetCallback, TypeOK, TaskTypeOK, task
    <2>3. PlacesTypeOK'
      BY <1>8 DEF SetCallback, TypeOK, PlacesTypeOK
    <2>4. HistoryTypeOK'
      BY <1>8, UartAssumption DEF SetCallback, TypeOK, HistoryTypeOK, history, bounds
    <2> QED BY <2>1, <2>2, <2>3, <2>4 DEF TypeOK
  <1>9. ASSUME NEW c \in Channels, Takes(c) PROVE TypeOK'
    <2>1. MembersTypeOK'
      BY <1>9, TypesHaveThese DEF Takes, TypeOK, MembersTypeOK
    <2>2. TaskTypeOK'
      <3>1. Tail(queue[c]) \in Seq(Transfers) /\ Len(Tail(queue[c])) = Len(queue[c]) - 1
        BY <1>9, HeadTailProperties DEF Takes, TypeOK, TaskTypeOK
      <3> QED BY <1>9, <3>1, UartAssumption DEF Takes, TypeOK, TaskTypeOK
    <2>3. PlacesTypeOK'
      <3>1. Head(queue[c]) \in Transfers
        BY <1>9, HeadTailProperties DEF Takes, TypeOK, TaskTypeOK
      <3>2. CASE m_terminate[c]
        BY <1>9, <3>2 DEF Takes, TypeOK, PlacesTypeOK
      <3>3. CASE ~m_terminate[c]
        BY <1>9, <3>1, <3>3, TypesHaveThese DEF Takes, TypeOK, PlacesTypeOK
      <3> QED BY <3>2, <3>3
    <2>4. HistoryTypeOK'
      BY <1>9 DEF Takes, TypeOK, HistoryTypeOK, history, bounds
    <2> QED BY <2>1, <2>2, <2>3, <2>4 DEF TypeOK
  <1>10. ASSUME NEW c \in Channels, LeaveOnTimeout(c) PROVE TypeOK'
    <2>1. MembersTypeOK'
      BY <1>10 DEF LeaveOnTimeout, TypeOK, MembersTypeOK, members
    <2>2. TaskTypeOK'
      BY <1>10 DEF LeaveOnTimeout, TypeOK, TaskTypeOK, task
    <2>3. PlacesTypeOK'
      BY <1>10 DEF LeaveOnTimeout, TypeOK, PlacesTypeOK
    <2>4. HistoryTypeOK'
      BY <1>10 DEF LeaveOnTimeout, TypeOK, HistoryTypeOK, history, bounds
    <2> QED BY <2>1, <2>2, <2>3, <2>4 DEF TypeOK
  <1>11. ASSUME NEW c \in Channels, EndsInThread(c) PROVE TypeOK'
    <2>1. MembersTypeOK'
      BY <1>11 DEF EndsInThread, EndsWith, Results, Statuses, TypeOK, MembersTypeOK
    <2>2. TaskTypeOK'
      BY <1>11 DEF EndsInThread, TypeOK, TaskTypeOK, task
    <2>3. PlacesTypeOK'
      <3>1. PICK count \in ByteCounts :
              worker' = [worker EXCEPT ![c].at = "published", ![c].count = count]
        BY <1>11 DEF EndsInThread, Results
      <3>2. UNCHANGED <<call, conf, configured>>
        BY <1>11 DEF EndsInThread
      <3> DEFINE Workers ==
            [at : {"none", "get", "transfer", "published", "invoke", "callback", "crashed",
                   "exited"},
             transfer : Transfers, count : ByteCounts, size : ByteCounts]
      <3>3. worker \in [Channels -> Workers]
        BY DEF TypeOK, PlacesTypeOK
      <3>4. [worker[c] EXCEPT !.at = "published", !.count = count] \in Workers
        BY <3>3
      <3>5. worker' \in [Channels -> Workers]
        <4>1. worker' =
                [worker EXCEPT ![c] = [worker[c] EXCEPT !.at = "published", !.count = count]]
          BY <3>1, <3>3
        <4> HIDE DEF Workers
        <4> QED BY <3>3, <3>4, <4>1
      <3> QED BY <3>2, <3>5 DEF TypeOK, PlacesTypeOK
    <2>4. HistoryTypeOK'
      <3>1. PICK outcome \in Results : EndsWith(c, worker[c].transfer, outcome)
        BY <1>11 DEF EndsInThread
      <3>2. worker[c].transfer \in Transfers
        BY DEF TypeOK, PlacesTypeOK
      <3>3. ended' \in [Channels -> Seq(Ends)]
        BY <3>1, <3>2, EndedIsTyped
      <3> QED BY <1>11, <3>3 DEF EndsInThread, TypeOK, HistoryTypeOK, bounds
    <2> QED BY <2>1, <2>2, <2>3, <2>4 DEF TypeOK
  <1>12. ASSUME NEW c \in Channels, Tests(c) PROVE TypeOK'
    <2>1. MembersTypeOK'
      BY <1>12 DEF Tests, TypeOK, MembersTypeOK, members
    <2>2. TaskTypeOK'
      BY <1>12 DEF Tests, TypeOK, TaskTypeOK, task
    <2>3. PlacesTypeOK'
      BY <1>12 DEF Tests, TypeOK, PlacesTypeOK
    <2>4. HistoryTypeOK'
      BY <1>12 DEF Tests, TypeOK, HistoryTypeOK, history, bounds
    <2> QED BY <2>1, <2>2, <2>3, <2>4 DEF TypeOK
  <1>13. ASSUME NEW c \in Channels, InvokeCallback(c) PROVE TypeOK'
    <2>1. MembersTypeOK'
      BY <1>13 DEF InvokeCallback, TypeOK, MembersTypeOK, members
    <2>2. TaskTypeOK'
      BY <1>13 DEF InvokeCallback, TypeOK, TaskTypeOK, task
    <2>3. PlacesTypeOK'
      BY <1>13 DEF InvokeCallback, TypeOK, PlacesTypeOK
    <2>4. HistoryTypeOK'
      BY <1>13 DEF InvokeCallback, TypeOK, HistoryTypeOK, history, bounds
    <2> QED BY <2>1, <2>2, <2>3, <2>4 DEF TypeOK
  <1>14. ASSUME NEW c \in Channels, ReturnFromCallback(c) PROVE TypeOK'
    <2>1. MembersTypeOK'
      BY <1>14 DEF ReturnFromCallback, TypeOK, MembersTypeOK, members
    <2>2. TaskTypeOK'
      BY <1>14 DEF ReturnFromCallback, TypeOK, TaskTypeOK, task
    <2>3. PlacesTypeOK'
      BY <1>14 DEF ReturnFromCallback, TypeOK, PlacesTypeOK
    <2>4. HistoryTypeOK'
      BY <1>14 DEF ReturnFromCallback, TypeOK, HistoryTypeOK, history, bounds
    <2> QED BY <2>1, <2>2, <2>3, <2>4 DEF TypeOK
  <1>15. ASSUME NEW k \in Callers, NEW c \in Channels, Start(k, c) PROVE TypeOK'
    <2>1. MembersTypeOK'
      BY <1>15, TypesHaveThese DEF Start, TypeOK, MembersTypeOK, members, Statuses
    <2>2. TaskTypeOK'
      BY <1>15 DEF Start, TypeOK, TaskTypeOK, task
    <2>3. PlacesTypeOK'
      BY <1>15 DEF Start, TypeOK, PlacesTypeOK
    <2>4. HistoryTypeOK'
      BY <1>15, UartAssumption DEF Start, TypeOK, HistoryTypeOK, history, bounds, Transfers
    <2> QED BY <2>1, <2>2, <2>3, <2>4 DEF TypeOK
  <1>16. ASSUME NEW k \in Callers, Send(k) PROVE TypeOK'
    <2>1. MembersTypeOK'
      BY <1>16 DEF Send, TypeOK, MembersTypeOK, members, Statuses
    <2>2. TaskTypeOK'
      <3>1. call[k].channel \in Channels
        BY DEF TypeOK, PlacesTypeOK
      <3>2. started[call[k].channel] \in Transfers
        BY <3>1 DEF TypeOK, HistoryTypeOK
      <3>3. CASE Len(queue[call[k].channel]) < UART_QUEUE_SIZE
        BY <1>16, <3>1, <3>2, <3>3, QueueGrows DEF Send
      <3>4. CASE ~(Len(queue[call[k].channel]) < UART_QUEUE_SIZE)
        BY <1>16, <3>4 DEF Send, TypeOK, TaskTypeOK
      <3> QED BY <3>3, <3>4
    <2>3. PlacesTypeOK'
      BY <1>16, TypesHaveThese DEF Send, TypeOK, PlacesTypeOK
    <2>4. HistoryTypeOK'
      BY <1>16 DEF Send, TypeOK, HistoryTypeOK, history, bounds
    <2> QED BY <2>1, <2>2, <2>3, <2>4 DEF TypeOK
  <1>17. ASSUME NEW k \in Callers, EndsInCaller(k) PROVE TypeOK'
    <2>1. MembersTypeOK'
      <3>1. call[k].channel \in Channels
        BY DEF TypeOK, PlacesTypeOK
      <3> QED BY <1>17, <3>1 DEF EndsInCaller, EndsWith, Results, Statuses, TypeOK, MembersTypeOK
    <2>2. TaskTypeOK'
      BY <1>17 DEF EndsInCaller, TypeOK, TaskTypeOK, task
    <2>3. PlacesTypeOK'
      BY <1>17, TypesHaveThese DEF EndsInCaller, TypeOK, PlacesTypeOK
    <2>4. HistoryTypeOK'
      <3>1. PICK outcome \in Results : EndsWith(call[k].channel, started[call[k].channel], outcome)
        BY <1>17 DEF EndsInCaller
      <3>2. call[k].channel \in Channels /\ started[call[k].channel] \in Transfers
        BY DEF TypeOK, PlacesTypeOK, HistoryTypeOK
      <3>3. ended' \in [Channels -> Seq(Ends)]
        BY <3>1, <3>2, EndedIsTyped
      <3> QED BY <1>17, <3>3 DEF EndsInCaller, TypeOK, HistoryTypeOK, bounds
    <2> QED BY <2>1, <2>2, <2>3, <2>4 DEF TypeOK
  <1> QED BY <1>1, <1>2, <1>3, <1>4, <1>5, <1>6, <1>7, <1>8, <1>9, <1>10, <1>11, <1>12, <1>13, <1>14, <1>15, <1>16, <1>17
           DEF SerialStep, OwnerStep, ThreadStep

-----------------------------------------------------------------------------
(* The threads, configure and the destructor                                *)

LEMMA LifeNext ==
  ASSUME TypeOK, LifeInv, SerialStep
  PROVE  LifeInv'
  <1>1. CASE Configure
    BY <1>1 DEF Free, Idle, Configure, LifeInv, Ending, GonePast, Channels, Callers, TypeOK,
           PlacesTypeOK, TaskTypeOK, MembersTypeOK, members, task
  <1>2. CASE Destroy
    BY <1>2 DEF Free, Idle, Destroy, LifeInv, Ending, GonePast, Channels, Callers, TypeOK,
           PlacesTypeOK, TaskTypeOK, MembersTypeOK, members, task
  <1>3. CASE OpenFile
    BY <1>3 DEF OpenFile, LifeInv, Ending, GonePast, Channels, Callers, TypeOK,
           PlacesTypeOK, TaskTypeOK, MembersTypeOK, members, task
  <1>4. ASSUME NEW c \in Channels, CreateTask(c) PROVE LifeInv'
    BY <1>4 DEF AfterTask, NoWorker, CreateTask, LifeInv, Ending, GonePast, Channels, Callers, TypeOK,
           PlacesTypeOK, TaskTypeOK, MembersTypeOK, members, task
  <1>5. ASSUME NEW c \in Channels, TerminateTask(c) PROVE LifeInv'
    BY <1>5 DEF AfterTask, NoWorker, TerminateTask, LifeInv, Ending, GonePast, Channels, Callers, TypeOK,
           PlacesTypeOK, TaskTypeOK, MembersTypeOK, members, task
  <1>6. ASSUME NEW c \in Channels, WakeTask(c) PROVE LifeInv'
    BY <1>6 DEF WakeTask, LifeInv, Ending, GonePast, Channels, Callers, TypeOK,
           PlacesTypeOK, TaskTypeOK, MembersTypeOK, members, task
  <1>7. ASSUME NEW c \in Channels, JoinTask(c) PROVE LifeInv'
    BY <1>7 DEF AfterTask, NoWorker, JoinTask, LifeInv, Ending, GonePast, Channels, Callers, TypeOK,
           PlacesTypeOK, TaskTypeOK, MembersTypeOK, members, task
  <1>8. ASSUME NEW c \in Channels, SetCallback(c) PROVE LifeInv'
    BY <1>8 DEF SetCallback, LifeInv, Ending, GonePast, Channels, Callers, TypeOK,
           PlacesTypeOK, TaskTypeOK, MembersTypeOK, members, task
  <1>9. ASSUME NEW c \in Channels, Takes(c) PROVE LifeInv'
    BY <1>9 DEF Takes, LifeInv, Ending, GonePast, Channels, Callers, TypeOK,
           PlacesTypeOK, TaskTypeOK, MembersTypeOK, members, task
  <1>10. ASSUME NEW c \in Channels, LeaveOnTimeout(c) PROVE LifeInv'
    BY <1>10 DEF LeaveOnTimeout, LifeInv, Ending, GonePast, Channels, Callers, TypeOK,
           PlacesTypeOK, TaskTypeOK, MembersTypeOK, members, task
  <1>11. ASSUME NEW c \in Channels, EndsInThread(c) PROVE LifeInv'
    <2>1. \A d \in Channels :
            worker'[d].at = IF d = c THEN "published" ELSE worker[d].at
      BY <1>11 DEF EndsInThread, TypeOK, PlacesTypeOK
    <2> QED BY <1>11, <2>1 DEF EndsInThread, LifeInv, task, Channels
  <1>12. ASSUME NEW c \in Channels, Tests(c) PROVE LifeInv'
    BY <1>12 DEF Tests, LifeInv, Ending, GonePast, Channels, Callers, TypeOK,
           PlacesTypeOK, TaskTypeOK, MembersTypeOK, members, task
  <1>13. ASSUME NEW c \in Channels, InvokeCallback(c) PROVE LifeInv'
    BY <1>13 DEF InvokeCallback, LifeInv, Ending, GonePast, Channels, Callers, TypeOK,
           PlacesTypeOK, TaskTypeOK, MembersTypeOK, members, task
  <1>14. ASSUME NEW c \in Channels, ReturnFromCallback(c) PROVE LifeInv'
    BY <1>14 DEF ReturnFromCallback, LifeInv, Ending, GonePast, Channels, Callers, TypeOK,
           PlacesTypeOK, TaskTypeOK, MembersTypeOK, members, task
  <1>15. ASSUME NEW k \in Callers, NEW c \in Channels, Start(k, c) PROVE LifeInv'
    BY <1>15 DEF Free, Idle, Start, LifeInv, Ending, GonePast, Channels, Callers, TypeOK,
           PlacesTypeOK, TaskTypeOK, MembersTypeOK, members, task
  <1>16. ASSUME NEW k \in Callers, Send(k) PROVE LifeInv'
    BY <1>16 DEF Send, LifeInv, Ending, GonePast, Channels, Callers, TypeOK,
           PlacesTypeOK, TaskTypeOK, MembersTypeOK, members, task
  <1>17. ASSUME NEW k \in Callers, EndsInCaller(k) PROVE LifeInv'
    BY <1>17 DEF EndsInCaller, LifeInv, Ending, GonePast, Channels, Callers, TypeOK,
           PlacesTypeOK, TaskTypeOK, MembersTypeOK, members, task
  <1> QED BY <1>1, <1>2, <1>3, <1>4, <1>5, <1>6, <1>7, <1>8, <1>9, <1>10, <1>11, <1>12, <1>13, <1>14, <1>15, <1>16, <1>17
           DEF SerialStep, OwnerStep, ThreadStep

LEMMA SettledNext ==
  ASSUME TypeOK, LifeInv, SettledInv, SerialStep
  PROVE  SettledInv'
  <1>1. CASE Configure
    BY <1>1 DEF Free, Idle, Configure, LifeInv, SettledInv, Settled, Ending, Channels, Callers, TypeOK,
           PlacesTypeOK, TaskTypeOK, MembersTypeOK, HistoryTypeOK, members, task, history
  <1>2. CASE Destroy
    BY <1>2 DEF Free, Idle, Destroy, LifeInv, SettledInv, Settled, Ending, Channels, Callers, TypeOK,
           PlacesTypeOK, TaskTypeOK, MembersTypeOK, HistoryTypeOK, members, task, history
  <1>3. CASE OpenFile
    BY <1>3 DEF OpenFile, LifeInv, SettledInv, Settled, Ending, Channels, Callers, TypeOK,
           PlacesTypeOK, TaskTypeOK, MembersTypeOK, HistoryTypeOK, members, task, history
  <1>4. ASSUME NEW c \in Channels, CreateTask(c) PROVE SettledInv'
    <2>1. /\ conf = c /\ m_is_async[c] /\ configured # "destroyed"
          /\ UNCHANGED <<m_is_async, call, started>>
      BY <1>4 DEF CreateTask, members, history
    <2>2. \/ /\ ~thread[c] /\ conf' = AfterTask(c) /\ UNCHANGED configured
             /\ \A d \in Channels : thread'[d] = (d = c \/ thread[d])
          \/ conf' = "idle" /\ configured' = c
      BY <1>4 DEF CreateTask, TypeOK, TaskTypeOK
    <2>5. CASE conf' = "idle" /\ configured' = c
      BY <2>1, <2>5 DEF Settled, SettledInv, Channels
    <2>6. CASE ~(conf' = "idle" /\ configured' = c)
      <3>1. /\ ~thread[c] /\ conf' = AfterTask(c) /\ UNCHANGED configured
            /\ \A d \in Channels : thread'[d] = (d = c \/ thread[d])
        BY <2>2, <2>6
      <3>2. CASE c = "rx"
        <4>1. \A k \in Callers : call[k].at = "idle"
          BY <2>1, <3>1, <3>2 DEF LifeInv, Callers, Channels, Idle
        <4> QED BY <2>1, <3>1, <3>2, <4>1 DEF AfterTask, Settled, SettledInv
      <3>3. CASE c = "tx"
        BY <2>1, <3>1, <3>3 DEF AfterTask, Settled, SettledInv, Channels, TypeOK, MembersTypeOK
      <3> QED BY <3>2, <3>3 DEF Channels
    <2> QED BY <2>5, <2>6
  <1>5. ASSUME NEW c \in Channels, TerminateTask(c) PROVE SettledInv'
    BY <1>5 DEF AfterTask, NoWorker, Idle, TerminateTask, LifeInv, SettledInv, Settled, Ending, Channels, Callers, TypeOK,
           PlacesTypeOK, TaskTypeOK, MembersTypeOK, HistoryTypeOK, members, task, history
  <1>6. ASSUME NEW c \in Channels, WakeTask(c) PROVE SettledInv'
    BY <1>6 DEF WakeTask, LifeInv, SettledInv, Settled, Ending, Channels, Callers, TypeOK,
           PlacesTypeOK, TaskTypeOK, MembersTypeOK, HistoryTypeOK, members, task, history
  <1>7. ASSUME NEW c \in Channels, JoinTask(c) PROVE SettledInv'
    <2>1. /\ conf \in Ending(c) /\ worker[c].at = "exited" /\ conf' = AfterTask(c)
          /\ UNCHANGED <<m_is_async, configured, call, started>>
          /\ \A d \in Channels : thread'[d] = (d # c /\ thread[d])
      BY <1>7 DEF JoinTask, Ending, members, history, TypeOK, TaskTypeOK
    <2>2. ~m_is_async[c] \/ configured = "destroyed"
      BY <2>1 DEF LifeInv
    <2>3. CASE c = "rx"
      <3>1. \A k \in Callers : call[k].at = "idle"
        BY <2>1, <2>2, <2>3 DEF LifeInv, Callers, Channels, Idle, Ending
      <3> QED BY <2>1, <2>2, <2>3, <3>1
             DEF AfterTask, Settled, SettledInv, LifeInv, Ending, TypeOK, MembersTypeOK, TaskTypeOK
    <2>4. CASE c = "tx"
      BY <2>1, <2>2, <2>4 
      DEF AfterTask, Settled, SettledInv, LifeInv, Channels, Ending, TypeOK, MembersTypeOK, TaskTypeOK
    <2> QED BY <2>3, <2>4 DEF Channels
  <1>8. ASSUME NEW c \in Channels, SetCallback(c) PROVE SettledInv'
    BY <1>8 DEF SetCallback, LifeInv, SettledInv, Settled, Ending, Channels, Callers, TypeOK,
           PlacesTypeOK, TaskTypeOK, MembersTypeOK, HistoryTypeOK, members, task, history
  <1>9. ASSUME NEW c \in Channels, Takes(c) PROVE SettledInv'
    BY <1>9 DEF Takes, LifeInv, SettledInv, Settled, Ending, Channels, Callers, TypeOK,
           PlacesTypeOK, TaskTypeOK, MembersTypeOK, HistoryTypeOK, members, task, history
  <1>10. ASSUME NEW c \in Channels, LeaveOnTimeout(c) PROVE SettledInv'
    BY <1>10 DEF LeaveOnTimeout, LifeInv, SettledInv, Settled, Ending, Channels, Callers, TypeOK,
           PlacesTypeOK, TaskTypeOK, MembersTypeOK, HistoryTypeOK, members, task, history
  <1>11. ASSUME NEW c \in Channels, EndsInThread(c) PROVE SettledInv'
    BY <1>11 DEF EndsInThread, LifeInv, SettledInv, Settled, Ending, Channels, Callers, TypeOK,
           PlacesTypeOK, TaskTypeOK, MembersTypeOK, HistoryTypeOK, members, task, history
  <1>12. ASSUME NEW c \in Channels, Tests(c) PROVE SettledInv'
    BY <1>12 DEF Tests, LifeInv, SettledInv, Settled, Ending, Channels, Callers, TypeOK,
           PlacesTypeOK, TaskTypeOK, MembersTypeOK, HistoryTypeOK, members, task, history
  <1>13. ASSUME NEW c \in Channels, InvokeCallback(c) PROVE SettledInv'
    BY <1>13 DEF InvokeCallback, LifeInv, SettledInv, Settled, Ending, Channels, Callers, TypeOK,
           PlacesTypeOK, TaskTypeOK, MembersTypeOK, HistoryTypeOK, members, task, history
  <1>14. ASSUME NEW c \in Channels, ReturnFromCallback(c) PROVE SettledInv'
    BY <1>14 DEF ReturnFromCallback, LifeInv, SettledInv, Settled, Ending, Channels, Callers, TypeOK,
           PlacesTypeOK, TaskTypeOK, MembersTypeOK, HistoryTypeOK, members, task, history
  <1>15. ASSUME NEW k \in Callers, NEW c \in Channels, Start(k, c) PROVE SettledInv'
    <2>1. /\ started' = [started EXCEPT ![c] = started[c] + 1]
          /\ UNCHANGED <<m_is_async, thread, conf, configured>>
          /\ call' = [call EXCEPT ![k] = [at |-> IF m_is_async[c] THEN "send" ELSE "transfer",
                                          channel |-> c]]
      BY <1>15 DEF Start, task, members
    <2>2. \A d \in Channels : started[d] # 0 \/ d = c => started'[d] # 0
      BY <2>1, UartAssumption DEF TypeOK, HistoryTypeOK, Transfers
    <2>3. \A j \in Callers : call'[j].at # "idle" => started'[call'[j].channel] # 0
      BY <2>1, <2>2 DEF SettledInv, TypeOK, PlacesTypeOK
    <2>4. (Settled("rx"))' => \A j \in Callers : call'[j].at = "send" => m_is_async'[call'[j].channel]
      BY <2>1 DEF Settled, SettledInv, TypeOK, PlacesTypeOK
    <2>5. \A d \in Channels : (Settled(d))' => thread'[d] = m_is_async'[d]
      BY <2>1 DEF Settled, SettledInv
    <2> QED BY <2>3, <2>4, <2>5 DEF SettledInv
  <1>16. ASSUME NEW k \in Callers, Send(k) PROVE SettledInv'
    BY <1>16 DEF Idle, Send, LifeInv, SettledInv, Settled, Ending, Channels, Callers, TypeOK,
           PlacesTypeOK, TaskTypeOK, MembersTypeOK, HistoryTypeOK, members, task, history
  <1>17. ASSUME NEW k \in Callers, EndsInCaller(k) PROVE SettledInv'
    BY <1>17 DEF Idle, EndsInCaller, LifeInv, SettledInv, Settled, Ending, Channels, Callers, TypeOK,
           PlacesTypeOK, TaskTypeOK, MembersTypeOK, HistoryTypeOK, members, task, history
  <1> QED BY <1>1, <1>2, <1>3, <1>4, <1>5, <1>6, <1>7, <1>8, <1>9, <1>10, <1>11, <1>12, <1>13, <1>14, <1>15, <1>16, <1>17
           DEF SerialStep, OwnerStep, ThreadStep

\* After a configure that succeeded a status that says running has somebody who
\* will end the transfer.
LEMMA PendingNext ==
  ASSUME TypeOK, LifeInv, SettledInv, RunningIsPending, SerialStep
  PROVE  RunningIsPending'
  <1>1. CASE Configure
    BY <1>1 DEF Configure, RunningIsPending, Pending, Channels, TypeOK,
           PlacesTypeOK, TaskTypeOK, MembersTypeOK, members, task, history
  <1>2. CASE Destroy
    BY <1>2 DEF Destroy, RunningIsPending, Pending, Channels, TypeOK,
           PlacesTypeOK, TaskTypeOK, MembersTypeOK, members, task, history
  <1>3. CASE OpenFile
    BY <1>3 DEF OpenFile, RunningIsPending, Pending, Channels, TypeOK,
           PlacesTypeOK, TaskTypeOK, MembersTypeOK, members, task, history
  <1>4. ASSUME NEW c \in Channels, CreateTask(c) PROVE RunningIsPending'
    BY <1>4 DEF AfterTask, Ending, CreateTask, RunningIsPending, Pending, Channels, TypeOK,
           PlacesTypeOK, TaskTypeOK, MembersTypeOK, members, task, history
  <1>5. ASSUME NEW c \in Channels, TerminateTask(c) PROVE RunningIsPending'
    BY <1>5 DEF AfterTask, Ending, TerminateTask, RunningIsPending, Pending, Channels, TypeOK,
           PlacesTypeOK, TaskTypeOK, MembersTypeOK, members, task, history
  <1>6. ASSUME NEW c \in Channels, WakeTask(c) PROVE RunningIsPending'
    BY <1>6 DEF WakeTask, RunningIsPending, Pending, Channels, TypeOK,
           PlacesTypeOK, TaskTypeOK, MembersTypeOK, members, task, history
  <1>7. ASSUME NEW c \in Channels, JoinTask(c) PROVE RunningIsPending'
    BY <1>7 DEF AfterTask, Ending, JoinTask, RunningIsPending, Pending, Channels, TypeOK,
           PlacesTypeOK, TaskTypeOK, MembersTypeOK, members, task, history
  <1>8. ASSUME NEW c \in Channels, SetCallback(c) PROVE RunningIsPending'
    BY <1>8 DEF SetCallback, RunningIsPending, Pending, Channels, TypeOK,
           PlacesTypeOK, TaskTypeOK, MembersTypeOK, members, task, history
  <1>9. ASSUME NEW c \in Channels, Takes(c) PROVE RunningIsPending'
    <2>1. /\ UNCHANGED <<m_status, call, conf, configured, thread>>
          /\ \A d \in Channels \ {c} : worker'[d] = worker[d] /\ queue'[d] = queue[d]
      BY <1>9 DEF Takes, TypeOK, PlacesTypeOK, TaskTypeOK
    <2>2. CASE configured = "ok" /\ conf = "idle"
      <3>1. ~m_terminate[c]
        BY <1>9, <2>2 DEF Takes, LifeInv, Ending
      <3>2. worker'[c].at = "transfer"
        BY <1>9, <3>1 DEF Takes, TypeOK, PlacesTypeOK
      <3>3. Pending(c)'
        BY <3>2 DEF Pending
      <3>4. \A d \in Channels \ {c} : Pending(d) => Pending(d)'
        BY <2>1 DEF Pending
      <3> QED BY <2>1, <3>3, <3>4 DEF RunningIsPending
    <2> QED BY <2>1, <2>2 DEF RunningIsPending
  <1>10. ASSUME NEW c \in Channels, LeaveOnTimeout(c) PROVE RunningIsPending'
    BY <1>10 DEF LeaveOnTimeout, RunningIsPending, Pending, Channels, TypeOK,
           PlacesTypeOK, TaskTypeOK, MembersTypeOK, members, task, history
  <1>11. ASSUME NEW c \in Channels, EndsInThread(c) PROVE RunningIsPending'
    <2>1. /\ UNCHANGED <<call, conf, configured, thread, queue>>
          /\ \A d \in Channels \ {c} : worker'[d] = worker[d] /\ m_status'[d] = m_status[d]
          /\ m_status'[c] # "running"
      BY <1>11 DEF EndsInThread, EndsWith, Results, TypeOK, PlacesTypeOK, MembersTypeOK, task
    <2>2. \A d \in Channels \ {c} : Pending(d) => Pending(d)'
      BY <2>1 DEF Pending
    <2> QED BY <2>1, <2>2 DEF RunningIsPending
  <1>12. ASSUME NEW c \in Channels, Tests(c) PROVE RunningIsPending'
    BY <1>12 DEF Tests, RunningIsPending, Pending, Channels, TypeOK,
           PlacesTypeOK, TaskTypeOK, MembersTypeOK, members, task, history
  <1>13. ASSUME NEW c \in Channels, InvokeCallback(c) PROVE RunningIsPending'
    BY <1>13 DEF InvokeCallback, RunningIsPending, Pending, Channels, TypeOK,
           PlacesTypeOK, TaskTypeOK, MembersTypeOK, members, task, history
  <1>14. ASSUME NEW c \in Channels, ReturnFromCallback(c) PROVE RunningIsPending'
    BY <1>14 DEF ReturnFromCallback, RunningIsPending, Pending, Channels, TypeOK,
           PlacesTypeOK, TaskTypeOK, MembersTypeOK, members, task, history
  <1>15. ASSUME NEW k \in Callers, NEW c \in Channels, Start(k, c) PROVE RunningIsPending'
    <2>1. /\ UNCHANGED <<worker, conf, configured, thread, queue>> /\ call[k] = Idle
          /\ \A d \in Channels \ {c} : m_status'[d] = m_status[d]
          /\ \A j \in Callers \ {k} : call'[j] = call[j]
          /\ call'[k].at # "idle" /\ call'[k].channel = c
      BY <1>15 DEF Start, Free, TypeOK, PlacesTypeOK, MembersTypeOK, task
    <2>2. Pending(c)'
      BY <2>1 DEF Pending
    <2>3. \A d \in Channels \ {c} : Pending(d) => Pending(d)'
      BY <2>1 DEF Pending, Idle
    <2> QED BY <2>1, <2>2, <2>3 DEF RunningIsPending
  <1>16. ASSUME NEW k \in Callers, Send(k) PROVE RunningIsPending'
    <2> PICK c \in Channels : c = call[k].channel
      BY DEF TypeOK, PlacesTypeOK
    <2>1. queue[c] \in Seq(Transfers) /\ started[c] \in Transfers
      BY DEF TypeOK, TaskTypeOK, HistoryTypeOK
    <2>2. /\ UNCHANGED <<worker, conf, configured, thread>> /\ call[k].at = "send"
          /\ \A j \in Callers \ {k} : call'[j] = call[j]
      BY <1>16 DEF Send, TypeOK, PlacesTypeOK
    <2>3. \A d \in Channels \ {c} : m_status'[d] = m_status[d] /\ queue'[d] = queue[d]
      BY <1>16, <2>1 DEF Send, TypeOK, TaskTypeOK, MembersTypeOK
    <2>4. \A d \in Channels \ {c} : Pending(d) => Pending(d)'
      BY <2>2, <2>3 DEF Pending
    <2>5. ASSUME configured = "ok", conf = "idle", m_status'[c] = "running" PROVE Pending(c)'
      <3>1. thread[c]
        BY <2>1, <2>2, <2>5 DEF SettledInv, Settled, Channels
      <3>2. queue'[c] = Append(queue[c], started[c])
        BY <1>16, <2>1, <2>5 DEF Send, TypeOK, TaskTypeOK, MembersTypeOK
      <3>3. Len(queue[c]) + 1 \in DOMAIN queue'[c] /\ queue'[c][Len(queue[c]) + 1] # Dummy
        BY <2>1, <2>2, <3>2, AppendProperties, LenProperties DEF SettledInv, Dummy
      <3> QED BY <2>2, <3>1, <3>3 DEF Pending
    <2> QED BY <2>2, <2>3, <2>4, <2>5 DEF RunningIsPending
  <1>17. ASSUME NEW k \in Callers, EndsInCaller(k) PROVE RunningIsPending'
    <2> PICK c \in Channels : c = call[k].channel
      BY DEF TypeOK, PlacesTypeOK
    <2>2. /\ UNCHANGED <<worker, conf, configured, thread, queue>>
          /\ \A j \in Callers \ {k} : call'[j] = call[j]
      BY <1>17 DEF EndsInCaller, TypeOK, PlacesTypeOK, task
    <2>3. /\ \A d \in Channels \ {c} : m_status'[d] = m_status[d]
          /\ m_status'[c] # "running"
      BY <1>17 DEF EndsInCaller, EndsWith, Results, TypeOK, MembersTypeOK
    <2>4. \A d \in Channels \ {c} : Pending(d) => Pending(d)'
      BY <2>2 DEF Pending
    <2> QED BY <2>2, <2>3, <2>4 DEF RunningIsPending
  <1> QED BY <1>1, <1>2, <1>3, <1>4, <1>5, <1>6, <1>7, <1>8, <1>9, <1>10, <1>11, <1>12, <1>13, <1>14, <1>15, <1>16, <1>17
           DEF SerialStep, OwnerStep, ThreadStep

\* Nothing happens before the first configure returns.
LEMMA FreshNext ==
  ASSUME TypeOK, LifeInv, FreshInv, SerialStep
  PROVE  FreshInv'
  <1>1. CASE Configure
    BY <1>1, UartAssumption DEF Free, LifeInv, Configure, FreshInv, First, Idle, Channels, Callers, TypeOK,
           PlacesTypeOK, TaskTypeOK, MembersTypeOK, HistoryTypeOK, members, task, history, bounds
  <1>2. CASE Destroy
    BY <1>2, UartAssumption DEF Free, LifeInv, Destroy, FreshInv, First, Idle, Channels, Callers, TypeOK,
           PlacesTypeOK, TaskTypeOK, MembersTypeOK, HistoryTypeOK, members, task, history, bounds
  <1>3. CASE OpenFile
    BY <1>3, UartAssumption DEF LifeInv, OpenFile, FreshInv, First, Idle, Channels, Callers, TypeOK,
           PlacesTypeOK, TaskTypeOK, MembersTypeOK, HistoryTypeOK, members, task, history, bounds
  <1>4. ASSUME NEW c \in Channels, CreateTask(c) PROVE FreshInv'
    BY <1>4 DEF AfterTask, Ending, LifeInv, NoWorker, CreateTask, FreshInv, First, Idle, Channels, Callers, TypeOK,
           PlacesTypeOK, TaskTypeOK, MembersTypeOK, HistoryTypeOK, members, task, history, bounds
  <1>5. ASSUME NEW c \in Channels, TerminateTask(c) PROVE FreshInv'
    BY <1>5 DEF AfterTask, Ending, LifeInv, NoWorker, TerminateTask, FreshInv, First, Idle, Channels, Callers, TypeOK,
           PlacesTypeOK, TaskTypeOK, MembersTypeOK, HistoryTypeOK, members, task, history, bounds
  <1>6. ASSUME NEW c \in Channels, WakeTask(c) PROVE FreshInv'
    BY <1>6 DEF WakeTask, FreshInv, First, Idle, Channels, Callers, TypeOK,
           PlacesTypeOK, TaskTypeOK, MembersTypeOK, HistoryTypeOK, members, task, history, bounds
  <1>7. ASSUME NEW c \in Channels, JoinTask(c) PROVE FreshInv'
    BY <1>7 DEF AfterTask, Ending, LifeInv, NoWorker, JoinTask, FreshInv, First, Idle, Channels, Callers, TypeOK,
           PlacesTypeOK, TaskTypeOK, MembersTypeOK, HistoryTypeOK, members, task, history, bounds
  <1>8. ASSUME NEW c \in Channels, SetCallback(c) PROVE FreshInv'
    BY <1>8 DEF SetCallback, FreshInv, First, Idle, Channels, Callers, TypeOK,
           PlacesTypeOK, TaskTypeOK, MembersTypeOK, HistoryTypeOK, members, task, history, bounds
  <1>9. ASSUME NEW c \in Channels, Takes(c) PROVE FreshInv'
    BY <1>9 DEF Takes, FreshInv, First, Idle, Channels, Callers, TypeOK,
           PlacesTypeOK, TaskTypeOK, MembersTypeOK, HistoryTypeOK, members, task, history, bounds
  <1>10. ASSUME NEW c \in Channels, LeaveOnTimeout(c) PROVE FreshInv'
    BY <1>10 DEF LeaveOnTimeout, FreshInv, First, Idle, Channels, Callers, TypeOK,
           PlacesTypeOK, TaskTypeOK, MembersTypeOK, HistoryTypeOK, members, task, history, bounds
  <1>11. ASSUME NEW c \in Channels, EndsInThread(c) PROVE FreshInv'
    BY <1>11 DEF EndsInThread, FreshInv, First, Idle, Channels, Callers, TypeOK,
           PlacesTypeOK, TaskTypeOK, MembersTypeOK, HistoryTypeOK, members, task, history, bounds
  <1>12. ASSUME NEW c \in Channels, Tests(c) PROVE FreshInv'
    BY <1>12 DEF Tests, FreshInv, First, Idle, Channels, Callers, TypeOK,
           PlacesTypeOK, TaskTypeOK, MembersTypeOK, HistoryTypeOK, members, task, history, bounds
  <1>13. ASSUME NEW c \in Channels, InvokeCallback(c) PROVE FreshInv'
    BY <1>13 DEF InvokeCallback, FreshInv, First, Idle, Channels, Callers, TypeOK,
           PlacesTypeOK, TaskTypeOK, MembersTypeOK, HistoryTypeOK, members, task, history, bounds
  <1>14. ASSUME NEW c \in Channels, ReturnFromCallback(c) PROVE FreshInv'
    BY <1>14 DEF ReturnFromCallback, FreshInv, First, Idle, Channels, Callers, TypeOK,
           PlacesTypeOK, TaskTypeOK, MembersTypeOK, HistoryTypeOK, members, task, history, bounds
  <1>15. ASSUME NEW k \in Callers, NEW c \in Channels, Start(k, c) PROVE FreshInv'
    BY <1>15 DEF Free, Start, FreshInv, First, Idle, Channels, Callers, TypeOK,
           PlacesTypeOK, TaskTypeOK, MembersTypeOK, HistoryTypeOK, members, task, history, bounds
  <1>16. ASSUME NEW k \in Callers, Send(k) PROVE FreshInv'
    BY <1>16 DEF Send, FreshInv, First, Idle, Channels, Callers, TypeOK,
           PlacesTypeOK, TaskTypeOK, MembersTypeOK, HistoryTypeOK, members, task, history, bounds
  <1>17. ASSUME NEW k \in Callers, EndsInCaller(k) PROVE FreshInv'
    BY <1>17 DEF EndsInCaller, FreshInv, First, Idle, Channels, Callers, TypeOK,
           PlacesTypeOK, TaskTypeOK, MembersTypeOK, HistoryTypeOK, members, task, history, bounds
  <1> QED BY <1>1, <1>2, <1>3, <1>4, <1>5, <1>6, <1>7, <1>8, <1>9, <1>10, <1>11, <1>12, <1>13, <1>14, <1>15, <1>16, <1>17
           DEF SerialStep, OwnerStep, ThreadStep

-----------------------------------------------------------------------------
(***************************************************************************)
(* One of three has the transfer                                           *)
(***************************************************************************)
LEMMA FirstStays ==
  ASSUME TypeOK, SerialStep, First'
  PROVE  First
  <1>1. CASE Configure
    BY <1>1, UartAssumption DEF Configure, First, TypeOK, HistoryTypeOK
  <1>2. CASE ~Configure
    BY <1>2
    DEF SerialStep, OwnerStep, ThreadStep, First, bounds, Destroy, OpenFile, CreateTask,
        TerminateTask, WakeTask, JoinTask, SetCallback, Takes, LeaveOnTimeout, EndsInThread,
        Tests, InvokeCallback, ReturnFromCallback, Start, Send, EndsInCaller
  <1> QED BY <1>1, <1>2

LEMMA Appended ==
  ASSUME NEW S, NEW s \in Seq(S), NEW e \in S
  PROVE  /\ DOMAIN s = 1 .. Len(s) /\ Len(s) \in Nat
         /\ Len(s) + 1 \in DOMAIN Append(s, e) /\ Append(s, e)[Len(s) + 1] = e
         /\ Len(s) + 1 \notin DOMAIN s
         /\ \A i \in DOMAIN s : i \in DOMAIN Append(s, e) /\ Append(s, e)[i] = s[i]
         /\ \A i \in DOMAIN Append(s, e) :
              i = Len(s) + 1 \/ (i \in DOMAIN s /\ Append(s, e)[i] = s[i])
  BY AppendProperties, LenProperties

LEMMA Tailed ==
  ASSUME NEW S, NEW s \in Seq(S), s # <<>>
  PROVE  /\ 1 \in DOMAIN s
         /\ \A i \in DOMAIN Tail(s) :
              i + 1 \in DOMAIN s /\ i + 1 # 1 /\ Tail(s)[i] = s[i + 1]
  BY LenProperties

LEMMA SoleNext ==
  ASSUME TypeOK, LifeInv, SettledInv, FreshInv, SoleInv, SerialStep
  PROVE  SoleInv'
  <1> SUFFICES ASSUME First' PROVE \A d \in Channels : Sole(d)' /\ ModeInv(d)'
    BY DEF SoleInv
  <1> First
    BY FirstStays
  <1>1. CASE Configure
    <2>1. /\ configured = "never" /\ conf = "idle" /\ call = [k \in Callers |-> Idle]
          /\ UNCHANGED <<call, queue, worker, started, m_bytes, thread, m_terminate>>
      BY <1>1, UartAssumption
      DEF Configure, Free, First, FreshInv, TypeOK, HistoryTypeOK, task, history
    <2> QED BY <2>1 DEF FreshInv, SoleInv, Sole, ModeInv, Calls, Called, Queued, Working, InHand,
                        Idle, Callers, Channels
  <1>2. CASE Destroy
    <2>1. /\ UNCHANGED <<m_is_async, m_status, m_bytes, task, call, worker, started>>
          /\ configured' = "destroyed"
      BY <1>2 DEF Destroy, history
    <2> QED BY <2>1 DEF SoleInv, Sole, ModeInv, Calls, Called, Queued, Working, InHand, task
  <1>3. CASE OpenFile
    <2>1. /\ configured = "never" /\ conf = "open"
          /\ UNCHANGED <<m_is_async, call, task, worker, started, m_bytes>>
      BY <1>3 DEF OpenFile, FreshInv, LifeInv, history
    <2> QED BY <2>1 DEF FreshInv, SoleInv, Sole, ModeInv, Calls, Called, Queued, Working, InHand, Idle, task
  <1>4. ASSUME NEW c \in Channels, CreateTask(c) PROVE \A d \in Channels : Sole(d)' /\ ModeInv(d)'
    <2>1. /\ configured = "never" /\ conf = c /\ m_is_async[c]
          /\ UNCHANGED <<members, call, queue, started>>
      BY <1>4 DEF CreateTask, FreshInv, Channels, task, history
    <2>2. /\ ~thread[c]
          /\ thread' = [thread EXCEPT ![c] = TRUE]
          /\ m_terminate' = [m_terminate EXCEPT ![c] = FALSE]
          /\ worker' = [worker EXCEPT ![c].at = "get"]
      BY <1>4, <2>1 DEF CreateTask, FreshInv
    <2>3. \A d \in Channels : /\ thread'[d] => thread[d] \/ d = c
                              /\ ~m_terminate'[d] /\ worker'[d].at # "transfer"
                              /\ worker'[d].transfer = worker[d].transfer
      BY <2>1, <2>2 DEF FreshInv, TypeOK, TaskTypeOK, PlacesTypeOK
    <2> QED BY <2>1, <2>3 DEF FreshInv, SoleInv, Sole, ModeInv, Calls, Called, Queued, Working,
                              InHand, Idle, members
  <1>5. ASSUME NEW c \in Channels, TerminateTask(c) PROVE \A d \in Channels : Sole(d)' /\ ModeInv(d)'
    <2>1. /\ UNCHANGED <<members, thread, queue, worker, call, configured, started>>
          /\ \A d \in Channels : m_terminate'[d] => m_terminate[d] \/ (d = c /\ thread[c])
          /\ ~m_is_async[c] \/ configured = "destroyed"
          /\ \A d \in Channels : m_terminate[d] => m_terminate'[d]
      BY <1>5 DEF TerminateTask, TypeOK, TaskTypeOK, history
    <2> QED BY <2>1 DEF SoleInv, Sole, ModeInv, Calls, Called, Queued, Working, InHand, members
  <1>6. ASSUME NEW c \in Channels, WakeTask(c) PROVE \A d \in Channels : Sole(d)' /\ ModeInv(d)'
    <2>1. /\ UNCHANGED <<members, thread, m_terminate, worker, call, configured, started>>
          /\ conf \in Ending(c)
          /\ queue' = queue \/ queue' = [queue EXCEPT ![c] = Append(queue[c], Dummy)]
      BY <1>6 DEF WakeTask, Ending, history
    <2>2. m_terminate[c]
      BY <2>1 DEF LifeInv
    <2>3. /\ \A d \in Channels \ {c} : queue'[d] = queue[d]
          /\ \A i \in DOMAIN queue'[c] :
               queue'[c][i] = Dummy \/ (i \in DOMAIN queue[c] /\ queue'[c][i] = queue[c][i])
          /\ \A i \in DOMAIN queue[c] : i \in DOMAIN queue'[c] /\ queue'[c][i] = queue[c][i]
      <3>1. CASE queue' = queue
        BY <3>1
      <3>2. CASE queue' = [queue EXCEPT ![c] = Append(queue[c], Dummy)]
        BY <3>2, Appended DEF TypeOK, TaskTypeOK
      <3> QED BY <2>1, <3>1, <3>2
    <2> QED BY <2>1, <2>2, <2>3
            DEF SoleInv, Sole, ModeInv, Calls, Called, Queued, Working, InHand, members
  <1>7. ASSUME NEW c \in Channels, JoinTask(c) PROVE \A d \in Channels : Sole(d)' /\ ModeInv(d)'
    <2>1. /\ UNCHANGED <<members, m_terminate, queue, call, configured, started>>
          /\ \A d \in Channels : thread'[d] => thread[d]
          /\ \A d \in Channels \ {c} : worker'[d] = worker[d]
          /\ worker[c].at = "exited" /\ worker'[c] = NoWorker
      BY <1>7 DEF JoinTask, TypeOK, TaskTypeOK, PlacesTypeOK, history
    <2>2. worker'[c].at = "none" /\ worker'[c].transfer <= started[c] /\ ~Working(c)
      BY <2>1, TypesHaveThese, UartAssumption DEF Dummy, Working, TypeOK, HistoryTypeOK, Transfers
    <2> QED BY <2>1, <2>2
            DEF SoleInv, Sole, ModeInv, Calls, Called, Queued, Working, InHand, members
  <1>8. ASSUME NEW c \in Channels, SetCallback(c) PROVE \A d \in Channels : Sole(d)' /\ ModeInv(d)'
    <2>1. UNCHANGED <<m_is_async, m_status, m_bytes, task, worker, call, configured, started>>
      BY <1>8 DEF SetCallback, history
    <2> QED BY <2>1 DEF SoleInv, Sole, ModeInv, Calls, Called, Queued, Working, InHand, task
  <1>9. ASSUME NEW c \in Channels, Takes(c) PROVE \A d \in Channels : Sole(d)' /\ ModeInv(d)'
    <2>1. /\ UNCHANGED <<m_is_async, m_status, thread, m_terminate, call, configured, started>>
          /\ worker[c].at = "get" /\ queue[c] # <<>> /\ queue'[c] = Tail(queue[c])
          /\ \A d \in Channels \ {c} : queue'[d] = queue[d] /\ worker'[d] = worker[d]
          /\ \A d \in Channels : m_bytes'[d] = m_bytes[d] \/ m_bytes'[d] = 0
          /\ \A d \in Channels \ {c} : m_bytes'[d] = m_bytes[d]
      BY <1>9, ByteCountsHaveZero
      DEF Takes, TypeOK, MembersTypeOK, TaskTypeOK, PlacesTypeOK, history
    <2>2. /\ 1 \in DOMAIN queue[c]
          /\ \A i \in DOMAIN queue'[c] : i + 1 \in DOMAIN queue[c] /\ queue'[c][i] = queue[c][i + 1]
                                         /\ i + 1 # 1
      BY <2>1, Tailed DEF TypeOK, TaskTypeOK
    <2>3. \A d \in Channels \ {c} : Sole(d)' /\ ModeInv(d)'
      BY <2>1 DEF SoleInv, Sole, ModeInv, Calls, Called, Queued, Working, InHand
    <2>4. ModeInv(c)'
      BY <2>1, <2>2 DEF SoleInv, ModeInv, Calls
    <2>5. CASE m_terminate[c]
      <3>1. worker'[c].at = "exited" /\ worker'[c].transfer = worker[c].transfer
        BY <1>9, <2>5 DEF Takes, TypeOK, PlacesTypeOK
      <3>2. Sole(c)'
        BY <2>1, <2>2, <3>1 DEF SoleInv, Sole, Calls, Called, Queued, Working, InHand
      <3> QED BY <2>3, <2>4, <3>2
    <2>6. CASE ~m_terminate[c]
      <3>1. worker'[c].at = "transfer" /\ worker'[c].transfer = queue[c][1]
        BY <1>9, <2>6 DEF Takes, TypeOK, PlacesTypeOK
      <3>2. queue[c][1] # Dummy /\ queue[c][1] = started[c] /\ Queued(c)
        BY <2>2, <2>6 DEF SoleInv, Sole, ModeInv, Queued
      <3>3. ~Called(c) /\ InHand(c)
        BY <3>2 DEF SoleInv, Sole, InHand
      <3>4. ~Called(c)' /\ ~Queued(c)' /\ Working(c)'
        BY <2>1, <2>2, <3>1, <3>2, <3>3 DEF SoleInv, Sole, Calls, Called, Queued, Working
      <3>5. worker'[c].transfer = started'[c] /\ worker'[c].transfer # Dummy /\ started[c] \in Int
        BY <2>1, <3>1, <3>2, UartAssumption DEF TypeOK, HistoryTypeOK, Transfers
      <3>6. m_status'[c] = "running" /\ m_bytes'[c] = 0
        BY <2>1, <3>3 DEF SoleInv, Sole
      <3>7. \A i \in DOMAIN queue'[c] : queue'[c][i] \in {Dummy, started'[c]}
        BY <2>1, <2>2 DEF SoleInv, Sole
      <3>8. Sole(c)'
        BY <2>1, <3>4, <3>5, <3>6, <3>7 DEF Sole, Called, Queued, Working, InHand
      <3> QED BY <2>3, <2>4, <3>8
    <2> QED BY <2>5, <2>6
  <1>10. ASSUME NEW c \in Channels, LeaveOnTimeout(c) PROVE \A d \in Channels : Sole(d)' /\ ModeInv(d)'
    <2>1. /\ UNCHANGED <<members, task, call, configured, started>>
          /\ \A d \in Channels : /\ worker'[d].at = "transfer" <=> worker[d].at = "transfer"
                                 /\ worker'[d].transfer = worker[d].transfer
      BY <1>10 DEF LeaveOnTimeout, TypeOK, PlacesTypeOK, history
    <2> QED BY <2>1 DEF SoleInv, Sole, ModeInv, Calls, Called, Queued, Working, InHand, members,
                        task
  <1>11. ASSUME NEW c \in Channels, EndsInThread(c) PROVE \A d \in Channels : Sole(d)' /\ ModeInv(d)'
    <2>1. /\ UNCHANGED <<m_is_async, task, call, configured, started>> /\ Working(c)
          /\ \A d \in Channels \ {c} :
               worker'[d] = worker[d] /\ m_status'[d] = m_status[d] /\ m_bytes'[d] = m_bytes[d]
          /\ worker'[c].at = "published" /\ worker'[c].transfer = worker[c].transfer
      <3> PICK outcome \in Results : /\ EndsWith(c, worker[c].transfer, outcome)
                                     /\ worker' = [worker EXCEPT ![c].at = "published",
                                                                 ![c].count = outcome.count]
        BY <1>11 DEF EndsInThread
      <3> QED BY <1>11 DEF EndsInThread, EndsWith, Working, TypeOK, MembersTypeOK, PlacesTypeOK
    <2>2. ~Called(c) /\ ~Queued(c)
      BY <2>1 DEF SoleInv, Sole
    <2> QED BY <2>1, <2>2 DEF SoleInv, Sole, ModeInv, Calls, Called, Queued, Working, InHand, task
  <1>12. ASSUME NEW c \in Channels, Tests(c) PROVE \A d \in Channels : Sole(d)' /\ ModeInv(d)'
    <2>1. /\ UNCHANGED <<members, task, call, configured, started>>
          /\ \A d \in Channels : /\ worker'[d].at = "transfer" <=> worker[d].at = "transfer"
                                 /\ worker'[d].transfer = worker[d].transfer
      BY <1>12 DEF Tests, TypeOK, PlacesTypeOK, history
    <2> QED BY <2>1 DEF SoleInv, Sole, ModeInv, Calls, Called, Queued, Working, InHand, members,
                        task
  <1>13. ASSUME NEW c \in Channels, InvokeCallback(c) PROVE \A d \in Channels : Sole(d)' /\ ModeInv(d)'
    <2>1. /\ UNCHANGED <<members, task, call, configured, started>>
          /\ \A d \in Channels : /\ worker'[d].at = "transfer" <=> worker[d].at = "transfer"
                                 /\ worker'[d].transfer = worker[d].transfer
      BY <1>13 DEF InvokeCallback, TypeOK, PlacesTypeOK, history
    <2> QED BY <2>1 DEF SoleInv, Sole, ModeInv, Calls, Called, Queued, Working, InHand, members,
                        task
  <1>14. ASSUME NEW c \in Channels, ReturnFromCallback(c) PROVE \A d \in Channels : Sole(d)' /\ ModeInv(d)'
    <2>1. /\ UNCHANGED <<members, task, call, configured, started>>
          /\ \A d \in Channels : /\ worker'[d].at = "transfer" <=> worker[d].at = "transfer"
                                 /\ worker'[d].transfer = worker[d].transfer
      BY <1>14 DEF ReturnFromCallback, TypeOK, PlacesTypeOK, history
    <2> QED BY <2>1 DEF SoleInv, Sole, ModeInv, Calls, Called, Queued, Working, InHand, members,
                        task
  <1>15. ASSUME NEW k \in Callers, NEW c \in Channels, Start(k, c) PROVE \A d \in Channels : Sole(d)' /\ ModeInv(d)'
    <2>1. /\ UNCHANGED <<m_is_async, task, worker, configured>>
          /\ \A d \in Channels \ {c} :
               /\ started'[d] = started[d] /\ m_status'[d] = m_status[d]
               /\ m_bytes'[d] = m_bytes[d]
          /\ \A j \in Callers \ {k} : call'[j] = call[j]
          /\ call[k].at = "idle" /\ call'[k].at # "idle" /\ call'[k].channel = c
          /\ call'[k].at = "send" <=> m_is_async[c]
          /\ m_status[c] # "running" /\ m_status'[c] = "running"
          /\ m_bytes'[c] = 0 /\ started'[c] = started[c] + 1
      BY <1>15, ByteCountsHaveZero
      DEF Start, Free, Idle, TypeOK, MembersTypeOK, PlacesTypeOK, HistoryTypeOK
    <2>2. \A d \in Channels \ {c} : Sole(d)' /\ ModeInv(d)'
      BY <2>1 DEF SoleInv, Sole, ModeInv, Calls, Called, Queued, Working, InHand, task
    <2>3. ModeInv(c)'
      BY <2>1 DEF SoleInv, ModeInv, Calls, task
    <2>4. ~InHand(c)
      BY <2>1 DEF SoleInv, Sole
    <2>5. \A j \in Callers : Calls(j, c)' => j = k
      BY <2>1, <2>4 DEF InHand, Called, Calls
    <2>6. ~Queued(c)' /\ ~Working(c)'
      BY <2>1, <2>4 DEF InHand, Queued, Working, task
    <2>7. worker'[c].transfer <= started'[c]
      BY <2>1, UartAssumption
      DEF SoleInv, Sole, TypeOK, PlacesTypeOK, HistoryTypeOK, Transfers
    <2>8. Sole(c)'
      BY <2>1, <2>5, <2>6, <2>7 DEF Sole, Queued
    <2> QED BY <2>2, <2>3, <2>8
  <1>16. ASSUME NEW k \in Callers, Send(k) PROVE \A d \in Channels : Sole(d)' /\ ModeInv(d)'
    <2> PICK c \in Channels : c = call[k].channel
      BY DEF TypeOK, PlacesTypeOK
    <2>1. /\ UNCHANGED <<m_is_async, m_bytes, thread, m_terminate, worker, configured, started>>
          /\ \A d \in Channels \ {c} : m_status'[d] = m_status[d] /\ queue'[d] = queue[d]
          /\ \A j \in Callers \ {k} : call'[j] = call[j]
          /\ call[k].at = "send" /\ call'[k].at = "idle"
      BY <1>16 DEF Send, Idle, TypeOK, MembersTypeOK, TaskTypeOK, PlacesTypeOK, history
    <2>2. \A d \in Channels \ {c} : Sole(d)' /\ ModeInv(d)'
      BY <2>1 DEF SoleInv, Sole, ModeInv, Calls, Called, Queued, Working, InHand
    <2>3. Calls(k, c) /\ ~Queued(c) /\ ~Working(c) /\ InHand(c)
      BY <2>1 DEF SoleInv, Sole, Calls, Called, InHand
    <2>4. ~Called(c)' /\ ~Working(c)'
      BY <2>1, <2>3 DEF SoleInv, Sole, Called, Calls, Working
    <2>5. CASE queue' = queue
      BY SMTT(30), <2>1, <2>2, <2>3, <2>4, <2>5
      DEF SoleInv, Sole, ModeInv, Called, Calls, Queued, Working, InHand
    <2>6. CASE queue' # queue
      <3>1. queue'[c] = Append(queue[c], started[c]) /\ UNCHANGED m_status
        BY <1>16, <2>6 DEF Send, TypeOK, TaskTypeOK
      <3>2. /\ Len(queue[c]) + 1 \in DOMAIN queue'[c]
            /\ queue'[c][Len(queue[c]) + 1] = started[c]
            /\ \A i \in DOMAIN queue'[c] :
                 i = Len(queue[c]) + 1 \/ (i \in DOMAIN queue[c] /\ queue'[c][i] = queue[c][i])
        BY <3>1, Appended DEF TypeOK, TaskTypeOK
      <3>3. started[c] # Dummy
        BY <2>1 DEF SettledInv, Dummy
      <3>4. ModeInv(c)'
        BY <2>1, <2>4, <3>2, <3>3 DEF SoleInv, ModeInv, Called
      <3>5. \A i \in DOMAIN queue'[c] : queue'[c][i] \in {Dummy, started'[c]}
        BY <2>1, <3>2 DEF SoleInv, Sole
      <3>6. \A i \in DOMAIN queue'[c] : queue'[c][i] # Dummy => i = Len(queue[c]) + 1
        BY <2>3, <3>2 DEF Queued
      <3>7. m_status'[c] = "running" /\ m_bytes'[c] = 0 /\ worker'[c].transfer <= started'[c]
        BY <2>1, <2>3, <3>1 DEF SoleInv, Sole
      <3>8. Sole(c)'
        BY <2>4, <3>5, <3>6, <3>7 DEF Sole, Called, Queued, Working, InHand
      <3> QED BY <2>2, <3>4, <3>8
    <2> QED BY <2>5, <2>6
  <1>17. ASSUME NEW k \in Callers, EndsInCaller(k) PROVE \A d \in Channels : Sole(d)' /\ ModeInv(d)'
    <2> PICK c \in Channels : c = call[k].channel
      BY DEF TypeOK, PlacesTypeOK
    <2>1. /\ UNCHANGED <<m_is_async, task, worker, configured, started>>
          /\ \A d \in Channels \ {c} : m_status'[d] = m_status[d] /\ m_bytes'[d] = m_bytes[d]
          /\ \A j \in Callers \ {k} : call'[j] = call[j]
          /\ call[k].at = "transfer" /\ call'[k].at = "idle"
      BY <1>17 DEF EndsInCaller, EndsWith, Idle, TypeOK, MembersTypeOK, PlacesTypeOK
    <2>2. Calls(k, c) /\ ~Queued(c) /\ ~Working(c)
      BY <2>1 DEF SoleInv, Sole, Calls, Called
    <2>3. ~InHand(c)'
      BY <2>1, <2>2 DEF SoleInv, Sole, Calls, Called, Queued, Working, InHand, task
    <2>4. \A d \in Channels \ {c} : Sole(d)' /\ ModeInv(d)'
      BY <2>1 DEF SoleInv, Sole, ModeInv, Calls, Called, Queued, Working, InHand, task
    <2>5. Sole(c)' /\ ModeInv(c)'
      BY <2>1, <2>3 DEF SoleInv, Sole, ModeInv, Calls, Called, Queued, Working, InHand, task
    <2> QED BY <2>4, <2>5
  <1> QED BY <1>1, <1>2, <1>3, <1>4, <1>5, <1>6, <1>7, <1>8, <1>9, <1>10, <1>11, <1>12, <1>13, <1>14, <1>15, <1>16, <1>17
           DEF SerialStep, OwnerStep, ThreadStep

-----------------------------------------------------------------------------
(***************************************************************************)
(* The transfers end in order                                              *)
(***************************************************************************)
LEMMA EmptyHasNothing == DOMAIN <<>> = {} /\ Len(<<>>) = 0
  OBVIOUS

LEMMA EndIsLast ==
  ASSUME TypeOK, NEW c \in Channels, NEW transfer \in Transfers, NEW outcome \in Results,
         EndsWith(c, transfer, outcome)
  PROVE  /\ \A d \in Channels \ {c} : ended'[d] = ended[d]
         /\ ended'[c] # <<>> /\ Len(ended'[c]) = Len(ended[c]) + 1
         /\ ended'[c][Len(ended[c]) + 1].transfer = transfer
         /\ ended'[c][Len(ended'[c])].count = outcome.count
         /\ \A i \in DOMAIN ended'[c] : \/ i = Len(ended[c]) + 1
                                        \/ i \in DOMAIN ended[c] /\ ended'[c][i] = ended[c][i]
  <1> DEFINE end == [transfer |-> transfer, status |-> outcome.status, count |-> outcome.count]
  <1>1. end \in Ends /\ end.transfer = transfer /\ end.count = outcome.count
    BY DEF Ends, Results
  <1>2. ended[c] \in Seq(Ends) /\ ended'[c] = Append(ended[c], end)
    BY DEF TypeOK, HistoryTypeOK, EndsWith
  <1>3. \A d \in Channels \ {c} : ended'[d] = ended[d]
    BY DEF TypeOK, HistoryTypeOK, EndsWith
  <1> HIDE DEF end
  <1>4. Len(ended'[c]) = Len(ended[c]) + 1 /\ ended'[c] # <<>>
    BY <1>1, <1>2, AppendProperties
  <1> QED BY <1>1, <1>2, <1>3, <1>4, Appended

LEMMA CountsAreNumbers ==
  ASSUME TypeOK
  PROVE  \A c \in Channels : started[c] \in Nat /\ Len(ended[c]) \in Nat
  BY LenProperties, UartAssumption DEF TypeOK, HistoryTypeOK, Transfers

LEMMA OrderedStays ==
  ASSUME NEW d \in Channels, Ordered(d),
         ended'[d] = ended[d], started'[d] = started[d], queue'[d] = queue[d],
         m_is_async'[d] = m_is_async[d], m_terminate'[d] = m_terminate[d],
         worker'[d] = worker[d], \A k \in Callers : Calls(k, d)' <=> Calls(k, d)
  PROVE  Ordered(d)'
  <1>1. /\ Live(d)' <=> Live(d)
        /\ Working(d)' <=> Working(d)
        /\ InHand(d)' <=> InHand(d)
    BY DEF Live, Working, InHand, Called, Queued
  <1> QED BY <1>1 DEF Ordered

\* A bundle finds the queue of its channel empty.
LEMMA SendGoesThrough ==
  ASSUME TypeOK, SoleInv, First, NEW k \in Callers, NEW c \in Channels,
         call[k].at = "send", call[k].channel = c, Live(c)
  PROVE  Len(queue[c]) < UART_QUEUE_SIZE
  <1>1. ~Queued(c) /\ m_is_async[c]
    BY DEF SoleInv, Sole, ModeInv, Calls, Called
  <1>2. UART_QUEUE_SIZE > 0 /\ ~m_terminate[c]
    BY <1>1 DEF Live
  <1>3. queue[c] = <<>>
    BY <1>1, <1>2, Tailed DEF SoleInv, ModeInv, Queued, TypeOK, TaskTypeOK
  <1> QED BY <1>2, <1>3

LEMMA OrderNext ==
  ASSUME TypeOK, LifeInv, SettledInv, FreshInv, SoleInv, OrderInv, SerialStep
  PROVE  OrderInv'
  <1> SUFFICES ASSUME First' PROVE \A d \in Channels : Ordered(d)'
    BY DEF OrderInv
  <1> First
    BY FirstStays
  <1>1. CASE Configure
    <2>1. /\ configured = "never" /\ conf = "idle" /\ call = [k \in Callers |-> Idle]
          /\ UNCHANGED <<call, queue, worker, started, ended>>
      BY <1>1, UartAssumption
      DEF Configure, Free, First, FreshInv, TypeOK, HistoryTypeOK, task, history
    <2>2. \A d \in Channels : /\ DOMAIN ended'[d] = {} /\ Len(ended'[d]) = 0
                              /\ ended'[d] = <<>> /\ started'[d] = 0
                              /\ ~InHand(d)' /\ ~Working(d)'
      BY <2>1, EmptyHasNothing DEF FreshInv, Calls, Called, Queued, Working, InHand, Idle
    <2>3. ASSUME NEW d \in Channels PROVE Ordered(d)'
      <3>1. started'[d] = Len(ended'[d]) + 0 /\ ~InHand(d)'
        BY <2>2
      <3> QED BY <2>2, <3>1 DEF Ordered
    <2> QED BY <2>3
  <1>2. CASE Destroy
    <2>1. /\ UNCHANGED <<m_is_async, queue, call, started, ended>>
          /\ \A d \in Channels : /\ worker'[d].at = "transfer" <=> worker[d].at = "transfer"
                                 /\ m_terminate[d] => m_terminate'[d]
      BY <1>2 DEF Destroy, history, members, task
    <2> QED BY <2>1 DEF OrderInv, Ordered, Live, Calls, Called, Queued, Working, InHand
  <1>3. CASE OpenFile
    <2>1. /\ UNCHANGED <<m_is_async, queue, call, started, ended>>
          /\ \A d \in Channels : /\ worker'[d].at = "transfer" <=> worker[d].at = "transfer"
                                 /\ m_terminate[d] => m_terminate'[d]
      BY <1>3 DEF OpenFile, history, members, task
    <2> QED BY <2>1 DEF OrderInv, Ordered, Live, Calls, Called, Queued, Working, InHand
  <1>4. ASSUME NEW c \in Channels, CreateTask(c) PROVE \A d \in Channels : Ordered(d)'
    <2>1. /\ UNCHANGED <<m_is_async, queue, call, started, ended>>
          /\ \A d \in Channels : /\ worker'[d].at = "transfer" <=> worker[d].at = "transfer"
                                 /\ m_terminate[d] => m_terminate'[d]
      BY <1>4 DEF CreateTask, FreshInv, TypeOK, PlacesTypeOK, TaskTypeOK, Channels, history, members, task
    <2> QED BY <2>1 DEF OrderInv, Ordered, Live, Calls, Called, Queued, Working, InHand
  <1>5. ASSUME NEW c \in Channels, TerminateTask(c) PROVE \A d \in Channels : Ordered(d)'
    <2>1. /\ UNCHANGED <<m_is_async, queue, call, started, ended>>
          /\ \A d \in Channels : /\ worker'[d].at = "transfer" <=> worker[d].at = "transfer"
                                 /\ m_terminate[d] => m_terminate'[d]
      BY <1>5 DEF TerminateTask, TypeOK, PlacesTypeOK, TaskTypeOK, NoWorker, history, members, task
    <2> QED BY <2>1 DEF OrderInv, Ordered, Live, Calls, Called, Queued, Working, InHand
  <1>6. ASSUME NEW c \in Channels, WakeTask(c) PROVE \A d \in Channels : Ordered(d)'
    <2>1. /\ UNCHANGED <<m_is_async, m_terminate, worker, call, started, ended>>
          /\ queue' = queue \/ queue' = [queue EXCEPT ![c] = Append(queue[c], Dummy)]
      BY <1>6 DEF WakeTask, history, members
    <2>2. \A d \in Channels : Queued(d)' <=> Queued(d)
      <3>1. CASE queue' = queue
        BY <3>1 DEF Queued
      <3>2. CASE queue' = [queue EXCEPT ![c] = Append(queue[c], Dummy)]
        BY <3>2, Appended, TypesHaveThese DEF Queued, TypeOK, TaskTypeOK
      <3> QED BY <2>1, <3>1, <3>2
    <2> QED BY <2>1, <2>2 DEF OrderInv, Ordered, Live, Calls, Called, Working, InHand
  <1>7. ASSUME NEW c \in Channels, JoinTask(c) PROVE \A d \in Channels : Ordered(d)'
    <2>1. /\ UNCHANGED <<m_is_async, queue, call, started, ended>>
          /\ \A d \in Channels : /\ worker'[d].at = "transfer" <=> worker[d].at = "transfer"
                                 /\ m_terminate[d] => m_terminate'[d]
      BY <1>7 DEF JoinTask, TypeOK, PlacesTypeOK, TaskTypeOK, NoWorker, history, members, task
    <2> QED BY <2>1 DEF OrderInv, Ordered, Live, Calls, Called, Queued, Working, InHand
  <1>8. ASSUME NEW c \in Channels, SetCallback(c) PROVE \A d \in Channels : Ordered(d)'
    <2>1. /\ UNCHANGED <<m_is_async, queue, call, started, ended>>
          /\ \A d \in Channels : /\ worker'[d].at = "transfer" <=> worker[d].at = "transfer"
                                 /\ m_terminate[d] => m_terminate'[d]
      BY <1>8 DEF SetCallback, history, members, task
    <2> QED BY <2>1 DEF OrderInv, Ordered, Live, Calls, Called, Queued, Working, InHand
  <1>9. ASSUME NEW c \in Channels, Takes(c) PROVE \A d \in Channels : Ordered(d)'
    <2>1. /\ UNCHANGED <<m_is_async, m_terminate, call, started, ended>>
          /\ worker[c].at = "get" /\ queue[c] # <<>>
          /\ \A d \in Channels \ {c} : queue'[d] = queue[d] /\ worker'[d] = worker[d]
      BY <1>9 DEF Takes, TypeOK, TaskTypeOK, PlacesTypeOK, history
    <2>2. \A d \in Channels \ {c} : Ordered(d)'
      BY <2>1, OrderedStays DEF OrderInv, Calls, task
    <2>3. thread[c] /\ m_is_async[c]
      BY <2>1 DEF LifeInv, SoleInv, ModeInv
    <2>4. CASE m_terminate[c]
      <3>1. ~Working(c)' /\ ~Live(c)'
        BY <1>9, <2>1, <2>3, <2>4 DEF Takes, Working, Live, TypeOK, PlacesTypeOK
      <3> QED BY <2>1, <2>2, <3>1 DEF OrderInv, Ordered
    <2>5. CASE ~m_terminate[c]
      <3>1. Queued(c) /\ UART_QUEUE_SIZE > 0
        BY <2>1, <2>5, Tailed, LenProperties, UartAssumption
        DEF SoleInv, ModeInv, Queued, TypeOK, TaskTypeOK
      <3>2. Live(c) /\ InHand(c) /\ started[c] = Len(ended[c]) + 1
        BY <2>5, <3>1 DEF Live, InHand, OrderInv, Ordered
      <3>3. Working(c)' /\ InHand(c)'
        BY <1>9, <2>5 DEF Takes, Working, InHand, TypeOK, PlacesTypeOK
      <3> QED BY <2>1, <2>2, <3>1, <3>2, <3>3 DEF OrderInv, Ordered
    <2> QED BY <2>4, <2>5
  <1>10. ASSUME NEW c \in Channels, LeaveOnTimeout(c) PROVE \A d \in Channels : Ordered(d)'
    <2>1. /\ UNCHANGED <<m_is_async, queue, call, started, ended>>
          /\ \A d \in Channels : /\ worker'[d].at = "transfer" <=> worker[d].at = "transfer"
                                 /\ m_terminate[d] => m_terminate'[d]
      BY <1>10 DEF LeaveOnTimeout, TypeOK, PlacesTypeOK, TaskTypeOK, NoWorker, history, members, task
    <2> QED BY <2>1 DEF OrderInv, Ordered, Live, Calls, Called, Queued, Working, InHand
  <1>11. ASSUME NEW c \in Channels, EndsInThread(c) PROVE \A d \in Channels : Ordered(d)'
    <2>1. /\ UNCHANGED <<m_is_async, task, call, started>> /\ Working(c)
          /\ \A d \in Channels \ {c} : worker'[d] = worker[d]
          /\ worker'[c].at = "published"
      BY <1>11 DEF EndsInThread, Working, TypeOK, PlacesTypeOK
    <2>2. /\ \A d \in Channels \ {c} : ended'[d] = ended[d]
          /\ ended'[c] # <<>> /\ Len(ended'[c]) = Len(ended[c]) + 1
          /\ ended'[c][Len(ended[c]) + 1].transfer = worker[c].transfer
          /\ \A i \in DOMAIN ended'[c] : \/ i = Len(ended[c]) + 1
                                         \/ i \in DOMAIN ended[c] /\ ended'[c][i] = ended[c][i]
      BY <1>11, EndIsLast DEF EndsInThread, TypeOK, PlacesTypeOK
    <2>3. \A d \in Channels \ {c} : Ordered(d)'
      BY <2>1, <2>2, OrderedStays DEF OrderInv, Calls, task
    <2>4. ~InHand(c)' /\ ~Working(c)'
      BY <2>1 DEF SoleInv, Sole, Calls, Called, Queued, Working, InHand, task
    <2>5. /\ started[c] = Len(ended[c]) + 1 /\ UART_QUEUE_SIZE > 0
          /\ worker[c].transfer = started[c]
      BY <2>1 DEF OrderInv, Ordered, SoleInv, Sole
    <2>6. Ordered(c)'
      <3>1. \A i \in DOMAIN ended'[c] : ended'[c][i].transfer = i
        BY <2>2, <2>5 DEF OrderInv, Ordered
      <3>2. started'[c] = Len(ended'[c])
        BY <2>1, <2>2, <2>5
      <3> QED BY <2>1, <2>4, <2>5, <3>1, <3>2, CountsAreNumbers DEF Ordered
    <2> QED BY <2>3, <2>6
  <1>12. ASSUME NEW c \in Channels, Tests(c) PROVE \A d \in Channels : Ordered(d)'
    <2>1. /\ UNCHANGED <<m_is_async, m_terminate, queue, call, started, ended>>
          /\ \A d \in Channels : worker'[d].at = "transfer" <=> worker[d].at = "transfer"
      <3>1. UNCHANGED <<m_is_async, m_terminate, queue, call, started, ended>>
        BY <1>12 DEF Tests, members, task, history
      <3>2. PICK at \in {"get", "invoke"} : /\ worker'[c].at = at /\ worker[c].at = "published"
                                            /\ \A d \in Channels \ {c} : worker'[d] = worker[d]
        BY <1>12 DEF Tests, TypeOK, PlacesTypeOK
      <3> QED BY <3>1, <3>2
    <2> QED BY <2>1 DEF OrderInv, Ordered, Live, Calls, Called, Queued, Working, InHand
  <1>13. ASSUME NEW c \in Channels, InvokeCallback(c) PROVE \A d \in Channels : Ordered(d)'
    <2>1. /\ UNCHANGED <<m_is_async, queue, call, started, ended>>
          /\ \A d \in Channels : /\ worker'[d].at = "transfer" <=> worker[d].at = "transfer"
                                 /\ m_terminate[d] => m_terminate'[d]
      BY <1>13 DEF InvokeCallback, TypeOK, PlacesTypeOK, TaskTypeOK, NoWorker, history, members, task
    <2> QED BY <2>1 DEF OrderInv, Ordered, Live, Calls, Called, Queued, Working, InHand
  <1>14. ASSUME NEW c \in Channels, ReturnFromCallback(c) PROVE \A d \in Channels : Ordered(d)'
    <2>1. /\ UNCHANGED <<m_is_async, queue, call, started, ended>>
          /\ \A d \in Channels : /\ worker'[d].at = "transfer" <=> worker[d].at = "transfer"
                                 /\ m_terminate[d] => m_terminate'[d]
      BY <1>14 DEF ReturnFromCallback, TypeOK, PlacesTypeOK, TaskTypeOK, NoWorker, history, members, task
    <2> QED BY <2>1 DEF OrderInv, Ordered, Live, Calls, Called, Queued, Working, InHand
  <1>15. ASSUME NEW k \in Callers, NEW c \in Channels, Start(k, c) PROVE \A d \in Channels : Ordered(d)'
    <2>1. /\ UNCHANGED <<m_is_async, task, worker, ended>>
          /\ \A d \in Channels \ {c} : started'[d] = started[d]
          /\ \A j \in Callers \ {k} : call'[j] = call[j]
          /\ call[k].at = "idle" /\ call'[k].at # "idle" /\ call'[k].channel = c
          /\ m_status[c] # "running" /\ started'[c] = started[c] + 1
      BY <1>15 DEF Start, Free, Idle, TypeOK, MembersTypeOK, PlacesTypeOK, HistoryTypeOK
    <2>2. \A d \in Channels \ {c} : Ordered(d)'
      BY <2>1, OrderedStays DEF OrderInv, Calls, task
    <2>3. ~InHand(c) /\ ~Working(c)'
      BY <2>1 DEF SoleInv, Sole, InHand, Working
    <2>4. InHand(c)'
      BY <2>1 DEF InHand, Called, Calls
    <2>5. Ordered(c)'
      <3>1. Live(c)' => Live(c)
        BY <2>1 DEF Live, task
      <3>2. Live(c) => started'[c] = Len(ended'[c]) + 1
        <4>1. Live(c) => started[c] = Len(ended[c]) + 0
          BY <2>3 DEF OrderInv, Ordered
        <4> QED BY <2>1, <4>1, CountsAreNumbers
      <3> QED BY <2>1, <2>3, <2>4, <3>1, <3>2 DEF OrderInv, Ordered
    <2> QED BY <2>2, <2>5
  <1>16. ASSUME NEW k \in Callers, Send(k) PROVE \A d \in Channels : Ordered(d)'
    <2> PICK c \in Channels : c = call[k].channel
      BY DEF TypeOK, PlacesTypeOK
    <2>1. /\ UNCHANGED <<m_is_async, m_terminate, worker, started, ended>>
          /\ \A d \in Channels \ {c} : queue'[d] = queue[d]
          /\ \A j \in Callers \ {k} : call'[j] = call[j]
          /\ call[k].at = "send" /\ call'[k].at = "idle"
      BY <1>16 DEF Send, Idle, TypeOK, TaskTypeOK, PlacesTypeOK, history
    <2>2. \A d \in Channels \ {c} : Ordered(d)'
      BY <2>1, OrderedStays DEF OrderInv, Calls, task
    <2>3. Calls(k, c) /\ ~Queued(c) /\ ~Working(c) /\ InHand(c) /\ m_is_async[c]
      BY <2>1 DEF SoleInv, Sole, ModeInv, Calls, Called, InHand
    <2>4. CASE Len(queue[c]) < UART_QUEUE_SIZE
      <3>1. queue'[c] = Append(queue[c], started[c])
        BY <1>16, <2>4 DEF Send, TypeOK, TaskTypeOK
      <3>2. InHand(c)'
        <4>1. /\ Len(queue[c]) + 1 \in DOMAIN queue'[c]
              /\ queue'[c][Len(queue[c]) + 1] = started[c] /\ started[c] # Dummy
          BY <2>1, <3>1, Appended DEF SettledInv, Dummy, TypeOK, TaskTypeOK, HistoryTypeOK
        <4> QED BY <4>1 DEF InHand, Queued
      <3>3. /\ ended'[c] = ended[c] /\ started'[c] = started[c]
            /\ ~Working(c)' /\ (Live(c)' <=> Live(c))
        BY <2>1, <2>2, <2>3 DEF Working, Live
      <3>4. /\ \A i \in DOMAIN ended'[c] : ended'[c][i].transfer = i
            /\ ended'[c] # <<>> => ~m_is_async'[c] \/ UART_QUEUE_SIZE > 0
        BY <2>1, <3>3 DEF OrderInv, Ordered
      <3>5. Live(c)' => started'[c] = Len(ended'[c]) + IF InHand(c)' THEN 1 ELSE 0
        BY <2>3, <3>2, <3>3 DEF OrderInv, Ordered
      <3>6. Ordered(c)'
        BY <3>3, <3>4, <3>5 DEF Ordered
      <3> QED BY <2>2, <3>6
    <2>5. CASE ~(Len(queue[c]) < UART_QUEUE_SIZE)
      <3>1. SUFFICES ASSUME Live(c) PROVE FALSE
        BY <2>1, <2>2, <2>3 DEF OrderInv, Ordered, Live, Working
      <3> QED BY <2>1, <2>5, <3>1, SendGoesThrough
    <2> QED BY <2>4, <2>5
  <1>17. ASSUME NEW k \in Callers, EndsInCaller(k) PROVE \A d \in Channels : Ordered(d)'
    <2> PICK c \in Channels : c = call[k].channel
      BY DEF TypeOK, PlacesTypeOK
    <2>1. /\ UNCHANGED <<m_is_async, task, worker, started>>
          /\ \A j \in Callers \ {k} : call'[j] = call[j]
          /\ call[k].at = "transfer" /\ call'[k].at = "idle"
      BY <1>17 DEF EndsInCaller, Idle, TypeOK, PlacesTypeOK
    <2>2. /\ \A d \in Channels \ {c} : ended'[d] = ended[d]
          /\ ended'[c] # <<>> /\ Len(ended'[c]) = Len(ended[c]) + 1
          /\ ended'[c][Len(ended[c]) + 1].transfer = started[c]
          /\ \A i \in DOMAIN ended'[c] : \/ i = Len(ended[c]) + 1
                                         \/ i \in DOMAIN ended[c] /\ ended'[c][i] = ended[c][i]
      BY <1>17, EndIsLast DEF EndsInCaller, TypeOK, HistoryTypeOK
    <2>3. \A d \in Channels \ {c} : Ordered(d)'
      BY <2>1, <2>2, OrderedStays DEF OrderInv, Calls, task
    <2>4. /\ Calls(k, c) /\ InHand(c) /\ ~m_is_async[c]
          /\ ~InHand(c)' /\ ~Working(c)'
      BY <2>1 DEF SoleInv, Sole, ModeInv, Calls, Called, Queued, Working, InHand, task
    <2>5. started[c] = Len(ended[c]) + 1
      BY <2>4 DEF OrderInv, Ordered, Live
    <2>6. Ordered(c)'
      <3>1. \A i \in DOMAIN ended'[c] : ended'[c][i].transfer = i
        <4> SUFFICES ASSUME NEW i \in DOMAIN ended'[c] PROVE ended'[c][i].transfer = i
          OBVIOUS
        <4>1. CASE i = Len(ended[c]) + 1
          BY <2>2, <2>5, <4>1
        <4>2. CASE i \in DOMAIN ended[c] /\ ended'[c][i] = ended[c][i]
          BY <4>2 DEF OrderInv, Ordered
        <4> QED BY <2>2, <4>1, <4>2
      <3>2. started'[c] = Len(ended'[c])
        BY <2>1, <2>2, <2>5
      <3> QED BY <2>1, <2>4, <2>5, <3>1, <3>2, CountsAreNumbers DEF Ordered
    <2> QED BY <2>3, <2>6
  <1> QED BY <1>1, <1>2, <1>3, <1>4, <1>5, <1>6, <1>7, <1>8, <1>9, <1>10, <1>11, <1>12, <1>13, <1>14, <1>15, <1>16, <1>17
           DEF SerialStep, OwnerStep, ThreadStep

-----------------------------------------------------------------------------
(***************************************************************************)
(* What is told of a transfer that ended                                   *)
(***************************************************************************)
LEMMA DestroyedStays ==
  ASSUME LifeInv, SerialStep, configured = "destroyed"
  PROVE  configured' = "destroyed"
  BY DEF LifeInv, SerialStep, OwnerStep, ThreadStep, Configure, Destroy, OpenFile, CreateTask,
         TerminateTask, WakeTask, JoinTask, SetCallback, Takes, LeaveOnTimeout, EndsInThread,
         Tests, InvokeCallback, ReturnFromCallback, Start, Send, EndsInCaller

\* BytesOfLastTransfer, of a channel.
LastTold(c) ==
  m_status[c] # "running" /\ ended[c] # <<>> => m_bytes[c] = ended[c][Len(ended[c])].count

LEMMA BytesNext ==
  ASSUME TypeOK, LifeInv, FreshInv, SoleInv, OrderInv, BytesOfLastTransfer, SerialStep
  PROVE  BytesOfLastTransfer'
  <1> SUFFICES ASSUME First', configured' # "destroyed"
               PROVE  \A d \in Channels : LastTold(d)'
    BY DEF BytesOfLastTransfer, First, LastTold
  <1> First /\ configured # "destroyed"
    BY FirstStays, DestroyedStays
  <1> \A d \in Channels : LastTold(d)
    BY DEF BytesOfLastTransfer, First, LastTold
  <1>1. CASE Configure
    <2>1. configured = "never" /\ UNCHANGED ended
      BY <1>1, UartAssumption DEF Configure, First, FreshInv, Free, TypeOK, HistoryTypeOK, history
    <2> QED BY <2>1 DEF FreshInv, LastTold
  <1>2. CASE Destroy
    BY <1>2 DEF Destroy, LastTold, members, history
  <1>3. CASE OpenFile
    <2>1. configured = "never" /\ UNCHANGED ended
      BY <1>3 DEF OpenFile, FreshInv, LifeInv, history
    <2> QED BY <2>1 DEF FreshInv, LastTold
  <1>4. ASSUME NEW c \in Channels, CreateTask(c) PROVE \A d \in Channels : LastTold(d)'
    BY <1>4 DEF CreateTask, LastTold, members, history
  <1>5. ASSUME NEW c \in Channels, TerminateTask(c) PROVE \A d \in Channels : LastTold(d)'
    BY <1>5 DEF TerminateTask, LastTold, members, history
  <1>6. ASSUME NEW c \in Channels, WakeTask(c) PROVE \A d \in Channels : LastTold(d)'
    BY <1>6 DEF WakeTask, LastTold, members, history
  <1>7. ASSUME NEW c \in Channels, JoinTask(c) PROVE \A d \in Channels : LastTold(d)'
    BY <1>7 DEF JoinTask, LastTold, members, history
  <1>8. ASSUME NEW c \in Channels, SetCallback(c) PROVE \A d \in Channels : LastTold(d)'
    BY <1>8 DEF SetCallback, LastTold, members, history
  <1>9. ASSUME NEW c \in Channels, Takes(c) PROVE \A d \in Channels : LastTold(d)'
    <2>1. /\ UNCHANGED <<m_status, ended>>
          /\ \A d \in Channels \ {c} : m_bytes'[d] = m_bytes[d]
          /\ ~m_terminate[c] \/ m_bytes' = m_bytes
          /\ worker[c].at = "get" /\ queue[c] # <<>>
      BY <1>9 DEF Takes, TypeOK, MembersTypeOK, history
    <2>2. CASE ~m_terminate[c]
      <3>1. Queued(c)
        BY <2>1, <2>2, Tailed DEF SoleInv, ModeInv, Queued, TypeOK, TaskTypeOK
      <3>2. m_status'[c] = "running"
        BY <2>1, <3>1 DEF SoleInv, Sole, InHand
      <3> QED BY <2>1, <3>2 DEF LastTold
    <2> QED BY <2>1, <2>2 DEF LastTold
  <1>10. ASSUME NEW c \in Channels, LeaveOnTimeout(c) PROVE \A d \in Channels : LastTold(d)'
    BY <1>10 DEF LeaveOnTimeout, LastTold, members, history
  <1>11. ASSUME NEW c \in Channels, EndsInThread(c) PROVE \A d \in Channels : LastTold(d)'
    <2>1. PICK outcome \in Results : EndsWith(c, worker[c].transfer, outcome)
      BY <1>11 DEF EndsInThread
    <2>2. m_bytes[c] = 0 /\ worker[c].transfer \in Transfers
      BY <1>11 DEF EndsInThread, SoleInv, Sole, InHand, Called, Calls, Working, TypeOK, PlacesTypeOK,
                   HistoryTypeOK
    <2>3. /\ m_bytes'[c] = outcome.count
          /\ \A d \in Channels \ {c} : m_status'[d] = m_status[d] /\ m_bytes'[d] = m_bytes[d]
      BY <2>1, <2>2 DEF EndsWith, TypeOK, MembersTypeOK
    <2>4. /\ ended'[c][Len(ended'[c])].count = outcome.count
          /\ \A d \in Channels \ {c} : ended'[d] = ended[d]
      BY <2>1, <2>2, EndIsLast
    <2> QED BY <2>3, <2>4 DEF LastTold
  <1>12. ASSUME NEW c \in Channels, Tests(c) PROVE \A d \in Channels : LastTold(d)'
    BY <1>12 DEF Tests, LastTold, members, history
  <1>13. ASSUME NEW c \in Channels, InvokeCallback(c) PROVE \A d \in Channels : LastTold(d)'
    BY <1>13 DEF InvokeCallback, LastTold, members, history
  <1>14. ASSUME NEW c \in Channels, ReturnFromCallback(c) PROVE \A d \in Channels : LastTold(d)'
    BY <1>14 DEF ReturnFromCallback, LastTold, members, history
  <1>15. ASSUME NEW k \in Callers, NEW c \in Channels, Start(k, c) PROVE \A d \in Channels : LastTold(d)'
    BY <1>15 DEF Start, LastTold, TypeOK, MembersTypeOK
  <1>16. ASSUME NEW k \in Callers, Send(k) PROVE \A d \in Channels : LastTold(d)'
    <2> PICK c \in Channels : c = call[k].channel
      BY DEF TypeOK, PlacesTypeOK
    <2>1. /\ UNCHANGED <<m_bytes, ended>>
          /\ \A d \in Channels \ {c} : m_status'[d] = m_status[d]
      BY <1>16 DEF Send, TypeOK, MembersTypeOK, history
    <2>2. CASE ended[c] # <<>>
      <3>1. Live(c)
        BY <2>2 DEF OrderInv, Ordered, Live, SoleInv, ModeInv
      <3>2. UNCHANGED m_status
        BY <1>16, <3>1, SendGoesThrough DEF Send
      <3> QED BY <2>1, <3>2 DEF LastTold
    <2> QED BY <2>1, <2>2 DEF LastTold
  <1>17. ASSUME NEW k \in Callers, EndsInCaller(k) PROVE \A d \in Channels : LastTold(d)'
    <2> PICK c \in Channels : c = call[k].channel
      BY DEF TypeOK, PlacesTypeOK
    <2>1. PICK outcome \in Results : EndsWith(c, started[c], outcome)
      BY <1>17 DEF EndsInCaller
    <2>2. m_bytes[c] = 0 /\ started[c] \in Transfers
      BY <1>17 DEF EndsInCaller, SoleInv, Sole, InHand, Called, Calls, Working, TypeOK, PlacesTypeOK,
                   HistoryTypeOK
    <2>3. /\ m_bytes'[c] = outcome.count
          /\ \A d \in Channels \ {c} : m_status'[d] = m_status[d] /\ m_bytes'[d] = m_bytes[d]
      BY <2>1, <2>2 DEF EndsWith, TypeOK, MembersTypeOK
    <2>4. /\ ended'[c][Len(ended'[c])].count = outcome.count
          /\ \A d \in Channels \ {c} : ended'[d] = ended[d]
      BY <2>1, <2>2, EndIsLast
    <2> QED BY <2>3, <2>4 DEF LastTold
  <1> QED BY <1>1, <1>2, <1>3, <1>4, <1>5, <1>6, <1>7, <1>8, <1>9, <1>10, <1>11, <1>12, <1>13, <1>14, <1>15, <1>16, <1>17
           DEF SerialStep, OwnerStep, ThreadStep

LEMMA ToldStays ==
  ASSUME SerialStep, NEW d \in Channels, ToldRight(d),
         worker'[d] = worker[d], started'[d] = started[d], m_bytes'[d] = m_bytes[d],
         queue'[d] = queue[d] \/ (Queued(d)' => Queued(d)),
         \A k \in Callers : Calls(k, d)' => Calls(k, d)
  PROVE  ToldRight(d)'
  <1>1. InHand(d)' => InHand(d)
    BY DEF InHand, Called, Queued, Working
  <1>2. (Told(d)' <=> Told(d)) /\ UNCHANGED driver
    BY DEF Told, SerialStep
  <1> QED BY <1>1, <1>2 DEF ToldRight

LEMMA UntoldIsRight ==
  ASSUME NEW d, ~Told(d)'
  PROVE  ToldRight(d)'
  BY DEF ToldRight

LEMMA AwayTellsNothing ==
  ASSUME NEW d, worker'[d].at \notin {"published", "invoke", "callback"}
  PROVE  ToldRight(d)'
  BY DEF ToldRight, Told

ToldNow == (\A c \in Channels : ToldRight(c)) /\ ("rx" \in Chained => ChainedTold)

LEMMA ToldNext ==
  ASSUME TypeOK, LifeInv, FreshInv, SoleInv, ToldInv, SerialStep
  PROVE  ToldInv'
  <1> SUFFICES ASSUME First' PROVE ToldNow'
    BY DEF ToldInv, ToldNow
  <1> First /\ ToldNow
    BY FirstStays DEF ToldInv, ToldNow
  <1>1. CASE Configure
    <2>1. configured = "never" /\ UNCHANGED worker
      BY <1>1, UartAssumption DEF Configure, First, FreshInv, Free, TypeOK, HistoryTypeOK
    <2> QED BY <2>1 DEF FreshInv, ToldNow, ToldRight, ChainedTold, Told, Channels
  <1>2. CASE Destroy
    <2>1. UNCHANGED <<m_bytes, queue, worker, call, started>>
      BY <1>2 DEF Destroy, members, task, history
    <2>8. \A d \in Channels : ToldRight(d)'
      BY <2>1, ToldStays DEF ToldNow, Calls
    <2> QED BY <2>1, <2>8 DEF ToldNow, ChainedTold, Told, Channels
  <1>3. CASE OpenFile
    <2>1. UNCHANGED <<m_bytes, queue, worker, call, started>>
      BY <1>3 DEF OpenFile, members, task, history
    <2>8. \A d \in Channels : ToldRight(d)'
      BY <2>1, ToldStays DEF ToldNow, Calls
    <2> QED BY <2>1, <2>8 DEF ToldNow, ChainedTold, Told, Channels
  <1>4. ASSUME NEW c \in Channels, CreateTask(c) PROVE ToldNow'
    <2>1. /\ UNCHANGED <<m_bytes, queue, call, started>>
          /\ \A d \in Channels \ {c} : worker'[d] = worker[d]
          /\ worker'[c] = worker[c] \/ worker'[c].at \in {"none", "get", "exited"}
      BY <1>4, TypesHaveThese DEF CreateTask, members, task, history, TypeOK, PlacesTypeOK
    <2>8. \A d \in Channels : ToldRight(d)'
      BY <2>1, ToldStays, AwayTellsNothing DEF ToldNow, Calls
    <2> QED BY <2>1, <2>8 DEF ToldNow, ChainedTold, Told, Channels
  <1>5. ASSUME NEW c \in Channels, TerminateTask(c) PROVE ToldNow'
    <2>1. UNCHANGED <<m_bytes, queue, worker, call, started>>
      BY <1>5 DEF TerminateTask, members, task, history
    <2>8. \A d \in Channels : ToldRight(d)'
      BY <2>1, ToldStays DEF ToldNow, Calls
    <2> QED BY <2>1, <2>8 DEF ToldNow, ChainedTold, Told, Channels
  <1>6. ASSUME NEW c \in Channels, WakeTask(c) PROVE ToldNow'
    <2>1. /\ UNCHANGED <<m_bytes, worker, call, started>>
          /\ \A d \in Channels : Queued(d)' => Queued(d)
      <3>1. UNCHANGED <<m_bytes, worker, call, started>>
        BY <1>6 DEF WakeTask, members, history
      <3>2. queue' = queue \/ queue' = [queue EXCEPT ![c] = Append(queue[c], Dummy)]
        BY <1>6 DEF WakeTask
      <3>3. CASE queue' = [queue EXCEPT ![c] = Append(queue[c], Dummy)]
        BY <3>1, <3>3, Appended, TypesHaveThese DEF Queued, TypeOK, TaskTypeOK
      <3> QED BY <3>1, <3>2, <3>3 DEF Queued
    <2>8. \A d \in Channels : ToldRight(d)'
      BY <2>1, ToldStays DEF ToldNow, Calls
    <2> QED BY <2>1, <2>8 DEF ToldNow, ChainedTold, Told, Channels
  <1>7. ASSUME NEW c \in Channels, JoinTask(c) PROVE ToldNow'
    <2>1. /\ UNCHANGED <<m_bytes, queue, call, started>>
          /\ \A d \in Channels \ {c} : worker'[d] = worker[d]
          /\ worker'[c] = worker[c] \/ worker'[c].at \in {"none", "get", "exited"}
      BY <1>7, TypesHaveThese DEF JoinTask, members, task, history, TypeOK, PlacesTypeOK
    <2>8. \A d \in Channels : ToldRight(d)'
      BY <2>1, ToldStays, AwayTellsNothing DEF ToldNow, Calls
    <2> QED BY <2>1, <2>8 DEF ToldNow, ChainedTold, Told, Channels
  <1>8. ASSUME NEW c \in Channels, SetCallback(c) PROVE ToldNow'
    <2>1. UNCHANGED <<m_bytes, queue, worker, call, started>>
      BY <1>8 DEF SetCallback, members, task, history
    <2>8. \A d \in Channels : ToldRight(d)'
      BY <2>1, ToldStays DEF ToldNow, Calls
    <2> QED BY <2>1, <2>8 DEF ToldNow, ChainedTold, Told, Channels
  <1>9. ASSUME NEW c \in Channels, Takes(c) PROVE ToldNow'
    <2>1. /\ UNCHANGED <<call, started>>
          /\ \A d \in Channels \ {c} : /\ worker'[d] = worker[d] /\ queue'[d] = queue[d]
                                       /\ m_bytes'[d] = m_bytes[d]
          /\ worker'[c].at \in {"exited", "transfer"}
      BY <1>9 DEF Takes, history, TypeOK, PlacesTypeOK, MembersTypeOK, TaskTypeOK
    <2>8. \A d \in Channels : ToldRight(d)'
      BY <2>1, ToldStays, AwayTellsNothing DEF ToldNow, Calls
    <2> QED BY <2>1, <2>8 DEF ToldNow, ChainedTold, Told, Channels
  <1>10. ASSUME NEW c \in Channels, LeaveOnTimeout(c) PROVE ToldNow'
    <2>1. /\ UNCHANGED <<m_bytes, queue, call, started>>
          /\ \A d \in Channels \ {c} : worker'[d] = worker[d]
          /\ worker'[c] = worker[c] \/ worker'[c].at \in {"none", "get", "exited"}
      BY <1>10, TypesHaveThese DEF LeaveOnTimeout, members, task, history, TypeOK, PlacesTypeOK
    <2>8. \A d \in Channels : ToldRight(d)'
      BY <2>1, ToldStays, AwayTellsNothing DEF ToldNow, Calls
    <2> QED BY <2>1, <2>8 DEF ToldNow, ChainedTold, Told, Channels
  <1>11. ASSUME NEW c \in Channels, EndsInThread(c) PROVE ToldNow'
    <2>1. PICK outcome \in Results :
            /\ EndsWith(c, worker[c].transfer, outcome)
            /\ worker' = [worker EXCEPT ![c].at = "published", ![c].count = outcome.count]
      BY <1>11 DEF EndsInThread
    <2>2. /\ UNCHANGED <<call, started, queue>> /\ Working(c)
          /\ \A d \in Channels \ {c} : worker'[d] = worker[d] /\ m_bytes'[d] = m_bytes[d]
          /\ worker'[c].at = "published" /\ worker'[c].count = outcome.count
          /\ worker'[c].transfer = worker[c].transfer
      BY <1>11, <2>1 DEF EndsInThread, EndsWith, Working, task, TypeOK, PlacesTypeOK, MembersTypeOK
    <2>3. /\ m_bytes[c] = 0 /\ ~InHand(c)'
          /\ worker[c].transfer = started[c] /\ started[c] # Dummy
      BY <2>2 DEF SoleInv, Sole, InHand, Called, Calls, Queued, Working
    <2>4. m_bytes'[c] = outcome.count
      BY <2>1, <2>3 DEF EndsWith, TypeOK, MembersTypeOK
    <2>5. ToldRight(c)' /\ Told(c)'
      BY <2>2, <2>3, <2>4 DEF ToldRight, Told
    <2>8. \A d \in Channels : ToldRight(d)'
      BY <2>2, <2>3, <2>5, ToldStays DEF ToldNow, Calls
    <2> QED BY <2>2, <2>3, <2>5, <2>8 DEF ToldNow, ChainedTold, Told, Channels
  <1>12. ASSUME NEW c \in Channels, Tests(c) PROVE ToldNow'
    <2>1. /\ UNCHANGED <<m_bytes, queue, call, started>>
          /\ \A d \in Channels \ {c} : worker'[d] = worker[d]
      BY <1>12 DEF Tests, members, task, history, TypeOK, PlacesTypeOK
    <2>2. CASE worker'[c].at = "get"
      <3>8. \A d \in Channels : ToldRight(d)'
        BY <2>1, <2>2, ToldStays, AwayTellsNothing DEF ToldNow, Calls
      <3> QED BY <2>1, <2>2, <3>8 DEF ToldNow, ChainedTold, Told, Channels
    <2>3. CASE worker'[c].at # "get"
      <3>1. /\ worker[c].at = "published" /\ worker'[c].at = "invoke"
            /\ worker'[c].transfer = worker[c].transfer /\ worker'[c].count = worker[c].count
            /\ (c = "rx" \/ driver = "uart") => worker'[c].size = m_bytes[c]
        BY <1>12, <2>3 DEF Tests, TypeOK, PlacesTypeOK
      <3>2. InHand(c)' <=> InHand(c)
        BY <2>1, <3>1 DEF InHand, Called, Calls, Queued, Working
      <3>3. ToldRight(c)' /\ (Told(c) <=> Told(c)')
        BY <2>1, <3>1, <3>2 DEF SerialStep, ToldNow, ToldRight, Told
      <3>8. \A d \in Channels : ToldRight(d)'
        BY <2>1, <3>1, <3>3, ToldStays DEF ToldNow, Calls
      <3> QED BY <2>1, <3>1, <3>3, <3>8 DEF ToldNow, ChainedTold, Told, Channels
    <2> QED BY <2>2, <2>3
  <1>13. ASSUME NEW c \in Channels, InvokeCallback(c) PROVE ToldNow'
    <2>1. /\ UNCHANGED <<m_bytes, queue, call, started>>
          /\ \A d \in Channels \ {c} : worker'[d] = worker[d]
          /\ worker[c].at = "invoke" /\ worker'[c].at \in {"callback", "crashed"}
          /\ worker'[c].transfer = worker[c].transfer /\ worker'[c].count = worker[c].count
          /\ worker'[c].size = worker[c].size
      BY <1>13 DEF InvokeCallback, members, task, history, TypeOK, PlacesTypeOK
    <2>2. InHand(c)' <=> InHand(c)
      BY <2>1 DEF InHand, Called, Calls, Queued, Working
    <2>3. ToldRight(c)'
      BY <2>1, <2>2 DEF SerialStep, ToldNow, ToldRight, Told
    <2>4. c = "rx" /\ "rx" \in Chained => worker[c].size = worker[c].count
      BY <2>1 DEF ToldNow, ToldRight, ChainedTold
    <2>8. \A d \in Channels : ToldRight(d)'
      BY <2>1, <2>3, <2>4, ToldStays DEF ToldNow, Calls
    <2> QED BY <2>1, <2>3, <2>4, <2>8 DEF ToldNow, ChainedTold, Told, Channels
  <1>14. ASSUME NEW c \in Channels, ReturnFromCallback(c) PROVE ToldNow'
    <2>1. /\ UNCHANGED <<m_bytes, queue, call, started>>
          /\ \A d \in Channels \ {c} : worker'[d] = worker[d]
          /\ worker'[c] = worker[c] \/ worker'[c].at \in {"none", "get", "exited"}
      BY <1>14, TypesHaveThese DEF ReturnFromCallback, members, task, history, TypeOK, PlacesTypeOK
    <2>8. \A d \in Channels : ToldRight(d)'
      BY <2>1, ToldStays, AwayTellsNothing DEF ToldNow, Calls
    <2> QED BY <2>1, <2>8 DEF ToldNow, ChainedTold, Told, Channels
  <1>15. ASSUME NEW k \in Callers, NEW c \in Channels, Start(k, c) PROVE ToldNow'
    <2>1. /\ UNCHANGED <<queue, worker>>
          /\ \A d \in Channels \ {c} : started'[d] = started[d] /\ m_bytes'[d] = m_bytes[d]
          /\ \A j \in Callers \ {k} : call'[j] = call[j]
          /\ call[k].at = "idle" /\ call'[k].channel = c
          /\ started'[c] = started[c] + 1 /\ k = Starter(c)
          /\ k = "callback" => worker["rx"].at = "callback"
      BY <1>15 DEF Start, Free, Idle, task, TypeOK, MembersTypeOK, PlacesTypeOK, HistoryTypeOK
    <2>2. /\ worker[c].transfer <= started[c] /\ worker[c].transfer \in Nat
          /\ started[c] \in Nat
      BY UartAssumption DEF SoleInv, Sole, TypeOK, PlacesTypeOK, HistoryTypeOK, Transfers
    <2>3. ~Told(c)'
      BY <2>1, <2>2 DEF Told
    <2>4. "rx" \in Chained /\ c = "rx" => worker["rx"].at \notin {"published", "invoke"}
      BY <2>1, <2>2 DEF ToldNow, ChainedTold, Starter, Dummy
    <2>5. \A d \in Channels : ToldRight(d)'
      BY <2>1, <2>3, ToldStays, UntoldIsRight DEF ToldNow, Calls
    <2> QED BY <2>1, <2>4, <2>5 DEF ToldNow, ChainedTold, Told, Channels
  <1>16. ASSUME NEW k \in Callers, Send(k) PROVE ToldNow'
    <2> PICK c \in Channels : c = call[k].channel
      BY DEF TypeOK, PlacesTypeOK
    <2>1. /\ UNCHANGED <<m_bytes, worker, started>>
          /\ \A d \in Channels \ {c} : queue'[d] = queue[d]
          /\ \A j \in Callers \ {k} : call'[j] = call[j]
          /\ call[k].at = "send" /\ call'[k].at = "idle"
      BY <1>16 DEF Send, Idle, TypeOK, TaskTypeOK, PlacesTypeOK, history
    <2>2. ~Told(c)'
      BY <2>1 DEF ToldNow, ToldRight, Told, InHand, Called, Calls
    <2>3. \A d \in Channels : ToldRight(d)'
      BY <2>1, <2>2, ToldStays, UntoldIsRight DEF ToldNow, Calls
    <2> QED BY <2>1, <2>3 DEF ToldNow, ChainedTold, Told, Channels
  <1>17. ASSUME NEW k \in Callers, EndsInCaller(k) PROVE ToldNow'
    <2> PICK c \in Channels : c = call[k].channel
      BY DEF TypeOK, PlacesTypeOK
    <2>1. /\ UNCHANGED <<queue, worker, started>>
          /\ \A d \in Channels \ {c} : m_bytes'[d] = m_bytes[d]
          /\ \A j \in Callers \ {k} : call'[j] = call[j]
          /\ call[k].at = "transfer" /\ call'[k].at = "idle"
      BY <1>17 DEF EndsInCaller, EndsWith, Idle, task, TypeOK, MembersTypeOK, PlacesTypeOK
    <2>2. ~Told(c)'
      BY <2>1 DEF ToldNow, ToldRight, Told, InHand, Called, Calls
    <2>3. \A d \in Channels : ToldRight(d)'
      BY <2>1, <2>2, ToldStays, UntoldIsRight DEF ToldNow, Calls
    <2> QED BY <2>1, <2>3 DEF ToldNow, ChainedTold, Told, Channels
  <1> QED BY <1>1, <1>2, <1>3, <1>4, <1>5, <1>6, <1>7, <1>8, <1>9, <1>10, <1>11, <1>12, <1>13, <1>14, <1>15, <1>16, <1>17
           DEF SerialStep, OwnerStep, ThreadStep

-----------------------------------------------------------------------------
(***************************************************************************)
(* The theorems                                                            *)
(***************************************************************************)
LEMMA SerialStarts == SerialInit => SerialInv
  <1> SUFFICES ASSUME SerialInit PROVE SerialInv
    OBVIOUS
  <1>1. TypeOK /\ driver \in {"uart", "file"}
    BY SerialInitType DEF SerialInit
  <1>2. /\ call = [k \in Callers |-> Idle] /\ worker = [c \in Channels |-> NoWorker]
        /\ conf = "idle" /\ configured = "never" /\ configures = 0 /\ m_linux_handle = "closed"
        /\ thread = [c \in Channels |-> FALSE] /\ m_terminate = [c \in Channels |-> FALSE]
        /\ queue = [c \in Channels |-> <<>>] /\ ended = [c \in Channels |-> <<>>]
        /\ started = [c \in Channels |-> 0] /\ m_bytes = [c \in Channels |-> 0]
    BY DEF SerialInit, Init
  <1>3. LifeInv /\ SettledInv /\ RunningIsPending /\ FreshInv
    BY <1>2 DEF LifeInv, SettledInv, Settled, RunningIsPending, FreshInv, First, Ending, GonePast,
                Idle, NoWorker, Callers, Channels
  <1>4. \A c \in Channels :
          /\ DOMAIN ended[c] = {} /\ Len(ended[c]) = 0 /\ ended[c] = <<>> /\ started[c] = 0
          /\ ~InHand(c) /\ ~Called(c) /\ ~Queued(c) /\ ~Working(c) /\ ~Told(c)
          /\ \A k \in Callers : ~Calls(k, c)
          /\ DOMAIN queue[c] = {} /\ worker[c].transfer <= started[c]
    BY <1>2, TypesHaveThese, EmptyHasNothing
    DEF InHand, Calls, Called, Queued, Working, Told, Idle, Dummy, Callers, Channels
  <1>5. SoleInv
    BY <1>2, <1>4 DEF SoleInv, Sole, ModeInv
  <1>6. OrderInv /\ BytesOfLastTransfer
    <2>1. \A c \in Channels : started[c] = Len(ended[c]) + 0 /\ ~InHand(c)
      BY <1>4
    <2> QED BY <1>4, <2>1 DEF OrderInv, Ordered, BytesOfLastTransfer
  <1>7. ToldInv
    BY <1>2, <1>4 DEF ToldInv, ToldRight, ChainedTold, NoWorker, Channels
  <1> QED BY <1>1, <1>3, <1>5, <1>6, <1>7 DEF SerialInv

LEMMA SerialStutters ==
  ASSUME SerialInv, UNCHANGED serialVars
  PROVE  SerialInv'
  <1> USE DEF serialVars, vars, members, task, history, bounds
  <1>1. TypeOK' /\ LifeInv' /\ SettledInv' /\ FreshInv'
    BY DEF SerialInv, TypeOK, MembersTypeOK, TaskTypeOK, PlacesTypeOK, HistoryTypeOK, LifeInv,
           SettledInv, Settled, FreshInv, First
  <1>2. RunningIsPending' /\ BytesOfLastTransfer'
    BY DEF SerialInv, RunningIsPending, Pending, BytesOfLastTransfer
  <1>3. \A c \in Channels : /\ InHand(c)' <=> InHand(c)
                            /\ Called(c)' <=> Called(c)
                            /\ Queued(c)' <=> Queued(c)
                            /\ Working(c)' <=> Working(c)
                            /\ Told(c)' <=> Told(c)
                            /\ Live(c)' <=> Live(c)
                            /\ \A k \in Callers : Calls(k, c)' <=> Calls(k, c)
    BY DEF InHand, Called, Calls, Queued, Working, Told, Live
  <1>4. SoleInv'
    BY <1>3 DEF SerialInv, SoleInv, Sole, ModeInv, First
  <1>5. OrderInv'
    BY <1>3 DEF SerialInv, OrderInv, Ordered, First
  <1>6. ToldInv'
    BY <1>3 DEF SerialInv, ToldInv, ToldRight, ChainedTold, Told, First
  <1> QED BY <1>1, <1>2, <1>4, <1>5, <1>6 DEF SerialInv

\* The inductive invariant holds of every behaviour of either driver.
THEOREM SerialInvariant == SerialSpec => []SerialInv
  <1>1. SerialInit => SerialInv
    BY SerialStarts
  <1>2. SerialInv /\ [SerialNext]_serialVars => SerialInv'
    <2> SUFFICES ASSUME SerialInv, [SerialNext]_serialVars PROVE SerialInv'
      OBVIOUS
    <2>1. CASE SerialNext
      <3>1. SerialStep /\ UNCHANGED driver
        BY <2>1, StepCases DEF SerialInv, SerialStep
      <3> QED BY <3>1, TypeNext, LifeNext, SettledNext, PendingNext, FreshNext, SoleNext,
                 OrderNext, BytesNext, ToldNext DEF SerialInv
    <2> QED BY <2>1, SerialStutters
  <1> QED BY <1>1, <1>2, PTL DEF SerialSpec

\* Every variable keeps its type (uart.cpp and linux_serial_file.cpp, their
\* members, tasks and queues): a queue never has more than UART_QUEUE_SIZE bundles.
THEOREM SerialTypes == SerialSpec => []TypeOK
  <1>1. SerialInv => TypeOK
    BY DEF SerialInv
  <1> QED BY <1>1, SerialInvariant, PTL

\* After a configure that succeeded a status that says running is true (getReadStatus
\* and getWriteStatus of uart.cpp): a caller, the queue of a task that has a thread, or
\* the thread itself has the transfer and will publish its end.
THEOREM SerialRunningIsPending == SerialSpec => []RunningIsPending
  <1>1. SerialInv => RunningIsPending
    BY DEF SerialInv
  <1> QED BY <1>1, SerialInvariant, PTL

\* A status that says a transfer has ended is true, so that its buffer may be used
\* again; and when the destructor has returned no thread and no call is left.
THEOREM SerialEndedIsEnded == SerialSpec => []EndedIsEnded
  <1>1. SerialInv => EndedIsEnded
    <2> SUFFICES ASSUME SerialInv PROVE EndedIsEnded
      OBVIOUS
    <2> USE DEF SerialInv
    <2>1. ASSUME First, NEW c \in Channels, Pending(c) PROVE m_status[c] = "running"
      <3>1. InHand(c)
        BY <2>1 DEF Pending, InHand, Called, Calls, Queued, Working
      <3> QED BY <2>1, <3>1 DEF SoleInv, Sole
    <2>2. ASSUME conf = "over"
          PROVE  /\ \A c \in Channels : worker[c].at = "none" /\ ~Pending(c)
                 /\ call = [k \in Callers |-> Idle]
      <3>1. \A c \in Channels : ~thread[c] /\ worker[c].at = "none"
        BY <2>2 DEF LifeInv, GonePast, Channels
      <3>2. \A k \in Callers : call[k] = Idle
        BY <2>2, <3>1 DEF LifeInv, Callers, Channels
      <3>3. call = [k \in Callers |-> Idle]
        BY <3>2 DEF TypeOK, PlacesTypeOK
      <3> QED BY <3>1, <3>2, <3>3 DEF Pending, Idle
    <2> QED BY <2>1, <2>2 DEF EndedIsEnded, First
  <1> QED BY <1>1, SerialInvariant, PTL

\* Every transfer ends once, and in the order in which they were started (read and
\* write, uart.cpp), until configure is called again.
THEOREM SerialEndInOrder == SerialSpec => []EndInOrder
  <1>1. SerialInv => EndInOrder
    BY DEF SerialInv, OrderInv, Ordered, EndInOrder, First
  <1> QED BY <1>1, SerialInvariant, PTL

\* Once a transfer has ended getBytesRead and getBytesWritten tell what its system
\* call reported.
THEOREM SerialBytesOfLastTransfer == SerialSpec => []BytesOfLastTransfer
  <1>1. SerialInv => BytesOfLastTransfer
    BY DEF SerialInv
  <1> QED BY <1>1, SerialInvariant, PTL

\* A callback is told how many bytes its own transfer moved (the end of
\* readAsynchronously and writeAsynchronously, uart.cpp), unless a later transfer of
\* the channel was started behind its back.
THEOREM SerialCallbackToldSize == SerialSpec => []CallbackToldSize
  <1>1. SerialInv => CallbackToldSize
    <2> SUFFICES ASSUME SerialInv, First PROVE CallbackToldSize
      BY DEF CallbackToldSize, OnlyLaterStartsSpoilSize, OnlyLaterReadsSpoilSize, First
    <2>1. \A c \in Channels :
            (/\ worker[c].at = "callback" /\ started[c] = worker[c].transfer
             /\ c = "rx" \/ driver = "uart")
              => worker[c].size = worker[c].count
      BY DEF SerialInv, ToldInv, ToldRight, Told
    <2>2. "rx" \in Chained /\ worker["rx"].at = "callback" => worker["rx"].size = worker["rx"].count
      BY DEF SerialInv, ToldInv, ChainedTold
    <2> QED BY <2>1, <2>2
            DEF CallbackToldSize, OnlyLaterStartsSpoilSize, OnlyLaterReadsSpoilSize, Channels
  <1> QED BY <1>1, SerialInvariant, PTL
=============================================================================
