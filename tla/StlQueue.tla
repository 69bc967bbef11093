------------------------------ MODULE StlQueue ------------------------------
(***************************************************************************)
(* Queue<T, SIZE> of drivers/linux/task_system/stl_queue.{hpp,tpp}: a ring *)
(* buffer in a std::array under a std::mutex, with one condition variable  *)
(* for putters (m_not_full) and one for getters (m_not_empty).             *)
(*                                                                         *)
(* Threads interleave between the steps of a call; a thread that waits has *)
(* released the mutex and must take it again once it is notified, its      *)
(* deadline passes, or it wakes spuriously.  The critical section itself   *)
(* is split (test, access to the cell, commit) so that it is the mutex,    *)
(* not the grain of the actions, that keeps threads apart.                 *)
(***************************************************************************)
EXTENDS Integers, FiniteSets, QueueCalls

CONSTANTS SIZE,          \* the template argument: capacity of the queue
          NoThread,      \* value of "owner" while the mutex is free
          MaxCalls,      \* bound: calls each thread makes
          MaxSpurious    \* bound: spurious wake-ups in a behaviour

ASSUME QueueAssumption ==
  /\ SIZE \in Nat
  /\ MaxCalls \in Nat
  /\ MaxSpurious \in Nat
  /\ NoThread \notin Threads
  /\ IsFiniteSet(Threads)

VARIABLES
  m_data, m_front_index, m_rear_index, m_count,
  owner,       \* m_mutex: the thread that holds it, or NoThread
  m_not_full,  \* threads waiting on each condition variable
  m_not_empty,
  pc,          \* where each thread is inside its call
  status,      \* local std::cv_status of each call
  item,        \* the reference parameter a get fills
  call, result,
  budget,      \* calls each thread may still make
  spurious     \* spurious wake-ups still possible

ring == <<m_data, m_front_index, m_rear_index, m_count>>
waiting == <<m_not_full, m_not_empty>>
client == <<call, result, budget>>
vars == <<ring, owner, waiting, pc, status, item, client, spurious>>

Cells == 0 .. SIZE - 1

Locations ==
  {"idle", "lock", "test", "store", "fetch", "putCommit", "getCommit",
   "wait", "relock"}

-----------------------------------------------------------------------------
\* ASSUMED: the indices and the count, to which the class gives no value, begin
\* at zero.  They do in a queue in static storage; of one in automatic storage
\* (a local Queue, or one in a local Task or UART), whose members begin with
\* whatever was there, this module says nothing.
Init ==
  /\ m_data = [i \in Cells |-> Garbage]
  /\ m_front_index = 0 /\ m_rear_index = 0 /\ m_count = 0
  /\ owner = NoThread
  /\ m_not_full = {} /\ m_not_empty = {}
  /\ pc = [t \in Threads |-> "idle"]
  /\ status = [t \in Threads |-> "no_timeout"]
  /\ item = [t \in Threads |-> Garbage]
  /\ call = [t \in Threads |-> NoCall]
  /\ result = [t \in Threads |-> NoResult]
  /\ budget = [t \in Threads |-> MaxCalls]
  /\ spurious = MaxSpurious

-----------------------------------------------------------------------------
(***************************************************************************)
(* The mutex and the condition variables                                   *)
(***************************************************************************)
Goto(t, l) == pc' = [pc EXCEPT ![t] = l]

\* Mutant: getActualSize reads the count without the mutex.
LockSizeUnlocked(t) ==
  /\ pc[t] = "lock"
  /\ IF call[t].kind = "size"
     THEN owner' = owner
     ELSE owner = NoThread /\ owner' = t
  /\ Goto(t, "test")
  /\ UNCHANGED <<ring, waiting, status, item, client, spurious>>

\* std::unique_lock's constructor.
Lock(t) ==
  /\ pc[t] = "lock"
  /\ owner = NoThread
  /\ owner' = t
  /\ Goto(t, "test")
  /\ UNCHANGED <<ring, waiting, status, item, client, spurious>>

\* wait_until releases the mutex and blocks in one step; notify_one, the
\* deadline or a spurious wake-up ends the wait.
WaitNotFull(t) ==
  /\ m_not_full' = m_not_full \cup {t}
  /\ owner' = NoThread
  /\ Goto(t, "wait")
  /\ UNCHANGED <<ring, m_not_empty, status, item, client, spurious>>

WaitNotEmpty(t) ==
  /\ m_not_empty' = m_not_empty \cup {t}
  /\ owner' = NoThread
  /\ Goto(t, "wait")
  /\ UNCHANGED <<ring, m_not_full, status, item, client, spurious>>

Leave(t) ==
  /\ m_not_full' = m_not_full \ {t}
  /\ m_not_empty' = m_not_empty \ {t}
  /\ Goto(t, "relock")

DeadlinePasses(t) ==
  /\ pc[t] = "wait"
  /\ call[t].timeout = "finite"
  /\ Leave(t)
  /\ status' = [status EXCEPT ![t] = "timeout"]
  /\ UNCHANGED <<ring, owner, item, client, spurious>>

SpuriousWakeUp(t) ==
  /\ pc[t] = "wait"
  /\ spurious > 0
  /\ spurious' = spurious - 1
  /\ Leave(t)
  /\ UNCHANGED <<ring, owner, status, item, client>>

\* wait_until takes the mutex again, then compares the clock with the
\* deadline: a notified thread may find that its deadline has passed too.
Relock(t) ==
  /\ pc[t] = "relock"
  /\ owner = NoThread
  /\ owner' = t
  /\ Goto(t, "test")
  /\ \/ UNCHANGED status
     \/ /\ call[t].timeout = "finite"
        /\ status' = [status EXCEPT ![t] = "timeout"]
  /\ UNCHANGED <<ring, waiting, item, client, spurious>>

\* Return from the call, which releases the mutex.
Return(t, r) ==
  /\ call' = [call EXCEPT ![t] = NoCall]
  /\ result' = [result EXCEPT ![t] = r]
  /\ owner' = NoThread
  /\ UNCHANGED budget

\* t returns after notify_one on a condition variable w: one of the threads
\* waiting on it, if there is one, leaves the wait set.
NotifyAndReturn(t, w, r) ==
  /\ Return(t, r)
  /\ IF w = {}
     THEN w' = w /\ Goto(t, "idle")
     ELSE \E u \in w :
            /\ w' = w \ {u}
            /\ pc' = [pc EXCEPT ![t] = "idle", ![u] = "relock"]

-----------------------------------------------------------------------------
(***************************************************************************)
(* A thread makes a call                                                   *)
(***************************************************************************)
Invoke(t) ==
  /\ pc[t] = "idle"
  /\ budget[t] > 0
  /\ budget' = [budget EXCEPT ![t] = @ - 1]
  /\ \E c \in CallsOf(t) : call' = [call EXCEPT ![t] = c]
  /\ result' = [result EXCEPT ![t] = NoResult]
  /\ status' = [status EXCEPT ![t] = "no_timeout"]
  /\ item' = [item EXCEPT ![t] = Garbage]
  /\ Goto(t, "lock")
  /\ UNCHANGED <<ring, owner, waiting, spurious>>

\* Mutant: a wait that timed out goes back to wait.
GivesUpOnZeroOnly(t) == SIZE = 0 \/ call[t].timeout = "zero"

\* A put or get that cannot go on gives up if it may not wait (any longer).  A
\* queue of size 0, the output queue of every driver's task, is both full and
\* empty and makes nobody wait, whatever the timeout.
GivesUp(t) == SIZE = 0 \/ call[t].timeout = "zero" \/ status[t] = "timeout"

GiveUp(t) ==
  /\ GivesUp(t)
  /\ Return(t, Failure)
  /\ Goto(t, "idle")
  /\ UNCHANGED <<ring, waiting, status, item, spurious>>

-----------------------------------------------------------------------------
(***************************************************************************)
(* put                                                                     *)
(***************************************************************************)
Full == SIZE = 0 \/ m_count >= SIZE

\* Mutant: a put whose wait timed out fails without looking for room again.
PutTestTimeoutFirst(t) ==
  /\ pc[t] = "test"
  /\ call[t].kind = "put"
  /\ \/ status[t] = "timeout" /\ GiveUp(t)
     \/ Full /\ GiveUp(t)
     \/ Full /\ ~GivesUp(t) /\ WaitNotFull(t)
     \/ /\ ~Full /\ status[t] # "timeout"
        /\ Goto(t, "store")
        /\ UNCHANGED <<ring, owner, waiting, status, item, client, spurious>>

PutTest(t) ==
  /\ pc[t] = "test"
  /\ call[t].kind = "put"
  /\ \/ Full /\ GiveUp(t)
     \/ Full /\ ~GivesUp(t) /\ WaitNotFull(t)
     \/ /\ ~Full
        /\ Goto(t, "store")
        /\ UNCHANGED <<ring, owner, waiting, status, item, client, spurious>>

PutStore(t) ==
  /\ pc[t] = "store"
  /\ m_data' = [m_data EXCEPT ![m_rear_index] = call[t].item]
  /\ Goto(t, "putCommit")
  /\ UNCHANGED <<m_front_index, m_rear_index, m_count, owner, waiting,
                 status, item, client, spurious>>

\* Mutant: the rear index runs off the array.
PutCommitNoWrap(t) ==
  /\ pc[t] = "putCommit"
  /\ m_rear_index' = m_rear_index + 1
  /\ m_count' = m_count + 1
  /\ NotifyAndReturn(t, m_not_empty, Success)
  /\ UNCHANGED <<m_data, m_front_index, m_not_full, status, item, spurious>>

\* Mutant: put wakes a putter instead of a getter.
PutCommitWrongCondition(t) ==
  /\ pc[t] = "putCommit"
  /\ m_rear_index' = (m_rear_index + 1) % SIZE
  /\ m_count' = m_count + 1
  /\ NotifyAndReturn(t, m_not_full, Success)
  /\ UNCHANGED <<m_data, m_front_index, m_not_empty, status, item, spurious>>

PutCommit(t) ==
  /\ pc[t] = "putCommit"
  /\ m_rear_index' = (m_rear_index + 1) % SIZE
  /\ m_count' = m_count + 1
  /\ NotifyAndReturn(t, m_not_empty, Success)
  /\ UNCHANGED <<m_data, m_front_index, m_not_full, status, item, spurious>>

-----------------------------------------------------------------------------
(***************************************************************************)
(* get: its second "if (m_count == 0)" can never hold and has no step      *)
(***************************************************************************)
Empty == SIZE = 0 \/ m_count = 0

GetTest(t) ==
  /\ pc[t] = "test"
  /\ call[t].kind = "get"
  /\ \/ Empty /\ GiveUp(t)
     \/ Empty /\ ~GivesUp(t) /\ WaitNotEmpty(t)
     \/ /\ ~Empty
        /\ Goto(t, "fetch")
        /\ UNCHANGED <<ring, owner, waiting, status, item, client, spurious>>

GetFetch(t) ==
  /\ pc[t] = "fetch"
  /\ item' = [item EXCEPT ![t] = m_data[m_front_index]]
  /\ Goto(t, "getCommit")
  /\ UNCHANGED <<ring, owner, waiting, status, client, spurious>>

\* Mutant: get does not advance the front index.
GetCommitNoAdvance(t) ==
  /\ pc[t] = "getCommit"
  /\ m_count' = m_count - 1
  /\ NotifyAndReturn(t, m_not_full, Got(item[t]))
  /\ UNCHANGED <<m_data, m_front_index, m_rear_index, m_not_empty, status,
                 item, spurious>>

\* Mutant: get notifies nobody.
GetCommitSilent(t) ==
  /\ pc[t] = "getCommit"
  /\ m_front_index' = (m_front_index + 1) % SIZE
  /\ m_count' = m_count - 1
  /\ Return(t, Got(item[t]))
  /\ Goto(t, "idle")
  /\ UNCHANGED <<m_data, m_rear_index, waiting, status, item, spurious>>

GetCommit(t) ==
  /\ pc[t] = "getCommit"
  /\ m_front_index' = (m_front_index + 1) % SIZE
  /\ m_count' = m_count - 1
  /\ NotifyAndReturn(t, m_not_full, Got(item[t]))
  /\ UNCHANGED <<m_data, m_rear_index, m_not_empty, status, item, spurious>>

-----------------------------------------------------------------------------
GetActualSize(t) ==
  /\ pc[t] = "test"
  /\ call[t].kind = "size"
  /\ Return(t, Sized(m_count))
  /\ Goto(t, "idle")
  /\ UNCHANGED <<ring, waiting, status, item, spurious>>

-----------------------------------------------------------------------------
\* The steps of a call once it is made: the scheduler runs every thread.
Step(t) ==
  \/ Lock(t) \/ Relock(t) \/ DeadlinePasses(t)
  \/ PutTest(t) \/ PutStore(t) \/ PutCommit(t)
  \/ GetTest(t) \/ GetFetch(t) \/ GetCommit(t)
  \/ GetActualSize(t)

Next == \E t \in Threads : Step(t) \/ Invoke(t) \/ SpuriousWakeUp(t)

Spec == Init /\ [][Next]_vars

Fairness == \A t \in Threads : WF_vars(Step(t))
FairSpec == Spec /\ Fairness

-----------------------------------------------------------------------------
(***************************************************************************)
(* Properties                                                              *)
(***************************************************************************)
\* Every variable has its type.
TypeOK ==
  /\ m_data \in [Cells -> Items \cup {Garbage}]
  /\ m_front_index \in Cells \cup {0}
  /\ m_rear_index \in Cells \cup {0}
  /\ m_count \in 0 .. SIZE
  /\ owner \in Threads \cup {NoThread}
  /\ m_not_full \subseteq Threads
  /\ m_not_empty \subseteq Threads
  /\ pc \in [Threads -> Locations]
  /\ status \in [Threads -> {"no_timeout", "timeout"}]
  /\ item \in [Threads -> Items \cup {Garbage}]
  /\ call \in [Threads -> PutCalls \cup GetCalls \cup {SizeCall, NoCall}]
  /\ result \in [Threads -> [ok : BOOLEAN, item : Items \cup {Garbage},
                              size : 0 .. SIZE]]
  /\ budget \in [Threads -> 0 .. MaxCalls]
  /\ spurious \in 0 .. MaxSpurious

InCritical(t) == pc[t] \in {"test", "store", "fetch", "putCommit", "getCommit"}

\* m_mutex works: exactly the thread that holds it is inside the critical
\* section of put, get or getActualSize, also after a wait gave the mutex up
\* and took it back.
MutualExclusion == \A t \in Threads : InCritical(t) <=> owner = t

Ring(k) == (m_front_index + k) % SIZE

\* The two indices and the count describe one ring: the rear index is count
\* cells after the front one and every cell in between was written by a put.
RingConsistent ==
  SIZE # 0 =>
    /\ m_rear_index = Ring(m_count)
    /\ \A k \in 0 .. m_count - 1 : m_data[Ring(k)] \in Items

\* What a get hands to its caller was put by someone, never an element of
\* m_data that nobody wrote.
GetsOnlyPutItems ==
  \A t \in Threads : pc[t] = "getCommit" => item[t] \in Items

Awake(k, l) ==
  {t \in Threads : call[t].kind = k /\ pc[t] \in {"relock", "test"} \cup l}

\* notify_one loses no wake-up: while somebody waits for room, every free cell
\* has a putter awake to claim it, and while somebody waits for an item, every
\* item has a getter awake to take it, whoever barged in or timed out between.
NoLostWakeUp ==
  /\ m_not_full # {} =>
       SIZE - m_count <= Cardinality(Awake("put", {"store", "putCommit"}))
  /\ m_not_empty # {} =>
       m_count <= Cardinality(Awake("get", {"fetch", "getCommit"}))

\* The queue as its callers see it: the cells from front to rear, in order.
Held == [k \in 1 .. m_count |-> m_data[Ring(k - 1)]]

Abstract == INSTANCE QueueSpec WITH queue <- Held

\* The ring buffer implements the bounded FIFO: calls take effect one at a
\* time, in order, with no item lost, duplicated or invented, and put and get
\* return false only when the queue is full or empty at that moment.
ImplementsQueueSpec == Abstract!Spec

\* A call that was given a deadline returns.
DeadlinesAreKept ==
  \A t \in Threads :
    (pc[t] # "idle" /\ call[t].timeout # "max") ~> pc[t] = "idle"

StuckPut(t) == pc[t] = "wait" /\ call[t].kind = "put" /\ m_count = SIZE
StuckGet(t) == pc[t] = "wait" /\ call[t].kind = "get" /\ m_count = 0

\* A call without a deadline waits for ever only for a good reason: once the
\* callers stop, those still inside wait for room in a full queue or for an
\* item in an empty one.
OnlyJustifiedWaits ==
  <>[](\A t \in Threads : pc[t] = "idle" \/ StuckPut(t) \/ StuckGet(t))
=============================================================================
