----------------------------- MODULE LinuxQueue -----------------------------
(***************************************************************************)
(* LinuxQueue<T, MAX_SIZE> of drivers/linux/utils/linux_queue.hpp, the     *)
(* older queue kept beside Queue<T, SIZE>: a std::queue under a mutex      *)
(* whose put and get wait at most once ("if", not "while") and then trust  *)
(* the status of the wait; getActualSize takes no lock.                    *)
(***************************************************************************)
EXTENDS Integers, Sequences, QueueCalls

CONSTANTS MAX_SIZE, NoThread, MaxCalls, MaxSpurious

ASSUME LinuxQueueAssumption ==
  /\ MAX_SIZE \in Nat \ {0}   \* put and get refuse every call when it is 0
  /\ MaxCalls \in Nat /\ MaxSpurious \in Nat
  /\ NoThread \notin Threads

VARIABLES
  queue,                \* the std::queue
  owner,                \* the mutex
  not_full, not_empty,  \* threads waiting on each condition variable
  pc, status, call, result,
  budget, spurious

waiting == <<not_full, not_empty>>
vars == <<queue, owner, waiting, pc, status, call, result, budget, spurious>>

Init ==
  /\ queue = <<>>
  /\ owner = NoThread
  /\ not_full = {} /\ not_empty = {}
  /\ pc = [t \in Threads |-> "idle"]
  /\ status = [t \in Threads |-> "no_timeout"]
  /\ call = [t \in Threads |-> NoCall]
  /\ result = [t \in Threads |-> NoResult]
  /\ budget = [t \in Threads |-> MaxCalls]
  /\ spurious = MaxSpurious

Goto(t, l) == pc' = [pc EXCEPT ![t] = l]

\* A call that takes the mutex starts at "lock"; getActualSize does not.
Invoke(t) ==
  /\ pc[t] = "idle"
  /\ budget[t] > 0
  /\ budget' = [budget EXCEPT ![t] = @ - 1]
  /\ \E c \in CallsOf(t) :
       /\ call' = [call EXCEPT ![t] = c]
       /\ Goto(t, IF c.kind = "size" THEN "size" ELSE "lock")
  /\ result' = [result EXCEPT ![t] = NoResult]
  /\ status' = [status EXCEPT ![t] = "no_timeout"]
  /\ UNCHANGED <<queue, owner, waiting, spurious>>

Lock(t) ==
  /\ pc[t] = "lock"
  /\ owner = NoThread
  /\ owner' = t
  /\ Goto(t, "test")
  /\ UNCHANGED <<queue, waiting, status, call, result, budget, spurious>>

Return(t, r) ==
  /\ call' = [call EXCEPT ![t] = NoCall]
  /\ result' = [result EXCEPT ![t] = r]
  /\ owner' = IF owner = t THEN NoThread ELSE owner
  /\ UNCHANGED <<status, budget, spurious>>

\* Mutant: one element too many.
RoomForOneMore == Len(queue) <= MAX_SIZE
HasRoom == Len(queue) < MAX_SIZE

\* Mutant: a comparison that always holds for an unsigned size.
SizeNotNegative == Len(queue) >= 0
HasElement == queue # <<>>

\* put and get wait when the queue is full or empty, else go on to access it.
Test(t) ==
  /\ pc[t] = "test"
  /\ \/ /\ call[t].kind = "put" /\ ~HasRoom
        /\ not_full' = not_full \cup {t}
        /\ owner' = NoThread
        /\ Goto(t, "wait")
        /\ UNCHANGED not_empty
     \/ /\ call[t].kind = "get" /\ ~HasElement
        /\ not_empty' = not_empty \cup {t}
        /\ owner' = NoThread
        /\ Goto(t, "wait")
        /\ UNCHANGED not_full
     \/ /\ IF call[t].kind = "put" THEN HasRoom ELSE HasElement
        /\ Goto(t, "access")
        /\ UNCHANGED <<owner, waiting>>
  /\ UNCHANGED <<queue, status, call, result, budget, spurious>>

Leave(t) ==
  /\ not_full' = not_full \ {t}
  /\ not_empty' = not_empty \ {t}
  /\ Goto(t, "relock")

\* A zero timeout passes at once too.
DeadlinePasses(t) ==
  /\ pc[t] = "wait"
  /\ call[t].timeout # "max"
  /\ Leave(t)
  /\ status' = [status EXCEPT ![t] = "timeout"]
  /\ UNCHANGED <<queue, owner, call, result, budget, spurious>>

SpuriousWakeUp(t) ==
  /\ pc[t] = "wait"
  /\ spurious > 0
  /\ spurious' = spurious - 1
  /\ Leave(t)
  /\ UNCHANGED <<queue, owner, status, call, result, budget>>

\* wait_for returns with the mutex; nothing tests the queue again.
Relock(t) ==
  /\ pc[t] = "relock"
  /\ owner = NoThread
  /\ owner' = t
  /\ \/ UNCHANGED status
     \/ /\ call[t].timeout # "max"
        /\ status' = [status EXCEPT ![t] = "timeout"]
  /\ Goto(t, "access")
  /\ UNCHANGED <<queue, waiting, call, result, budget, spurious>>

TimedOut(t) ==
  /\ pc[t] = "access"
  /\ status[t] = "timeout"
  /\ Return(t, Failure)
  /\ Goto(t, "idle")
  /\ UNCHANGED <<queue, waiting>>

NotifyAndReturn(t, w, r) ==
  /\ Return(t, r)
  /\ IF w = {}
     THEN w' = w /\ Goto(t, "idle")
     ELSE \E u \in w :
            /\ w' = w \ {u}
            /\ pc' = [pc EXCEPT ![t] = "idle", ![u] = "relock"]

Push(t) ==
  /\ pc[t] = "access"
  /\ call[t].kind = "put"
  /\ status[t] = "no_timeout"
  /\ queue' = Append(queue, call[t].item)
  /\ NotifyAndReturn(t, not_empty, Success)
  /\ UNCHANGED not_full

\* front() and pop() of an empty std::queue are undefined: the caller gets an
\* arbitrary item and the queue is taken to stay empty.
Pop(t) ==
  /\ pc[t] = "access"
  /\ call[t].kind = "get"
  /\ status[t] = "no_timeout"
  /\ queue' = IF queue = <<>> THEN queue ELSE Tail(queue)
  /\ NotifyAndReturn(t, not_full,
       Got(IF queue = <<>> THEN Garbage ELSE Head(queue)))
  /\ UNCHANGED not_empty

GetActualSize(t) ==
  /\ pc[t] = "size"
  /\ Return(t, Sized(Len(queue)))
  /\ Goto(t, "idle")
  /\ UNCHANGED <<queue, waiting>>

Step(t) ==
  \/ Lock(t) \/ Relock(t) \/ DeadlinePasses(t)
  \/ Test(t) \/ TimedOut(t)
  \/ Push(t) \/ Pop(t) \/ GetActualSize(t)

Next == \E t \in Threads : Step(t) \/ Invoke(t) \/ SpuriousWakeUp(t)

Spec == Init /\ [][Next]_vars

-----------------------------------------------------------------------------
\* get takes the front of the queue only while the queue has one.
NeverPopsEmpty ==
  \A t \in Threads :
    pc[t] = "access" /\ call[t].kind = "get" /\ status[t] = "no_timeout"
      => queue # <<>>

\* Between one producer and one consumer that are never woken spuriously, the
\* single wait of get is enough.
PopsEmptyOnlyIfSpurious == spurious = MaxSpurious => NeverPopsEmpty

\* Between one producer and one consumer every element above the maximum is
\* paid for by a spurious wake-up, which put takes for room in the queue.
OverflowNeedsSpuriousWakeUp ==
  Len(queue) <= MAX_SIZE + (MaxSpurious - spurious)
=============================================================================
