----------------------------- MODULE QueueSpec -----------------------------
(***************************************************************************)
(* What Queue<T, SIZE> promises its callers (queue_interface.hpp, the doc  *)
(* comments of stl_queue.tpp): a FIFO of at most SIZE items that any       *)
(* number of threads use at once.  Every call takes effect at one instant, *)
(* puts append, gets remove from the head, and a call reports failure only *)
(* when its timeout allows it and the queue really was full (put) or empty *)
(* (get) at that instant.                                                  *)
(*                                                                         *)
(* Only "queue" is internal; "call" and "result" are what callers see.     *)
(***************************************************************************)
EXTENDS Integers, Sequences, QueueCalls

CONSTANT SIZE          \* the template argument: capacity of the queue

VARIABLES queue,       \* the items held, oldest first
          call,        \* the call each thread has made, or NoCall
          result       \* what the last call of each thread returned

vars == <<queue, call, result>>

Init ==
  /\ queue = <<>>
  /\ call = [t \in Threads |-> NoCall]
  /\ result = [t \in Threads |-> NoResult]

Invoke(t) ==
  /\ call[t] = NoCall
  /\ \E c \in CallsOf(t) : call' = [call EXCEPT ![t] = c]
  /\ result' = [result EXCEPT ![t] = NoResult]
  /\ UNCHANGED queue

Return(t, r) ==
  /\ call' = [call EXCEPT ![t] = NoCall]
  /\ result' = [result EXCEPT ![t] = r]

Put(t) ==
  /\ call[t].kind = "put"
  /\ Len(queue) < SIZE
  /\ queue' = Append(queue, call[t].item)
  /\ Return(t, Success)

PutFails(t) ==
  /\ call[t].kind = "put"
  /\ Len(queue) >= SIZE
  /\ SIZE = 0 \/ call[t].timeout # "max"
  /\ Return(t, Failure)
  /\ UNCHANGED queue

Get(t) ==
  /\ call[t].kind = "get"
  /\ queue # <<>>
  /\ queue' = Tail(queue)
  /\ Return(t, Got(Head(queue)))

GetFails(t) ==
  /\ call[t].kind = "get"
  /\ queue = <<>>
  /\ SIZE = 0 \/ call[t].timeout # "max"
  /\ Return(t, Failure)
  /\ UNCHANGED queue

GetActualSize(t) ==
  /\ call[t].kind = "size"
  /\ Return(t, Sized(Len(queue)))
  /\ UNCHANGED queue

Next ==
  \E t \in Threads :
    \/ Invoke(t)
    \/ Put(t) \/ PutFails(t)
    \/ Get(t) \/ GetFails(t)
    \/ GetActualSize(t)

Spec == Init /\ [][Next]_vars
=============================================================================
