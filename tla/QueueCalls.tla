----------------------------- MODULE QueueCalls -----------------------------
(***************************************************************************)
(* The calls threads make on a queue and what those calls return: the      *)
(* interface of queue_interface.hpp, shared by the abstract queue and the  *)
(* implementations of it.                                                  *)
(*                                                                         *)
(* A timeout is abstracted to what put and get distinguish: "zero" never   *)
(* waits, "finite" gives up after its deadline, and "max" stands for       *)
(* UINT32_MAX milliseconds (49 days), taken never to elapse.               *)
(***************************************************************************)
EXTENDS Integers

CONSTANTS Producers,   \* threads that put
          Consumers,   \* threads that get
          Items,       \* the values of type T that are put
          Garbage      \* an element of m_data that no put has written

Threads == Producers \cup Consumers

Timeouts == {"zero", "finite", "max"}

Call(k, i, w) == [kind |-> k, item |-> i, timeout |-> w]

\* A get or a size call carries no item: the field holds Garbage.
NoCall == Call("none", Garbage, "zero")
PutCalls == {Call("put", i, w) : i \in Items, w \in Timeouts}
GetCalls == {Call("get", Garbage, w) : w \in Timeouts}
SizeCall == Call("size", Garbage, "zero")

CallsOf(t) ==
  {c \in PutCalls \cup GetCalls \cup {SizeCall} :
     /\ c.kind = "put" => t \in Producers
     /\ c.kind = "get" => t \in Consumers}

Result(k, i, n) == [ok |-> k, item |-> i, size |-> n]

NoResult == Result(FALSE, Garbage, 0)
Failure == NoResult
Success == Result(TRUE, Garbage, 0)
Got(i) == Result(TRUE, i, 0)
Sized(n) == Result(TRUE, Garbage, n)

ASSUME GarbageAssumption == Garbage \notin Items
=============================================================================
