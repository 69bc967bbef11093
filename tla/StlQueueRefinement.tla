------------------------- MODULE StlQueueRefinement -------------------------
(***************************************************************************)
(* StlQueue implements QueueSpec: every behaviour of the ring buffer is a  *)
(* behaviour of the bounded FIFO, for every capacity and set of threads.   *)
(*                                                                         *)
(* A put takes effect at PutCommit, a get at GetCommit, a failing call at  *)
(* the test that makes it give up; every other step stutters.              *)
(***************************************************************************)
EXTENDS StlQueueProofs, Sequences

-----------------------------------------------------------------------------
(***************************************************************************)
(* Sequences given as functions                                            *)
(***************************************************************************)
LEMMA SeqOfFunction ==
  ASSUME NEW S, NEW n \in Nat, NEW f \in [1 .. n -> S]
  PROVE  f \in Seq(S) /\ Len(f) = n
  OBVIOUS

LEMMA AppendOfFunction ==
  ASSUME NEW S, NEW n \in Nat, NEW f \in [1 .. n -> S],
         NEW g \in [1 .. n + 1 -> S], \A k \in 1 .. n : g[k] = f[k]
  PROVE  g = Append(f, g[n + 1])
  BY SeqOfFunction

LEMMA TailOfFunction ==
  ASSUME NEW S, NEW n \in Nat \ {0}, NEW f \in [1 .. n -> S],
         NEW g \in [1 .. n - 1 -> S], \A k \in 1 .. n - 1 : g[k] = f[k + 1]
  PROVE  f # <<>> /\ Head(f) = f[1] /\ g = Tail(f)
  BY SeqOfFunction

-----------------------------------------------------------------------------
(***************************************************************************)
(* The abstract queue before and after a step                              *)
(***************************************************************************)
\* The mapping is a sequence of items as long as the count.
LEMMA HeldIsSeq ==
  ASSUME TypeOK, RingConsistent
  PROVE  /\ m_count \in Nat
         /\ Held \in [1 .. m_count -> Items]
         /\ Held \in Seq(Items) /\ Len(Held) = m_count
  <1>1. m_count \in Nat /\ SIZE \in Nat /\ m_count <= SIZE
    BY QueueAssumption DEF TypeOK
  <1>2. Held \in [1 .. m_count -> Items]
    <2> SUFFICES ASSUME NEW k \in 1 .. m_count
                 PROVE  m_data[Ring(k - 1)] \in Items
      BY DEF Held
    <2>1. SIZE # 0 /\ k - 1 \in 0 .. m_count - 1
      BY <1>1
    <2> QED
      BY <2>1 DEF RingConsistent
  <1> QED
    BY <1>1, <1>2, SeqOfFunction

LEMMA HeldIsSeqNext ==
  ASSUME TypeOK', RingConsistent'
  PROVE  Held' \in [1 .. m_count' -> Items]
  <1> DEFINE n == m_count'
  <1>1. n \in Nat /\ SIZE \in Nat /\ n <= SIZE
    BY QueueAssumption DEF TypeOK
  <1>2. SIZE # 0 =>
          \A j \in 0 .. n - 1 : m_data'[(m_front_index' + j) % SIZE] \in Items
    BY DEF RingConsistent, Ring
  <1> HIDE DEF n
  <1>3. ASSUME NEW k \in 1 .. n
        PROVE  m_data'[(m_front_index' + (k - 1)) % SIZE] \in Items
    <2>1. SIZE # 0 /\ k - 1 \in 0 .. n - 1
      BY <1>1
    <2> QED
      BY <1>2, <2>1
  <1> QED
    BY <1>3 DEF Held, Ring, n

LEMMA HeldUnchanged ==
  ASSUME UNCHANGED ring
  PROVE  Held' = Held
  BY DEF Held, Ring, ring

\* Writing the free cell is invisible until the count moves.
LEMMA StoreInvisible ==
  ASSUME IInv, NEW t \in Threads, PutStore(t)
  PROVE  Held' = Held
  <1>1. SIZE # 0 /\ m_count < SIZE
    BY DEF IInv, LocalInv, Local, AtStore, PutStore
  <1>2. m_count \in Nat
    BY HeldIsSeq DEF IInv
  <1>3. \A k \in 1 .. m_count : m_data'[Ring(k - 1)] = m_data[Ring(k - 1)]
    <2> TAKE k \in 1 .. m_count
    <2>1. k - 1 \in 0 .. m_count - 1
      BY <1>2
    <2>2. Ring(k - 1) # m_rear_index /\ Ring(k - 1) \in Cells
      BY <1>1, <2>1, RearCellIsFree DEF IInv
    <2> QED
      BY <2>2 DEF PutStore, IInv, TypeOK
  <1> QED
    BY <1>3 DEF Held, Ring, PutStore

LEMMA CommitAppends ==
  ASSUME IInv, NEW t \in Threads, PutCommit(t)
  PROVE  /\ call[t].kind = "put" /\ Len(Held) < SIZE
         /\ Held' = Append(Held, call[t].item)
  <1>1. /\ call[t].kind = "put" /\ SIZE # 0 /\ m_count < SIZE
        /\ m_data[m_rear_index] = call[t].item
    BY DEF IInv, LocalInv, Local, AtStore, CellStored, PutCommit
  <1>2. m_count \in Nat /\ Held \in [1 .. m_count -> Items] /\ Len(Held) = m_count
    BY HeldIsSeq DEF IInv
  <1>3. IInv' /\ m_count' = m_count + 1 /\ UNCHANGED <<m_data, m_front_index>>
    BY PutCommitStep DEF PutCommit
  <1>4. Held' \in [1 .. m_count + 1 -> Items]
    <2>1. Held' \in [1 .. m_count' -> Items]
      <3>1. TypeOK' /\ RingConsistent'
        BY <1>3 DEF IInv
      <3> QED
        BY <3>1, HeldIsSeqNext
    <2> QED
      BY <1>3, <2>1
  <1>5. \A k \in 1 .. m_count : Held'[k] = Held[k]
    BY <1>2, <1>3 DEF Held, Ring
  <1>6. Held'[m_count + 1] = call[t].item
    <2>1. Held'[m_count + 1] = m_data[(m_front_index + ((m_count + 1) - 1)) % SIZE]
      BY <1>2, <1>3 DEF Held, Ring
    <2> QED
      BY <1>1, <1>2, <2>1 DEF IInv, RingConsistent, Ring
  <1> QED
    BY <1>1, <1>2, <1>4, <1>5, <1>6, AppendOfFunction

LEMMA CommitRemovesHead ==
  ASSUME IInv, NEW t \in Threads, GetCommit(t)
  PROVE  /\ call[t].kind = "get" /\ Held # <<>>
         /\ item[t] = Head(Held) /\ Held' = Tail(Held)
  <1>1. /\ call[t].kind = "get" /\ SIZE # 0 /\ m_count > 0
        /\ item[t] = m_data[m_front_index]
    BY DEF IInv, LocalInv, Local, AtFetch, CellFetched, GetCommit
  <1>2. /\ m_count \in Nat \ {0} /\ Held \in [1 .. m_count -> Items]
        /\ m_count <= SIZE /\ SIZE \in Nat \ {0}
        /\ m_front_index \in 0 .. SIZE - 1
    BY <1>1, HeldIsSeq, IndicesInRange DEF IInv, TypeOK, Cells
  <1>3. IInv' /\ m_count' = m_count - 1 /\ m_data' = m_data
        /\ m_front_index' = (m_front_index + 1) % SIZE
    BY GetCommitStep DEF GetCommit
  <1>4. Held' \in [1 .. m_count - 1 -> Items]
    <2>1. TypeOK' /\ RingConsistent'
      BY <1>3 DEF IInv
    <2> QED
      BY <1>3, <2>1, HeldIsSeqNext
  <1>5. \A k \in 1 .. m_count - 1 : Held'[k] = Held[k + 1]
    <2> TAKE k \in 1 .. m_count - 1
    <2>1. k - 1 \in 0 .. SIZE - 1 /\ (k - 1) + 1 = k /\ (k + 1) - 1 = k
          /\ k \in 1 .. m_count /\ k + 1 \in 1 .. m_count
      BY <1>2
    <2>2. (((m_front_index + 1) % SIZE) + (k - 1)) % SIZE = (m_front_index + k) % SIZE
      BY <1>2, <2>1, RingShift
    <2>3. Held'[k] = m_data[(((m_front_index + 1) % SIZE) + (k - 1)) % SIZE]
      BY <1>2, <1>3, <2>1 DEF Held, Ring
    <2>4. Held[k + 1] = m_data[(m_front_index + k) % SIZE]
      BY <1>2, <2>1 DEF Held, Ring
    <2> QED
      BY <2>2, <2>3, <2>4
  <1>6. Held[1] = m_data[m_front_index]
    <2>1. (m_front_index + 0) % SIZE = m_front_index
      <3>1. m_front_index \in 0 .. SIZE - 1 /\ SIZE \in Nat \ {0}
        BY <1>2
      <3> QED
        BY <3>1, RingCell, 0 \in 0 .. SIZE
    <2>2. Held[1] = m_data[(m_front_index + 0) % SIZE]
      BY <1>2 DEF Held, Ring
    <2> QED
      BY <2>1, <2>2
  <1>7. Held # <<>> /\ Head(Held) = Held[1] /\ Held' = Tail(Held)
    BY <1>2, <1>4, <1>5, TailOfFunction
  <1> QED
    BY <1>1, <1>6, <1>7

-----------------------------------------------------------------------------
(***************************************************************************)
(* The refinement                                                          *)
(***************************************************************************)
\* Callers of both specifications make the same calls and see the same results.
LEMMA SameInterface ==
  /\ Abstract!Threads = Threads
  /\ Abstract!NoCall = NoCall
  /\ Abstract!NoResult = NoResult /\ Abstract!Failure = Failure
  /\ Abstract!Success = Success
  /\ \A i : Abstract!Got(i) = Got(i) /\ Abstract!Sized(i) = Sized(i)
  /\ \A t : Abstract!CallsOf(t) = CallsOf(t)
  <1>1. /\ Abstract!Threads = Threads
        /\ Abstract!NoCall = NoCall
        /\ Abstract!NoResult = NoResult /\ Abstract!Failure = Failure
        /\ Abstract!Success = Success
    BY DEF Threads, NoCall, NoResult, Failure, Success, Call, Result,
           Abstract!Threads, Abstract!NoCall, Abstract!NoResult,
           Abstract!Failure, Abstract!Success, Abstract!Call, Abstract!Result
  <1>2. \A i : Abstract!Got(i) = Got(i) /\ Abstract!Sized(i) = Sized(i)
    BY DEF Got, Sized, Result, Abstract!Got, Abstract!Sized, Abstract!Result
  <1>3. \A t : Abstract!CallsOf(t) = CallsOf(t)
    BY DEF CallsOf, PutCalls, GetCalls, SizeCall, Call, Timeouts,
           Abstract!CallsOf, Abstract!PutCalls, Abstract!GetCalls,
           Abstract!SizeCall, Abstract!Call, Abstract!Timeouts
  <1> QED
    BY <1>1, <1>2, <1>3

LEMMA EmptyHeld ==
  ASSUME m_count = 0
  PROVE  Held = <<>>
  <1>1. Held \in [1 .. 0 -> {Held}]
    BY DEF Held
  <1> QED
    BY <1>1

LEMMA InitImplements == Init => Abstract!Init
  <1> SUFFICES ASSUME Init PROVE Abstract!Init
    OBVIOUS
  <1>1. Held = <<>>
    BY EmptyHeld DEF Init
  <1> QED
    BY <1>1, SameInterface DEF Init, Abstract!Init

\* A call that gives up does so on a full or an empty queue.
LEMMA GiveUpImplements ==
  ASSUME IInv, NEW t \in Threads, pc[t] = "test", GiveUp(t),
         \/ call[t].kind = "put" /\ Full
         \/ call[t].kind = "get" /\ Empty
  PROVE  Abstract!Next
  <1>1. Held' = Held /\ Len(Held) = m_count
    BY HeldUnchanged, HeldIsSeq DEF GiveUp, IInv
  <1>2. SIZE = 0 \/ call[t].timeout # "max"
    BY DEF GiveUp, GivesUp, IInv, LocalInv, Local, Deadline
  <1>3. Abstract!Return(t, Abstract!Failure)
    BY SameInterface DEF GiveUp, Return, Abstract!Return
  <1>4. CASE call[t].kind = "put" /\ Full
    <2>1. Abstract!PutFails(t)
      BY <1>1, <1>2, <1>3, <1>4 DEF Full, IInv, TypeOK, Abstract!PutFails
    <2> QED
      BY <2>1, SameInterface DEF Abstract!Next
  <1>5. CASE call[t].kind = "get" /\ Empty
    <2>1. Held = <<>>
      BY <1>5, EmptyHeld DEF Empty, IInv, TypeOK
    <2>2. Abstract!GetFails(t)
      BY <1>1, <1>2, <1>3, <1>5, <2>1 DEF Abstract!GetFails
    <2> QED
      BY <2>2, SameInterface DEF Abstract!Next
  <1> QED
    BY <1>4, <1>5

\* Every step of a call is a step of the FIFO or invisible.
LEMMA StepImplements ==
  ASSUME IInv, NEW t \in Threads, Step(t)
  PROVE  [Abstract!Next]_Abstract!vars
  <1>1. CASE Lock(t) \/ Relock(t) \/ DeadlinePasses(t) \/ GetFetch(t)
    BY <1>1, HeldUnchanged
    DEF Lock, Relock, DeadlinePasses, GetFetch, client, Abstract!vars
  <1>2. CASE PutTest(t)
    <2>1. CASE Full /\ GiveUp(t)
      BY <1>2, <2>1, GiveUpImplements DEF PutTest
    <2>2. CASE ~(Full /\ GiveUp(t))
      BY <1>2, <2>2, HeldUnchanged DEF PutTest, WaitNotFull, client, Abstract!vars
    <2> QED
      BY <2>1, <2>2
  <1>3. CASE GetTest(t)
    <2>1. CASE Empty /\ GiveUp(t)
      BY <1>3, <2>1, GiveUpImplements DEF GetTest
    <2>2. CASE ~(Empty /\ GiveUp(t))
      BY <1>3, <2>2, HeldUnchanged DEF GetTest, WaitNotEmpty, client, Abstract!vars
    <2> QED
      BY <2>1, <2>2
  <1>4. CASE PutStore(t)
    BY <1>4, StoreInvisible DEF PutStore, client, Abstract!vars
  <1>5. CASE PutCommit(t)
    <2>1. Abstract!Return(t, Abstract!Success)
      BY <1>5, SameInterface DEF PutCommit, NotifyAndReturn, Return, Abstract!Return
    <2>2. Abstract!Put(t)
      BY <1>5, <2>1, CommitAppends DEF Abstract!Put
    <2> QED
      BY <2>2, SameInterface DEF Abstract!Next
  <1>6. CASE GetCommit(t)
    <2>1. Abstract!Return(t, Abstract!Got(item[t]))
      BY <1>6, SameInterface DEF GetCommit, NotifyAndReturn, Return, Abstract!Return
    <2>2. Abstract!Get(t)
      BY <1>6, <2>1, CommitRemovesHead DEF Abstract!Get
    <2> QED
      BY <2>2, SameInterface DEF Abstract!Next
  <1>7. CASE GetActualSize(t)
    <2>1. Held' = Held /\ Len(Held) = m_count
      BY <1>7, HeldUnchanged, HeldIsSeq DEF GetActualSize, IInv
    <2>2. Abstract!Return(t, Abstract!Sized(m_count))
      BY <1>7, SameInterface DEF GetActualSize, Return, Abstract!Return
    <2>3. Abstract!GetActualSize(t)
      BY <1>7, <2>1, <2>2 DEF GetActualSize, Abstract!GetActualSize
    <2> QED
      BY <2>3, SameInterface DEF Abstract!Next
  <1> QED
    BY <1>1, <1>2, <1>3, <1>4, <1>5, <1>6, <1>7 DEF Step

LEMMA InvokeImplements ==
  ASSUME IInv, NEW t \in Threads, Invoke(t)
  PROVE  Abstract!Next
  <1>1. call[t] = NoCall
    <2>1. call[t] \in Requests /\ call[t].kind = "none"
      BY DEF IInv, TypeOK, LocalInv, Local, Calls, Invoke, Requests
    <2> QED
      BY <2>1, RequestKinds
  <1>2. Held' = Held
    BY HeldUnchanged DEF Invoke
  <1>3. Abstract!Invoke(t)
    BY <1>1, <1>2, SameInterface DEF Invoke, Abstract!Invoke
  <1> QED
    BY <1>3, SameInterface DEF Abstract!Next

\* The ring buffer with its mutex and condition variables implements the
\* bounded FIFO that put, get and getActualSize promise: every call takes
\* effect at one instant, in order, without loss or duplication.
THEOREM Refinement == Spec => ImplementsQueueSpec
  <1>1. IInv /\ [Next]_vars => [Abstract!Next]_Abstract!vars
    <2> SUFFICES ASSUME IInv, [Next]_vars
                 PROVE  [Abstract!Next]_Abstract!vars
      OBVIOUS
    <2>1. CASE UNCHANGED vars
      BY <2>1, HeldUnchanged DEF vars, client, Abstract!vars
    <2>2. ASSUME NEW t \in Threads, Step(t)
          PROVE  [Abstract!Next]_Abstract!vars
      BY <2>2, StepImplements
    <2>3. ASSUME NEW t \in Threads, Invoke(t)
          PROVE  [Abstract!Next]_Abstract!vars
      BY <2>3, InvokeImplements
    <2>4. ASSUME NEW t \in Threads, SpuriousWakeUp(t)
          PROVE  [Abstract!Next]_Abstract!vars
      BY <2>4, HeldUnchanged DEF SpuriousWakeUp, client, Abstract!vars
    <2> QED
      BY <2>1, <2>2, <2>3, <2>4 DEF Next
  <1> QED
    BY <1>1, Invariance, InitImplements, PTL
    DEF Spec, ImplementsQueueSpec, Abstract!Spec
=============================================================================
