--------------------------- MODULE StlQueueProofs ---------------------------
(***************************************************************************)
(* Proofs about StlQueue for every capacity, every set of threads and      *)
(* items, and every bound on calls and spurious wake-ups.                  *)
(***************************************************************************)
EXTENDS StlQueue, TLAPS

Requests == PutCalls \cup GetCalls \cup {SizeCall, NoCall}

\* What a thread knows at each place of its call.
AtStore(t) ==
  pc[t] \in {"store", "putCommit"} =>
    call[t].kind = "put" /\ SIZE # 0 /\ m_count < SIZE

AtFetch(t) ==
  pc[t] \in {"fetch", "getCommit"} =>
    call[t].kind = "get" /\ SIZE # 0 /\ m_count > 0

CellStored(t) == pc[t] = "putCommit" => m_data[m_rear_index] = call[t].item

CellFetched(t) == pc[t] = "getCommit" => item[t] = m_data[m_front_index]

Waits(t) ==
  /\ t \in m_not_full => pc[t] = "wait" /\ call[t].kind = "put"
  /\ t \in m_not_empty => pc[t] = "wait" /\ call[t].kind = "get"

Calls(t) == pc[t] = "idle" <=> call[t].kind = "none"

Deadline(t) ==
  pc[t] # "idle" /\ status[t] = "timeout" => call[t].timeout = "finite"

Local(t) ==
  AtStore(t) /\ AtFetch(t) /\ CellStored(t) /\ CellFetched(t) /\ Waits(t)
    /\ Calls(t) /\ Deadline(t)

LocalInv == \A t \in Threads : Local(t)

\* The inductive invariant.
IInv == TypeOK /\ MutualExclusion /\ RingConsistent /\ LocalInv

-----------------------------------------------------------------------------
(***************************************************************************)
(* Lemmas about the ring and the calls                                     *)
(***************************************************************************)
\* Below twice the modulus, the remainder is one subtraction.
LEMMA ModRange ==
  ASSUME NEW n \in Nat \ {0}, NEW x \in 0 .. 2 * n - 1
  PROVE  x % n = IF x < n THEN x ELSE x - n
  <1>1. CASE x < n
    BY <1>1, SMT
  <1>2. CASE ~(x < n)
    BY <1>2, SMT
  <1> QED
    BY <1>1, <1>2

\* Moving an index one cell on, as put and get do, stays in the ring.
LEMMA NextCell ==
  ASSUME NEW n \in Nat \ {0}, NEW i \in 0 .. n - 1
  PROVE  /\ (i + 1) % n = IF i = n - 1 THEN 0 ELSE i + 1
         /\ (i + 1) % n \in 0 .. n - 1
  <1>1. i + 1 \in 0 .. 2 * n - 1
    OBVIOUS
  <1>2. ASSUME NEW x \in 0 .. 2 * n - 1
        PROVE  x % n = IF x < n THEN x ELSE x - n
    BY ModRange
  <1>3. (i + 1) % n = IF i + 1 < n THEN i + 1 ELSE i + 1 - n
    BY <1>1, <1>2
  <1> QED
    BY <1>3

\* The cell k places after front, for k up to the capacity.
LEMMA RingCell ==
  ASSUME NEW n \in Nat \ {0}, NEW f \in 0 .. n - 1, NEW k \in 0 .. n
  PROVE  /\ (f + k) % n = IF f + k < n THEN f + k ELSE f + k - n
         /\ (f + k) % n \in 0 .. n - 1
  <1>1. f + k \in 0 .. 2 * n - 1
    OBVIOUS
  <1>2. ASSUME NEW x \in 0 .. 2 * n - 1
        PROVE  x % n = IF x < n THEN x ELSE x - n
    BY ModRange
  <1>3. (f + k) % n = IF f + k < n THEN f + k ELSE f + k - n
    BY <1>1, <1>2
  <1> QED
    BY <1>3

\* Advancing the front index renumbers the cells by one.
LEMMA RingShift ==
  ASSUME NEW n \in Nat \ {0}, NEW f \in 0 .. n - 1, NEW k \in 0 .. n - 1
  PROVE  /\ (((f + 1) % n) + k) % n = (f + (k + 1)) % n
         /\ (((f + k) % n) + 1) % n = (f + (k + 1)) % n
  <1>1. (f + 1) % n \in 0 .. n - 1 /\ (f + 1) % n = IF f = n - 1 THEN 0 ELSE f + 1
    BY NextCell
  <1>2. (f + k) % n \in 0 .. n - 1 /\ (f + k) % n = IF f + k < n THEN f + k ELSE f + k - n
    BY RingCell, k \in 0 .. n
  <1>3. (f + (k + 1)) % n = IF f + (k + 1) < n THEN f + (k + 1) ELSE f + (k + 1) - n
    BY RingCell, k + 1 \in 0 .. n
  <1>4. (((f + 1) % n) + k) % n = (f + (k + 1)) % n
    <2> DEFINE g == (f + 1) % n
    <2>1. (g + k) % n = IF g + k < n THEN g + k ELSE g + k - n
      BY <1>1, RingCell, k \in 0 .. n
    <2> QED
      BY <1>1, <1>3, <2>1
  <1>5. (((f + k) % n) + 1) % n = (f + (k + 1)) % n
    <2> DEFINE r == (f + k) % n
    <2>1. (r + 1) % n = IF r = n - 1 THEN 0 ELSE r + 1
      BY <1>2, NextCell
    <2> QED
      BY <1>2, <1>3, <2>1
  <1> QED
    BY <1>4, <1>5

\* Live cells are pairwise different, so a put never overwrites one.
LEMMA RingInjective ==
  ASSUME NEW n \in Nat \ {0}, NEW f \in 0 .. n - 1,
         NEW j \in 0 .. n - 1, NEW k \in 0 .. n - 1, j # k
  PROVE  (f + j) % n # (f + k) % n
  <1>1. (f + j) % n = IF f + j < n THEN f + j ELSE f + j - n
    BY RingCell, j \in 0 .. n
  <1>2. (f + k) % n = IF f + k < n THEN f + k ELSE f + k - n
    BY RingCell, k \in 0 .. n
  <1> QED
    BY <1>1, <1>2

\* What is known of a request from its kind.
LEMMA RequestKinds ==
  ASSUME NEW c \in Requests
  PROVE  /\ c.kind \in {"put", "get", "size", "none"}
         /\ c.kind = "put" => c.item \in Items
         /\ c.kind = "none" => c = NoCall
         /\ c.timeout \in Timeouts
  BY DEF Requests, PutCalls, GetCalls, SizeCall, NoCall, Call, Timeouts

-----------------------------------------------------------------------------
(***************************************************************************)
(* The invariant is inductive                                              *)
(***************************************************************************)
Results == [ok : BOOLEAN, item : Items \cup {Garbage}, size : 0 .. SIZE]

\* Results the actions record have the type of results.
LEMMA ResultTypes ==
  /\ {NoResult, Failure, Success} \subseteq Results
  /\ \A i \in Items \cup {Garbage} : Got(i) \in Results
  /\ \A n \in 0 .. SIZE : Sized(n) \in Results
  BY QueueAssumption
  DEF NoResult, Failure, Success, Got, Sized, Result, Results

\* The calls a thread may make are requests, and no request but NoCall idles.
LEMMA CallTypes ==
  /\ NoCall \in Requests /\ NoCall.kind = "none"
  /\ \A t \in Threads : \A c \in CallsOf(t) : c \in Requests /\ c.kind # "none"
  BY DEF CallsOf, Requests, PutCalls, GetCalls, SizeCall, NoCall, Call

LEMMA InitIInv == Init => IInv
  <1> SUFFICES ASSUME Init PROVE IInv
    OBVIOUS
  <1> USE QueueAssumption
  <1>2. TypeOK
    BY CallTypes, ResultTypes
    DEF Init, TypeOK, Locations, Cells, Requests, Results
  <1>3. MutualExclusion
    BY DEF Init, MutualExclusion, InCritical
  <1>4. RingConsistent
    <2>1. SIZE # 0 => (0 + 0) % SIZE = 0
      BY RingCell
    <2> QED
      BY <2>1 DEF Init, RingConsistent, Ring
  <1>5. LocalInv
    BY CallTypes DEF Init, LocalInv, Local, AtStore, AtFetch, CellStored, CellFetched,
                Waits, Calls,
       Deadline
  <1> QED
    BY <1>2, <1>3, <1>4, <1>5 DEF IInv

\* A step that leaves the ring alone keeps it consistent.
LEMMA RingUnchanged ==
  ASSUME RingConsistent, UNCHANGED ring
  PROVE  RingConsistent'
  BY DEF RingConsistent, Ring, ring

LEMMA InvokeStep ==
  ASSUME IInv, NEW t \in Threads, Invoke(t)
  PROVE  IInv'
  <1> USE QueueAssumption DEF IInv
  <1>1. TypeOK'
    BY ResultTypes, CallTypes DEF TypeOK, Requests, Results, Locations, Invoke, ring, waiting, client, Goto
  <1>2. MutualExclusion'
    BY DEF TypeOK, MutualExclusion, InCritical, Invoke, ring, waiting, client, Goto
  <1>3. RingConsistent'
    BY RingUnchanged DEF Invoke
  <1>4. LocalInv'
    BY RequestKinds, CallTypes DEF TypeOK, Requests, Invoke, ring, waiting, client, Goto,
       LocalInv, Local, AtStore, AtFetch, CellStored, CellFetched, Waits, Calls,
       Deadline
  <1> QED
    BY <1>1, <1>2, <1>3, <1>4

LEMMA LockStep ==
  ASSUME IInv, NEW t \in Threads, Lock(t)
  PROVE  IInv'
  <1> USE QueueAssumption DEF IInv
  <1>1. TypeOK'
    BY ResultTypes, CallTypes DEF TypeOK, Requests, Results, Locations, Lock, ring, waiting, client, Goto
  <1>2. MutualExclusion'
    BY DEF TypeOK, MutualExclusion, InCritical, Lock, ring, waiting, client, Goto
  <1>3. RingConsistent'
    BY RingUnchanged DEF Lock
  <1>4. LocalInv'
    BY RequestKinds, CallTypes DEF TypeOK, Requests, Lock, ring, waiting, client, Goto,
       LocalInv, Local, AtStore, AtFetch, CellStored, CellFetched, Waits, Calls,
       Deadline
  <1> QED
    BY <1>1, <1>2, <1>3, <1>4

LEMMA RelockStep ==
  ASSUME IInv, NEW t \in Threads, Relock(t)
  PROVE  IInv'
  <1> USE QueueAssumption DEF IInv
  <1>1. TypeOK'
    BY ResultTypes, CallTypes DEF TypeOK, Requests, Results, Locations, Relock, ring, waiting, client, Goto
  <1>2. MutualExclusion'
    BY DEF TypeOK, MutualExclusion, InCritical, Relock, ring, waiting, client, Goto
  <1>3. RingConsistent'
    BY RingUnchanged DEF Relock
  <1>4. LocalInv'
    BY RequestKinds, CallTypes DEF TypeOK, Requests, Relock, ring, waiting, client, Goto,
       LocalInv, Local, AtStore, AtFetch, CellStored, CellFetched, Waits, Calls,
       Deadline
  <1> QED
    BY <1>1, <1>2, <1>3, <1>4

LEMMA DeadlinePassesStep ==
  ASSUME IInv, NEW t \in Threads, DeadlinePasses(t)
  PROVE  IInv'
  <1> USE QueueAssumption DEF IInv
  <1>1. TypeOK'
    BY ResultTypes, CallTypes DEF TypeOK, Requests, Results, Locations, DeadlinePasses, Leave, ring, waiting, client, Goto
  <1>2. MutualExclusion'
    BY DEF TypeOK, MutualExclusion, InCritical, DeadlinePasses, Leave, ring, waiting, client, Goto
  <1>3. RingConsistent'
    BY RingUnchanged DEF DeadlinePasses, Leave
  <1>4. LocalInv'
    BY RequestKinds, CallTypes DEF TypeOK, Requests, DeadlinePasses, Leave, ring, waiting, client, Goto,
       LocalInv, Local, AtStore, AtFetch, CellStored, CellFetched, Waits, Calls,
       Deadline
  <1> QED
    BY <1>1, <1>2, <1>3, <1>4

LEMMA SpuriousWakeUpStep ==
  ASSUME IInv, NEW t \in Threads, SpuriousWakeUp(t)
  PROVE  IInv'
  <1> USE QueueAssumption DEF IInv
  <1>1. TypeOK'
    BY ResultTypes, CallTypes DEF TypeOK, Requests, Results, Locations, SpuriousWakeUp, Leave, ring, waiting, client, Goto
  <1>2. MutualExclusion'
    BY DEF TypeOK, MutualExclusion, InCritical, SpuriousWakeUp, Leave, ring, waiting, client, Goto
  <1>3. RingConsistent'
    BY RingUnchanged DEF SpuriousWakeUp, Leave
  <1>4. LocalInv'
    BY RequestKinds, CallTypes DEF TypeOK, Requests, SpuriousWakeUp, Leave, ring, waiting, client, Goto,
       LocalInv, Local, AtStore, AtFetch, CellStored, CellFetched, Waits, Calls,
       Deadline
  <1> QED
    BY <1>1, <1>2, <1>3, <1>4

LEMMA GetActualSizeStep ==
  ASSUME IInv, NEW t \in Threads, GetActualSize(t)
  PROVE  IInv'
  <1> USE QueueAssumption DEF IInv
  <1>1. TypeOK'
    BY ResultTypes, CallTypes DEF TypeOK, Requests, Results, Locations, GetActualSize, Return, ring, waiting, client, Goto
  <1>2. MutualExclusion'
    BY DEF TypeOK, MutualExclusion, InCritical, GetActualSize, Return, ring, waiting, client, Goto
  <1>3. RingConsistent'
    BY RingUnchanged DEF GetActualSize, Return
  <1>4. LocalInv'
    BY RequestKinds, CallTypes DEF TypeOK, Requests, GetActualSize, Return, ring, waiting, client, Goto,
       LocalInv, Local, AtStore, AtFetch, CellStored, CellFetched, Waits, Calls,
       Deadline
  <1> QED
    BY <1>1, <1>2, <1>3, <1>4

LEMMA PutTestStep ==
  ASSUME IInv, NEW t \in Threads, PutTest(t)
  PROVE  IInv'
  <1> USE QueueAssumption DEF IInv
  <1>1. TypeOK'
    <2>1. CASE GiveUp(t)
      BY <2>1, ResultTypes, CallTypes
      DEF TypeOK, Requests, Results, Locations, GiveUp, Return, ring, waiting,
          client, Goto
    <2>2. CASE WaitNotFull(t)
      BY <2>2 DEF TypeOK, Locations, WaitNotFull, ring, waiting, client, Goto
    <2>3. CASE UNCHANGED <<ring, owner, waiting, status, item, client, spurious>>
      BY <2>3 DEF TypeOK, Locations, PutTest, ring, waiting, client, Goto, Full,
                  GiveUp, Return, WaitNotFull
    <2> QED
      BY <2>1, <2>2, <2>3 DEF PutTest
  <1>2. MutualExclusion'
    BY DEF TypeOK, MutualExclusion, InCritical, PutTest, GiveUp, Return, WaitNotFull, Full, ring, waiting, client, Goto
  <1>3. RingConsistent'
    BY RingUnchanged DEF PutTest, GiveUp, Return, WaitNotFull, Full
  <1>4. LocalInv'
    BY RequestKinds, CallTypes DEF TypeOK, Requests, PutTest, GiveUp, Return, WaitNotFull, Full, ring, waiting, client, Goto,
       LocalInv, Local, AtStore, AtFetch, CellStored, CellFetched, Waits, Calls,
       Deadline
  <1> QED
    BY <1>1, <1>2, <1>3, <1>4

LEMMA GetTestStep ==
  ASSUME IInv, NEW t \in Threads, GetTest(t)
  PROVE  IInv'
  <1> USE QueueAssumption DEF IInv
  <1>1. TypeOK'
    <2>1. CASE GiveUp(t)
      BY <2>1, ResultTypes, CallTypes
      DEF TypeOK, Requests, Results, Locations, GiveUp, Return, ring, waiting,
          client, Goto
    <2>2. CASE WaitNotEmpty(t)
      BY <2>2 DEF TypeOK, Locations, WaitNotEmpty, ring, waiting, client, Goto
    <2>3. CASE UNCHANGED <<ring, owner, waiting, status, item, client, spurious>>
      BY <2>3 DEF TypeOK, Locations, GetTest, ring, waiting, client, Goto, Empty,
                  GiveUp, Return, WaitNotEmpty
    <2> QED
      BY <2>1, <2>2, <2>3 DEF GetTest
  <1>2. MutualExclusion'
    BY DEF TypeOK, MutualExclusion, InCritical, GetTest, GiveUp, Return, WaitNotEmpty, Empty, ring, waiting, client, Goto
  <1>3. RingConsistent'
    BY RingUnchanged DEF GetTest, GiveUp, Return, WaitNotEmpty, Empty
  <1>4. LocalInv'
    BY RequestKinds, CallTypes DEF TypeOK, Requests, GetTest, GiveUp, Return, WaitNotEmpty, Empty, ring, waiting, client, Goto,
       LocalInv, Local, AtStore, AtFetch, CellStored, CellFetched, Waits, Calls,
       Deadline
  <1> QED
    BY <1>1, <1>2, <1>3, <1>4

\* With room for an item, both indices are inside the array.
LEMMA IndicesInRange ==
  ASSUME TypeOK, SIZE # 0
  PROVE  m_front_index \in Cells /\ m_rear_index \in Cells /\ SIZE \in Nat \ {0}
  BY QueueAssumption DEF TypeOK, Cells

LEMMA GetFetchStep ==
  ASSUME IInv, NEW t \in Threads, GetFetch(t)
  PROVE  IInv'
  <1> USE QueueAssumption DEF IInv
  <1>1. TypeOK'
    <2>1. m_front_index \in Cells
      BY IndicesInRange DEF LocalInv, Local, AtFetch, GetFetch
    <2> QED
      BY <2>1 DEF TypeOK, Locations, GetFetch, ring, waiting, client, Goto
  <1>2. MutualExclusion'
    BY DEF TypeOK, MutualExclusion, InCritical, GetFetch, ring, waiting, client, Goto
  <1>3. RingConsistent'
    BY RingUnchanged DEF GetFetch
  <1>4. LocalInv'
    BY DEF TypeOK, GetFetch, ring, waiting, client, Goto,
       LocalInv, Local, AtStore, AtFetch, CellStored, CellFetched, Waits, Calls,
       Deadline
  <1> QED
    BY <1>1, <1>2, <1>3, <1>4

\* The cell put writes is not one of the live cells.
LEMMA RearCellIsFree ==
  ASSUME TypeOK, RingConsistent, SIZE # 0, m_count < SIZE,
         NEW k \in 0 .. m_count - 1
  PROVE  Ring(k) # m_rear_index /\ Ring(k) \in Cells
  <1>1. SIZE \in Nat \ {0} /\ m_front_index \in 0 .. SIZE - 1
    BY IndicesInRange DEF Cells
  <1>2. m_count \in 0 .. SIZE - 1 /\ k \in 0 .. SIZE - 1 /\ k # m_count
    BY <1>1 DEF TypeOK
  <1>3. (m_front_index + k) % SIZE # (m_front_index + m_count) % SIZE
    BY <1>1, <1>2, RingInjective
  <1>4. (m_front_index + k) % SIZE \in 0 .. SIZE - 1
    BY <1>1, <1>2, RingCell, k \in 0 .. SIZE
  <1> QED
    BY <1>3, <1>4 DEF Ring, RingConsistent, Cells

LEMMA PutStoreStep ==
  ASSUME IInv, NEW t \in Threads, PutStore(t)
  PROVE  IInv'
  <1> USE QueueAssumption DEF IInv
  <1>0. /\ call[t].kind = "put" /\ SIZE # 0 /\ m_count < SIZE
        /\ m_rear_index \in Cells /\ call[t].item \in Items
    <2>1. call[t].kind = "put" /\ SIZE # 0 /\ m_count < SIZE
      BY DEF LocalInv, Local, AtStore, PutStore
    <2>2. call[t] \in Requests
      BY DEF TypeOK, Requests
    <2> QED
      BY <2>1, <2>2, IndicesInRange, RequestKinds
  <1>1. TypeOK'
    BY <1>0 DEF TypeOK, Locations, PutStore, ring, waiting, client, Goto
  <1>2. MutualExclusion'
    BY DEF TypeOK, MutualExclusion, InCritical, PutStore, ring, waiting, client, Goto
  <1>3. RingConsistent'
    <2>1. /\ UNCHANGED <<m_front_index, m_rear_index, m_count>>
          /\ \A i \in Cells \ {m_rear_index} : m_data'[i] = m_data[i]
      BY DEF PutStore, TypeOK
    <2>2. \A k \in 0 .. m_count - 1 : Ring(k) # m_rear_index /\ Ring(k) \in Cells
      BY <1>0, RearCellIsFree
    <2> QED
      BY <2>1, <2>2 DEF RingConsistent, Ring
  <1>4. LocalInv'
    <2>1. \A u \in Threads : pc[u] = "getCommit" \/ pc[u] = "putCommit" => u = t
      BY DEF MutualExclusion, InCritical, PutStore
    <2> QED
      BY <1>0, <2>1
      DEF TypeOK, PutStore, ring, waiting, client, Goto,
          LocalInv, Local, AtStore, AtFetch, CellStored, CellFetched, Waits, Calls,
       Deadline
  <1> QED
    BY <1>1, <1>2, <1>3, <1>4

LEMMA PutCommitStep ==
  ASSUME IInv, NEW t \in Threads, PutCommit(t)
  PROVE  IInv'
  <1> USE QueueAssumption DEF IInv
  <1>1. /\ call[t].kind = "put" /\ SIZE \in Nat \ {0}
        /\ m_count \in 0 .. SIZE - 1 /\ call[t].item \in Items
        /\ m_front_index \in 0 .. SIZE - 1 /\ m_rear_index \in 0 .. SIZE - 1
        /\ m_data[m_rear_index] = call[t].item
    <2>1. call[t].kind = "put" /\ SIZE # 0 /\ m_count < SIZE
          /\ m_data[m_rear_index] = call[t].item
      BY DEF LocalInv, Local, AtStore, CellStored, PutCommit
    <2>2. call[t] \in Requests
      BY DEF TypeOK, Requests
    <2> QED
      BY <2>1, <2>2, IndicesInRange, RequestKinds DEF TypeOK, Cells
  <1>2. /\ m_not_empty' \subseteq m_not_empty /\ m_not_full' = m_not_full
        /\ pc' \in [Threads -> Locations] /\ pc'[t] = "idle"
        /\ \A u \in Threads \ {t} :
             pc'[u] = pc[u] \/ (pc[u] = "wait" /\ pc'[u] = "relock")
        /\ \A u \in m_not_empty' \cup m_not_full' : pc'[u] = "wait"
    <2>1. CASE m_not_empty = {}
      BY <2>1 DEF PutCommit, NotifyAndReturn, Goto, TypeOK, Locations, LocalInv, Local, Waits
    <2>2. CASE m_not_empty # {}
      <3>1. PICK u \in m_not_empty :
              /\ m_not_empty' = m_not_empty \ {u}
              /\ pc' = [pc EXCEPT ![t] = "idle", ![u] = "relock"]
        BY <2>2 DEF PutCommit, NotifyAndReturn
      <3>2. pc[u] = "wait" /\ u # t /\ u \in Threads
        BY DEF LocalInv, Local, Waits, PutCommit, TypeOK
      <3>3. u \notin m_not_full
        BY <3>2 DEF LocalInv, Local, Waits
      <3> QED
        BY <3>1, <3>2, <3>3
        DEF TypeOK, Locations, PutCommit, LocalInv, Local, Waits
    <2> QED
      BY <2>1, <2>2
  <1>3. TypeOK'
    <2>1. m_rear_index' \in Cells /\ m_count' \in 0 .. SIZE
      BY <1>1, NextCell DEF PutCommit, Cells
    <2>2. /\ call' = [call EXCEPT ![t] = NoCall]
          /\ result' = [result EXCEPT ![t] = Success]
          /\ owner' = NoThread
          /\ UNCHANGED <<m_data, m_front_index, status, item, spurious, budget>>
      BY DEF PutCommit, NotifyAndReturn, Return
    <2>3. Success \in Results /\ NoCall \in Requests
      BY ResultTypes, CallTypes DEF TypeOK
    <2> QED
      BY <1>2, <2>1, <2>2, <2>3 DEF TypeOK, Requests, Results
  <1>4. MutualExclusion'
    BY <1>2 DEF TypeOK, MutualExclusion, InCritical, PutCommit, NotifyAndReturn, Return
  <1>5. RingConsistent'
    <2>1. m_rear_index' = (m_front_index + (m_count + 1)) % SIZE
      BY <1>1, RingShift DEF PutCommit, RingConsistent, Ring
    <2>2. \A k \in 0 .. m_count : m_data[Ring(k)] \in Items
      BY SMTT(30), <1>1 DEF RingConsistent, Ring
    <2> QED
      BY <1>1, <2>1, <2>2 DEF RingConsistent, Ring, PutCommit
  <1>6. LocalInv'
    <2>1. \A u \in Threads : InCritical(u) => u = t
      BY DEF MutualExclusion, InCritical, PutCommit
    <2> QED
      BY <1>1, <1>2, <2>1, CallTypes
      DEF TypeOK, PutCommit, NotifyAndReturn, Return, InCritical,
          LocalInv, Local, AtStore, AtFetch, CellStored, CellFetched, Waits, Calls,
       Deadline
  <1> QED
    BY <1>3, <1>4, <1>5, <1>6

LEMMA GetCommitStep ==
  ASSUME IInv, NEW t \in Threads, GetCommit(t)
  PROVE  IInv'
  <1> USE QueueAssumption DEF IInv
  <1>1. /\ call[t].kind = "get" /\ SIZE \in Nat \ {0}
        /\ m_count \in 1 .. SIZE
        /\ m_front_index \in 0 .. SIZE - 1 /\ m_rear_index \in 0 .. SIZE - 1
        /\ item[t] = m_data[m_front_index]
    <2>1. call[t].kind = "get" /\ SIZE # 0 /\ m_count > 0
          /\ item[t] = m_data[m_front_index]
      BY DEF LocalInv, Local, AtFetch, CellFetched, GetCommit
    <2> QED
      BY <2>1, IndicesInRange DEF TypeOK, Cells
  <1>2. /\ m_not_full' \subseteq m_not_full /\ m_not_empty' = m_not_empty
        /\ pc' \in [Threads -> Locations] /\ pc'[t] = "idle"
        /\ \A u \in Threads \ {t} :
             pc'[u] = pc[u] \/ (pc[u] = "wait" /\ pc'[u] = "relock")
        /\ \A u \in m_not_empty' \cup m_not_full' : pc'[u] = "wait"
    <2>1. CASE m_not_full = {}
      BY <2>1 DEF GetCommit, NotifyAndReturn, Goto, TypeOK, Locations, LocalInv, Local, Waits
    <2>2. CASE m_not_full # {}
      <3>1. PICK u \in m_not_full :
              /\ m_not_full' = m_not_full \ {u}
              /\ pc' = [pc EXCEPT ![t] = "idle", ![u] = "relock"]
        BY <2>2 DEF GetCommit, NotifyAndReturn
      <3>2. pc[u] = "wait" /\ u # t /\ u \in Threads
        BY DEF LocalInv, Local, Waits, GetCommit, TypeOK
      <3>3. u \notin m_not_empty
        BY <3>2 DEF LocalInv, Local, Waits
      <3> QED
        BY <3>1, <3>2, <3>3
        DEF TypeOK, Locations, GetCommit, LocalInv, Local, Waits
    <2> QED
      BY <2>1, <2>2
  <1>3. TypeOK'
    <2>1. m_front_index' \in Cells /\ m_count' \in 0 .. SIZE
      BY <1>1, NextCell DEF GetCommit, Cells
    <2>2. /\ call' = [call EXCEPT ![t] = NoCall]
          /\ result' = [result EXCEPT ![t] = Got(item[t])]
          /\ owner' = NoThread
          /\ UNCHANGED <<m_data, m_rear_index, status, item, spurious, budget>>
      BY DEF GetCommit, NotifyAndReturn, Return
    <2>3. Got(item[t]) \in Results /\ NoCall \in Requests
      BY ResultTypes, CallTypes DEF TypeOK
    <2> QED
      BY <1>2, <2>1, <2>2, <2>3 DEF TypeOK, Requests, Results
  <1>4. MutualExclusion'
    BY <1>2 DEF TypeOK, MutualExclusion, InCritical, GetCommit, NotifyAndReturn, Return
  <1>5. RingConsistent'
    <2>1. \A k \in 0 .. m_count - 1 :
            (m_front_index' + k) % SIZE = (m_front_index + (k + 1)) % SIZE
      <3> TAKE k \in 0 .. m_count - 1
      <3>1. k \in 0 .. SIZE - 1
        BY <1>1
      <3> QED
        BY <1>1, <3>1, RingShift DEF GetCommit
    <2>2. m_rear_index' = (m_front_index' + (m_count - 1)) % SIZE
      <3>1. m_count - 1 \in 0 .. m_count - 1 /\ (m_count - 1) + 1 = m_count
        BY <1>1
      <3> QED
        BY <1>1, <2>1, <3>1 DEF GetCommit, RingConsistent, Ring
    <2>3. \A k \in 0 .. m_count - 2 : m_data[(m_front_index' + k) % SIZE] \in Items
      <3> TAKE k \in 0 .. m_count - 2
      <3>1. k \in 0 .. m_count - 1 /\ k + 1 \in 0 .. m_count - 1
        BY <1>1
      <3> QED
        BY <1>1, <2>1, <3>1 DEF RingConsistent, Ring
    <2> QED
      BY <1>1, <2>2, <2>3 DEF RingConsistent, Ring, GetCommit
  <1>6. LocalInv'
    <2>1. \A u \in Threads : InCritical(u) => u = t
      BY DEF MutualExclusion, InCritical, GetCommit
    <2> QED
      BY <1>1, <1>2, <2>1, CallTypes
      DEF TypeOK, GetCommit, NotifyAndReturn, Return, InCritical,
          LocalInv, Local, AtStore, AtFetch, CellStored, CellFetched, Waits, Calls,
       Deadline
  <1> QED
    BY <1>3, <1>4, <1>5, <1>6

-----------------------------------------------------------------------------
\* The invariant is inductive.
THEOREM Invariance == Spec => []IInv
  <1>1. IInv /\ [Next]_vars => IInv'
    <2> SUFFICES ASSUME IInv, [Next]_vars PROVE IInv'
      OBVIOUS
    <2>1. CASE UNCHANGED vars
      BY <2>1 DEF IInv, TypeOK, MutualExclusion, InCritical, RingConsistent, Ring,
                  LocalInv, Local, AtStore, AtFetch, CellStored, CellFetched,
                  Waits, Calls, Deadline, vars, ring, waiting, client
    <2>2. ASSUME NEW t \in Threads, Step(t)
          PROVE  IInv'
      BY <2>2, LockStep, RelockStep, DeadlinePassesStep, PutTestStep, PutStoreStep, PutCommitStep,
         GetTestStep, GetFetchStep, GetCommitStep, GetActualSizeStep
      DEF Step
    <2>3. ASSUME NEW t \in Threads, Invoke(t) \/ SpuriousWakeUp(t)
          PROVE  IInv'
      BY <2>3, InvokeStep, SpuriousWakeUpStep
    <2> QED
      BY <2>1, <2>2, <2>3 DEF Next
  <1> QED
    BY <1>1, InitIInv, PTL DEF Spec

\* Every variable keeps its type: in particular the count never exceeds the
\* capacity and the indices never leave the array.
THEOREM TypeCorrect == Spec => []TypeOK
  BY Invariance, PTL DEF IInv

\* Only the thread that holds m_mutex is inside put, get or getActualSize.
THEOREM MutexHeld == Spec => []MutualExclusion
  BY Invariance, PTL DEF IInv

\* Front index, rear index, count and array always describe one ring.
THEOREM RingHolds == Spec => []RingConsistent
  BY Invariance, PTL DEF IInv

\* A get only ever hands over an item that a put stored.
THEOREM GetsPutItems == Spec => []GetsOnlyPutItems
  <1>1. IInv => GetsOnlyPutItems
    <2> SUFFICES ASSUME IInv, NEW t \in Threads, pc[t] = "getCommit"
                 PROVE  item[t] \in Items
      BY DEF GetsOnlyPutItems
    <2>1. SIZE # 0 /\ m_count > 0 /\ item[t] = m_data[m_front_index]
      BY DEF IInv, LocalInv, Local, AtFetch, CellFetched
    <2>2. m_front_index \in 0 .. SIZE - 1 /\ SIZE \in Nat \ {0}
      BY <2>1, IndicesInRange DEF IInv, Cells
    <2>3. (m_front_index + 0) % SIZE = m_front_index
      BY <2>2, RingCell, 0 \in 0 .. SIZE
    <2>4. 0 \in 0 .. m_count - 1
      BY <2>1 DEF IInv, TypeOK
    <2> QED
      BY <2>1, <2>3, <2>4 DEF IInv, RingConsistent, Ring
  <1> QED
    BY <1>1, Invariance, PTL
=============================================================================
