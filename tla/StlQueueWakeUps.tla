-------------------------- MODULE StlQueueWakeUps --------------------------
(***************************************************************************)
(* notify_one is enough: the queue never loses a wake-up, for any number   *)
(* of threads and any capacity.                                            *)
(***************************************************************************)
EXTENDS StlQueueProofs, FiniteSetTheorems

AwakePutters == Awake("put", {"store", "putCommit"})
AwakeGetters == Awake("get", {"fetch", "getCommit"})

RoomIsClaimed ==
  m_not_full # {} => SIZE - m_count <= Cardinality(AwakePutters)
ItemsAreClaimed ==
  m_not_empty # {} => m_count <= Cardinality(AwakeGetters)

LEMMA AwakeFinite ==
  /\ IsFiniteSet(AwakePutters) /\ Cardinality(AwakePutters) \in Nat
  /\ IsFiniteSet(AwakeGetters) /\ Cardinality(AwakeGetters) \in Nat
  /\ IsFiniteSet(AwakePutters') /\ Cardinality(AwakePutters') \in Nat
  /\ IsFiniteSet(AwakeGetters') /\ Cardinality(AwakeGetters') \in Nat
  <1>1. /\ AwakePutters \subseteq Threads /\ AwakeGetters \subseteq Threads
        /\ AwakePutters' \subseteq Threads /\ AwakeGetters' \subseteq Threads
    BY DEF AwakePutters, AwakeGetters, Awake
  <1> QED
    BY <1>1, QueueAssumption, FS_Subset, FS_CardinalityType

\* A step that wakes nobody's claim away keeps the claims.
LEMMA RoomStaysClaimed ==
  ASSUME RoomIsClaimed, TypeOK, m_not_full' \subseteq m_not_full,
         m_count' = m_count, AwakePutters \subseteq AwakePutters'
  PROVE  RoomIsClaimed'
  <1>1. Cardinality(AwakePutters) <= Cardinality(AwakePutters')
    BY AwakeFinite, FS_Subset
  <1> QED
    BY <1>1, AwakeFinite, QueueAssumption DEF RoomIsClaimed, TypeOK

LEMMA ItemsStayClaimed ==
  ASSUME ItemsAreClaimed, TypeOK, m_not_empty' \subseteq m_not_empty,
         m_count' = m_count, AwakeGetters \subseteq AwakeGetters'
  PROVE  ItemsAreClaimed'
  <1>1. Cardinality(AwakeGetters) <= Cardinality(AwakeGetters')
    BY AwakeFinite, FS_Subset
  <1> QED
    BY <1>1, AwakeFinite DEF ItemsAreClaimed, TypeOK

LEMMA NoRoomToClaim ==
  ASSUME TypeOK, m_count' = m_count, m_count >= SIZE
  PROVE  RoomIsClaimed'
  BY AwakeFinite, QueueAssumption DEF RoomIsClaimed, TypeOK

LEMMA NoItemToClaim ==
  ASSUME TypeOK, m_count' = m_count, m_count = 0
  PROVE  ItemsAreClaimed'
  BY AwakeFinite DEF ItemsAreClaimed, TypeOK

-----------------------------------------------------------------------------
\* Steps that leave the ring alone.
LEMMA QuietSteps ==
  ASSUME IInv, RoomIsClaimed, ItemsAreClaimed, NEW t \in Threads,
         \/ Invoke(t) \/ Lock(t) \/ Relock(t) \/ DeadlinePasses(t)
         \/ SpuriousWakeUp(t) \/ PutStore(t) \/ GetFetch(t)
         \/ GetActualSize(t)
  PROVE  RoomIsClaimed' /\ ItemsAreClaimed'
  <1>1. /\ m_not_full' \subseteq m_not_full /\ m_not_empty' \subseteq m_not_empty
        /\ m_count' = m_count
    BY DEF Invoke, Lock, Relock, DeadlinePasses, SpuriousWakeUp, PutStore,
           GetFetch, GetActualSize, Leave, ring, waiting
  <1>2. AwakePutters \subseteq AwakePutters' /\ AwakeGetters \subseteq AwakeGetters'
    <2>1. CASE Invoke(t)
      BY <2>1 DEF Invoke, Goto, IInv, TypeOK, Locations, AwakePutters,
                  AwakeGetters, Awake
    <2>2. CASE Lock(t) \/ Relock(t) \/ PutStore(t) \/ GetFetch(t)
      BY <2>2 DEF Lock, Relock, PutStore, GetFetch, Goto, client, IInv, TypeOK,
                  Locations, AwakePutters, AwakeGetters, Awake
    <2>3. CASE DeadlinePasses(t) \/ SpuriousWakeUp(t)
      BY <2>3 DEF DeadlinePasses, SpuriousWakeUp, Leave, Goto, client, IInv,
                  TypeOK, Locations, AwakePutters, AwakeGetters, Awake
    <2>4. CASE GetActualSize(t)
      BY <2>4 DEF GetActualSize, Return, Goto, IInv, TypeOK, Locations,
                  AwakePutters, AwakeGetters, Awake
    <2> QED
      BY <2>1, <2>2, <2>3, <2>4
  <1> QED
    BY <1>1, <1>2, RoomStaysClaimed, ItemsStayClaimed DEF IInv

LEMMA PutTestKeepsClaims ==
  ASSUME IInv, RoomIsClaimed, ItemsAreClaimed, NEW t \in Threads, PutTest(t)
  PROVE  RoomIsClaimed' /\ ItemsAreClaimed'
  <1>1. m_count' = m_count /\ m_not_empty' = m_not_empty
    BY DEF PutTest, GiveUp, WaitNotFull, ring, waiting
  <1>2. AwakeGetters \subseteq AwakeGetters'
    BY DEF PutTest, GiveUp, Return, WaitNotFull, Goto, client, IInv, TypeOK, Locations,
           AwakeGetters, Awake
  <1>3. ItemsAreClaimed'
    BY <1>1, <1>2, ItemsStayClaimed DEF IInv
  <1>4. RoomIsClaimed'
    <2>1. CASE Full
      BY <1>1, <2>1, NoRoomToClaim DEF Full, IInv, TypeOK
    <2>2. CASE ~Full
      <3>1. AwakePutters \subseteq AwakePutters' /\ m_not_full' = m_not_full
        BY <2>2 DEF PutTest, Goto, client, waiting, IInv, TypeOK, Locations, AwakePutters, Awake
      <3> QED
        BY <1>1, <3>1, RoomStaysClaimed DEF IInv
    <2> QED
      BY <2>1, <2>2
  <1> QED
    BY <1>3, <1>4

LEMMA GetTestKeepsClaims ==
  ASSUME IInv, RoomIsClaimed, ItemsAreClaimed, NEW t \in Threads, GetTest(t)
  PROVE  RoomIsClaimed' /\ ItemsAreClaimed'
  <1>1. m_count' = m_count /\ m_not_full' = m_not_full
    BY DEF GetTest, GiveUp, WaitNotEmpty, ring, waiting
  <1>2. AwakePutters \subseteq AwakePutters'
    BY DEF GetTest, GiveUp, Return, WaitNotEmpty, Goto, client, IInv, TypeOK, Locations,
           AwakePutters, Awake
  <1>3. RoomIsClaimed'
    BY <1>1, <1>2, RoomStaysClaimed DEF IInv
  <1>4. ItemsAreClaimed'
    <2>1. CASE Empty
      BY <1>1, <2>1, NoItemToClaim DEF Empty, IInv, TypeOK
    <2>2. CASE ~Empty
      <3>1. AwakeGetters \subseteq AwakeGetters' /\ m_not_empty' = m_not_empty
        BY <2>2 DEF GetTest, Goto, client, waiting, IInv, TypeOK, Locations, AwakeGetters, Awake
      <3> QED
        BY <1>1, <3>1, ItemsStayClaimed DEF IInv
    <2> QED
      BY <2>1, <2>2
  <1> QED
    BY <1>3, <1>4

-----------------------------------------------------------------------------
\* A put gives up its own claim with its cell, and the thread it notifies claims
\* the item it left.
LEMMA PutCommitKeepsClaims ==
  ASSUME IInv, RoomIsClaimed, ItemsAreClaimed, NEW t \in Threads, PutCommit(t)
  PROVE  RoomIsClaimed' /\ ItemsAreClaimed'
  <1>1. /\ m_count' = m_count + 1 /\ m_count \in Nat /\ SIZE \in Nat
        /\ m_not_full' = m_not_full /\ call' = [call EXCEPT ![t] = NoCall]
        /\ call[t].kind = "put" /\ t \in AwakePutters
    BY QueueAssumption
    DEF PutCommit, NotifyAndReturn, Return, IInv, TypeOK, LocalInv, Local, AtStore,
        AtFetch, AwakePutters, Awake
  <1>2. RoomIsClaimed'
    <2>1. AwakePutters \ {t} \subseteq AwakePutters'
      <3>1. \A u \in Threads \ {t} : pc'[u] = pc[u] \/ pc'[u] = "relock"
        BY DEF PutCommit, NotifyAndReturn, Goto, IInv, TypeOK
      <3> QED
        BY <1>1, <3>1 DEF IInv, TypeOK, AwakePutters, Awake
    <2>2. Cardinality(AwakePutters \ {t}) = Cardinality(AwakePutters) - 1
      BY <1>1, AwakeFinite, FS_RemoveElement
    <2>3. Cardinality(AwakePutters \ {t}) <= Cardinality(AwakePutters')
      BY <2>1, AwakeFinite, FS_Subset
    <2> QED
      BY <1>1, <2>2, <2>3, AwakeFinite DEF RoomIsClaimed
  <1>3. ItemsAreClaimed'
    <2>1. CASE m_not_empty = {}
      BY <2>1 DEF PutCommit, NotifyAndReturn, ItemsAreClaimed
    <2>2. CASE m_not_empty # {}
      <3>1. PICK u \in m_not_empty :
              /\ m_not_empty' = m_not_empty \ {u}
              /\ pc' = [pc EXCEPT ![t] = "idle", ![u] = "relock"]
        BY <2>2 DEF PutCommit, NotifyAndReturn
      <3>2. u \in Threads /\ u # t /\ call[u].kind = "get" /\ pc[u] = "wait"
        BY <1>1 DEF IInv, TypeOK, LocalInv, Local, Waits
      <3>3. AwakeGetters \cup {u} \subseteq AwakeGetters'
        BY <1>1, <3>1, <3>2 DEF IInv, TypeOK, AwakeGetters, Awake
      <3>4. u \notin AwakeGetters
        BY <3>2 DEF AwakeGetters, Awake
      <3>5. Cardinality(AwakeGetters \cup {u}) = Cardinality(AwakeGetters) + 1
        BY <3>4, AwakeFinite, FS_AddElement
      <3>6. Cardinality(AwakeGetters \cup {u}) <= Cardinality(AwakeGetters')
        BY <3>3, AwakeFinite, FS_Subset
      <3> QED
        BY <1>1, <2>2, <3>5, <3>6, AwakeFinite DEF ItemsAreClaimed
    <2> QED
      BY <2>1, <2>2
  <1> QED
    BY <1>2, <1>3

\* A get gives up its own claim with its item, and the thread it notifies claims
\* the cell it freed.
LEMMA GetCommitKeepsClaims ==
  ASSUME IInv, RoomIsClaimed, ItemsAreClaimed, NEW t \in Threads, GetCommit(t)
  PROVE  RoomIsClaimed' /\ ItemsAreClaimed'
  <1>1. /\ m_count' = m_count - 1 /\ m_count \in Nat /\ SIZE \in Nat
        /\ m_not_empty' = m_not_empty /\ call' = [call EXCEPT ![t] = NoCall]
        /\ call[t].kind = "get" /\ t \in AwakeGetters
    BY QueueAssumption
    DEF GetCommit, NotifyAndReturn, Return, IInv, TypeOK, LocalInv, Local, AtStore,
        AtFetch, AwakeGetters, Awake
  <1>2. ItemsAreClaimed'
    <2>1. AwakeGetters \ {t} \subseteq AwakeGetters'
      <3>1. \A u \in Threads \ {t} : pc'[u] = pc[u] \/ pc'[u] = "relock"
        BY DEF GetCommit, NotifyAndReturn, Goto, IInv, TypeOK
      <3> QED
        BY <1>1, <3>1 DEF IInv, TypeOK, AwakeGetters, Awake
    <2>2. Cardinality(AwakeGetters \ {t}) = Cardinality(AwakeGetters) - 1
      BY <1>1, AwakeFinite, FS_RemoveElement
    <2>3. Cardinality(AwakeGetters \ {t}) <= Cardinality(AwakeGetters')
      BY <2>1, AwakeFinite, FS_Subset
    <2> QED
      BY <1>1, <2>2, <2>3, AwakeFinite DEF ItemsAreClaimed
  <1>3. RoomIsClaimed'
    <2>1. CASE m_not_full = {}
      BY <2>1 DEF GetCommit, NotifyAndReturn, RoomIsClaimed
    <2>2. CASE m_not_full # {}
      <3>1. PICK u \in m_not_full :
              /\ m_not_full' = m_not_full \ {u}
              /\ pc' = [pc EXCEPT ![t] = "idle", ![u] = "relock"]
        BY <2>2 DEF GetCommit, NotifyAndReturn
      <3>2. u \in Threads /\ u # t /\ call[u].kind = "put" /\ pc[u] = "wait"
        BY <1>1 DEF IInv, TypeOK, LocalInv, Local, Waits
      <3>3. AwakePutters \cup {u} \subseteq AwakePutters'
        BY <1>1, <3>1, <3>2 DEF IInv, TypeOK, AwakePutters, Awake
      <3>4. u \notin AwakePutters
        BY <3>2 DEF AwakePutters, Awake
      <3>5. Cardinality(AwakePutters \cup {u}) = Cardinality(AwakePutters) + 1
        BY <3>4, AwakeFinite, FS_AddElement
      <3>6. Cardinality(AwakePutters \cup {u}) <= Cardinality(AwakePutters')
        BY <3>3, AwakeFinite, FS_Subset
      <3> QED
        BY <1>1, <2>2, <3>5, <3>6, AwakeFinite DEF RoomIsClaimed
    <2> QED
      BY <2>1, <2>2
  <1> QED
    BY <1>2, <1>3

-----------------------------------------------------------------------------
\* While a putter waits for room, every free cell has an awake putter that
\* will claim it, and likewise for getters and items: the single notify_one of
\* put and get never leaves a thread asleep beside work it could do.
THEOREM WakeUpsAreKept == Spec => []NoLostWakeUp
  <1>1. Init => RoomIsClaimed /\ ItemsAreClaimed
    BY DEF Init, RoomIsClaimed, ItemsAreClaimed
  <1>2. IInv /\ (RoomIsClaimed /\ ItemsAreClaimed) /\ [Next]_vars
          => (RoomIsClaimed /\ ItemsAreClaimed)'
    <2> SUFFICES ASSUME IInv, RoomIsClaimed, ItemsAreClaimed, [Next]_vars
                 PROVE  RoomIsClaimed' /\ ItemsAreClaimed'
      OBVIOUS
    <2>1. CASE UNCHANGED vars
      BY <2>1 DEF vars, ring, waiting, client, RoomIsClaimed, ItemsAreClaimed,
                  AwakePutters, AwakeGetters, Awake
    <2>2. ASSUME NEW t \in Threads, Step(t) \/ Invoke(t) \/ SpuriousWakeUp(t)
          PROVE  RoomIsClaimed' /\ ItemsAreClaimed'
      BY <2>2, QuietSteps, PutTestKeepsClaims,
         GetTestKeepsClaims, PutCommitKeepsClaims, GetCommitKeepsClaims
      DEF Step
    <2> QED
      BY <2>1, <2>2 DEF Next
  <1>3. RoomIsClaimed /\ ItemsAreClaimed => NoLostWakeUp
    BY DEF RoomIsClaimed, ItemsAreClaimed, NoLostWakeUp, AwakePutters, AwakeGetters
  <1> QED
    BY <1>1, <1>2, <1>3, Invariance, PTL DEF Spec
=============================================================================
