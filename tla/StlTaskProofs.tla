--------------------------- MODULE StlTaskProofs ---------------------------
(***************************************************************************)
(* Proofs about StlTask for every capacity of the two queues and every     *)
(* bound on what the parties do.                                           *)
(***************************************************************************)
EXTENDS StlTask, SequenceTheorems, TLAPS

\* The thread's locals, and what holds as long as nobody called terminate or
\* setState: a running function was let through by m_state, which stays.
Thread ==
  /\ worker = "apply" => result
  /\ worker # "none" /\ m_type = "periodic" => input = Dummy
  /\ worker # "none" /\ m_terminate => owner # "idle"

Untouched ==
  /\ terminates = 0 => ~m_terminate /\ owner = "idle"
  /\ states = 0 /\ worker = "apply" => m_state = "run"

Threads == OneWorker /\ Thread /\ Untouched

\* The inductive invariant.
IInv ==
  TypeOK /\ Threads /\ InOrderAtMostOnce /\ NothingLost /\ OutputsMatch

-----------------------------------------------------------------------------
(***************************************************************************)
(* Lemmas about sequences of items                                         *)
(***************************************************************************)
Covers(items, last) ==
  \A ticket \in 1 .. last : \E i \in DOMAIN items : items[i] = ticket

LEMMA DummyIsItem == Dummy \in Items
  BY TaskAssumption DEF Dummy, Items

\* Taking out the middle part keeps the order.
LEMMA DropMiddle ==
  ASSUME NEW a \in Seq(Items), NEW b \in Seq(Items), NEW c \in Seq(Items),
         NEW last \in Nat, InOrder(a \o b \o c, last)
  PROVE  InOrder(a \o c, last)
  <1> DEFINE s == a \o b \o c
             r == a \o c
             at(i) == IF i <= Len(a) THEN i ELSE i + Len(b)
  <1>1. /\ s \in Seq(Items) /\ r \in Seq(Items)
        /\ Len(s) = Len(a) + Len(b) + Len(c) /\ Len(r) = Len(a) + Len(c)
    OBVIOUS
  <1>2. ASSUME NEW i \in DOMAIN r
        PROVE  at(i) \in DOMAIN s /\ r[i] = s[at(i)]
    BY <1>1
  <1>3. ASSUME NEW i \in DOMAIN r, NEW j \in DOMAIN r, i < j
        PROVE  at(i) < at(j)
    BY <1>1, <1>3
  <1> HIDE DEF s, r, at
  <1>4. InOrder(s, last)
    BY DEF s
  <1>5. InOrder(r, last)
    BY <1>2, <1>3, <1>4 DEF InOrder
  <1> QED
    BY <1>5 DEF r

\* Putting a dummy anywhere keeps the order.
LEMMA InsertDummy ==
  ASSUME NEW a \in Seq(Items), NEW c \in Seq(Items), NEW last \in Nat,
         InOrder(a \o c, last)
  PROVE  InOrder(a \o <<Dummy>> \o c, last)
  <1> DEFINE s == a \o <<Dummy>> \o c
             r == a \o c
             at(i) == IF i <= Len(a) THEN i ELSE i - 1
  <1>1. /\ s \in Seq(Items \cup {Dummy}) /\ r \in Seq(Items)
        /\ Len(s) = Len(a) + 1 + Len(c) /\ Len(r) = Len(a) + Len(c)
        /\ s[Len(a) + 1] = Dummy
    OBVIOUS
  <1>2. ASSUME NEW i \in DOMAIN s, s[i] # Dummy
        PROVE  at(i) \in DOMAIN r /\ s[i] = r[at(i)] /\ i # Len(a) + 1
    BY <1>1, <1>2
  <1>3. ASSUME NEW i \in DOMAIN s, NEW j \in DOMAIN s, i < j,
               i # Len(a) + 1, j # Len(a) + 1
        PROVE  at(i) < at(j)
    BY <1>1, <1>3
  <1>4. Dummy <= last
    BY DEF Dummy
  <1> HIDE DEF s, r, at
  <1>5. InOrder(r, last)
    BY DEF r
  <1>6. ASSUME NEW i \in DOMAIN s, NEW j \in DOMAIN s,
               i < j, s[i] # Dummy, s[j] # Dummy
        PROVE  s[i] < s[j]
    <2>1. at(i) \in DOMAIN r /\ s[i] = r[at(i)] /\ i # Len(a) + 1
      BY <1>2, <1>6
    <2>2. at(j) \in DOMAIN r /\ s[j] = r[at(j)] /\ j # Len(a) + 1
      BY <1>2, <1>6
    <2>3. at(i) < at(j)
      BY <1>3, <1>6, <2>1, <2>2
    <2> QED
      BY <1>5, <1>6, <2>1, <2>2, <2>3 DEF InOrder
  <1>7. ASSUME NEW i \in DOMAIN s
        PROVE  s[i] <= last
    BY <1>2, <1>4, <1>5 DEF InOrder
  <1>8. InOrder(s, last)
    BY <1>6, <1>7 DEF InOrder
  <1> QED
    BY <1>8 DEF s

\* A new ticket at the end keeps the order, and covers one ticket more.
LEMMA AppendTicket ==
  ASSUME NEW a \in Seq(Items), NEW last \in Nat, InOrder(a, last)
  PROVE  /\ InOrder(Append(a, last + 1), last + 1)
         /\ Covers(a, last) => Covers(Append(a, last + 1), last + 1)
  <1> DEFINE s == Append(a, last + 1)
  <1>1. /\ Len(s) = Len(a) + 1 /\ DOMAIN s = 1 .. Len(a) + 1
        /\ \A i \in 1 .. Len(a) : s[i] = a[i] /\ a[i] \in Items
        /\ s[Len(a) + 1] = last + 1 /\ Len(a) \in Nat
    OBVIOUS
  <1> HIDE DEF s
  <1>2. InOrder(s, last + 1)
    <2>1. ASSUME NEW i \in 1 .. Len(a)
          PROVE  s[i] \in Nat /\ s[i] <= last
      BY <1>1 DEF InOrder, Items
    <2>2. ASSUME NEW i \in DOMAIN s, NEW j \in DOMAIN s,
                 i < j, s[i] # Dummy, s[j] # Dummy
          PROVE  s[i] < s[j]
      <3>1. CASE j = Len(a) + 1
        BY <1>1, <2>1, <2>2, <3>1
      <3>2. CASE j # Len(a) + 1
        <4>1. i \in 1 .. Len(a) /\ j \in 1 .. Len(a)
          BY <1>1, <2>2, <3>2
        <4>2. s[i] = a[i] /\ s[j] = a[j]
          BY <1>1, <4>1
        <4>3. i \in DOMAIN a /\ j \in DOMAIN a
          BY <4>1
        <4> QED
          BY <2>2, <4>2, <4>3 DEF InOrder
      <3> QED
        BY <3>1, <3>2
    <2>3. ASSUME NEW i \in DOMAIN s
          PROVE  s[i] <= last + 1
      BY <1>1, <2>1
    <2> QED
      BY <2>2, <2>3 DEF InOrder
  <1>3. ASSUME Covers(a, last), NEW ticket \in 1 .. last + 1
        PROVE  \E i \in DOMAIN s : s[i] = ticket
    <2>1. CASE ticket = last + 1
      BY <1>1, <2>1
    <2>2. CASE ticket \in 1 .. last
      <3>1. PICK i \in DOMAIN a : a[i] = ticket
        BY <1>3, <2>2 DEF Covers
      <3>2. i \in 1 .. Len(a)
        OBVIOUS
      <3>3. i \in DOMAIN s /\ s[i] = ticket
        BY <1>1, <3>1, <3>2
      <3> QED
        BY <3>3
    <2>3. ticket = last + 1 \/ ticket \in 1 .. last
      BY <1>3
    <2> QED
      BY <2>1, <2>2, <2>3
  <1> QED
    BY <1>2, <1>3 DEF Covers, s

\* What the first part and the last part cover, the whole covers.
LEMMA CoverMiddle ==
  ASSUME NEW a \in Seq(Items), NEW b \in Seq(Items), NEW c \in Seq(Items),
         NEW last \in Nat, Covers(a \o c, last)
  PROVE  Covers(a \o b \o c, last)
  <1> DEFINE s == a \o b \o c
             r == a \o c
             at(i) == IF i <= Len(a) THEN i ELSE i + Len(b)
  <1>1. /\ s \in Seq(Items) /\ r \in Seq(Items)
        /\ Len(s) = Len(a) + Len(b) + Len(c) /\ Len(r) = Len(a) + Len(c)
    OBVIOUS
  <1>2. ASSUME NEW i \in DOMAIN r
        PROVE  at(i) \in DOMAIN s /\ r[i] = s[at(i)]
    BY <1>1
  <1> HIDE DEF s, r, at
  <1>3. Covers(r, last)
    BY DEF r
  <1>4. Covers(s, last)
    BY <1>2, <1>3 DEF Covers
  <1> QED
    BY <1>4 DEF s

\* Moving the head of a queue to the end of what comes before it.
LEMMA MoveHead ==
  ASSUME NEW S, NEW a \in Seq(S), NEW q \in Seq(S), q # <<>>
  PROVE  /\ Tail(q) \in Seq(S) /\ Head(q) \in S
         /\ a \o <<Head(q)>> \o Tail(q) = a \o q
         /\ Append(a, Head(q)) \o Tail(q) = a \o q
  <1>1. Tail(q) \in Seq(S) /\ Head(q) \in S /\ <<Head(q)>> \in Seq(S)
    BY HeadTailProperties
  <1>2. <<Head(q)>> \o Tail(q) = q
    <2>1. /\ Len(<<Head(q)>> \o Tail(q)) = Len(q)
          /\ \A i \in 1 .. Len(q) : (<<Head(q)>> \o Tail(q))[i] = q[i]
      BY <1>1
    <2> QED
      BY <1>1, <2>1, ConcatProperties, SeqEqual
  <1>3. a \o <<Head(q)>> \o Tail(q) = a \o q
    BY <1>1, <1>2, ConcatAssociative
  <1> QED
    BY <1>1, <1>3, AppendIsConcat
-----------------------------------------------------------------------------
(***************************************************************************)
(* The invariant is inductive                                              *)
(***************************************************************************)
LEMMA InitIInv == Init => IInv
  <1> SUFFICES ASSUME Init
               PROVE  IInv
    OBVIOUS
  <1>1. TypeOK
    <2>1. <<>> \in Seq(Items) /\ Len(<<>>) = 0
      BY EmptySeq
    <2>2. /\ input \in Items /\ output \in Items /\ worker \in WorkerPlaces
          /\ applied \in Seq(Items) /\ received \in Seq(Items)
          /\ m_input_queue \in Seq(Items) /\ Len(m_input_queue) <= INPUT_SIZE
          /\ m_output_queue \in Seq(Items) /\ Len(m_output_queue) <= OUTPUT_SIZE
      BY <2>1, DummyIsItem, TaskAssumption DEF Init, WorkerPlaces
    <2>3. /\ sent \in 0 .. MaxSends /\ creates \in 0 .. MaxCreates
          /\ terminates \in 0 .. MaxTerminates
          /\ states \in 0 .. MaxStates /\ ticks \in 0 .. MaxTicks
      BY TaskAssumption DEF Init
    <2> QED
      BY <2>2, <2>3 DEF Init, TypeOK
  <1>2. Threads
    BY DEF Init, Threads, OneWorker, Thread, Untouched
  <1>3. Accepted = <<>>
    BY DEF Init, Accepted, InHand
  <1>4. InOrderAtMostOnce /\ NothingLost
    BY <1>3 DEF Init, InOrderAtMostOnce, InOrder, NothingLost
  <1>5. OutputsMatch
    BY DEF Init, OutputsMatch, Returned
  <1> QED
    BY <1>1, <1>2, <1>4, <1>5 DEF IInv

LEMMA TypeStep == TypeOK /\ [Next]_vars => TypeOK'
  <1> SUFFICES ASSUME TypeOK, [Next]_vars
               PROVE  TypeOK'
    OBVIOUS
  <1> USE TaskAssumption, DummyIsItem
      DEF TypeOK, WorkerPlaces, flags, queues, locals, clients, bounds
  <1>0. ASSUME StartThread
        PROVE  /\ m_thread_handle' \in {"null", "thread"} /\ m_terminate' \in BOOLEAN
               /\ m_input_queue' = m_input_queue /\ m_output_queue' = m_output_queue
               /\ owner' = owner /\ worker' \in WorkerPlaces
               /\ input' \in Items /\ result' = result /\ output' = output
               /\ sent' = sent /\ applied' = applied /\ received' = received
               /\ creates' \in 0 .. MaxCreates /\ terminates' = terminates
               /\ states' = states /\ ticks' = ticks
    <2>1. creates' \in 0 .. MaxCreates
      BY <1>0 DEF StartThread
    <2> QED
      BY <1>0, <2>1 DEF StartThread
  <1>1. CASE Create
    BY <1>0, <1>1 DEF Create
  <1>2. CASE CreateProfile
    BY <1>0, <1>2 DEF CreateProfile
  <1>3. CASE SetState
    BY <1>3 DEF SetState
  <1>4. CASE Terminate
    BY <1>4 DEF Terminate
  <1>5. CASE WakeUp
    <2>1. ASSUME Len(m_input_queue) < INPUT_SIZE
          PROVE  /\ Append(m_input_queue, Dummy) \in Seq(Items)
                 /\ Len(Append(m_input_queue, Dummy)) <= INPUT_SIZE
      BY <2>1
    <2>2. m_input_queue' \in Seq(Items) /\ Len(m_input_queue') <= INPUT_SIZE
      BY <1>5, <2>1 DEF WakeUp
    <2> QED
      BY <1>5, <2>2 DEF WakeUp
  <1>6. CASE Join
    BY <1>6 DEF Join
  <1>7. CASE SetInputData
    BY <1>7 DEF SetInputData, Items
  <1>8. CASE GetOutputData
    BY <1>8 DEF GetOutputData
  <1>9. CASE GetInput
    BY <1>9 DEF GetInput
  <1>10. CASE GetInputTimeout
    BY <1>10 DEF GetInputTimeout
  <1>11. CASE Sleep
    BY <1>11 DEF Sleep
  <1>12. CASE CheckTerminate
    BY <1>12 DEF CheckTerminate
  <1>13. CASE Decide
    BY <1>13 DEF Decide
  <1>14. CASE Apply
    BY <1>14 DEF Apply
  <1>15. CASE PutOutput
    <2>1. CASE OUTPUT_SIZE = 0 /\ UNCHANGED m_output_queue
      BY <1>15, <2>1 DEF PutOutput
    <2>2. CASE /\ Len(m_output_queue) < OUTPUT_SIZE
               /\ m_output_queue' = Append(m_output_queue, output)
      <3>1. /\ Append(m_output_queue, output) \in Seq(Items)
            /\ Len(Append(m_output_queue, output)) <= OUTPUT_SIZE
        BY <2>2
      <3>2. m_output_queue' \in Seq(Items) /\ Len(m_output_queue') <= OUTPUT_SIZE
        BY <2>2, <3>1
      <3> QED
        BY <1>15, <3>2 DEF PutOutput
    <2> QED
      BY <1>15, <2>1, <2>2 DEF PutOutput
  <1>16. CASE UNCHANGED vars
    BY <1>16 DEF vars
  <1> QED
    BY <1>1, <1>2, <1>3, <1>4, <1>5, <1>6, <1>7, <1>8, <1>9, <1>10, <1>11, <1>12,
       <1>13, <1>14, <1>15, <1>16 DEF Next, WorkerStep

LEMMA ThreadsStep == TypeOK /\ Threads /\ [Next]_vars => Threads'
  <1> SUFFICES ASSUME TypeOK, Threads, [Next]_vars
               PROVE  Threads'
    OBVIOUS
  <1> USE DEF TypeOK, Threads, OneWorker, Thread, Untouched, flags, queues, locals,
              clients, bounds, WorkerPlaces
  <1>1. CASE Create
    BY <1>1 DEF Create, StartThread
  <1>2. CASE CreateProfile
    BY <1>2 DEF CreateProfile, StartThread
  <1>3. CASE SetState
    BY <1>3 DEF SetState
  <1>4. CASE Terminate
    BY <1>4 DEF Terminate
  <1>5. CASE WakeUp
    BY <1>5 DEF WakeUp
  <1>6. CASE Join
    BY <1>6 DEF Join
  <1>7. CASE SetInputData
    BY <1>7 DEF SetInputData
  <1>8. CASE GetOutputData
    BY <1>8 DEF GetOutputData
  <1>9. CASE GetInput
    BY <1>9 DEF GetInput
  <1>10. CASE GetInputTimeout
    BY <1>10 DEF GetInputTimeout
  <1>11. CASE Sleep
    BY <1>11 DEF Sleep
  <1>12. CASE CheckTerminate
    BY <1>12 DEF CheckTerminate
  <1>13. CASE Decide
    BY <1>13 DEF Decide
  <1>14. CASE Apply
    BY <1>14 DEF Apply
  <1>15. CASE PutOutput
    BY <1>15 DEF PutOutput
  <1>16. CASE UNCHANGED vars
    BY <1>16 DEF vars
  <1> QED
    BY <1>1, <1>2, <1>3, <1>4, <1>5, <1>6, <1>7, <1>8, <1>9, <1>10, <1>11, <1>12,
       <1>13, <1>14, <1>15, <1>16 DEF Next, WorkerStep

-----------------------------------------------------------------------------
(***************************************************************************)
(* What a step does to the accepted items                                  *)
(***************************************************************************)
Same == Accepted' = Accepted /\ sent' = sent

Drop ==
  /\ InHand' = <<>>
  /\ applied' = applied /\ m_input_queue' = m_input_queue /\ sent' = sent
  /\ terminates # 0 \/ (m_state' # "run" /\ worker' # "none")

Tick ==
  /\ InHand = <<>> /\ InHand' = <<Dummy>>
  /\ applied' = applied /\ m_input_queue' = m_input_queue /\ sent' = sent

Poke == Accepted' = Append(Accepted, Dummy) /\ sent' = sent

Send == Accepted' = Append(Accepted, sent + 1) /\ sent' = sent + 1

LEMMA AcceptedTypes ==
  ASSUME TypeOK
  PROVE  /\ applied \in Seq(Items) /\ InHand \in Seq(Items)
         /\ m_input_queue \in Seq(Items) /\ Accepted \in Seq(Items)
  BY DEF TypeOK, InHand, Accepted

LEMMA AppendToAccepted ==
  ASSUME TypeOK, NEW i \in Items,
         applied' = applied, InHand' = InHand,
         m_input_queue' = Append(m_input_queue, i)
  PROVE  Accepted' = Append(Accepted, i)
  <1> DEFINE a == applied \o InHand
  <1>1. a \in Seq(Items) /\ m_input_queue \in Seq(Items)
    BY AcceptedTypes
  <1>2. a' = a
    OBVIOUS
  <1> HIDE DEF a
  <1>3. <<i>> \in Seq(Items)
    OBVIOUS
  <1>4. a \o Append(m_input_queue, i) = a \o (m_input_queue \o <<i>>)
    BY <1>1, AppendIsConcat
  <1>5. a \o (m_input_queue \o <<i>>) = (a \o m_input_queue) \o <<i>>
    BY <1>1, <1>3, ConcatAssociative
  <1>6. a \o m_input_queue \in Seq(Items)
    BY <1>1
  <1>7. (a \o m_input_queue) \o <<i>> = Append(a \o m_input_queue, i)
    BY <1>6, AppendIsConcat
  <1>8. Accepted = a \o m_input_queue /\ Accepted' = a' \o m_input_queue'
    BY DEF Accepted, a
  <1> QED
    BY <1>2, <1>4, <1>5, <1>7, <1>8

LEMMA AcceptedStep ==
  ASSUME TypeOK, Threads, [Next]_vars
  PROVE  /\ Same \/ Drop \/ Tick \/ Poke \/ Send
         /\ states' = 0 => states = 0
         /\ terminates' = 0 => terminates = 0
  <1> USE DEF flags, queues, locals, clients, bounds
  <1>1. CASE Create
    <2>1. InHand = <<>> /\ InHand' = <<>>
      BY <1>1 DEF Create, StartThread, InHand, Threads, OneWorker
    <2> QED
      BY <1>1, <2>1 DEF Create, StartThread, Same, Accepted
  <1>2. CASE CreateProfile
    <2>1. InHand = <<>> /\ InHand' = <<>>
      BY <1>2 DEF CreateProfile, StartThread, InHand, Threads, OneWorker
    <2> QED
      BY <1>2, <2>1 DEF CreateProfile, StartThread, Same, Accepted
  <1>3. CASE SetState
    BY <1>3 DEF SetState, Same, Accepted, InHand, TypeOK
  <1>4. CASE Terminate
    BY <1>4 DEF Terminate, Same, Accepted, InHand, TypeOK
  <1>5. CASE WakeUp
    <2>1. InHand' = InHand /\ applied' = applied /\ sent' = sent
      BY <1>5 DEF WakeUp, InHand
    <2>2. CASE Len(m_input_queue) < INPUT_SIZE
      BY <1>5, <2>1, <2>2, AppendToAccepted, DummyIsItem DEF WakeUp, Poke
    <2>3. CASE ~(Len(m_input_queue) < INPUT_SIZE)
      BY <1>5, <2>1, <2>3 DEF WakeUp, Same, Accepted
    <2> QED
      BY <1>5, <2>2, <2>3 DEF WakeUp
  <1>6. CASE Join
    <2>1. InHand = <<>> /\ InHand' = <<>>
      BY <1>6 DEF Join, InHand
    <2> QED
      BY <1>6, <2>1 DEF Join, Same, Accepted
  <1>7. CASE SetInputData
    <2>0. sent \in 0 .. MaxSends /\ sent < MaxSends
      BY <1>7 DEF SetInputData, TypeOK
    <2>1. sent + 1 \in Items
      BY <2>0, TaskAssumption DEF Items
    <2>2. /\ InHand' = InHand /\ applied' = applied /\ sent' = sent + 1
          /\ m_input_queue' = Append(m_input_queue, sent + 1)
      BY <1>7 DEF SetInputData, InHand
    <2> QED
      BY <1>7, <2>1, <2>2, AppendToAccepted DEF SetInputData, Send
  <1>8. CASE GetOutputData
    BY <1>8 DEF GetOutputData, Same, Accepted, InHand
  <1>9. CASE GetInput
    <2>1. InHand = <<>> /\ InHand' = <<Head(m_input_queue)>>
      BY <1>9 DEF GetInput, InHand
    <2>2. /\ applied' = applied /\ sent' = sent
          /\ m_input_queue # <<>> /\ m_input_queue' = Tail(m_input_queue)
      BY <1>9 DEF GetInput
    <2>3. Accepted = applied \o m_input_queue
      BY <2>1, ConcatEmptySeq, AcceptedTypes DEF Accepted
    <2>4. Accepted' = applied \o <<Head(m_input_queue)>> \o Tail(m_input_queue)
      BY <2>1, <2>2 DEF Accepted
    <2>5. Same
      BY <2>2, <2>3, <2>4, MoveHead, AcceptedTypes DEF Same
    <2> QED
      BY <1>9, <2>5 DEF GetInput
  <1>10. CASE GetInputTimeout
    <2>1. InHand = <<>> /\ InHand' = <<>>
      BY <1>10 DEF GetInputTimeout, InHand
    <2> QED
      BY <1>10, <2>1 DEF GetInputTimeout, Same, Accepted
  <1>11. CASE Sleep
    <2>1. InHand = <<>> /\ InHand' = <<Dummy>>
      BY <1>11 DEF Sleep, InHand, Threads, Thread
    <2> QED
      BY <1>11, <2>1 DEF Sleep, Tick
  <1>12. CASE CheckTerminate
    <2>1. CASE m_terminate
      <3>1. InHand' = <<>>
        BY <1>12, <2>1 DEF CheckTerminate, InHand
      <3> QED
        BY <1>12, <2>1, <3>1 DEF CheckTerminate, Drop, Threads, Untouched
    <2>2. CASE ~m_terminate
      <3>1. InHand' = InHand
        BY <1>12, <2>2 DEF CheckTerminate, InHand
      <3> QED
        BY <1>12, <3>1 DEF CheckTerminate, Same, Accepted
    <2> QED
      BY <2>1, <2>2
  <1>13. CASE Decide
    <2>1. CASE result /\ m_state = "run"
      <3>1. InHand' = InHand
        BY <1>13, <2>1 DEF Decide, InHand
      <3> QED
        BY <1>13, <3>1 DEF Decide, Same, Accepted
    <2>2. CASE ~result
      <3>1. InHand = <<>> /\ InHand' = <<>>
        BY <1>13, <2>2 DEF Decide, InHand
      <3> QED
        BY <1>13, <3>1 DEF Decide, Same, Accepted
    <2>3. CASE result /\ m_state # "run"
      <3>1. InHand' = <<>>
        BY <1>13, <2>3 DEF Decide, InHand
      <3> QED
        BY <1>13, <2>3, <3>1 DEF Decide, Drop, Threads, Untouched
    <2> QED
      BY <2>1, <2>2, <2>3
  <1>14. CASE Apply
    <2>1. InHand = <<input>> /\ InHand' = <<>>
      BY <1>14 DEF Apply, InHand, Threads, Thread
    <2>2. /\ applied' = Append(applied, input) /\ sent' = sent
          /\ m_input_queue' = m_input_queue
      BY <1>14 DEF Apply
    <2>3. Accepted = Append(applied, input) \o m_input_queue
      BY <2>1, AppendIsConcat DEF Accepted, TypeOK
    <2>4. Append(applied, input) \in Seq(Items)
      BY DEF TypeOK
    <2>5. Accepted' = Append(applied, input) \o m_input_queue
      BY <2>1, <2>2, <2>4, ConcatEmptySeq DEF Accepted
    <2> QED
      BY <1>14, <2>2, <2>3, <2>5 DEF Apply, Same
  <1>15. CASE PutOutput
    <2>1. InHand = <<>> /\ InHand' = <<>>
      BY <1>15 DEF PutOutput, InHand
    <2> QED
      BY <1>15, <2>1 DEF PutOutput, Same, Accepted
  <1>16. CASE UNCHANGED vars
    BY <1>16 DEF vars, Same, Accepted, InHand
  <1> QED
    BY <1>1, <1>2, <1>3, <1>4, <1>5, <1>6, <1>7, <1>8, <1>9, <1>10, <1>11, <1>12,
       <1>13, <1>14, <1>15, <1>16 DEF Next, WorkerStep

\* While nobody calls terminate or setState, a state in which everything is
\* kept is only reached from another one, and a task that is not running does
\* not run its function.
LEMMA StateStep ==
  ASSUME TypeOK, Threads, [Next]_vars, states' = 0, terminates' = 0
  PROVE  /\ m_state' = "run" \/ worker' = "none" => m_state = "run" \/ worker = "none"
         /\ m_state' # "run" => m_state # "run" /\ applied' = applied
  <1> USE DEF TypeOK, Threads, OneWorker, Untouched, flags, queues, locals, clients,
              bounds
  <1>1. CASE Create \/ CreateProfile
    BY <1>1 DEF Create, CreateProfile, StartThread
  <1>2. CASE SetState \/ Terminate
    BY <1>2 DEF SetState, Terminate
  <1>3. CASE WakeUp \/ Join \/ SetInputData \/ GetOutputData
    BY <1>3 DEF WakeUp, Join, SetInputData, GetOutputData
  <1>4. CASE GetInput \/ GetInputTimeout \/ Sleep \/ CheckTerminate \/ Decide
    BY <1>4 DEF GetInput, GetInputTimeout, Sleep, CheckTerminate, Decide
  <1>5. CASE Apply \/ PutOutput
    BY <1>5 DEF Apply, PutOutput
  <1>6. CASE UNCHANGED vars
    BY <1>6 DEF vars
  <1> QED
    BY <1>1, <1>2, <1>3, <1>4, <1>5, <1>6 DEF Next, WorkerStep

-----------------------------------------------------------------------------
(***************************************************************************)
(* Order and completeness                                                  *)
(***************************************************************************)
\* A Drop leaves what was processed and what is queued, ...
LEMMA DropShape ==
  ASSUME TypeOK, Drop
  PROVE  Accepted' = applied \o m_input_queue
  BY AcceptedTypes, ConcatEmptySeq DEF Accepted, Drop

\* ... and a Tick puts a dummy in between.
LEMMA TickShape ==
  ASSUME TypeOK, Tick
  PROVE  /\ Accepted = applied \o m_input_queue
         /\ Accepted' = applied \o <<Dummy>> \o m_input_queue
  BY AcceptedTypes, ConcatEmptySeq DEF Accepted, Tick

LEMMA PokeShape ==
  ASSUME TypeOK, Poke
  PROVE  /\ Accepted = Accepted \o <<>>
         /\ Accepted' = Accepted \o <<Dummy>> \o <<>>
  <1>1. Accepted \in Seq(Items) /\ Append(Accepted, Dummy) \in Seq(Items)
    BY AcceptedTypes, DummyIsItem
  <1>2. Append(Accepted, Dummy) = Accepted \o <<Dummy>>
    BY <1>1, DummyIsItem, AppendIsConcat
  <1>3. Append(Accepted, Dummy) \o <<>> = Append(Accepted, Dummy)
    BY <1>1, ConcatEmptySeq
  <1> QED
    BY <1>1, <1>2, <1>3, ConcatEmptySeq DEF Poke

LEMMA OrderStep ==
  ASSUME TypeOK, Threads, InOrderAtMostOnce, [Next]_vars
  PROVE  InOrderAtMostOnce'
  <1>1. /\ applied \in Seq(Items) /\ InHand \in Seq(Items)
        /\ m_input_queue \in Seq(Items) /\ Accepted \in Seq(Items)
        /\ <<>> \in Seq(Items) /\ sent \in Nat
    BY AcceptedTypes, EmptySeq DEF TypeOK
  <1>2. InOrder(Accepted, sent)
    BY DEF InOrderAtMostOnce
  <1>3. CASE Same
    BY <1>2, <1>3 DEF Same, InOrderAtMostOnce
  <1>4. CASE Drop
    <2>1. InOrder(applied \o InHand \o m_input_queue, sent)
      BY <1>2 DEF Accepted
    <2>2. InOrder(applied \o m_input_queue, sent)
      BY <1>1, <2>1, DropMiddle
    <2> QED
      BY <1>4, <2>2, DropShape DEF Drop, InOrderAtMostOnce
  <1>5. CASE Tick
    <2>1. InOrder(applied \o <<Dummy>> \o m_input_queue, sent)
      BY <1>1, <1>2, <1>5, TickShape, InsertDummy
    <2> QED
      BY <1>5, <2>1, TickShape DEF Tick, InOrderAtMostOnce
  <1>6. CASE Poke
    <2>1. InOrder(Accepted \o <<Dummy>> \o <<>>, sent)
      <3>1. InOrder(Accepted \o <<>>, sent)
        BY <1>2, <1>6, PokeShape
      <3> QED
        BY <1>1, <3>1, InsertDummy
    <2> QED
      BY <1>6, <2>1, PokeShape DEF Poke, InOrderAtMostOnce
  <1>7. CASE Send
    BY <1>1, <1>2, <1>7, AppendTicket DEF Send, InOrderAtMostOnce
  <1> QED
    BY <1>3, <1>4, <1>5, <1>6, <1>7, AcceptedStep

LEMMA LostStep ==
  ASSUME TypeOK, Threads, InOrderAtMostOnce, NothingLost, [Next]_vars
  PROVE  NothingLost'
  <1> SUFFICES ASSUME states' = 0, terminates' = 0
               PROVE  /\ m_state' = "run" \/ worker' = "none" => Covers(Accepted', sent')
                      /\ m_state' # "run" => applied' = <<>>
    BY DEF NothingLost, Covers
  <1>1. /\ applied \in Seq(Items) /\ InHand \in Seq(Items)
        /\ m_input_queue \in Seq(Items) /\ Accepted \in Seq(Items)
        /\ <<>> \in Seq(Items) /\ <<Dummy>> \in Seq(Items) /\ sent \in Nat
    BY AcceptedTypes, DummyIsItem, EmptySeq DEF TypeOK
  <1>2. states = 0 /\ terminates = 0
    BY AcceptedStep
  <1>9. m_state' # "run" => applied' = <<>>
    BY <1>2, StateStep DEF NothingLost
  <1> SUFFICES ASSUME m_state' = "run" \/ worker' = "none"
               PROVE  Covers(Accepted', sent')
    BY <1>9
  <1>3. Covers(Accepted, sent)
    BY <1>2, StateStep DEF NothingLost, Covers
  <1>4. CASE Same
    BY <1>3, <1>4 DEF Same
  <1>5. CASE Drop
    BY <1>2, <1>5 DEF Drop
  <1>6. CASE Tick
    <2>1. Covers(applied \o <<Dummy>> \o m_input_queue, sent)
      BY <1>1, <1>3, <1>6, TickShape, CoverMiddle
    <2> QED
      BY <1>6, <2>1, TickShape DEF Tick
  <1>7. CASE Poke
    <2>1. Covers(Accepted \o <<>>, sent)
      BY <1>3, <1>7, PokeShape
    <2>2. Covers(Accepted \o <<Dummy>> \o <<>>, sent)
      BY <1>1, <2>1, CoverMiddle
    <2> QED
      BY <1>7, <2>2, PokeShape DEF Poke
  <1>8. CASE Send
    <2>1. InOrder(Accepted, sent)
      BY DEF InOrderAtMostOnce
    <2> QED
      BY <1>1, <1>3, <1>8, <2>1, AppendTicket DEF Send
  <1> QED
    BY <1>4, <1>5, <1>6, <1>7, <1>8, AcceptedStep

-----------------------------------------------------------------------------
(***************************************************************************)
(* Outputs                                                                 *)
(***************************************************************************)
LEMMA OutputsStep ==
  ASSUME TypeOK, Threads, OutputsMatch, [Next]_vars
  PROVE  OutputsMatch'
  <1> SUFFICES ASSUME OUTPUT_SIZE # 0
               PROVE  applied' = (received \o m_output_queue \o Returned)'
    BY DEF OutputsMatch
  <1>0. /\ received \in Seq(Items) /\ m_output_queue \in Seq(Items)
        /\ Returned \in Seq(Items) /\ output \in Items /\ input \in Items
        /\ applied = received \o m_output_queue \o Returned
    <2>1. /\ received \in Seq(Items) /\ m_output_queue \in Seq(Items)
          /\ output \in Items /\ input \in Items
      BY DEF TypeOK
    <2>2. Returned \in Seq(Items)
      BY <2>1 DEF Returned
    <2> QED
      BY <2>1, <2>2 DEF OutputsMatch
  <1> USE DEF flags, queues, locals, clients, bounds
  <1> DEFINE Quiet == UNCHANGED <<applied, received, m_output_queue, Returned>>
  <1>9. ASSUME Quiet
        PROVE  applied' = (received \o m_output_queue \o Returned)'
    BY <1>0, <1>9
  <1> HIDE DEF Quiet
  <1>1. CASE GetOutputData
    <2>1. Append(received, Head(m_output_queue)) \o Tail(m_output_queue)
            = received \o m_output_queue
      BY <1>0, <1>1, MoveHead DEF GetOutputData
    <2>2. Returned' = Returned
      BY <1>1 DEF GetOutputData, Returned
    <2> QED
      BY <1>0, <1>1, <2>1, <2>2 DEF GetOutputData
  <1>2. CASE Apply
    <2>1. Returned = <<>> /\ Returned' = <<input>>
      BY <1>2 DEF Apply, Returned
    <2>2. received \o m_output_queue \in Seq(Items)
      BY <1>0
    <2>3. applied = received \o m_output_queue
      BY <1>0, <2>1, <2>2, ConcatEmptySeq
    <2>4. Append(applied, input) = applied \o <<input>>
      BY <1>0, <2>2, <2>3, AppendIsConcat
    <2> QED
      BY <1>2, <2>1, <2>3, <2>4 DEF Apply
  <1>3. CASE PutOutput
    <2>1. Returned = <<output>> /\ Returned' = <<>>
      BY <1>3 DEF PutOutput, Returned
    <2>2. /\ m_output_queue' = Append(m_output_queue, output)
          /\ applied' = applied /\ received' = received
      BY <1>3 DEF PutOutput
    <2>3. Append(m_output_queue, output) = m_output_queue \o <<output>>
      BY <1>0, AppendIsConcat
    <2>4. received \o Append(m_output_queue, output) = applied
      BY <1>0, <2>1, <2>3, ConcatAssociative
    <2>5. received \o Append(m_output_queue, output) \in Seq(Items)
      BY <1>0
    <2>6. (received \o Append(m_output_queue, output)) \o <<>> = applied
      BY <2>4, <2>5, ConcatEmptySeq
    <2> QED
      BY <2>1, <2>2, <2>6
  <1>4. CASE Create \/ CreateProfile
    <2>1. UNCHANGED <<applied, received, m_output_queue>>
      BY <1>4 DEF Create, CreateProfile, StartThread
    <2>2. Returned = <<>> /\ Returned' = <<>>
      BY <1>4 DEF Create, CreateProfile, StartThread, Returned, Threads, OneWorker
    <2> QED
      BY <1>9, <2>1, <2>2 DEF Quiet
  <1>5. CASE SetState \/ Terminate \/ WakeUp \/ SetInputData
    BY <1>5, <1>9 DEF SetState, Terminate, WakeUp, SetInputData, Returned, Quiet
  <1>6. CASE GetInput \/ GetInputTimeout \/ Sleep \/ CheckTerminate \/ Decide
    BY <1>6, <1>9 DEF GetInput, GetInputTimeout, Sleep, CheckTerminate, Decide,
                      Returned, Quiet
  <1>7. CASE UNCHANGED vars
    BY <1>7, <1>9 DEF vars, Returned, Quiet
  <1>8. CASE Join
    BY <1>8, <1>9 DEF Join, Returned, Quiet
  <1> QED
    BY <1>1, <1>2, <1>3, <1>4, <1>5, <1>6, <1>7, <1>8 DEF Next, WorkerStep

-----------------------------------------------------------------------------
(***************************************************************************)
(* The theorems                                                            *)
(***************************************************************************)
\* The inductive invariant holds of every behaviour of the task.
THEOREM Invariance == Spec => []IInv
  <1>1. IInv /\ [Next]_vars => IInv'
    BY TypeStep, ThreadsStep, OrderStep, LostStep, OutputsStep DEF IInv
  <1> QED
    BY InitIInv, <1>1, PTL DEF Spec

\* Every variable keeps its type; no queue holds more than its capacity.
THEOREM TypeCorrect == Spec => []TypeOK
  BY Invariance, PTL DEF IInv

\* The task never has two worker threads, nor a thread nobody will join.
THEOREM WorkerIsJoined == Spec => []OneWorker
  BY Invariance, PTL DEF IInv, Threads

\* The worker function never sees an input twice or out of order, whatever the
\* owner does with the task in between.
THEOREM InputsInOrder == Spec => []InOrderAtMostOnce
  BY Invariance, PTL DEF IInv

\* A task that is neither suspended nor terminated loses no accepted input if
\* its m_state is run, and processes none if create found anything else there.
THEOREM InputsKept == Spec => []NothingLost
  BY Invariance, PTL DEF IInv

\* Clients receive every result of the worker function once, in order.
THEOREM OutputsInOrder == Spec => []OutputsMatch
  BY Invariance, PTL DEF IInv
=============================================================================
