------------------------------ MODULE PartsProofs ------------------------------
(***************************************************************************)
(* The parts that work alone, for every value of the constants.            *)
(*                                                                         *)
(* The timers: what the timer remembers of the counter is related to the   *)
(* time that has passed, whether or not the counter has started again.     *)
(* The lock: who holds it, the flag and the key are related (FlagInv,      *)
(* KeyInv).  The terminal: the counter is the number of configured objects *)
(* that need it raw (Counted), and the settings kept are the first ones    *)
(* (Kept).  The queue: a waiter waits for what his call needs, and alone   *)
(* on his side he finds it (WaitersInv, QueueInv).  The input on Linux:    *)
(* the events told, in flight and queued are the ones kept, and there is   *)
(* no thread behind a disabling (DioInv).  The inputs on the Pi Pico: the  *)
(* vector holds an object exactly when it is enabled (VectorInv).          *)
(***************************************************************************)
EXTENDS MCParts, FiniteSetTheorems, SequenceTheorems, NaturalsInduction, WellFoundedInduction,
        TLAPS

\* A remainder is no more than the number, and less than the divisor.
LEMMA Remainder ==
  ASSUME NEW n \in Nat, NEW d \in Nat \ {0}
  PROVE  n % d \in 0 .. d - 1 /\ n % d <= n /\ (n < d => n % d = n)
  OBVIOUS

-----------------------------------------------------------------------------
(* The PIT.                                                                 *)

\* The counter as seen from first: not started again yet, or once.
Ahead(first) == counter = first + age
Behind(first) == counter = first + age - (MAX_COUNT + 1)
Over == age >= asked_for

\* While write is between its two looks, and while a timer runs.
WriteFollows ==
  /\ writing.asked = asked_for
  /\ Over \/ Ahead(writing.count) \/ Behind(writing.count)

DeadlineIsRight ==
  \/ wait_overflow /\ timeout + MAX_COUNT >= time_count + asked_for
     /\ (Ahead(time_count) \/ Behind(time_count))
  \/ ~wait_overflow /\ timeout = time_count + asked_for /\ timeout <= MAX_COUNT
     /\ Ahead(time_count)
  \/ ~wait_overflow /\ timeout + MAX_COUNT >= time_count + asked_for
     /\ Behind(time_count)

PitFollows ==
  ~rearmed =>
    /\ writing.at = "count" => WriteFollows
    /\ writing.at = "idle" /\ ~wrapped => Over \/ (~expired /\ DeadlineIsRight)

PitInv == PitTypeOK /\ PitFollows

LEMMA NotWritingType ==
  /\ NotWriting.at = "idle"
  /\ NotWriting \in [at : {"idle", "count"}, asked : Counts, count : Counts]
  BY PitAssumption DEF NotWriting, Counts

LEMMA PitInitInv == PitInit => PitInv
  <1> SUFFICES ASSUME PitInit PROVE PitInv
    OBVIOUS
  <1>1. /\ timeout \in 0 .. 2 * MAX_COUNT /\ time_count \in Counts /\ asked_for \in Counts
        /\ age \in 0 .. MaxAge /\ Over
    BY PitAssumption DEF PitInit, Over, Counts
  <1>2. PitTypeOK
    BY <1>1, NotWritingType DEF PitInit, PitTypeOK
  <1>3. writing.at = "idle"
    BY NotWritingType DEF PitInit
  <1> QED BY <1>1, <1>2, <1>3 DEF PitInv, PitFollows

\* The counter either moves on or starts again.
LEMMA CounterMoves ==
  ASSUME PitTypeOK
  PROVE  /\ (counter + 1) % (MAX_COUNT + 1) \in Counts
         /\ (counter + 1) % (MAX_COUNT + 1) = IF counter = MAX_COUNT THEN 0 ELSE counter + 1
  BY PitAssumption DEF PitTypeOK, Counts

LEMMA PitTickInv == PitInv /\ PitTick => PitInv'
  <1> SUFFICES ASSUME PitInv, PitTick PROVE PitInv'
    OBVIOUS
  <1>1. PitTypeOK'
    BY PitAssumption, CounterMoves DEF PitInv, PitTypeOK, PitTick, timer
  <1>2. /\ age' = age + 1 /\ asked_for' = asked_for
        /\ counter' = IF counter = MAX_COUNT THEN 0 ELSE counter + 1
        /\ UNCHANGED <<timer, writing, wrapped, rearmed>>
    BY CounterMoves DEF PitInv, PitTick
  <1>3. ASSUME NEW first \in Counts, ~Over'
        PROVE  /\ ~Over
               /\ Ahead(first) => Ahead(first)' \/ Behind(first)'
               /\ Behind(first) => Behind(first)'
               /\ Ahead(first) /\ first + asked_for <= MAX_COUNT => Ahead(first)'
    BY <1>2, <1>3, PitAssumption DEF PitInv, PitTypeOK, Over, Ahead, Behind, Counts
  <1>4. CASE Over'
    <2>1. PitFollows'
      BY <1>2, <1>4 DEF PitInv, PitFollows, WriteFollows
    <2> QED BY <1>1, <2>1 DEF PitInv
  <1>5. CASE ~Over'
    <2>1. (writing.at = "count" /\ WriteFollows) => WriteFollows'
      BY <1>2, <1>3, <1>5 DEF PitInv, PitTypeOK, WriteFollows
    <2>2. DeadlineIsRight => DeadlineIsRight'
      <3>1. /\ time_count \in Counts /\ asked_for \in Counts /\ timeout \in Nat
            /\ UNCHANGED <<timeout, time_count, asked_for, wait_overflow>>
        BY <1>2 DEF PitInv, PitTypeOK, timer
      <3>2. /\ Ahead(time_count) => Ahead(time_count)' \/ Behind(time_count)'
            /\ Behind(time_count) => Behind(time_count)'
            /\ Ahead(time_count) /\ time_count + asked_for <= MAX_COUNT => Ahead(time_count)'
        BY <1>3, <1>5, <3>1 DEF Ahead, Behind
      <3>3. ASSUME ~wait_overflow, timeout = time_count + asked_for, timeout <= MAX_COUNT
            PROVE  time_count + asked_for <= MAX_COUNT
        BY <3>3
      <3>4. /\ timeout' = timeout /\ time_count' = time_count /\ asked_for' = asked_for
            /\ wait_overflow' = wait_overflow
        BY <3>1
      <3> QED BY <3>2, <3>3, <3>4 DEF DeadlineIsRight, Ahead, Behind
    <2>3. ~Over
      BY <1>2, <1>5 DEF PitInv, PitTypeOK, Over, Counts
    <2>4. UNCHANGED <<writing, wrapped, rearmed, expired>>
      BY <1>2 DEF timer
    <2>5. PitFollows'
      BY <2>1, <2>2, <2>3, <2>4 DEF PitInv, PitFollows
    <2> QED BY <1>1, <2>5 DEF PitInv
  <1> QED BY <1>1, <1>4, <1>5 DEF PitInv

LEMMA WriteInv == PitInv /\ Write => PitInv'
  <1> SUFFICES ASSUME PitInv, Write PROVE PitInv'
    OBVIOUS
  <1>1. PICK counts \in Counts \ {0}, periodic \in BOOLEAN :
          /\ writing' = [at |-> "count", asked |-> counts, count |-> counter]
          /\ is_periodic' = periodic
    BY DEF Write
  <1>2. PitTypeOK'
    <2>1. writing' \in [at : {"idle", "count"}, asked : Counts, count : Counts]
      BY <1>1, PitAssumption DEF PitInv, PitTypeOK, Counts
    <2>2. writing'.asked \in Counts /\ 0 \in 0 .. MaxAge
      BY <1>1, PitAssumption DEF Counts
    <2> QED BY <1>1, <2>1, <2>2 DEF PitInv, PitTypeOK, Write
  <1>3. WriteFollows'
    BY <1>1, PitAssumption DEF PitInv, PitTypeOK, Write, WriteFollows, Ahead, Counts
  <1> QED BY <1>1, <1>2, <1>3 DEF PitInv, PitFollows

LEMMA EndOfWriteInv == PitInv /\ EndOfWrite => PitInv'
  <1> SUFFICES ASSUME PitInv, EndOfWrite PROVE PitInv'
    OBVIOUS
  <1>0. PitTypeOK
    BY DEF PitInv
  <1>1. /\ counter \in Counts /\ writing.count \in Counts
        /\ writing.asked \in Counts
        /\ asked_for \in Counts /\ age \in Nat
    BY <1>0 DEF PitTypeOK
  <1>2. /\ MAX_COUNT - counter >= writing.asked =>
             timeout' = (writing.count + writing.asked) % CountWidth /\ ~wait_overflow'
        /\ MAX_COUNT - counter < writing.asked =>
             timeout' = writing.asked - (MAX_COUNT - counter) /\ wait_overflow'
        /\ time_count' = writing.count /\ expired' = FALSE
        /\ writing' = NotWriting /\ wrapped' = (counter < writing.count)
        /\ UNCHANGED <<counter, is_periodic, asked_for, age, rearmed>>
    BY <1>1, PitAssumption DEF EndOfWrite, SetDeadline, DeadlineBefore, Counts
  <1>3. timeout' \in 0 .. 2 * MAX_COUNT /\ wait_overflow' \in BOOLEAN
    <2>1. timeout' \in 0 .. 2 * MAX_COUNT
      <3>1. CASE MAX_COUNT - counter >= writing.asked
        <4>1. writing.count + writing.asked \in Nat /\ CountWidth \in Nat \ {0}
              /\ writing.count + writing.asked <= 2 * MAX_COUNT
          BY <1>1, PitAssumption DEF Counts
        <4>2. /\ (writing.count + writing.asked) % CountWidth \in 0 .. CountWidth - 1
              /\ (writing.count + writing.asked) % CountWidth <= writing.count + writing.asked
          BY <4>1, Remainder
        <4> QED BY <1>2, <3>1, <4>1, <4>2, PitAssumption
      <3>2. CASE MAX_COUNT - counter < writing.asked
        BY <1>1, <1>2, <3>2, PitAssumption DEF Counts
      <3> QED BY <1>1, <3>1, <3>2, PitAssumption DEF Counts
    <2>2. wait_overflow' \in BOOLEAN
      BY DEF EndOfWrite, SetDeadline
    <2> QED BY <2>1, <2>2
  <1>4. PitTypeOK'
    <2>1. NotWriting \in [at : {"idle", "count"}, asked : Counts, count : Counts]
      BY NotWritingType
    <2>2. wrapped' \in BOOLEAN
      BY <1>2
    <2> QED BY <1>0, <1>1, <1>2, <1>3, <2>1, <2>2 DEF PitTypeOK
  <1>5. ASSUME ~rearmed', ~wrapped' PROVE Over' \/ DeadlineIsRight'
    <2>1. counter >= writing.count
      <3>1. ~(counter < writing.count)
        BY <1>2, <1>5
      <3> QED BY <1>1, <3>1 DEF Counts
    <2>2. WriteFollows
      BY <1>2, <1>5 DEF PitInv, PitFollows, EndOfWrite
    <2>3. CASE Over
      BY <1>2, <2>3 DEF Over
    <2>4. CASE ~Over
      <3>1. Ahead(writing.count) /\ writing.asked = asked_for
        BY <1>1, <2>1, <2>2, <2>4, PitAssumption
           DEF WriteFollows, Over, Ahead, Behind, Counts
      <3>2. Ahead(time_count)'
        BY <1>2, <3>1 DEF Ahead
      <3>3. CASE MAX_COUNT - counter >= writing.asked
        <4>1. timeout' = time_count' + asked_for' /\ timeout' <= MAX_COUNT
          <5>1. writing.count + writing.asked \in Nat
                /\ writing.count + writing.asked <= MAX_COUNT
            BY <1>1, <2>1, <3>3, PitAssumption DEF Counts
          <5>2. CountWidth \in Nat \ {0} /\ writing.count + writing.asked < CountWidth
            BY <5>1, PitAssumption
          <5>3. (writing.count + writing.asked) % CountWidth = writing.count + writing.asked
            BY <5>1, <5>2, Remainder
          <5> QED BY <1>2, <3>1, <3>3, <5>1, <5>3
        <4> QED BY <1>2, <3>2, <3>3, <4>1 DEF DeadlineIsRight
      <3>4. CASE MAX_COUNT - counter < writing.asked
        <4>1. timeout' + MAX_COUNT >= time_count' + asked_for'
          BY <1>1, <1>2, <2>1, <3>1, <3>4, PitAssumption DEF Counts
        <4> QED BY <1>2, <3>2, <3>4, <4>1 DEF DeadlineIsRight
      <3>5. MAX_COUNT - counter >= writing.asked \/ MAX_COUNT - counter < writing.asked
        BY <1>1, PitAssumption DEF Counts
      <3> QED BY <3>3, <3>4, <3>5
    <2> QED BY <2>3, <2>4
  <1>6. writing'.at = "idle" /\ ~expired'
    BY <1>2, NotWritingType
  <1> QED BY <1>4, <1>5, <1>6 DEF PitInv, PitFollows
\* A read that does not expire the timer changes wait_overflow at most, and then
\* because the counter started again; one that does has found it at the deadline.
LEMMA PitReadInv == PitInv /\ PitRead => PitInv'
  <1> SUFFICES ASSUME PitInv, PitRead PROVE PitInv'
    OBVIOUS
  <1>1. /\ PitTypeOK /\ counter \in Counts /\ time_count \in Counts /\ asked_for \in Counts
        /\ age \in Nat /\ timeout \in Nat
    BY DEF PitInv, PitTypeOK
  <1>2. writing.at = "idle" /\ ~expired /\ UNCHANGED <<counter, is_periodic, wrapped>>
    BY NotWritingType DEF PitRead
  <1>3. CASE wait_overflow
    <2>1. /\ UNCHANGED <<timeout, time_count, expired, writing, asked_for, age, rearmed>>
          /\ wait_overflow' = ~(counter < time_count)
      BY <1>3 DEF PitRead
    <2>2. wait_overflow' \in BOOLEAN
      BY <2>1
    <2>3. PitTypeOK'
      BY <1>1, <1>2, <2>1, <2>2 DEF PitTypeOK
    <2>4. ASSUME DeadlineIsRight PROVE Over' \/ DeadlineIsRight'
      <3>1. timeout + MAX_COUNT >= time_count + asked_for /\ (Ahead(time_count) \/ Behind(time_count))
        BY <1>3, <2>4 DEF DeadlineIsRight
      <3>2. counter < time_count => Behind(time_count)
        BY <1>1, <3>1 DEF Ahead, Counts
      <3>3. (Ahead(time_count)' <=> Ahead(time_count)) /\ (Behind(time_count)' <=> Behind(time_count))
        BY <1>2, <2>1 DEF Ahead, Behind
      <3>4. timeout' = timeout /\ time_count' = time_count /\ asked_for' = asked_for
        BY <2>1
      <3> QED BY <2>1, <3>1, <3>2, <3>3, <3>4 DEF DeadlineIsRight
    <2>5. PitFollows'
      BY <1>2, <2>1, <2>4 DEF PitInv, PitFollows, Over
    <2> QED BY <2>3, <2>5 DEF PitInv
  <1>4. CASE ~wait_overflow /\ counter < timeout
    <2>1. UNCHANGED <<timer, writing, asked_for, age, rearmed, counter, wrapped>>
      BY <1>1, <1>2, <1>4 DEF PitRead, Counts
    <2> QED BY <2>1 DEF PitInv, PitTypeOK, PitFollows, WriteFollows, DeadlineIsRight, timer,
                        Over, Ahead, Behind
  <1>5. CASE ~wait_overflow /\ counter >= timeout
    <2>1. /\ IF is_periodic /\ timeout # 0
               THEN /\ writing' = [at |-> "count", asked |-> Cut(timeout), count |-> counter]
                    /\ rearmed' = TRUE
               ELSE UNCHANGED <<writing, rearmed>>
          /\ expired' = TRUE
          /\ UNCHANGED <<timeout, time_count, wait_overflow, asked_for, age>>
      BY <1>1, <1>5 DEF PitRead, Counts
    <2>2. writing' \in [at : {"idle", "count"}, asked : Counts, count : Counts]
      BY <1>1, <2>1, PitAssumption DEF PitTypeOK, Cut, Counts
    <2>3. PitTypeOK'
      BY <1>1, <1>2, <2>1, <2>2 DEF PitTypeOK
    <2>4. DeadlineIsRight => Over
      BY <1>1, <1>5, PitAssumption DEF DeadlineIsRight, Over, Ahead, Behind, Counts
    <2>5. PitFollows'
      BY <1>2, <2>1, <2>4 DEF PitInv, PitFollows, Over
    <2> QED BY <2>3, <2>5 DEF PitInv
  <1> QED BY <1>1, <1>3, <1>4, <1>5 DEF Counts

LEMMA PitNextInv == PitInv /\ [PitNext]_pitVars => PitInv'
  <1>1. PitInv /\ UNCHANGED pitVars => PitInv'
    BY DEF pitVars, timer, ghosts, PitInv, PitTypeOK, PitFollows, WriteFollows,
           DeadlineIsRight, Over, Ahead, Behind
  <1> QED BY <1>1, PitTickInv, WriteInv, EndOfWriteInv, PitReadInv DEF PitNext

LEMMA PitKeepsTime == PitInv => PitNeverEarly
  BY NotWritingType DEF PitInv, PitFollows, PitNeverEarly, Over

\* A PIT timer that says its time is over ran for the time it was asked for,
\* although its counter starts again on the way (drv_pit.cpp:101-133).
THEOREM PitIsNeverEarly == PitSpec => []PitNeverEarly
  BY PitInitInv, PitNextInv, PitKeepsTime, PTL DEF PitSpec

-----------------------------------------------------------------------------
(* The software timer.                                                      *)

\* What is told is paid for by the time before the present period.
ToldIsPast ==
  (duration < DurationWidth /\ ~set_back) =>
    /\ m_duration = duration /\ m_start_time <= now
    /\ expiries * duration <= elapsed_us
    /\ m_is_running /\ ~restarting => expiries * duration + (now - m_start_time) <= elapsed_us

SptInv == SptTypeOK /\ ToldIsPast

LEMMA SptInitInv == SptInit => SptInv
  <1> SUFFICES ASSUME SptInit PROVE SptInv
    OBVIOUS
  <1>1. 0 \in 0 .. MaxNow /\ 0 \in 0 .. DurationWidth - 1 /\ 0 * 0 = 0
    BY SptAssumption
  <1>2. SptTypeOK
    BY <1>1 DEF SptInit, SptTypeOK
  <1>3. ~m_is_running /\ m_duration = duration /\ m_start_time <= now
        /\ expiries * duration <= elapsed_us
    BY <1>1 DEF SptInit
  <1> QED BY <1>2, <1>3 DEF SptInv, ToldIsPast

LEMMA SptTickInv == SptInv /\ (SptTick \/ SetBack) => SptInv'
  <1> SUFFICES ASSUME SptInv, SptTick \/ SetBack PROVE SptInv'
    OBVIOUS
  <1>1. SptTypeOK /\ UNCHANGED <<spt, restarting, duration, expiries>>
    BY DEF SptInv, SptTick, SetBack
  <1>2. /\ now \in Nat /\ m_start_time \in Nat /\ elapsed_us \in Nat
        /\ elapsed_us' = elapsed_us + 1 /\ elapsed_us' \in 0 .. MaxNow
    BY SptAssumption, <1>1 DEF SptTypeOK, SptTick, SetBack
  <1>3. now' \in 0 .. MaxNow /\ set_back' \in BOOLEAN
    <2>1. CASE SptTick
      BY <1>1, <2>1, SptAssumption DEF SptTypeOK, SptTick
    <2>2. CASE SetBack
      <3>1. now' \in 0 .. MaxNow
        BY <1>1, <2>2, SptAssumption DEF SptTypeOK, SetBack
      <3> QED BY <2>2, <3>1 DEF SetBack
    <2> QED BY <2>1, <2>2
  <1>4. SptTypeOK'
    BY <1>1, <1>2, <1>3 DEF SptTypeOK, spt
  <1>5. ASSUME ~set_back', duration < DurationWidth PROVE ToldIsPast'
    <2>1. now' = now + 1 /\ ~set_back
      BY <1>5 DEF SptTick, SetBack
    <2> DEFINE paid == expiries * duration
    <2>2. paid \in Nat
      BY <1>1 DEF SptTypeOK
    <2>3. /\ m_duration = duration /\ m_start_time <= now /\ paid <= elapsed_us
          /\ m_is_running /\ ~restarting => paid + (now - m_start_time) <= elapsed_us
      BY <1>5, <2>1 DEF SptInv, ToldIsPast
    <2> HIDE DEF paid
    <2>4. /\ m_start_time <= now' /\ paid <= elapsed_us'
          /\ m_is_running /\ ~restarting => paid + (now' - m_start_time) <= elapsed_us'
      BY <1>2, <2>1, <2>2, <2>3
    <2>5. /\ expiries' = expiries /\ duration' = duration /\ m_start_time' = m_start_time
          /\ m_is_running' = m_is_running /\ restarting' = restarting
          /\ m_duration' = m_duration
      BY <1>1 DEF spt
    <2> USE DEF paid
    <2> QED BY <2>3, <2>4, <2>5 DEF ToldIsPast
  <1>6. (~set_back' /\ duration < DurationWidth) \/ ToldIsPast'
    BY <1>1 DEF ToldIsPast
  <1> QED BY <1>4, <1>5, <1>6 DEF SptInv

LEMMA StartInv == SptInv /\ Start => SptInv'
  <1> SUFFICES ASSUME SptInv, Start PROVE SptInv'
    OBVIOUS
  <1>1. PICK d \in 0 .. DurationWidth - 1, mode \in {"one_shot", "periodic"} :
          /\ m_duration' = (d * Scale) % DurationWidth
          /\ m_mode' = mode
          /\ duration' = d * Scale
    BY DEF Start
  <1>2. d * Scale \in Nat
    BY SptAssumption
  <1>3. m_duration' \in 0 .. DurationWidth - 1
        /\ (duration' < DurationWidth => m_duration' = duration')
    BY <1>1, <1>2, Remainder, SptAssumption
  <1>4. /\ m_start_time' = now /\ m_is_running' = TRUE /\ now' = now
        /\ elapsed_us' = 0 /\ expiries' = 0 /\ set_back' = FALSE /\ restarting' = restarting
    BY DEF Start
  <1>5. SptTypeOK'
    <2>1. now \in 0 .. MaxNow /\ 0 \in 0 .. MaxNow /\ 0 \in Nat
      BY SptAssumption DEF SptInv, SptTypeOK
    <2> QED BY <1>1, <1>2, <1>3, <1>4, <2>1 DEF SptInv, SptTypeOK
  <1>6. expiries' * duration' = 0
    BY <1>1, <1>2, <1>4
  <1>7. /\ m_start_time' <= now' /\ expiries' * duration' <= elapsed_us'
        /\ expiries' * duration' + (now' - m_start_time') <= elapsed_us'
    BY <1>4, <1>6 DEF SptInv, SptTypeOK
  <1> QED BY <1>3, <1>5, <1>7 DEF SptInv, ToldIsPast

LEMMA StopInv == SptInv /\ Stop => SptInv'
  <1> SUFFICES ASSUME SptInv, Stop PROVE SptInv'
    OBVIOUS
  <1>1. /\ m_is_running' = FALSE
        /\ UNCHANGED <<now, m_start_time, m_duration, m_mode, restarting, sptGhosts>>
    BY DEF Stop
  <1>2. SptTypeOK'
    BY <1>1 DEF SptInv, SptTypeOK, sptGhosts
  <1>3. ToldIsPast'
    BY <1>1 DEF SptInv, ToldIsPast, sptGhosts
  <1> QED BY <1>2, <1>3 DEF SptInv

\* One more expiry is told when a duration has passed in this period.
LEMMA HasExpiredInv == SptInv /\ HasExpired => SptInv'
  <1> SUFFICES ASSUME SptInv, HasExpired PROVE SptInv'
    OBVIOUS
  <1>1. /\ now \in Nat /\ m_start_time \in Nat /\ m_duration \in Nat /\ duration \in Nat
        /\ expiries \in Nat /\ elapsed_us \in Nat
    BY SptAssumption DEF SptInv, SptTypeOK
  <1>2. /\ m_is_running /\ ~restarting /\ Difference >= m_duration
        /\ expiries' = expiries + 1 /\ restarting' = m_is_running'
        /\ UNCHANGED <<now, m_start_time, m_duration, m_mode, duration, elapsed_us, set_back>>
    BY DEF HasExpired
  <1>3. SptTypeOK'
    <2>1. expiries' \in Nat
      BY <1>1, <1>2
    <2>2. m_is_running' \in BOOLEAN /\ restarting' \in BOOLEAN
      BY DEF HasExpired
    <2> QED BY <1>2, <2>1, <2>2 DEF SptInv, SptTypeOK
  <1>4. ASSUME duration < DurationWidth, ~set_back
        PROVE  /\ m_duration = duration /\ m_start_time <= now
               /\ (expiries + 1) * duration <= elapsed_us
    <2> DEFINE paid == expiries * duration
    <2>1. /\ m_duration = duration /\ m_start_time <= now
          /\ paid + (now - m_start_time) <= elapsed_us
      BY <1>2, <1>4 DEF SptInv, ToldIsPast
    <2>2. Difference <= now - m_start_time
      <3>1. now - m_start_time \in Nat
        BY <1>1, <2>1
      <3> QED BY <3>1, Remainder, SptAssumption DEF Difference
    <2>3. Difference \in Nat /\ Difference >= duration
      <3>1. now - m_start_time \in Nat
        BY <1>1, <2>1
      <3>2. Difference \in Nat
        BY <3>1, Remainder, SptAssumption DEF Difference
      <3> QED BY <1>2, <2>1, <3>2
    <2>4. paid \in Nat /\ (expiries + 1) * duration = paid + duration
      BY <1>1
    <2> HIDE DEF paid
    <2>5. paid + duration <= elapsed_us
      BY <1>1, <2>1, <2>2, <2>3, <2>4
    <2> QED BY <2>1, <2>4, <2>5
  <1>5. ToldIsPast'
    BY <1>2, <1>4 DEF ToldIsPast
  <1> QED BY <1>3, <1>5 DEF SptInv

LEMMA RestartInv == SptInv /\ Restart => SptInv'
  <1> SUFFICES ASSUME SptInv, Restart PROVE SptInv'
    OBVIOUS
  <1>1. /\ restarting' = FALSE /\ m_start_time' = now
        /\ UNCHANGED <<now, m_duration, m_is_running, m_mode, sptGhosts>>
    BY DEF Restart
  <1>2. SptTypeOK'
    BY <1>1 DEF SptInv, SptTypeOK, sptGhosts
  <1>3. now' - m_start_time' = 0 /\ m_start_time' <= now' /\ expiries * duration \in Nat
        /\ elapsed_us \in Nat
    BY <1>1, SptAssumption DEF SptInv, SptTypeOK
  <1>4. expiries * duration + 0 = expiries * duration
    BY <1>3
  <1>5. ToldIsPast'
    BY <1>1, <1>3, <1>4 DEF SptInv, ToldIsPast, sptGhosts
  <1> QED BY <1>2, <1>5 DEF SptInv

LEMMA SptNextInv == SptInv /\ [SptNext]_sptVars => SptInv'
  <1>1. SptInv /\ UNCHANGED sptVars => SptInv'
    BY DEF sptVars, spt, sptGhosts, SptInv, SptTypeOK, ToldIsPast
  <1> QED BY <1>1, SptTickInv, StartInv, StopInv, HasExpiredInv, RestartInv DEF SptNext

LEMMA SptKeepsTime == SptInv => SptNeverEarly
  BY DEF SptInv, ToldIsPast, SptNeverEarly

\* A software timer tells no more expiries than durations have passed, however
\* late its user looks (spt_base.cpp:66-88).
THEOREM SptIsNeverEarly == SptSpec => []SptNeverEarly
  BY SptInitInv, SptNextInv, SptKeepsTime, PTL DEF SptSpec

-----------------------------------------------------------------------------
(* The lock. *)

\* A user that is idle has nothing of its last call.
UserInv ==
  \A u \in Users :
    /\ user[u].at = "idle" => user[u] = Away
    /\ user[u].at # "idle" => user[u].key \in Keys

FlagInv ==
  /\ \A u \in Users : Holds(u) => mutex_lock
  /\ mutex_lock => \E u \in Users : Holds(u)

KeyInv ==
  /\ \A u \in Users :
       /\ user[u].at \in {"start", "transfer", "unlock"} => mutex_key = user[u].key
       /\ user[u].at \in {"storeKey", "clear"} => mutex_key = EmptyKey
  /\ ~mutex_lock => mutex_key = EmptyKey

Busy(u) == user[u].at \in {"transfer", "unlock", "clear", "tell"}

\* A flag that says that a transfer runs has a user that will set it again.
DoneInv ==
  /\ \A d \in Directions : ~done[d] => \E u \in Users : Busy(u) /\ user[u].direction = d
  /\ ~is_operation_done => \E u \in Users : Busy(u)

LocksInv == LocksTypeOK /\ UserInv /\ FlagInv /\ LockIsExclusive /\ KeyInv /\ DoneInv

LEMMA AwayIsNowhere == Away.at = "idle"
  BY DEF Away

LEMMA LocksInitInv == LocksInit => LocksInv
  <1> SUFFICES ASSUME LocksInit PROVE LocksInv
    OBVIOUS
  <1>1. LocksTypeOK
    BY DEF LocksInit, LocksTypeOK, Away, Directions
  <1>2. \A u \in Users : user[u] = Away /\ ~Holds(u) /\ user[u].at = "idle"
    BY AwayIsNowhere DEF LocksInit, Holds
  <1>3. UserInv /\ FlagInv /\ LockIsExclusive /\ KeyInv /\ DoneInv
    BY <1>2 DEF LocksInit, UserInv, FlagInv, LockIsExclusive, KeyInv, DoneInv
  <1> QED BY <1>1, <1>3 DEF LocksInv

LEMMA LocksNextInv == LocksInv /\ [LocksNext]_lockVars => LocksInv'
  <1> SUFFICES ASSUME LocksInv, [LocksNext]_lockVars PROVE LocksInv'
    OBVIOUS
  <1> USE LocksAssumption DEF LocksInv, Holds, Busy, Directions
  <1>1. CASE UNCHANGED lockVars
    BY <1>1 DEF lockVars, LocksTypeOK, UserInv, FlagInv, LockIsExclusive, KeyInv, DoneInv
  <1>2. ASSUME NEW u \in Users, I2cStep(u) PROVE LocksInv'
    <2>1. CASE BeginI2c(u)
      <3>1. PICK d \in Directions, k \in Keys :
              user' = [user EXCEPT ![u] = [at |-> "compareKey", direction |-> d, key |-> k]]
        BY <2>1 DEF BeginI2c
      <3>2. LocksTypeOK' BY <2>1, <3>1 DEF BeginI2c, LocksTypeOK
      <3>3. UserInv' BY <2>1, <3>1 DEF BeginI2c, LocksTypeOK, UserInv
      <3>4. FlagInv' /\ LockIsExclusive'
        BY <2>1, <3>1 DEF BeginI2c, LocksTypeOK, FlagInv, LockIsExclusive
      <3>5. KeyInv' BY <2>1, <3>1 DEF BeginI2c, LocksTypeOK, KeyInv
      <3>6. DoneInv' BY <2>1, <3>1 DEF BeginI2c, LocksTypeOK, DoneInv
      <3> QED BY <3>2, <3>3, <3>4, <3>5, <3>6
    <2>2. CASE CompareKey(u)
      <3>1. LocksTypeOK' BY <2>2 DEF CompareKey, UserGoes, Away, LocksTypeOK
      <3>2. UserInv' BY <2>2 DEF CompareKey, UserGoes, Away, LocksTypeOK, UserInv
      <3>3. FlagInv' /\ LockIsExclusive'
        BY <2>2 DEF CompareKey, UserGoes, Away, LocksTypeOK, FlagInv, LockIsExclusive
      <3>4. KeyInv' BY <2>2 DEF CompareKey, UserGoes, Away, LocksTypeOK, KeyInv
      <3>5. DoneInv' BY <2>2 DEF CompareKey, UserGoes, Away, LocksTypeOK, DoneInv
      <3> QED BY <3>1, <3>2, <3>3, <3>4, <3>5
    <2>3. CASE TestAndSet(u)
      <3>1. LocksTypeOK' BY <2>3 DEF TestAndSet, UserGoes, Away, LocksTypeOK
      <3>2. UserInv' BY <2>3 DEF TestAndSet, UserGoes, Away, LocksTypeOK, UserInv
      <3>3. FlagInv' BY <2>3 DEF TestAndSet, UserGoes, Away, LocksTypeOK, FlagInv
      <3>4. LockIsExclusive'
        BY <2>3 DEF TestAndSet, UserGoes, Away, LocksTypeOK, FlagInv, LockIsExclusive
      <3>5. KeyInv' BY <2>3 DEF TestAndSet, UserGoes, Away, LocksTypeOK, KeyInv, FlagInv
      <3>6. DoneInv' BY <2>3 DEF TestAndSet, UserGoes, Away, LocksTypeOK, DoneInv
      <3> QED BY <3>1, <3>2, <3>3, <3>4, <3>5, <3>6
    <2>4. CASE StoreKey(u)
      <3>1. LocksTypeOK' BY <2>4 DEF StoreKey, UserGoes, LocksTypeOK
      <3>2. UserInv' BY <2>4 DEF StoreKey, UserGoes, LocksTypeOK, UserInv
      <3>3. FlagInv' /\ LockIsExclusive'
        BY <2>4 DEF StoreKey, UserGoes, LocksTypeOK, FlagInv, LockIsExclusive
      <3>4. KeyInv'
        BY <2>4 DEF StoreKey, UserGoes, LocksTypeOK, KeyInv, FlagInv, LockIsExclusive
      <3>5. DoneInv' BY <2>4 DEF StoreKey, UserGoes, LocksTypeOK, DoneInv
      <3> QED BY <3>1, <3>2, <3>3, <3>4, <3>5
    <2>5. CASE StartTransfer(u)
      <3>1. LocksTypeOK' BY <2>5 DEF StartTransfer, UserGoes, LocksTypeOK
      <3>2. UserInv' BY <2>5 DEF StartTransfer, UserGoes, LocksTypeOK, UserInv
      <3>3. FlagInv' /\ LockIsExclusive'
        BY <2>5 DEF StartTransfer, UserGoes, LocksTypeOK, FlagInv, LockIsExclusive
      <3>4. KeyInv' BY <2>5 DEF StartTransfer, UserGoes, LocksTypeOK, KeyInv
      <3>5. DoneInv' BY <2>5 DEF StartTransfer, UserGoes, LocksTypeOK, DoneInv
      <3> QED BY <3>1, <3>2, <3>3, <3>4, <3>5
    <2>6. CASE EndTransfer(u)
      <3>1. LocksTypeOK' BY <2>6 DEF EndTransfer, UserGoes, LocksTypeOK
      <3>2. UserInv' BY <2>6 DEF EndTransfer, UserGoes, LocksTypeOK, UserInv
      <3>3. FlagInv' /\ LockIsExclusive'
        BY <2>6 DEF EndTransfer, UserGoes, LocksTypeOK, FlagInv, LockIsExclusive
      <3>4. KeyInv' BY <2>6 DEF EndTransfer, UserGoes, LocksTypeOK, KeyInv
      <3>5. DoneInv' BY <2>6 DEF EndTransfer, UserGoes, LocksTypeOK, DoneInv
      <3> QED BY <3>1, <3>2, <3>3, <3>4, <3>5
    <2>7. CASE ClearKey(u)
      <3>1. user[u].at = "unlock" /\ mutex_key = user[u].key
        BY <2>7 DEF ClearKey, UserGoes, KeyInv
      <3>2. UserGoes(u, "unlock", "clear") /\ mutex_key' = EmptyKey
        BY <2>7, <3>1 DEF ClearKey
      <3>3. LocksTypeOK' BY <2>7, <3>2 DEF ClearKey, UserGoes, LocksTypeOK
      <3>4. UserInv' BY <2>7, <3>2 DEF ClearKey, UserGoes, LocksTypeOK, UserInv
      <3>5. FlagInv' /\ LockIsExclusive'
        BY <2>7, <3>2 DEF ClearKey, UserGoes, LocksTypeOK, FlagInv, LockIsExclusive
      <3>6. KeyInv'
        BY <2>7, <3>2 DEF ClearKey, UserGoes, LocksTypeOK, KeyInv, LockIsExclusive
      <3>7. DoneInv' BY <2>7, <3>2 DEF ClearKey, UserGoes, LocksTypeOK, DoneInv
      <3> QED BY <3>3, <3>4, <3>5, <3>6, <3>7
    <2>8. CASE ClearLock(u)
      <3>1. LocksTypeOK' BY <2>8 DEF ClearLock, UserGoes, LocksTypeOK
      <3>2. UserInv' BY <2>8 DEF ClearLock, UserGoes, LocksTypeOK, UserInv
      <3>3. FlagInv' /\ LockIsExclusive'
        BY <2>8 DEF ClearLock, UserGoes, LocksTypeOK, FlagInv, LockIsExclusive
      <3>4. KeyInv' BY <2>8 DEF ClearLock, UserGoes, LocksTypeOK, KeyInv, LockIsExclusive
      <3>5. DoneInv' BY <2>8 DEF ClearLock, UserGoes, LocksTypeOK, DoneInv
      <3> QED BY <3>1, <3>2, <3>3, <3>4, <3>5
    <2>9. CASE TellDone(u)
      <3>1. LocksTypeOK' BY <2>9 DEF TellDone, Away, LocksTypeOK
      <3>2. UserInv' BY <2>9 DEF TellDone, Away, LocksTypeOK, UserInv
      <3>3. FlagInv' /\ LockIsExclusive'
        BY <2>9 DEF TellDone, Away, LocksTypeOK, FlagInv, LockIsExclusive
      <3>4. KeyInv' BY <2>9 DEF TellDone, Away, LocksTypeOK, KeyInv
      <3>5. DoneInv' BY <2>9 DEF TellDone, Away, LocksTypeOK, DoneInv
      <3> QED BY <3>1, <3>2, <3>3, <3>4, <3>5
    <2> QED BY <1>2, <2>1, <2>2, <2>3, <2>4, <2>5, <2>6, <2>7, <2>8, <2>9 DEF I2cStep
  <1> QED BY <1>1, <1>2 DEF LocksNext

LEMMA LocksInvariant == LocksSpec => []LocksInv
  BY LocksInitInv, LocksNextInv, PTL DEF LocksSpec

\* The users' places, the flag and the key have their types.
THEOREM LocksTypeCorrect == LocksSpec => []LocksTypeOK
  BY LocksInvariant, PTL DEF LocksInv

\* Who has gone has left nothing behind.
LEMMA LocksAreSound == LocksInv => LockIsSound
  <1> SUFFICES ASSUME LocksInv PROVE NothingLeftBehind
    BY DEF LocksInv, LockIsSound
  <1> SUFFICES ASSUME \A u \in Users : user[u] = Away
               PROVE /\ mutex_key = EmptyKey /\ ~mutex_lock /\ is_operation_done
                     /\ \A d \in Directions : done[d]
    BY DEF NothingLeftBehind
  <1>1. \A u \in Users : ~Holds(u) /\ ~Busy(u)
    BY AwayIsNowhere DEF Holds, Busy
  <1>2. ~mutex_lock /\ mutex_key = EmptyKey
    BY <1>1 DEF LocksInv, FlagInv, KeyInv, LocksTypeOK
  <1>3. is_operation_done /\ \A d \in Directions : done[d]
    BY <1>1 DEF LocksInv, DoneInv, LocksTypeOK
  <1> QED BY <1>2, <1>3

\* One user at a time is between the test_and_set of lock and the clear of
\* unlock (drv_comm_base.cpp:82 and 110), although the key is stored and emptied
\* in steps of their own; and when all have gone, the flag is down, the key is
\* empty and every transfer is told as done.
THEOREM LockHolds == LocksSpec => []LockIsSound
  BY LocksInvariant, LocksAreSound, PTL

-----------------------------------------------------------------------------
(* The terminal. *)

ConfiguredPorts == {o \in Ports : port[o].life = "configured"}

Counted ==
  ~irregular =>
    /\ m_termios_counter = Cardinality(ConfiguredPorts)
    /\ \A o \in Ports : port[o].raw => port[o].life = "configured" /\ terminal = "raw"
    /\ m_termios_counter > 0 => m_backup = "cooked"
    /\ m_termios_counter = 0 => terminal = "cooked"

\* A counter above zero means that there are settings to go back to.
Kept == m_termios_counter > 0 => m_backup # "zero"

StdInv == StdTypeOK /\ Kept /\ Counted

LEMMA ConfiguredFinite ==
  IsFiniteSet(ConfiguredPorts) /\ Cardinality(ConfiguredPorts) \in Nat
  BY StdInOutAssumption, FS_Subset, FS_CardinalityType DEF ConfiguredPorts

\* No object is configured exactly when the count of them is 0.
LEMMA NoneConfigured ==
  Cardinality(ConfiguredPorts) = 0 <=> \A o \in Ports : port[o].life # "configured"
  <1>1. Cardinality(ConfiguredPorts) = 0 <=> ConfiguredPorts = {}
    BY ConfiguredFinite, FS_EmptySet
  <1> QED BY <1>1 DEF ConfiguredPorts

LEMMA StdInitInv == StdInit => StdInv
  <1> SUFFICES ASSUME StdInit PROVE StdInv
    OBVIOUS
  <1>1. StdTypeOK
    <2>1. m_termios_counter \in 0 .. MaxConfigured
      BY StdInOutAssumption DEF StdInit
    <2>2. NoPort \in [life : {"none", "made", "configured"}, raw : BOOLEAN]
      BY DEF NoPort
    <2> QED BY <2>1, <2>2 DEF StdInit, StdTypeOK
  <1>2. \A o \in Ports : port[o].life # "configured" /\ ~port[o].raw
    BY DEF StdInit, NoPort
  <1>3. Counted
    BY <1>2, NoneConfigured DEF StdInit, Counted
  <1>4. Kept
    BY DEF StdInit, Kept
  <1> QED BY <1>1, <1>3, <1>4 DEF StdInv

\* Settings are kept before the counter leaves zero.
LEMMA KeptNext == StdTypeOK /\ Kept /\ [StdNext]_stdVars => Kept'
  <1> SUFFICES ASSUME StdTypeOK, Kept, [StdNext]_stdVars PROVE Kept'
    OBVIOUS
  <1>1. ASSUME NEW o \in Ports, StdConfigure(o) PROVE Kept'
    BY <1>1 DEF StdConfigure, Kept, StdTypeOK
  <1>2. ASSUME NEW o \in Ports, StdDestroy(o) PROVE Kept'
    <2>1. m_termios_counter' = OneLess /\ m_backup' = m_backup
      BY <1>2 DEF StdDestroy
    <2> QED BY <2>1 DEF OneLess, Kept, StdTypeOK
  <1> QED BY <1>1, <1>2 DEF StdNext, Make, stdVars, Kept

LEMMA StdNextInv == StdInv /\ [StdNext]_stdVars => StdInv'
  <1> SUFFICES ASSUME StdInv, [StdNext]_stdVars PROVE StdTypeOK' /\ Counted'
    BY KeptNext DEF StdInv
  <1> USE StdInOutAssumption DEF StdInv
  <1>1. CASE UNCHANGED stdVars
    BY <1>1 DEF stdVars, StdTypeOK, Counted, ConfiguredPorts
  <1>2. ASSUME NEW o \in Ports, Make(o) PROVE StdTypeOK' /\ Counted'
    <2>1. StdTypeOK'
      BY <1>2 DEF Make, StdTypeOK
    <2>2. ConfiguredPorts' = ConfiguredPorts
      BY <1>2 DEF Make, StdTypeOK, ConfiguredPorts
    <2>3. \A p \in Ports : port'[p].raw => port[p].raw /\ port'[p] = port[p]
      BY <1>2 DEF Make, StdTypeOK
    <2>4. Counted'
      BY <1>2, <2>2, <2>3 DEF Make, Counted
    <2> QED BY <2>1, <2>4
  <1>3. ASSUME NEW o \in Ports, StdConfigure(o) PROVE StdTypeOK' /\ Counted'
    <2>1. StdTypeOK'
      <3>1. m_termios_counter' \in 0 .. MaxConfigured
        BY <1>3 DEF StdConfigure, StdTypeOK
      <3>2. port' \in [Ports -> [life : {"none", "made", "configured"}, raw : BOOLEAN]]
        <4>1. PICK b \in BOOLEAN :
                port' = [port EXCEPT ![o] = [life |-> "configured", raw |-> b]]
          <5>1. port[o].raw \in BOOLEAN
            BY DEF StdTypeOK
          <5> QED BY <1>3, <5>1 DEF StdConfigure
        <4>2. [life |-> "configured", raw |-> b]
                \in [life : {"none", "made", "configured"}, raw : BOOLEAN]
          OBVIOUS
        <4> QED BY <4>1, <4>2 DEF StdTypeOK
      <3>3. terminal' \in {"cooked", "raw"} /\ m_backup' \in {"zero", "cooked", "raw"}
        BY <1>3 DEF StdConfigure, StdTypeOK
      <3>4. irregular' \in BOOLEAN
        BY <1>3 DEF StdConfigure
      <3> QED BY <3>1, <3>2, <3>3, <3>4 DEF StdTypeOK
    <2>2. CASE irregular'
      BY <2>1, <2>2 DEF Counted
    <2>3. CASE ~irregular'
      <3>1. ~irregular /\ port[o].life # "configured"
        BY <1>3, <2>3 DEF StdConfigure, StdTypeOK
      <3>2. ConfiguredPorts' = ConfiguredPorts \cup {o} /\ o \notin ConfiguredPorts
        BY <1>3, <3>1 DEF StdConfigure, StdTypeOK, ConfiguredPorts
      <3>3. Cardinality(ConfiguredPorts') = Cardinality(ConfiguredPorts) + 1
        BY <3>2, ConfiguredFinite, FS_AddElement
      <3>4. m_termios_counter' = Cardinality(ConfiguredPorts')
        BY <1>3, <3>1, <3>3 DEF StdConfigure, Counted
      <3>5. m_backup' = "cooked"
        BY <1>3, <3>1 DEF StdConfigure, Counted, StdTypeOK
      <3>6. \A p \in Ports : port'[p].raw => port'[p].life = "configured" /\ terminal' = "raw"
        BY <1>3, <3>1 DEF StdConfigure, Counted, StdTypeOK
      <3>7. m_termios_counter' > 0
        BY <1>3 DEF StdConfigure, StdTypeOK
      <3>8. Counted'
        BY <3>4, <3>5, <3>6, <3>7, <2>1 DEF Counted, StdTypeOK
      <3> QED BY <2>1, <3>8
    <2> QED BY <2>2, <2>3
  <1>4. ASSUME NEW o \in Ports, StdDestroy(o) PROVE StdTypeOK' /\ Counted'
    <2>1. StdTypeOK'
      <3>1. m_termios_counter' \in 0 .. MaxConfigured
        BY <1>4 DEF StdDestroy, OneLess, StdTypeOK
      <3>2. NoPort \in [life : {"none", "made", "configured"}, raw : BOOLEAN]
        BY DEF NoPort
      <3>3. port' \in [Ports -> [life : {"none", "made", "configured"}, raw : BOOLEAN]]
        BY <1>4, <3>2 DEF StdDestroy, StdTypeOK
      <3>4. irregular' \in BOOLEAN
        BY <1>4 DEF StdDestroy
      <3>5. m_backup' = m_backup
        BY <1>4 DEF StdDestroy
      <3>6. terminal' \in {"cooked", "raw"}
        <4>1. terminal' = terminal \/ (LastOne /\ terminal' = m_backup)
          BY <1>4 DEF StdDestroy
        <4> QED BY <4>1 DEF LastOne, Kept, StdTypeOK
      <3> QED BY <3>1, <3>3, <3>4, <3>5, <3>6 DEF StdTypeOK
    <2>2. CASE irregular'
      BY <2>1, <2>2 DEF Counted
    <2>3. CASE ~irregular'
      <3>1. /\ ~irregular /\ terminal' = IF LastOne THEN m_backup ELSE terminal
            /\ port[o].life = "made" => m_termios_counter = 0
        <4>1. ~irregular
          BY <1>4, <2>3 DEF StdDestroy
        <4>2. terminal' = IF LastOne THEN m_backup ELSE terminal
          BY <1>4, <2>3 DEF StdDestroy
        <4>3. ~(port[o].life = "made" /\ m_termios_counter > 0)
          BY <1>4, <2>3 DEF StdDestroy
        <4>4. m_termios_counter \in Nat
          BY DEF StdTypeOK
        <4> QED BY <4>1, <4>2, <4>3, <4>4
      <3>2. \A p \in Ports : port'[p] = IF p = o THEN NoPort ELSE port[p]
        BY <1>4 DEF StdDestroy, StdTypeOK
      <3>3. NoPort.life = "none" /\ ~NoPort.raw
        BY DEF NoPort
      <3>4. ConfiguredPorts' = ConfiguredPorts \ {o}
        BY <3>2, <3>3 DEF ConfiguredPorts
      <3>5. CASE port[o].life = "configured"
        <4>1. Cardinality(ConfiguredPorts') = Cardinality(ConfiguredPorts) - 1
          <5>1. o \in ConfiguredPorts
            BY <3>5 DEF ConfiguredPorts
          <5> QED BY <3>4, <5>1, ConfiguredFinite, FS_RemoveElement
        <4>2. m_termios_counter > 0 /\ m_backup = "cooked"
          BY <3>1, <3>5, NoneConfigured DEF Counted, StdTypeOK
        <4>3. m_termios_counter' = Cardinality(ConfiguredPorts')
          BY <1>4, <3>1, <4>1, <4>2 DEF StdDestroy, OneLess, Counted, StdTypeOK
        <4>4. CASE LastOne
          <5>1. m_termios_counter' = 0 /\ terminal' = "cooked"
            BY <1>4, <3>1, <4>2, <4>4 DEF StdDestroy, OneLess, LastOne
          <5>2. \A p \in Ports : port'[p].life # "configured"
            <6>1. ConfiguredPorts' = {}
              BY <4>3, <5>1, <3>4, ConfiguredFinite, FS_RemoveElement, FS_EmptySet
            <6> QED BY <6>1 DEF ConfiguredPorts
          <5>3. \A p \in Ports : ~port'[p].raw
            BY <3>1, <3>2, <3>3, <5>2 DEF Counted
          <5>4. Counted'
            BY <4>3, <5>1, <5>3 DEF Counted
          <5> QED BY <2>1, <5>4
        <4>5. CASE ~LastOne
          <5>1. terminal' = terminal /\ m_termios_counter' > 0 /\ m_backup' = "cooked"
            BY <1>4, <3>1, <4>2, <4>5 DEF StdDestroy, OneLess, LastOne, StdTypeOK
          <5>2. Counted'
            BY <4>3, <5>1, <3>1, <3>2, <3>3, <2>1 DEF Counted, StdTypeOK
          <5> QED BY <2>1, <5>2
        <4> QED BY <4>4, <4>5
      <3>6. CASE port[o].life # "configured"
        <4>1. ConfiguredPorts' = ConfiguredPorts
          BY <3>4, <3>6 DEF ConfiguredPorts
        <4>2. m_termios_counter = 0
          BY <1>4, <3>1, <3>6 DEF StdDestroy, StdTypeOK
        <4>3. m_termios_counter' = 0 /\ terminal' = terminal
          BY <1>4, <3>1, <4>2 DEF StdDestroy, OneLess, LastOne
        <4>4. Counted'
          BY <3>1, <3>2, <3>3, <4>1, <4>2, <4>3 DEF Counted
        <4> QED BY <2>1, <4>4
      <3> QED BY <3>5, <3>6
    <2> QED BY <2>2, <2>3
  <1> QED BY <1>1, <1>2, <1>3, <1>4 DEF StdNext

LEMMA NoneLeftBehind == StdInv => TerminalRestored
  BY NoneConfigured DEF StdInv, Counted, TerminalRestored

\* Whatever order the objects come and go in, the terminal is raw as long as one
\* needs it and has its settings back when none is left (std_in_out.cpp:37-45).
THEOREM TerminalIsRestored == StdSpec => []TerminalRestored
  BY StdInitInv, StdNextInv, NoneLeftBehind, PTL DEF StdSpec

-----------------------------------------------------------------------------
(* The reads with a timeout.                                                *)

\* The bytes read, those the kernel holds and those still to come are no more than
\* the peer sends; and what the next read is asked for has room.
IoInv ==
  /\ IoTypeOK
  /\ bytes_read = -1 => io_at = "returned"
  /\ available + arrivals <= MaxArrivals
  /\ bytes_read # -1 => bytes_read + available + arrivals <= MaxArrivals
  /\ io_function = 2 => io_at \in {"sleep", "read", "returned"}
  /\ io_function # 2 => bytes_read <= cnt /\ io_at # "sleep"
  /\ NeverOverfills

LEMMA IoInitInv == IoInit => IoInv
  BY LinuxIoAssumption DEF IoInit, IoInv, IoTypeOK, NeverOverfills

LEMMA IoNextInv == IoInv /\ [IoNext]_ioVars => IoInv'
  <1> SUFFICES ASSUME IoInv, [IoNext]_ioVars PROVE IoInv'
    OBVIOUS
  <1> USE LinuxIoAssumption DEF IoInv, IoTypeOK, NeverOverfills
  <1>1. CASE Arrive BY <1>1 DEF Arrive
  <1>2. CASE Tick BY <1>2 DEF Tick
  <1>3. CASE Poll BY <1>3 DEF Poll
  <1>4. CASE CountAvailable
    <2>0. /\ io_at = "count" /\ io_function # 2
          /\ UNCHANGED <<io_function, cnt, available, arrivals>>
      BY <1>4 DEF CountAvailable
    <2>1. PICK count \in ByteCounts :
            \/ /\ count > 0 /\ io_at' = "read"
               /\ byte_count' = Clamped(count) /\ elapsed' = 0
               /\ UNCHANGED bytes_read
            \/ /\ count = 0 /\ io_at' = "test"
               /\ UNCHANGED <<byte_count, elapsed, bytes_read>>
            \/ /\ count < 0 /\ io_at' = "returned"
               /\ bytes_read' = -1 /\ UNCHANGED <<byte_count, elapsed>>
      BY <1>4 DEF CountAvailable
    <2>2. count \in -1 .. MaxArrivals
      BY DEF ByteCounts
    <2>3. CASE count > 0
      <3>1. /\ Clamped(count) \in 0 .. MaxArrivals
            /\ bytes_read + Clamped(count) <= cnt
        BY <2>0, <2>2, <2>3 DEF Clamped
      <3> QED BY <2>0, <2>1, <2>2, <2>3, <3>1
    <2>4. CASE ~(count > 0) BY <2>0, <2>1, <2>2, <2>4
    <2> QED BY <2>3, <2>4
  <1>5. CASE Sleep
    <2>0. /\ io_at = "sleep" /\ io_function = 2
          /\ UNCHANGED <<io_function, cnt, available, arrivals, elapsed>>
      BY <1>5 DEF Sleep
    <2>1. PICK count \in ByteCounts :
            /\ byte_count' = IF count > 0 THEN count ELSE byte_count
            /\ io_at' = IF count > 0 THEN "read" ELSE "returned"
            /\ bytes_read' = IF count < 0 THEN -1 ELSE bytes_read
      BY <1>5 DEF Sleep
    <2>2. count \in -1 .. MaxArrivals
      BY DEF ByteCounts
    <2> QED BY <2>0, <2>1, <2>2
  <1>6. CASE Read
    <2>1. CASE io_at' = "returned" /\ bytes_read' = -1
      BY <1>6, <2>1 DEF Read
    <2>2. CASE ~(io_at' = "returned" /\ bytes_read' = -1)
      <3>1. PICK n \in 0 .. byte_count :
              /\ n <= available
              /\ bytes_read' = bytes_read + n /\ available' = available - n
              /\ io_at' = IF io_function = 2 THEN "returned" ELSE "test"
        BY <1>6, <2>2 DEF Read
      <3> QED BY <1>6, <3>1 DEF Read
    <2> QED BY <2>1, <2>2
  <1>7. CASE IoTest BY <1>7 DEF IoTest
  <1>8. CASE PollBreaks BY <1>8 DEF PollBreaks
  <1>9. CASE UNCHANGED ioVars BY <1>9 DEF ioVars
  <1> QED BY <1>1, <1>2, <1>3, <1>4, <1>5, <1>6, <1>7, <1>8, <1>9 DEF IoNext, IoStep

LEMMA IoInvariant == IoSpec => []IoInv
  BY IoInitInv, IoNextInv, PTL DEF IoSpec

-----------------------------------------------------------------------------
(* A digital output.                                                        *)

\* Unless a call failed, the object remembers the level of its pin.
OutInv ==
  /\ OutTypeOK /\ ToggleInverts
  /\ (requested_line /\ ~spoilt /\ platform # "pico") => m_level = output

LEMMA OutInitInv == OutInit => OutInv
  BY DEF OutInit, OutInv, OutTypeOK, ToggleInverts

LEMMA OutNextInv == OutInv /\ [OutNext]_outVars => OutInv'
  <1> SUFFICES ASSUME OutInv, [OutNext]_outVars PROVE OutInv'
    OBVIOUS
  <1>1. CASE OutConfigure
    BY <1>1 DEF OutConfigure, OutInv, OutTypeOK, ToggleInverts
  <1>2. CASE OutWrite
    BY <1>2 DEF OutWrite, OutInv, OutTypeOK, ToggleInverts, Reachable
  <1>3. CASE Toggle
    <2>1. /\ NextLevel \in BOOLEAN
          /\ requested_line /\ ~spoilt => NextLevel # output
          /\ platform # "pico" => NextLevel = ~m_level
      BY DEF NextLevel, OutInv, OutTypeOK
    <2>2. CASE /\ Reachable /\ output' = NextLevel /\ UNCHANGED spoilt
               /\ kept_level' = (kept_level \/ (requested_line /\ ~spoilt /\ output' = output))
      <3>1. ~kept_level' /\ kept_level' \in BOOLEAN
        BY <2>1, <2>2 DEF OutInv, OutTypeOK, ToggleInverts
      <3>2. /\ UNCHANGED <<platform, requested_line, spoilt>>
            /\ m_level' = IF platform = "pico" THEN m_level ELSE NextLevel
        BY <1>3, <2>2 DEF Toggle
      <3> QED BY <2>1, <2>2, <3>1, <3>2 DEF OutInv, OutTypeOK, ToggleInverts
    <2>3. CASE platform # "pico" /\ spoilt' = TRUE /\ UNCHANGED <<output, kept_level>>
      BY <1>3, <2>1, <2>3 DEF Toggle, OutInv, OutTypeOK, ToggleInverts
    <2> QED BY <1>3, <2>2, <2>3 DEF Toggle
  <1>4. CASE UNCHANGED outVars
    BY <1>4 DEF outVars, OutInv, OutTypeOK, ToggleInverts
  <1> QED BY <1>1, <1>2, <1>3, <1>4 DEF OutNext

LEMMA OutInvariant == OutSpec => []OutInv
  BY OutInitInv, OutNextInv, PTL DEF OutSpec

-----------------------------------------------------------------------------
(* The older queue, between one producer and one consumer.                  *)

\* Whoever waits on a condition waits for what his call needs.
WaitersInv ==
  /\ \A t \in not_empty : t \in Threads /\ pc[t] = "wait" /\ call[t].kind = "get"
  /\ \A t \in not_full : t \in Threads /\ pc[t] = "wait" /\ call[t].kind = "put"

CallsInv ==
  /\ queue \in Seq(Items)
  /\ pc \in [Threads -> {"idle", "lock", "size", "test", "wait", "relock", "access"}]
  /\ status \in [Threads -> {"no_timeout", "timeout"}]
  /\ call \in [Threads -> PutCalls \cup GetCalls \cup {SizeCall, NoCall}]
  /\ \A t \in Threads : /\ call[t].kind = "put" => t \in Producers
                        /\ call[t].kind = "get" => t \in Consumers
  /\ spurious \in 0 .. MaxSpurious

\* What is between a wake-up that was not spurious and the access is not undone.
\* A consumer alone finds the element; a producer alone finds the room.
Woken(t, kind) ==
  pc[t] \in {"relock", "access"} /\ call[t].kind = kind /\ status[t] = "no_timeout"

Allowed == MAX_SIZE + (MaxSpurious - spurious)

QueueInv ==
  /\ CallsInv /\ WaitersInv
  /\ (spurious = MaxSpurious) => \A t \in Threads : Woken(t, "get") => queue # <<>>
  /\ Len(queue) <= Allowed
  /\ \A t \in Threads : Woken(t, "put") => Len(queue) < Allowed

LEMMA CallsHaveKinds ==
  /\ NoCall.kind = "none" /\ SizeCall.kind = "size"
  /\ \A c \in PutCalls : c.kind = "put" /\ c.item \in Items
  /\ \A c \in GetCalls : c.kind = "get"
  /\ \A t : CallsOf(t) \subseteq PutCalls \cup GetCalls \cup {SizeCall}
  /\ \A t : \A c \in CallsOf(t) : /\ c.kind = "put" => t \in Producers
                                  /\ c.kind = "get" => t \in Consumers
  BY DEF NoCall, SizeCall, PutCalls, GetCalls, Call, CallsOf

LEMMA QueueInitInv == Init => QueueInv
  <1> SUFFICES ASSUME Init PROVE QueueInv
    OBVIOUS
  <1>1. /\ queue = <<>> /\ Len(queue) = 0 /\ queue \in Seq(Items)
        /\ not_empty = {} /\ not_full = {} /\ spurious = MaxSpurious
        /\ pc = [t \in Threads |-> "idle"] /\ status = [t \in Threads |-> "no_timeout"]
        /\ call = [t \in Threads |-> NoCall]
    BY DEF Init
  <1> QED BY <1>1, CallsHaveKinds, LinuxQueueAssumption
          DEF QueueInv, CallsInv, WaitersInv, Woken, Allowed

\* What a step of a thread does to the other threads and to the queue.
LEMMA QueueNextInv ==
  ASSUME QueueInv, [Next]_queueVars,
         \A t, u \in Producers : t = u, \A t, u \in Consumers : t = u
  PROVE  QueueInv'
  <1> USE DEF QueueInv, Goto
  <1>1. ASSUME NEW t \in Threads, Invoke(t) PROVE QueueInv'
    <2>1. PICK c \in CallsOf(t) :
            /\ call' = [call EXCEPT ![t] = c]
            /\ pc' = [pc EXCEPT ![t] = IF c.kind = "size" THEN "size" ELSE "lock"]
      BY <1>1 DEF Invoke
    <2>2. /\ UNCHANGED <<queue, waiting, spurious>> /\ pc[t] = "idle"
          /\ status' = [status EXCEPT ![t] = "no_timeout"]
      BY <1>1 DEF Invoke
    <2>3. CallsInv'
      BY <2>1, <2>2, CallsHaveKinds DEF CallsInv
    <2>4. WaitersInv'
      BY <2>1, <2>2 DEF WaitersInv, CallsInv, waiting
    <2>5. \A u \in Threads, kind \in {"get", "put"} : Woken(u, kind)' => Woken(u, kind)
      BY <2>1, <2>2 DEF CallsInv, Woken
    <2> QED BY <2>2, <2>3, <2>4, <2>5 DEF Allowed
  <1>2. ASSUME NEW t \in Threads, Lock(t) \/ DeadlinePasses(t) \/ TimedOut(t) \/ GetActualSize(t)
        PROVE  QueueInv'
    <2>1. /\ UNCHANGED <<queue, spurious>>
          /\ not_empty' \subseteq not_empty \ {t} /\ not_full' \subseteq not_full \ {t}
          /\ \E at \in {"test", "relock", "idle"} : pc' = [pc EXCEPT ![t] = at]
      <3>1. CASE Lock(t) BY <3>1 DEF Lock, waiting, WaitersInv
      <3>2. CASE DeadlinePasses(t) BY <3>2 DEF DeadlinePasses, Leave
      <3>3. CASE TimedOut(t) BY <3>3 DEF TimedOut, Return, waiting, WaitersInv
      <3>4. CASE GetActualSize(t) BY <3>4 DEF GetActualSize, Return, waiting, WaitersInv
      <3> QED BY <1>2, <3>1, <3>2, <3>3, <3>4
    <2>2. /\ call' = call \/ call' = [call EXCEPT ![t] = NoCall]
          /\ status' = status \/ status' = [status EXCEPT ![t] = "timeout"]
          /\ pc'[t] = "relock" => status'[t] = "timeout"
      BY <1>2 DEF Lock, DeadlinePasses, TimedOut, GetActualSize, Leave, Return, CallsInv
    <2>3. CallsInv'
      BY <2>1, <2>2, CallsHaveKinds DEF CallsInv
    <2>4. WaitersInv'
      BY <2>1, <2>2 DEF WaitersInv, CallsInv
    <2>5. \A u \in Threads, kind \in {"get", "put"} : Woken(u, kind)' => Woken(u, kind)
      BY <2>1, <2>2 DEF CallsInv, Woken
    <2> QED BY <2>1, <2>3, <2>4, <2>5 DEF Allowed
  <1>3. ASSUME NEW t \in Threads, Relock(t) PROVE QueueInv'
    <2>1. /\ UNCHANGED <<queue, spurious, call, waiting>> /\ pc[t] = "relock"
          /\ pc' = [pc EXCEPT ![t] = "access"]
          /\ status' = status \/ status' = [status EXCEPT ![t] = "timeout"]
      BY <1>3 DEF Relock
    <2>2. CallsInv' /\ WaitersInv'
      BY <2>1 DEF WaitersInv, CallsInv, waiting
    <2>3. \A u \in Threads, kind \in {"get", "put"} : Woken(u, kind)' => Woken(u, kind)
      BY <2>1 DEF CallsInv, Woken
    <2> QED BY <2>1, <2>2, <2>3 DEF Allowed
  <1>4. ASSUME NEW t \in Threads, Test(t) PROVE QueueInv'
    <2>1. UNCHANGED <<queue, spurious, call, status>> /\ pc[t] = "test"
      BY <1>4 DEF Test
    <2>2. CASE pc' = [pc EXCEPT ![t] = "wait"]
      <3>1. /\ not_full' \ {t} \subseteq not_full /\ not_empty' \ {t} \subseteq not_empty
            /\ t \in not_full' => call[t].kind = "put"
            /\ t \in not_empty' => call[t].kind = "get"
        <4>1. t \notin not_full /\ t \notin not_empty /\ pc'[t] = "wait"
          BY <2>1, <2>2 DEF WaitersInv, CallsInv
        <4>2. pc' # [pc EXCEPT ![t] = "access"]
          BY <4>1 DEF CallsInv
        <4> QED BY <1>4, <4>1, <4>2 DEF Test
      <3>2. CallsInv' /\ WaitersInv'
        BY <2>1, <2>2, <3>1 DEF WaitersInv, CallsInv
      <3>3. \A u \in Threads, kind \in {"get", "put"} : Woken(u, kind)' => Woken(u, kind)
        BY <2>1, <2>2 DEF CallsInv, Woken
      <3> QED BY <2>1, <3>2, <3>3 DEF Allowed
    <2>3. CASE pc' # [pc EXCEPT ![t] = "wait"]
      <3>1. /\ pc' = [pc EXCEPT ![t] = "access"] /\ UNCHANGED waiting
            /\ call[t].kind = "put" => HasRoom
            /\ call[t].kind # "put" => HasElement
        <4>1. IF call[t].kind = "put" THEN HasRoom ELSE HasElement
          BY <1>4, <2>3 DEF Test
        <4> QED BY <1>4, <2>3, <4>1 DEF Test
      <3>2. CallsInv' /\ WaitersInv'
        BY <2>1, <3>1 DEF WaitersInv, CallsInv, waiting
      <3>3. \A u \in Threads \ {t}, kind \in {"get", "put"} : Woken(u, kind)' => Woken(u, kind)
        BY <2>1, <3>1 DEF CallsInv, Woken
      <3>4. /\ Woken(t, "get")' => queue # <<>>
            /\ Woken(t, "put")' => Len(queue) < Allowed
        BY <2>1, <3>1, LinuxQueueAssumption, LenProperties
        DEF Woken, CallsInv, HasRoom, HasElement, Allowed
      <3> QED BY <2>1, <3>2, <3>3, <3>4 DEF Allowed
    <2> QED BY <2>2, <2>3
  <1>5. ASSUME NEW t \in Threads, SpuriousWakeUp(t) PROVE QueueInv'
    <2>1. /\ UNCHANGED <<queue, call, status>> /\ spurious > 0 /\ spurious' = spurious - 1
          /\ not_empty' = not_empty \ {t} /\ not_full' = not_full \ {t}
          /\ pc' = [pc EXCEPT ![t] = "relock"]
      BY <1>5 DEF SpuriousWakeUp, Leave
    <2>2. CallsInv' /\ WaitersInv'
      BY <2>1, LinuxQueueAssumption DEF WaitersInv, CallsInv
    <2>3. spurious' # MaxSpurious /\ Allowed' = Allowed + 1 /\ Allowed \in Nat
          /\ Len(queue) \in Nat
      BY <2>1, LinuxQueueAssumption, LenProperties DEF CallsInv, Allowed
    <2>4. Len(queue') < Allowed'
      BY <2>1, <2>3
    <2>5. Len(queue') <= Allowed'
      BY <2>1, <2>3
    <2> QED BY <2>2, <2>3, <2>4, <2>5
  <1>6. ASSUME NEW t \in Threads, Push(t) PROVE QueueInv'
    <2>1. /\ pc[t] = "access" /\ call[t].kind = "put" /\ status[t] = "no_timeout"
          /\ queue' = Append(queue, call[t].item) /\ UNCHANGED <<spurious, status, not_full>>
          /\ call' = [call EXCEPT ![t] = NoCall]
      BY <1>6 DEF Push, NotifyAndReturn, Return
    <2>2. \/ pc' = [pc EXCEPT ![t] = "idle"] /\ not_empty' = not_empty
          \/ \E u \in not_empty : /\ pc' = [pc EXCEPT ![t] = "idle", ![u] = "relock"]
                                  /\ not_empty' = not_empty \ {u}
      BY <1>6 DEF Push, NotifyAndReturn
    <2>3. /\ call[t].item \in Items /\ queue' \in Seq(Items) /\ queue' # <<>>
          /\ Len(queue') = Len(queue) + 1
      BY <2>1, CallsHaveKinds, AppendProperties DEF CallsInv
    <2>4. Len(queue') <= Allowed'
      BY <2>1, <2>3, LinuxQueueAssumption, LenProperties DEF Woken, CallsInv, Allowed
    <2>5. /\ \A u \in Threads \ {t} : pc'[u] # pc[u] => u \in not_empty
          /\ pc'[t] \in {"idle", "relock"}
      BY <2>2 DEF CallsInv, WaitersInv
    <2>6. \A u \in Threads : ~Woken(u, "put")'
      <3> SUFFICES ASSUME NEW u \in Threads, Woken(u, "put")' PROVE FALSE
        OBVIOUS
      <3>1. u # t
        BY <2>1, CallsHaveKinds DEF Woken, CallsInv
      <3>2. u \in Producers /\ t \in Producers
        BY <2>1, <3>1 DEF Woken, CallsInv
      <3> QED BY <3>1, <3>2
    <2>7. CallsInv'
      BY <2>1, <2>2, <2>3, CallsHaveKinds DEF CallsInv, WaitersInv
    <2>8. WaitersInv'
      BY <2>1, <2>2 DEF CallsInv, WaitersInv
    <2> QED BY <2>1, <2>3, <2>4, <2>6, <2>7, <2>8
  <1>7. ASSUME NEW t \in Threads, Pop(t) PROVE QueueInv'
    <2>1. /\ pc[t] = "access" /\ call[t].kind = "get" /\ status[t] = "no_timeout"
          /\ queue' = IF queue = <<>> THEN queue ELSE Tail(queue)
          /\ UNCHANGED <<spurious, status, not_empty>>
          /\ call' = [call EXCEPT ![t] = NoCall]
      BY <1>7 DEF Pop, NotifyAndReturn, Return
    <2>2. \/ pc' = [pc EXCEPT ![t] = "idle"] /\ not_full' = not_full
          \/ \E u \in not_full : /\ pc' = [pc EXCEPT ![t] = "idle", ![u] = "relock"]
                                 /\ not_full' = not_full \ {u}
      BY <1>7 DEF Pop, NotifyAndReturn
    <2>3. /\ queue' \in Seq(Items) /\ Len(queue') <= Len(queue) /\ Len(queue') < Allowed'
          /\ Len(queue') \in Nat /\ Len(queue) \in Nat /\ Allowed' = Allowed
      BY <2>1, LinuxQueueAssumption, LenProperties, HeadTailProperties DEF CallsInv, Allowed
    <2>4. \A u \in Threads : ~Woken(u, "get")'
      <3> SUFFICES ASSUME NEW u \in Threads, Woken(u, "get")' PROVE FALSE
        OBVIOUS
      <3>1. u # t
        BY <2>1, CallsHaveKinds DEF Woken, CallsInv
      <3>2. u \in Consumers /\ t \in Consumers
        BY <2>1, <3>1 DEF Woken, CallsInv
      <3> QED BY <3>1, <3>2
    <2>5. CallsInv'
      BY <2>1, <2>2, <2>3, CallsHaveKinds DEF CallsInv, WaitersInv
    <2>6. WaitersInv'
      BY <2>1, <2>2 DEF CallsInv, WaitersInv
    <2>7. Len(queue') <= Allowed'
      <3>1. Allowed \in Nat
        BY LinuxQueueAssumption DEF CallsInv, Allowed
      <3> QED BY <2>3, <3>1
    <2> QED BY <2>3, <2>4, <2>5, <2>6, <2>7
  <1>8. CASE UNCHANGED queueVars
    BY <1>8 DEF queueVars, vars, waiting, CallsInv, WaitersInv, Woken, Allowed
  <1> QED BY <1>1, <1>2, <1>3, <1>4, <1>5, <1>6, <1>7, <1>8 DEF Next, Step

-----------------------------------------------------------------------------
(* The callbacks of an input on Linux.                                      *)

\* The event the thread has taken and not reported yet.
InFlight == IF listener.at \in {"invoke", "call"} THEN <<listener.edge>> ELSE <<>>

NothingKept == kept = <<>> /\ told = <<>> /\ events = <<>> /\ listener.at \notin {"invoke", "call"}

\* There is a thread to call back only while it has not been joined, and it is
\* not started behind a disabling.
ThreadInv ==
  /\ m_thread # "live" => listener = NoListener
  /\ asked = "off" \/ caller \in {"release", "gone"} \/ enables = 0 => m_thread # "live"
  /\ listener.at \in {"invoke", "call"} => listener.edge \in DioEdges

\* Events are kept only once the line has been requested with them, which is not
\* taken back without another enabling or the end of the object.
LineInv ==
  /\ enables \in Nat
  /\ caller = "request" => m_line_handle = "released" /\ m_chip_handle = "open" /\ enables > 0
  /\ m_line_handle = "events" => m_chip_handle = "open" /\ enables > 0
  /\ enables <= 1 /\ m_line_handle # "events" /\ caller # "gone" => NothingKept

DioInv == DioTypeOK /\ ThreadInv /\ LineInv /\ EventsInOrder

\* Where the thread is, with the edge it was told.
ListenerPlaces ==
  {"none", "test", "wait", "read", "invoke", "call", "callback", "done", "crashed"}
Listeners == [at : ListenerPlaces, edge : DioEdges \cup {"none"}]

HandleTypes ==
  /\ m_chip_handle \in {"null", "open", "closed"}
  /\ m_line_handle \in {"null", "plain", "events", "released"}
  /\ m_func \in {"null", "set"} /\ m_thread \in {"null", "live", "stale"}
  /\ caller \in {"idle", "request", "join", "last join", "release", "gone", "crashed"}
  /\ asked \in {"never", "on", "off"}

FlagTypes == m_terminate \in BOOLEAN /\ pin \in BOOLEAN /\ silent \in BOOLEAN

EventTypes ==
  /\ requested \subseteq DioEdges /\ events \in Seq(DioEdges)
  /\ kept \in Seq(DioEdges) /\ told \in Seq(DioEdges)

LEMMA DioTypeParts == DioTypeOK <=> HandleTypes /\ FlagTypes /\ EventTypes /\ listener \in Listeners
  BY DEF DioTypeOK, HandleTypes, FlagTypes, EventTypes, Listeners, ListenerPlaces

LEMMA DioInitInv == DioInit => DioInv
  <1> SUFFICES ASSUME DioInit PROVE DioInv
    OBVIOUS
  <1>1. /\ events = <<>> /\ kept = <<>> /\ told = <<>> /\ enables = 0
        /\ listener.at = "none" /\ listener = NoListener /\ m_line_handle = "null"
        /\ caller = "idle" /\ asked = "never"
    BY DEF DioInit, NoListener
  <1>2. <<>> \in Seq(DioEdges) /\ <<>> \o (<<>> \o <<>>) = <<>>
    BY EmptySeq
  <1>3. listener \in Listeners
    BY <1>1 DEF Listeners, ListenerPlaces, NoListener
  <1>4. DioTypeOK
    BY <1>1, <1>2, <1>3, DioTypeParts DEF DioInit, HandleTypes, FlagTypes, EventTypes
  <1>5. ThreadInv /\ LineInv
    <2>1. m_thread # "live"
      BY DEF DioInit
    <2> QED BY <1>1, <2>1 DEF ThreadInv, LineInv, NothingKept
  <1>6. EventsInOrder
    BY <1>1 DEF EventsInOrder
  <1> QED BY <1>4, <1>5, <1>6 DEF DioInv

\* Where a step of the thread takes it.
LEMMA ListenerMoves ==
  ASSUME NEW l \in Listeners, NEW where \in ListenerPlaces
  PROVE  /\ [l EXCEPT !.at = where] \in Listeners
         /\ [l EXCEPT !.at = where].at = where
         /\ [l EXCEPT !.at = where].edge = l.edge
  BY DEF Listeners

LEMMA ListenerStarts ==
  /\ NoListener \in Listeners /\ NoListener.at = "none"
  /\ \A e \in DioEdges : /\ [at |-> "invoke", edge |-> e] \in Listeners
                         /\ [at |-> "invoke", edge |-> e].at = "invoke"
                         /\ [at |-> "invoke", edge |-> e].edge = e
  BY DEF Listeners, ListenerPlaces, NoListener

LEMMA EventsMove ==
  ASSUME EventTypes
  PROVE  /\ <<>> \in Seq(DioEdges)
         /\ \A e \in DioEdges : /\ Append(events, e) \in Seq(DioEdges)
                                /\ Append(kept, e) \in Seq(DioEdges)
                                /\ Append(told, e) \in Seq(DioEdges)
         /\ events # <<>> => Head(events) \in DioEdges /\ Tail(events) \in Seq(DioEdges)
  BY EmptySeq, AppendProperties, HeadTailProperties DEF EventTypes

\* What a step of the thread does to it and to the events.
ListenerGoesOn(from, to) ==
  /\ listener.at = from /\ listener'.at = to /\ listener' \in Listeners
  /\ UNCHANGED <<events, told, kept>>

ReportsNothing ==
  \/ ListenerGoesOn("test", "done") \/ ListenerGoesOn("test", "wait")
  \/ ListenerGoesOn("wait", "read") \/ ListenerGoesOn("wait", "test")
  \/ ListenerGoesOn("callback", "test")

TakesEvent ==
  /\ listener.at = "read" /\ events # <<>> /\ events' = Tail(events)
  /\ UNCHANGED <<told, kept>> /\ listener' \in Listeners
  /\ \/ listener'.at = "test" /\ silent'
     \/ listener'.at = "invoke" /\ listener'.edge = Head(events)

KeepsEvent ==
  /\ listener.at = "invoke" /\ listener'.at = "call" /\ listener'.edge = listener.edge
  /\ listener' \in Listeners /\ UNCHANGED <<events, told, kept>>

ReportsEvent ==
  /\ listener.at \in {"invoke", "call"} /\ listener' \in Listeners
  /\ UNCHANGED <<events, kept>>
  /\ \/ listener'.at \in {"test", "crashed"} /\ silent' /\ told' = told
     \/ listener'.at = "callback" /\ told' = Append(told, listener.edge)

LEMMA ListenerSteps ==
  ASSUME listener \in Listeners, EventTypes, ListenerStep
  PROVE  ReportsNothing \/ TakesEvent \/ KeepsEvent \/ ReportsEvent
  <1> USE DEF handles, line, counters
  <1>1. "done" \in ListenerPlaces /\ "wait" \in ListenerPlaces /\ "read" \in ListenerPlaces
        /\ "test" \in ListenerPlaces /\ "callback" \in ListenerPlaces
        /\ "call" \in ListenerPlaces /\ "crashed" \in ListenerPlaces
    BY DEF ListenerPlaces
  <1>2. CASE ListenerTest
    <2>1. \/ listener' = [listener EXCEPT !.at = "done"]
          \/ listener' = [listener EXCEPT !.at = "wait"]
      BY <1>2 DEF ListenerTest
    <2>2. listener.at = "test" /\ UNCHANGED <<events, told, kept>>
      BY <1>2 DEF ListenerTest
    <2>3. listener' \in Listeners /\ listener'.at \in {"done", "wait"}
      <3>1. CASE listener' = [listener EXCEPT !.at = "done"]
        BY <1>1, <3>1, ListenerMoves
      <3>2. CASE listener' = [listener EXCEPT !.at = "wait"]
        BY <1>1, <3>2, ListenerMoves
      <3> QED BY <2>1, <3>1, <3>2
    <2> QED BY <2>2, <2>3 DEF ReportsNothing, ListenerGoesOn
  <1>3. CASE ListenerWait
    <2>1. \/ listener' = [listener EXCEPT !.at = "read"]
          \/ listener' = [listener EXCEPT !.at = "test"]
      BY <1>3 DEF ListenerWait
    <2>2. listener.at = "wait" /\ UNCHANGED <<events, told, kept>>
      BY <1>3 DEF ListenerWait
    <2>3. listener' \in Listeners /\ listener'.at \in {"read", "test"}
      <3>1. CASE listener' = [listener EXCEPT !.at = "read"]
        BY <1>1, <3>1, ListenerMoves
      <3>2. CASE listener' = [listener EXCEPT !.at = "test"]
        BY <1>1, <3>2, ListenerMoves
      <3> QED BY <2>1, <3>1, <3>2
    <2> QED BY <2>2, <2>3 DEF ReportsNothing, ListenerGoesOn
  <1>4. CASE ListenerRead
    <2>1. /\ listener.at = "read" /\ events # <<>> /\ events' = Tail(events)
          /\ UNCHANGED <<told, kept>>
      BY <1>4 DEF ListenerRead, RestOfEvents
    <2>2. \/ listener' = [listener EXCEPT !.at = "test"] /\ silent' = TRUE
          \/ listener' = [at |-> "invoke", edge |-> Head(events)]
      BY <1>4 DEF ListenerRead
    <2>3. Head(events) \in DioEdges
      BY <2>1, EventsMove
    <2>4. /\ listener' \in Listeners
          /\ \/ listener'.at = "test" /\ silent'
             \/ listener'.at = "invoke" /\ listener'.edge = Head(events)
      <3>1. CASE listener' = [listener EXCEPT !.at = "test"] /\ silent' = TRUE
        BY <1>1, <3>1, ListenerMoves
      <3>2. CASE listener' = [at |-> "invoke", edge |-> Head(events)]
        BY <2>3, <3>2, ListenerStarts
      <3> QED BY <2>2, <3>1, <3>2
    <2> QED BY <2>1, <2>4 DEF TakesEvent
  <1>5. CASE ListenerInvoke
    <2>1. listener.at = "invoke" /\ UNCHANGED <<events, kept, told>>
      BY <1>5 DEF ListenerInvoke
    <2>2. \/ listener' = [NoListener EXCEPT !.at = "test"] /\ silent' = TRUE
          \/ listener' = [listener EXCEPT !.at = "call"]
      BY <1>5 DEF ListenerInvoke
    <2>3. CASE listener' = [NoListener EXCEPT !.at = "test"] /\ silent' = TRUE
      <3>1. listener' \in Listeners /\ listener'.at = "test"
        BY <1>1, <2>3, ListenerMoves, ListenerStarts
      <3> QED BY <2>1, <2>3, <3>1 DEF ReportsEvent
    <2>4. CASE listener' = [listener EXCEPT !.at = "call"]
      <3>1. listener' \in Listeners /\ listener'.at = "call" /\ listener'.edge = listener.edge
        BY <1>1, <2>4, ListenerMoves
      <3> QED BY <2>1, <3>1 DEF KeepsEvent
    <2> QED BY <2>2, <2>3, <2>4
  <1>7. CASE ListenerCall
    <2>1. listener.at = "call" /\ UNCHANGED <<events, kept>>
      BY <1>7 DEF ListenerCall
    <2>2. \/ listener' = [NoListener EXCEPT !.at = "crashed"] /\ silent' = TRUE /\ told' = told
          \/ listener' = [NoListener EXCEPT !.at = "callback"]
             /\ told' = Append(told, listener.edge)
      BY <1>7 DEF ListenerCall
    <2>3. CASE listener' = [NoListener EXCEPT !.at = "crashed"] /\ silent' = TRUE /\ told' = told
      <3>1. listener' \in Listeners /\ listener'.at = "crashed"
        BY <1>1, <2>3, ListenerMoves, ListenerStarts
      <3> QED BY <2>1, <2>3, <3>1 DEF ReportsEvent
    <2>4. CASE /\ listener' = [NoListener EXCEPT !.at = "callback"]
               /\ told' = Append(told, listener.edge)
      <3>1. listener' \in Listeners /\ listener'.at = "callback"
        BY <1>1, <2>4, ListenerMoves, ListenerStarts
      <3> QED BY <2>1, <2>4, <3>1 DEF ReportsEvent
    <2> QED BY <2>2, <2>3, <2>4
  <1>6. CASE CallbackReturns
    <2>1. listener' = [listener EXCEPT !.at = "test"]
      BY <1>6 DEF CallbackReturns
    <2>2. listener.at = "callback" /\ UNCHANGED <<events, told, kept>>
      BY <1>6 DEF CallbackReturns
    <2>3. listener' \in Listeners /\ listener'.at = "test"
      BY <1>1, <2>1, ListenerMoves
    <2> QED BY <2>2, <2>3 DEF ReportsNothing, ListenerGoesOn
  <1> QED BY <1>2, <1>3, <1>4, <1>5, <1>6, <1>7 DEF ListenerStep

\* What it leaves alone.
LEMMA ListenerKeeps ==
  ASSUME ListenerStep
  PROVE  /\ UNCHANGED <<m_chip_handle, m_line_handle, m_func, m_thread, caller, requested, pin,
                        asked, enables>>
         /\ silent' = silent \/ silent' = TRUE
         /\ m_terminate' = m_terminate \/ m_terminate' = FALSE
  BY DEF ListenerStep, ListenerTest, ListenerWait, ListenerRead, ListenerInvoke, ListenerCall,
         CallbackReturns, handles, line, counters

LEMMA DioTypeNext == DioInv /\ [DioNext]_dioVars => DioTypeOK'
  <1> SUFFICES ASSUME DioTypeOK, ThreadInv, [DioNext]_dioVars PROVE DioTypeOK'
    BY DEF DioInv
  <1>0. HandleTypes /\ FlagTypes /\ EventTypes /\ listener \in Listeners
    BY DioTypeParts
  <1> USE DEF Calls, handles, line, counters
  <1>1. HandleTypes'
    BY <1>0 DEF DioNext, Configure, SetCallback, EnableCallback, DisableCallback, DioDestroy,
       NextOfDisable, CallerStep, RequestLine, Join, LastJoin, Release, ListenerStep,
       ListenerTest, ListenerWait, ListenerRead, ListenerInvoke, ListenerCall, CallbackReturns, Edge,
       dioVars,
       HandleTypes
  <1>2. FlagTypes'
    BY <1>0 DEF DioNext, Configure, SetCallback, EnableCallback, DisableCallback, DioDestroy,
       NextOfDisable, CallerStep, RequestLine, Join, LastJoin, Release, ListenerStep,
       ListenerTest, ListenerWait, ListenerRead, ListenerInvoke, ListenerCall, CallbackReturns, Edge,
       dioVars,
       FlagTypes
  <1>3. EventTypes' /\ listener' \in Listeners
    <2>1. CASE Configure \/ SetCallback \/ DisableCallback \/ DioDestroy \/ UNCHANGED dioVars
      <3>1. UNCHANGED <<requested, events, kept, told, listener>>
        BY <2>1 DEF Configure, SetCallback, DisableCallback, DioDestroy, dioVars
      <3> QED BY <1>0, <3>1 DEF EventTypes
    <2>2. CASE EnableCallback \/ Release
      <3>1. /\ UNCHANGED <<kept, told, listener>> /\ events' \in {events, <<>>}
            /\ requested' = requested \/ requested' \subseteq DioEdges
        BY <2>2 DEF EnableCallback, Release
      <3> QED BY <1>0, <3>1, EventsMove DEF EventTypes
    <2>3. CASE RequestLine \/ Join \/ LastJoin
      <3>1. /\ UNCHANGED <<requested, events, kept, told>>
            /\ listener' \in {listener, NoListener, [NoListener EXCEPT !.at = "test"]}
        BY <2>3 DEF RequestLine, Join, LastJoin
      <3>2. "test" \in ListenerPlaces
        BY DEF ListenerPlaces
      <3> QED BY <1>0, <3>1, <3>2, ListenerMoves, ListenerStarts DEF EventTypes
    <2>4. CASE ListenerStep
      <3>1. requested' = requested /\ kept' = kept
        BY <2>4, ListenerKeeps, ListenerSteps, <1>0
        DEF ReportsNothing, ListenerGoesOn, TakesEvent, KeepsEvent, ReportsEvent
      <3>2. events' \in Seq(DioEdges) /\ told' \in Seq(DioEdges) /\ listener' \in Listeners
        <4>1. CASE ReportsNothing BY <1>0, <4>1 DEF ReportsNothing, ListenerGoesOn, EventTypes
        <4>2. CASE TakesEvent BY <1>0, <4>2, EventsMove DEF TakesEvent, EventTypes
        <4>4. CASE KeepsEvent BY <1>0, <4>4 DEF KeepsEvent, EventTypes
        <4>3. CASE ReportsEvent
          BY <1>0, <4>3, EventsMove DEF ReportsEvent, EventTypes, ThreadInv
        <4> QED BY <1>0, <2>4, <4>1, <4>2, <4>3, <4>4, ListenerSteps
      <3> QED BY <1>0, <3>1, <3>2 DEF EventTypes
    <2>5. CASE Edge
      <3>1. UNCHANGED <<requested, told, listener>>
        BY <2>5 DEF Edge
      <3>2. \/ UNCHANGED <<events, kept>>
            \/ \E e \in DioEdges : events' = Append(events, e) /\ kept' = Append(kept, e)
        BY <2>5 DEF Edge, DioEdges
      <3> QED BY <1>0, <3>1, <3>2, EventsMove DEF EventTypes
    <2> QED BY <2>1, <2>2, <2>3, <2>4, <2>5 DEF DioNext, CallerStep
  <1> QED BY <1>1, <1>2, <1>3
          DEF DioTypeOK, HandleTypes, FlagTypes, EventTypes, Listeners, ListenerPlaces

LEMMA ThreadNext == DioInv /\ [DioNext]_dioVars => ThreadInv'
  <1> SUFFICES ASSUME DioInv, [DioNext]_dioVars PROVE ThreadInv'
    OBVIOUS
  <1>0. HandleTypes /\ EventTypes /\ listener \in Listeners /\ ThreadInv /\ LineInv
    BY DioTypeParts DEF DioInv
  <1> USE DEF LineInv, ThreadInv, Calls, handles, line, counters, NoListener
  <1>1. CASE Configure BY <1>0, <1>1 DEF Configure
  <1>2. CASE SetCallback BY <1>0, <1>2 DEF SetCallback
  <1>3. CASE EnableCallback BY <1>0, <1>3 DEF EnableCallback
  <1>4. CASE DisableCallback BY <1>0, <1>4 DEF DisableCallback, NextOfDisable
  <1>5. CASE DioDestroy BY <1>0, <1>5 DEF DioDestroy, HandleTypes
  <1>6. CASE RequestLine BY <1>0, <1>6 DEF RequestLine
  <1>7. CASE Join BY <1>0, <1>7 DEF Join
  <1>8. CASE LastJoin BY <1>0, <1>8 DEF LastJoin
  <1>9. CASE Release BY <1>0, <1>9 DEF Release
  <1>10. CASE ListenerStep
    <2>1. listener # NoListener
      BY <1>10 DEF ListenerStep, ListenerTest, ListenerWait, ListenerRead, ListenerInvoke,
         ListenerCall,
         CallbackReturns
    <2>2. listener'.at \in {"invoke", "call"} => listener'.edge \in DioEdges
      BY <1>0, <1>10, ListenerSteps, EventsMove
      DEF ReportsNothing, ListenerGoesOn, TakesEvent, KeepsEvent, ReportsEvent
    <2> QED BY <1>0, <1>10, <2>1, <2>2, ListenerKeeps
  <1>11. CASE Edge BY <1>0, <1>11 DEF Edge
  <1>12. CASE UNCHANGED dioVars BY <1>0, <1>12 DEF dioVars
  <1> QED BY <1>1, <1>2, <1>3, <1>4, <1>5, <1>6, <1>7, <1>8, <1>9, <1>10, <1>11, <1>12
          DEF DioNext, CallerStep

LEMMA LineNext == DioInv /\ [DioNext]_dioVars => LineInv'
  <1> SUFFICES ASSUME DioInv, [DioNext]_dioVars PROVE LineInv'
    OBVIOUS
  <1>0. HandleTypes /\ EventTypes /\ listener \in Listeners /\ ThreadInv /\ LineInv
    BY DioTypeParts DEF DioInv
  <1> USE DEF LineInv, ThreadInv, NothingKept, Calls, handles, line, counters, NoListener
  <1>1. CASE Configure BY <1>0, <1>1 DEF Configure
  <1>2. CASE SetCallback BY <1>0, <1>2 DEF SetCallback
  <1>3. CASE EnableCallback BY <1>0, <1>3 DEF EnableCallback, HandleTypes
  <1>4. CASE DisableCallback BY <1>0, <1>4 DEF DisableCallback, NextOfDisable
  <1>5. CASE DioDestroy BY <1>0, <1>5 DEF DioDestroy
  <1>6. CASE RequestLine BY <1>0, <1>6 DEF RequestLine
  <1>7. CASE Join BY <1>0, <1>7 DEF Join
  <1>8. CASE LastJoin BY <1>0, <1>8 DEF LastJoin
  <1>9. CASE Release BY <1>0, <1>9 DEF Release
  <1>10. CASE ListenerStep
    <2>1. enables <= 1 /\ m_line_handle # "events" /\ caller # "gone" =>
            UNCHANGED <<events, told, kept>> /\ listener'.at \notin {"invoke", "call"}
      BY <1>0, <1>10, ListenerSteps
      DEF ReportsNothing, ListenerGoesOn, TakesEvent, KeepsEvent, ReportsEvent
    <2> QED BY <1>0, <1>10, <2>1, ListenerKeeps
  <1>11. CASE Edge BY <1>0, <1>11 DEF Edge
  <1>12. CASE UNCHANGED dioVars BY <1>0, <1>12 DEF dioVars
  <1> QED BY <1>1, <1>2, <1>3, <1>4, <1>5, <1>6, <1>7, <1>8, <1>9, <1>10, <1>11, <1>12
          DEF DioNext, CallerStep

\* An event goes from the end of the kept ones to the told ones in its order.
LEMMA InOrder ==
  ASSUME NEW S, NEW s \in Seq(S), NEW t \in Seq(S), NEW e \in S
  PROVE  /\ (s \o <<>>) \o t = s \o t
         /\ (s \o <<e>>) \o t = Append(s, e) \o t
         /\ s \o Append(t, e) = Append(s \o t, e)
         /\ t # <<>> => (s \o <<Head(t)>>) \o Tail(t) = s \o t
  <1>1. <<e>> \in Seq(S) /\ s \o t \in Seq(S)
    BY ConcatProperties
  <1>2. (s \o <<>>) \o t = s \o t
    BY ConcatEmptySeq
  <1>3. (s \o <<e>>) \o t = Append(s, e) \o t
    BY AppendIsConcat
  <1>4. s \o Append(t, e) = Append(s \o t, e)
    <2>1. Append(t, e) = t \o <<e>> /\ Append(s \o t, e) = (s \o t) \o <<e>>
      BY <1>1, AppendIsConcat
    <2> QED BY <1>1, <2>1, ConcatAssociative
  <1>5. ASSUME t # <<>> PROVE (s \o <<Head(t)>>) \o Tail(t) = s \o t
    <2>1. Head(t) \in S /\ Tail(t) \in Seq(S) /\ <<Head(t)>> \in Seq(S)
      BY <1>5, HeadTailProperties
    <2>2. <<Head(t)>> \o Tail(t) = t
      BY <1>5
    <2> QED BY <2>1, <2>2, ConcatAssociative
  <1> QED BY <1>2, <1>3, <1>4, <1>5

LEMMA OrderNext == DioInv /\ [DioNext]_dioVars => EventsInOrder'
  <1> SUFFICES ASSUME DioInv, [DioNext]_dioVars, (enables <= 1 /\ ~silent /\ caller # "gone")'
               PROVE  ((told \o InFlight) \o events = kept)'
    BY DEF EventsInOrder, InFlight
  <1>0. EventTypes /\ listener \in Listeners /\ ThreadInv /\ LineInv /\ enables \in Nat
    BY DioTypeParts DEF DioInv, LineInv
  <1> USE DEF Calls, handles, line, counters
  <1>1. (enables <= 1 /\ ~silent /\ caller # "gone") => (told \o InFlight) \o events = kept
    BY DEF DioInv, EventsInOrder, InFlight
  <1>2. InFlight \in Seq(DioEdges) /\ told \o InFlight \in Seq(DioEdges)
    <2>1. InFlight \in Seq(DioEdges)
      BY <1>0, EventsMove DEF InFlight, ThreadInv
    <2> QED BY <1>0, <2>1, ConcatProperties DEF EventTypes
  <1>3. CASE Configure \/ SetCallback \/ DisableCallback \/ DioDestroy \/ UNCHANGED dioVars
    <2>1. UNCHANGED <<enables, silent, events, kept, told, listener>> /\ caller # "gone"
      BY <1>3 DEF Configure, SetCallback, DisableCallback, DioDestroy, dioVars
    <2> QED BY <1>1, <2>1 DEF InFlight
  <1>4. CASE EnableCallback
    <2>1. enables = 0 /\ caller # "gone"
      BY <1>0, <1>4 DEF EnableCallback
    <2>2. NothingKept
      BY <1>0, <2>1 DEF LineInv
    <2>3. told' = <<>> /\ kept' = <<>> /\ events' = <<>> /\ listener'.at \notin {"invoke", "call"}
      BY <1>4, <2>2 DEF EnableCallback, NothingKept
    <2>4. InFlight' = <<>> /\ (<<>> \o <<>>) \o <<>> = <<>>
      BY <2>3 DEF InFlight
    <2> QED BY <2>3, <2>4
  <1>5. CASE RequestLine \/ Join \/ LastJoin
    <2>1. UNCHANGED <<enables, silent, events, kept, told>> /\ caller # "gone"
      BY <1>5 DEF RequestLine, Join, LastJoin
    <2>2. caller = "request" => listener.at \notin {"invoke", "call"}
      BY <1>0, <2>1 DEF LineInv, NothingKept
    <2>3. listener.at \notin {"invoke", "call"} /\ listener'.at \notin {"invoke", "call"}
      <3>1. /\ NoListener.at = "none" /\ [NoListener EXCEPT !.at = "test"].at = "test"
        BY DEF NoListener
      <3>2. listener.at \notin {"invoke", "call"}
        BY <1>5, <2>2 DEF RequestLine, Join, LastJoin
      <3>3. listener' \in {listener, NoListener, [NoListener EXCEPT !.at = "test"]}
        BY <1>5 DEF RequestLine, Join, LastJoin
      <3> QED BY <3>1, <3>2, <3>3
    <2>4. InFlight = <<>> /\ InFlight' = <<>>
      BY <2>3 DEF InFlight
    <2> QED BY <1>1, <2>1, <2>4
  <1>6. CASE Release
    <2>1. /\ UNCHANGED <<enables, silent, kept, told, listener>> /\ m_chip_handle = "closed"
          /\ events' = <<>> /\ caller = "release"
      BY <1>6 DEF Release
    <2>2. NothingKept
      BY <1>0, <2>1 DEF LineInv
    <2> QED BY <1>1, <2>1, <2>2 DEF InFlight, NothingKept
  <1>7. CASE ListenerStep
    <2>1. enables <= 1 /\ ~silent /\ ~silent' /\ caller # "gone"
      <3>1. enables' = enables /\ caller' = caller /\ (silent' = silent \/ silent' = TRUE)
        BY <1>7, ListenerKeeps
      <3> QED BY <3>1
    <2>2. CASE ReportsNothing
      <3>1. UNCHANGED <<events, kept, told>> /\ InFlight = <<>> /\ InFlight' = <<>>
        BY <2>2 DEF ReportsNothing, ListenerGoesOn, InFlight
      <3> QED BY <1>1, <2>1, <3>1
    <2>3. CASE TakesEvent
      <3>1. /\ UNCHANGED <<kept, told>> /\ InFlight = <<>> /\ InFlight' = <<Head(events)>>
            /\ events' = Tail(events) /\ events # <<>>
        BY <2>1, <2>3 DEF TakesEvent, InFlight
      <3>2. told \o events = kept
        BY <1>0, <1>1, <2>1, <3>1, ConcatEmptySeq DEF EventTypes
      <3>3. (told \o <<Head(events)>>) \o Tail(events) = told \o events
        BY <1>0, <3>1, InOrder, EventsMove DEF EventTypes
      <3> QED BY <3>1, <3>2, <3>3
    <2>4. CASE ReportsEvent
      <3>1. /\ UNCHANGED <<kept, events>> /\ InFlight = <<listener.edge>> /\ InFlight' = <<>>
            /\ told' = Append(told, listener.edge) /\ listener.edge \in DioEdges
        BY <1>0, <2>1, <2>4 DEF ReportsEvent, InFlight, ThreadInv
      <3>2. told' \in Seq(DioEdges) /\ told' \o <<>> = told'
        BY <1>0, <3>1, EventsMove, ConcatEmptySeq
      <3>3. (told \o <<listener.edge>>) \o events = Append(told, listener.edge) \o events
        BY <1>0, <3>1, InOrder DEF EventTypes
      <3> QED BY <1>1, <2>1, <3>1, <3>2, <3>3
    <2>5. CASE KeepsEvent
      <3>1. UNCHANGED <<events, kept, told>> /\ InFlight' = InFlight
        BY <2>5 DEF KeepsEvent, InFlight
      <3> QED BY <1>1, <2>1, <3>1
    <2> QED BY <1>0, <1>7, <2>2, <2>3, <2>4, <2>5, ListenerSteps
  <1>8. CASE Edge
    <2>1. UNCHANGED <<enables, silent, told, listener, caller>>
      BY <1>8 DEF Edge
    <2>2. CASE UNCHANGED <<events, kept>>
      BY <1>1, <2>1, <2>2 DEF InFlight
    <2>3. ASSUME NEW e \in DioEdges, events' = Append(events, e), kept' = Append(kept, e)
          PROVE  ((told \o InFlight) \o events = kept)'
      <3>1. (told \o InFlight) \o Append(events, e) = Append((told \o InFlight) \o events, e)
        BY <1>0, <1>2, InOrder DEF EventTypes
      <3> QED BY <1>1, <2>1, <2>3, <3>1 DEF InFlight
    <2> QED BY <1>8, <2>2, <2>3 DEF Edge, DioEdges
  <1> QED BY <1>3, <1>4, <1>5, <1>6, <1>7, <1>8 DEF DioNext, CallerStep

LEMMA DioNextInv == DioInv /\ [DioNext]_dioVars => DioInv'
  BY DioTypeNext, ThreadNext, LineNext, OrderNext DEF DioInv

LEMMA DioKeepsQuiet == DioInv => QuietAfterDisable
  BY DEF DioInv, ThreadInv, QuietAfterDisable, NoListener

-----------------------------------------------------------------------------
(* The callbacks of the inputs on the Pi Pico.                              *)

\* Whether an object is in the vector, and whether it has to be.
InVector(d) == \E i \in DOMAIN g_dio_ptr : g_dio_ptr[i] = d
Wanted(d) == wanted[d] = "on"

\* Which objects are in the vector: those that are enabled, but for the one the
\* program is about to put in, or has just put in.
VectorInv ==
  /\ \A i, j \in DOMAIN g_dio_ptr : g_dio_ptr[i] = g_dio_ptr[j] => i = j
  /\ \A d \in Dios : IF program.at = "enable_irq" /\ program.dio = d THEN InVector(d)
                     ELSE InVector(d) <=> Wanted(d)
  /\ program.at = "push_back" => ~Wanted(program.dio)

Programs == [at : {"idle", "push_back", "enable_irq", "erase", "crashed"},
             dio : Dios \cup {"none"}]

PicoInv ==
  /\ PicoTypeOK
  /\ program \in Programs
  /\ program.at \in {"push_back", "enable_irq", "erase"} => program.dio \in Dios
  /\ OwnLines /\ twice = {} => VectorInv

Vector == {g_dio_ptr[i] : i \in DOMAIN g_dio_ptr}

LEMMA FirstIsLeast ==
  ASSUME NEW S \in SUBSET Nat, S # {}
  PROVE  First(S) \in S /\ \A j \in S : First(S) <= j
  <1>1. IsWellFoundedOn(OpToRel(<, Nat), Nat)
    BY NatLessThanWellFounded
  <1>2. PICK i \in S : \A j \in S : ~(<<j, i>> \in OpToRel(<, Nat))
    BY <1>1, WFMin
  <1>3. ASSUME NEW j \in S PROVE ~(j < i)
    <2>1. /\ <<j, i>> \in Nat \X Nat
          /\ <<j, i>>[1] = j /\ <<j, i>>[2] = i
      OBVIOUS
    <2>2. j < i => <<j, i>> \in OpToRel(<, Nat)
      BY <2>1, Zenon DEF OpToRel
    <2> QED BY <1>2, <2>2, Zenon
  <1>4. \A j \in S : i <= j
    BY <1>3
  <1> QED BY <1>4 DEF First

\* The vector without the element at a place.
LEMMA RemovesOne ==
  ASSUME NEW S, NEW s \in Seq(S), NEW i \in 1 .. Len(s)
  PROVE  /\ RemoveAt(s, i) \in Seq(S) /\ Len(RemoveAt(s, i)) = Len(s) - 1
         /\ \A j \in 1 .. Len(s) - 1 :
              RemoveAt(s, i)[j] = IF j < i THEN s[j] ELSE s[j + 1]
  <1> DEFINE before == SubSeq(s, 1, i - 1)
             after == SubSeq(s, i + 1, Len(s))
  <1>0. Len(s) \in Nat /\ \A j \in 1 .. Len(s) : s[j] \in S
    BY LenProperties, ElementOfSeq
  <1>1. /\ before \in Seq(S) /\ Len(before) = i - 1
        /\ \A j \in 1 .. i - 1 : before[j] = s[j]
    BY <1>0, SubSeqProperties
  <1>2. /\ after \in Seq(S) /\ Len(after) = Len(s) - i
        /\ \A j \in 1 .. Len(s) - i : after[j] = s[j + i]
    BY <1>0, SubSeqProperties
  <1> HIDE DEF before, after
  <1>3. RemoveAt(s, i) = before \o after
    BY DEF RemoveAt, before, after
  <1>4. /\ before \o after \in Seq(S)
        /\ Len(before \o after) = Len(s) - 1
        /\ \A j \in 1 .. Len(s) - 1 : (before \o after)[j] =
               IF j <= i - 1 THEN before[j] ELSE after[j - (i - 1)]
    <2>1. Len(before) + Len(after) = Len(s) - 1
      BY <1>0, <1>1, <1>2
    <2>2. /\ before \o after \in Seq(S) /\ Len(before \o after) = Len(before) + Len(after)
          /\ \A j \in 1 .. Len(before) + Len(after) : (before \o after)[j] =
                 IF j <= Len(before) THEN before[j] ELSE after[j - Len(before)]
      BY <1>1, <1>2, ConcatProperties
    <2> QED BY <1>1, <2>1, <2>2
  <1>5. ASSUME NEW j \in 1 .. Len(s) - 1
        PROVE  (before \o after)[j] = IF j < i THEN s[j] ELSE s[j + 1]
    <2>1. CASE j < i BY <1>0, <1>1, <1>4, <2>1
    <2>2. CASE ~(j < i)
      <3>1. j - (i - 1) \in 1 .. Len(s) - i /\ (j - (i - 1)) + i = j + 1 /\ ~(j <= i - 1)
        BY <1>0, <2>2
      <3>2. after[j - (i - 1)] = s[j + 1]
        BY <1>2, <3>1
      <3> QED BY <1>4, <2>2, <3>1, <3>2
    <2> QED BY <2>1, <2>2
  <1> QED BY <1>3, <1>4, <1>5

\* The place erase and the handler look for.
LEMMA PlaceOfLine ==
  ASSUME PicoTypeOK, NEW number \in Lines
  PROVE  /\ Places(number) \subseteq 1 .. Len(g_dio_ptr) /\ Len(g_dio_ptr) \in Nat
         /\ DOMAIN g_dio_ptr = 1 .. Len(g_dio_ptr)
         /\ \A i \in 1 .. Len(g_dio_ptr) : g_dio_ptr[i] \in Dios
         /\ Places(number) # {} =>
              /\ First(Places(number)) \in 1 .. Len(g_dio_ptr)
              /\ First(Places(number)) \in Places(number)
              /\ m_line_number[g_dio_ptr[First(Places(number))]] = number
  <1>1. /\ Len(g_dio_ptr) \in Nat /\ DOMAIN g_dio_ptr = 1 .. Len(g_dio_ptr)
        /\ \A i \in 1 .. Len(g_dio_ptr) : g_dio_ptr[i] \in Dios
    BY LenProperties, ElementOfSeq DEF PicoTypeOK
  <1>2. Places(number) \subseteq 1 .. Len(g_dio_ptr)
    BY <1>1 DEF Places
  <1>3. ASSUME Places(number) # {} PROVE First(Places(number)) \in Places(number)
    BY <1>1, <1>2, <1>3, FirstIsLeast
  <1> QED BY <1>1, <1>2, <1>3 DEF Places

LEMMA PicoInitInv == PicoInit => PicoInv
  <1> SUFFICES ASSUME PicoInit PROVE PicoInv
    OBVIOUS
  <1>1. /\ g_dio_ptr = <<>> /\ DOMAIN g_dio_ptr = {} /\ g_dio_ptr \in Seq(Dios)
        /\ program.at = "idle" /\ program \in Programs /\ \A d \in Dios : wanted[d] = "never"
    BY DEF PicoInit, AtRest, Programs
  <1>2. PicoTypeOK
    BY <1>1 DEF PicoInit, PicoTypeOK
  <1>3. VectorInv
    BY <1>1 DEF VectorInv, InVector, Wanted
  <1> QED BY <1>1, <1>2, <1>3 DEF PicoInv

LEMMA PicoNextInv == PicoInv /\ [PicoNext]_picoVars => PicoInv'
  <1> SUFFICES ASSUME PicoInv, [PicoNext]_picoVars PROVE PicoInv'
    OBVIOUS
  <1> USE DEF PicoInv
  <1>1. ASSUME NEW d \in Dios, PicoEnable(d) PROVE PicoInv'
    <2>1. /\ UNCHANGED <<m_line_number, g_dio_ptr, irq_enabled, wanted, called>>
          /\ program.at = "idle" /\ program'.at = "push_back" /\ program'.dio = d
          /\ program' \in Programs
          /\ twice' = IF wanted[d] = "on" THEN twice \cup {d} ELSE twice
      BY <1>1 DEF PicoEnable, EnableOrDisable, AtRest, Programs
    <2>2. PicoTypeOK'
      BY <2>1 DEF PicoTypeOK
    <2>3. (OwnLines /\ twice = {})' => OwnLines /\ twice = {} /\ ~Wanted(d)
      BY <2>1 DEF OwnLines, Wanted
    <2>4. VectorInv /\ ~Wanted(d) => VectorInv'
      BY <2>1 DEF VectorInv, InVector, Wanted
    <2> QED BY <2>1, <2>2, <2>3, <2>4
  <1>2. ASSUME NEW d \in Dios, PicoDisable(d) PROVE PicoInv'
    <2>1. /\ UNCHANGED <<m_line_number, g_dio_ptr, irq_enabled, wanted, called, twice>>
          /\ program.at = "idle" /\ program'.at = "erase" /\ program'.dio = d
          /\ program' \in Programs
      BY <1>2 DEF PicoDisable, EnableOrDisable, AtRest, Programs
    <2>2. PicoTypeOK'
      BY <2>1 DEF PicoTypeOK
    <2>3. VectorInv => VectorInv'
      BY <2>1 DEF VectorInv, InVector, Wanted
    <2> QED BY <2>1, <2>2, <2>3 DEF OwnLines
  <1>3. CASE PushBack
    <2>0. PICK d \in Dios : d = program.dio
      BY <1>3 DEF PushBack
    <2>1. /\ UNCHANGED <<m_line_number, irq_enabled, wanted, called, twice>>
          /\ program.at = "push_back" /\ d = program.dio
          /\ program' = [program EXCEPT !.at = "enable_irq"]
          /\ g_dio_ptr' = Append(g_dio_ptr, d)
      BY <1>3, <2>0 DEF PushBack
    <2>2. /\ program' \in Programs
          /\ program'.at = "enable_irq" /\ program'.dio = d
      BY <2>1 DEF Programs
    <2>3. /\ g_dio_ptr' \in Seq(Dios) /\ Len(g_dio_ptr) \in Nat
          /\ DOMAIN g_dio_ptr = 1 .. Len(g_dio_ptr)
          /\ DOMAIN g_dio_ptr' = 1 .. Len(g_dio_ptr) + 1
          /\ \A i \in 1 .. Len(g_dio_ptr) : g_dio_ptr'[i] = g_dio_ptr[i]
          /\ g_dio_ptr'[Len(g_dio_ptr) + 1] = d
      BY <2>1, AppendProperties, LenProperties DEF PicoTypeOK
    <2>4. PicoTypeOK'
      BY <2>1, <2>2, <2>3 DEF PicoTypeOK
    <2>5. ASSUME VectorInv PROVE VectorInv'
      <3>1. ~InVector(d) /\ ~Wanted(d)
        BY <2>1, <2>5 DEF VectorInv
      <3>2. InVector(d)' /\ \A e \in Dios : e # d => (InVector(e)' <=> InVector(e))
        <4>1. InVector(d)'
          BY <2>3 DEF InVector
        <4>2. ASSUME NEW e \in Dios, e # d PROVE InVector(e)' => InVector(e)
          <5> SUFFICES ASSUME NEW i \in 1 .. Len(g_dio_ptr) + 1, g_dio_ptr'[i] = e
                       PROVE  InVector(e)
            BY <2>3 DEF InVector
          <5>1. i \in 1 .. Len(g_dio_ptr)
            BY <2>3, <4>2
          <5> QED BY <2>3, <5>1 DEF InVector
        <4>3. ASSUME NEW e \in Dios PROVE InVector(e) => InVector(e)'
          BY <2>3, <4>3 DEF InVector
        <4> QED BY <4>1, <4>2, <4>3
      <3>3. \A i, j \in DOMAIN g_dio_ptr' : g_dio_ptr'[i] = g_dio_ptr'[j] => i = j
        BY <2>3, <2>5, <3>1 DEF VectorInv, InVector
      <3>4. \A e \in Dios : e # d => (InVector(e) <=> Wanted(e))
        BY <2>1, <2>5 DEF VectorInv
      <3>5. \A e \in Dios : Wanted(e)' <=> Wanted(e)
        BY <2>1 DEF Wanted
      <3> QED BY <2>2, <3>2, <3>3, <3>4, <3>5 DEF VectorInv
    <2> QED BY <2>1, <2>2, <2>4, <2>5 DEF OwnLines
  <1>4. CASE EnableIrq
    <2>0. PICK d \in Dios : d = program.dio
      BY <1>4 DEF EnableIrq
    <2>1. /\ UNCHANGED <<m_line_number, g_dio_ptr, called, twice>>
          /\ program.at = "enable_irq" /\ d = program.dio /\ program' = AtRest
          /\ wanted' = [wanted EXCEPT ![d] = "on"]
          /\ irq_enabled' = irq_enabled \cup {m_line_number[d]}
      BY <1>4, <2>0 DEF EnableIrq
    <2>2. PicoTypeOK' /\ program'.at = "idle"
          /\ program' \in Programs
      BY <2>1 DEF PicoTypeOK, AtRest, Programs
    <2>3. ASSUME VectorInv PROVE VectorInv'
      <3>1. InVector(d) /\ \A e \in Dios : e # d => (InVector(e) <=> Wanted(e))
        BY <2>1, <2>3 DEF VectorInv
      <3>2. \A e \in Dios : Wanted(e)' <=> Wanted(e) \/ e = d
        BY <2>1 DEF Wanted, PicoTypeOK
      <3>3. \A e \in Dios : InVector(e)' <=> InVector(e)
        BY <2>1 DEF InVector
      <3> QED BY <2>1, <2>2, <2>3, <3>1, <3>2, <3>3 DEF VectorInv
    <2> QED BY <2>1, <2>2, <2>3 DEF OwnLines
  <1>5. CASE Erase
    <2>0. PICK d \in Dios : d = program.dio
      BY <1>5 DEF Erase
    <2> DEFINE places == Places(m_line_number[d])
    <2>1. /\ UNCHANGED <<m_line_number, irq_enabled, called, twice>>
          /\ program.at = "erase" /\ d = program.dio /\ program' = AtRest
          /\ wanted' = [wanted EXCEPT ![d] = "off"]
          /\ g_dio_ptr' = IF places = {} THEN g_dio_ptr ELSE RemoveAt(g_dio_ptr, First(places))
          /\ m_line_number[d] \in Lines
      BY <1>5, <2>0 DEF Erase, Erasable, PicoTypeOK
    <2>2. /\ places \subseteq 1 .. Len(g_dio_ptr) /\ Len(g_dio_ptr) \in Nat
          /\ DOMAIN g_dio_ptr = 1 .. Len(g_dio_ptr)
          /\ \A i \in 1 .. Len(g_dio_ptr) : g_dio_ptr[i] \in Dios
          /\ places # {} => /\ First(places) \in 1 .. Len(g_dio_ptr)
                            /\ m_line_number[g_dio_ptr[First(places)]] = m_line_number[d]
      BY <2>1, PlaceOfLine
    <2>3. \A i \in 1 .. Len(g_dio_ptr) : g_dio_ptr[i] = d => i \in places
      BY <2>2 DEF Places
    <2> HIDE DEF places
    <2>4. CASE places = {}
      <3>1. g_dio_ptr' = g_dio_ptr
        BY <2>1, <2>4
      <3>2. PicoTypeOK' /\ program'.at = "idle"
            /\ program' \in Programs
        BY <2>1, <3>1 DEF PicoTypeOK, AtRest, Programs
      <3>3. ASSUME VectorInv PROVE VectorInv'
        <4>1. ~InVector(d) /\ \A e \in Dios : InVector(e) <=> Wanted(e)
          BY <2>1, <2>2, <2>3, <2>4, <3>3 DEF VectorInv, InVector
        <4>2. \A e \in Dios : Wanted(e)' <=> Wanted(e)
          BY <2>1, <4>1 DEF Wanted, PicoTypeOK
        <4> QED BY <2>1, <3>1, <3>2, <3>3, <4>1, <4>2 DEF VectorInv, InVector
      <3> QED BY <2>1, <3>1, <3>2, <3>3 DEF OwnLines
    <2>5. CASE places # {}
      <3> DEFINE i == First(places)
      <3>1. /\ i \in 1 .. Len(g_dio_ptr) /\ m_line_number[g_dio_ptr[i]] = m_line_number[d]
            /\ g_dio_ptr' = RemoveAt(g_dio_ptr, i)
        BY <2>1, <2>2, <2>5
      <3> HIDE DEF i
      <3>2. /\ g_dio_ptr' \in Seq(Dios)
            /\ DOMAIN g_dio_ptr' = 1 .. Len(g_dio_ptr) - 1
            /\ \A j \in 1 .. Len(g_dio_ptr) - 1 :
                 g_dio_ptr'[j] = IF j < i THEN g_dio_ptr[j] ELSE g_dio_ptr[j + 1]
        <4>1. /\ g_dio_ptr' \in Seq(Dios) /\ Len(g_dio_ptr') = Len(g_dio_ptr) - 1
              /\ \A j \in 1 .. Len(g_dio_ptr) - 1 :
                   g_dio_ptr'[j] = IF j < i THEN g_dio_ptr[j] ELSE g_dio_ptr[j + 1]
          BY <3>1, RemovesOne DEF PicoTypeOK
        <4>2. DOMAIN g_dio_ptr' = 1 .. Len(g_dio_ptr')
          BY <4>1, LenProperties
        <4> QED BY <4>1, <4>2
      <3>3. PicoTypeOK' /\ program'.at = "idle"
            /\ program' \in Programs
        BY <2>1, <3>2 DEF PicoTypeOK, AtRest, Programs
      <3>4. ASSUME VectorInv, OwnLines PROVE VectorInv'
        <4>1. g_dio_ptr[i] = d /\ \A j \in 1 .. Len(g_dio_ptr) : j # i => g_dio_ptr[j] # d
          BY <2>1, <2>2, <3>1, <3>4 DEF OwnLines, VectorInv
        <4>2. \A j, k \in DOMAIN g_dio_ptr' : g_dio_ptr'[j] = g_dio_ptr'[k] => j = k
          <5> SUFFICES ASSUME NEW j \in 1 .. Len(g_dio_ptr) - 1, NEW k \in 1 .. Len(g_dio_ptr) - 1,
                              g_dio_ptr'[j] = g_dio_ptr'[k]
                       PROVE  j = k
            BY <3>2
          <5> DEFINE from(n) == IF n < i THEN n ELSE n + 1
          <5>1. /\ from(j) \in 1 .. Len(g_dio_ptr) /\ g_dio_ptr'[j] = g_dio_ptr[from(j)]
                /\ from(k) \in 1 .. Len(g_dio_ptr) /\ g_dio_ptr'[k] = g_dio_ptr[from(k)]
            BY <2>2, <3>1, <3>2
          <5>2. from(j) = from(k)
            <6> HIDE DEF from
            <6> QED BY <2>2, <3>4, <5>1 DEF VectorInv
          <5> QED BY <2>2, <3>1, <5>2
        <4>3. ~InVector(d)'
          <5> SUFFICES ASSUME NEW j \in 1 .. Len(g_dio_ptr) - 1, g_dio_ptr'[j] = d PROVE FALSE
            BY <3>2 DEF InVector
          <5>1. CASE j < i
            BY <2>2, <3>1, <3>2, <4>1, <5>1
          <5>2. CASE ~(j < i)
            <6>1. j + 1 \in 1 .. Len(g_dio_ptr) /\ j + 1 # i
              BY <2>2, <3>1, <5>2
            <6> QED BY <3>2, <4>1, <5>2, <6>1
          <5> QED BY <5>1, <5>2
        <4>4. ASSUME NEW e \in Dios, e # d PROVE InVector(e)' <=> InVector(e)
          <5>1. InVector(e)' => InVector(e)
            BY SMTT(30), <2>2, <3>1, <3>2 DEF InVector
          <5>2. ASSUME NEW j \in 1 .. Len(g_dio_ptr), g_dio_ptr[j] = e
                PROVE  InVector(e)'
            <6>1. CASE j < i
              <7>1. j \in DOMAIN g_dio_ptr' /\ g_dio_ptr'[j] = e
                BY <2>2, <3>1, <3>2, <5>2, <6>1
              <7> QED BY <7>1 DEF InVector
            <6>2. CASE j > i
              <7>1. j - 1 \in 1 .. Len(g_dio_ptr) - 1 /\ ~(j - 1 < i) /\ (j - 1) + 1 = j
                BY <2>2, <3>1, <6>2
              <7>2. j - 1 \in DOMAIN g_dio_ptr' /\ g_dio_ptr'[j - 1] = e
                BY <3>2, <5>2, <7>1
              <7> QED BY <7>2 DEF InVector
            <6>3. j # i
              BY <4>1, <4>4, <5>2
            <6> QED BY <2>2, <3>1, <6>1, <6>2, <6>3
          <5> QED BY <2>2, <5>1, <5>2 DEF InVector
        <4>5. \A e \in Dios : Wanted(e)' <=> Wanted(e) /\ e # d
          BY <2>1 DEF Wanted, PicoTypeOK
        <4>6. \A e \in Dios : InVector(e) <=> Wanted(e)
          BY <2>1, <3>4 DEF VectorInv
        <4> QED BY <3>3, <4>2, <4>3, <4>4, <4>5, <4>6 DEF VectorInv
      <3> QED BY <2>1, <3>3, <3>4 DEF OwnLines
    <2> QED BY <2>4, <2>5
  <1>6. ASSUME NEW number \in Lines, DrvDioCallback(number) PROVE PicoInv'
    <2>1. UNCHANGED <<m_line_number, g_dio_ptr, irq_enabled, wanted, twice>>
      BY <1>6 DEF DrvDioCallback
    <2>2. called' \in Dios \cup {"none"}
      <3>1. called' = called \/ called' = "none"
            \/ (Places(number) # {} /\ called' = g_dio_ptr[First(Places(number))])
        BY <1>6 DEF DrvDioCallback
      <3> QED BY <3>1, PlaceOfLine DEF PicoTypeOK
    <2>3. program' = program \/ program' = [program EXCEPT !.at = "crashed"]
      BY <1>6 DEF DrvDioCallback
    <2>4. program' = program \/ program.at \in {"push_back", "erase"}
      BY <1>6 DEF DrvDioCallback
    <2>5. /\ program' \in Programs
          /\ program'.dio = program.dio
          /\ program'.at = program.at \/ program'.at = "crashed"
      BY <2>3 DEF Programs
    <2>6. PicoTypeOK'
      BY <2>1, <2>2, <2>5 DEF PicoTypeOK
    <2>7. VectorInv => VectorInv'
      BY <2>1, <2>4, <2>5 DEF VectorInv, InVector, Wanted
    <2> QED BY <2>1, <2>5, <2>6, <2>7 DEF OwnLines
  <1>7. CASE UNCHANGED picoVars
    BY <1>7 DEF picoVars, PicoTypeOK, OwnLines, VectorInv, InVector, Wanted
  <1> QED BY <1>1, <1>2, <1>3, <1>4, <1>5, <1>6, <1>7 DEF PicoNext

\* The first object of a line of its own is the one that is enabled for it.
LEMMA VectorIsRight == PicoInv => CalledIfWanted
  <1> SUFFICES ASSUME PicoInv, OwnLines, twice = {}, NEW d \in Dios, program.dio # d
               PROVE  /\ wanted[d] = "off" => d \notin Vector
                      /\ wanted[d] = "on" =>
                           /\ Places(m_line_number[d]) # {}
                           /\ g_dio_ptr[First(Places(m_line_number[d]))] = d
    BY DEF CalledIfWanted, Vector
  <1>1. PicoTypeOK /\ VectorInv /\ (InVector(d) <=> Wanted(d)) /\ m_line_number[d] \in Lines
    BY DEF PicoInv, VectorInv, PicoTypeOK
  <1>2. d \in Vector <=> InVector(d)
    BY DEF Vector, InVector
  <1>3. ASSUME InVector(d) PROVE Places(m_line_number[d]) # {}
    BY <1>3 DEF InVector, Places
  <1>4. ASSUME Places(m_line_number[d]) # {}
        PROVE  g_dio_ptr[First(Places(m_line_number[d]))] = d
    BY <1>1, <1>4, PlaceOfLine DEF OwnLines
  <1> QED BY <1>1, <1>2, <1>3, <1>4 DEF Wanted

-----------------------------------------------------------------------------
(* All of them, as the run has them: a step of one part leaves the others   *)
(* alone.                                                                   *)

LEMMA PartsAreAlone ==
  ASSUME [PartsNext]_allVars
  PROVE  /\ [Next]_queueVars
         /\ [IoNext]_ioVars
         /\ [DioNext]_dioVars
         /\ [PicoNext]_picoVars
         /\ [PitNext]_pitVars
         /\ [SptNext]_sptVars
         /\ [LocksNext]_lockVars
         /\ [StdNext]_stdVars
         /\ [OutNext]_outVars
  BY DEF PartsNext, Runs, QueueRuns, IoRuns, DioRuns, PicoRuns, PitRuns, SptRuns, LocksRun,
         TerminalRuns, OutputRuns, notQueue, notIo, notDio, notPico, notPit, notSpt, notLocks,
         notTerminal, notOutput, allVars

PartsInv ==
  IoInv /\ DioInv /\ PicoInv /\ PitInv /\ SptInv /\ LocksInv
  /\ StdInv /\ OutInv

\* The parts together.
LEMMA PartsInvariant == PartsSpec => []PartsInv
  <1>1. PartsInit => PartsInv
    BY IoInitInv, DioInitInv, PicoInitInv, PitInitInv, SptInitInv, LocksInitInv, StdInitInv,
       OutInitInv DEF PartsInit, PartsInv
  <1>2. PartsInv /\ [PartsNext]_allVars => PartsInv'
    BY PartsAreAlone, IoNextInv, DioNextInv, PicoNextInv, PitNextInv, SptNextInv, LocksNextInv,
       StdNextInv, OutNextInv DEF PartsInv
  <1> QED BY <1>1, <1>2, PTL DEF PartsSpec

\* Every variable of every part has its type.
THEOREM PartsTypes == PartsSpec => []TypeOK
  <1>1. PartsInv => TypeOK
    BY DEF PartsInv, TypeOK, IoInv, DioInv, PicoInv, PitInv, SptInv, LocksInv, StdInv, OutInv
  <1> QED BY <1>1, PartsInvariant, PTL

\* Neither timer tells its end before its time (drv_pit.cpp:100-163, spt.cpp:67-136).
THEOREM TimersAreNeverEarly == PartsSpec => []NeverEarly
  <1>1. PartsInv => NeverEarly
    BY PitKeepsTime, SptKeepsTime DEF PartsInv, NeverEarly
  <1> QED BY <1>1, PartsInvariant, PTL

\* While other parts run, the lock is as sound and the terminal as it was found.
THEOREM LockAndTerminal == PartsSpec => [](LockIsSound /\ TerminalRestored)
  <1>1. PartsInv => LockIsSound /\ TerminalRestored
    BY LocksAreSound, NoneLeftBehind DEF PartsInv
  <1> QED BY <1>1, PartsInvariant, PTL

\* On Linux a callback is told the events in the order of the edges, each once, and
\* none after the callbacks were disabled (linux/dio/dio.cpp); on the Pi Pico the
\* function of the object that owns the line is called (pipico/dio/dio.cpp); a toggle
\* inverts the pin.
THEOREM PinsAreRightAlways == PartsSpec => []PinsAreRight
  <1>1. PartsInv => PinsAreRight
    BY DioKeepsQuiet, VectorIsRight DEF PartsInv, PinsAreRight, DioInv, OutInv
  <1> QED BY <1>1, PartsInvariant, PTL

\* Between one producer and one consumer the older queue (linux_queue.hpp) takes an
\* item from an empty queue only after a spurious wake-up, and holds an item more
\* than its maximum at most once for each; and a read with a timeout (linux_io.cpp)
\* never puts more bytes in the caller's buffer than it has room for.
THEOREM BoundsAreKeptBetweenTwo ==
  ASSUME \A t, u \in Producers : t = u, \A t, u \in Consumers : t = u
  PROVE  PartsSpec => []BoundsAreKept
  <1>1. PartsInit => QueueInv
    BY QueueInitInv DEF PartsInit
  <1>2. QueueInv /\ [PartsNext]_allVars => QueueInv'
    BY PartsAreAlone, QueueNextInv
  <1>3. QueueInv /\ PartsInv => BoundsAreKept
    <2> SUFFICES ASSUME QueueInv, PartsInv PROVE BoundsAreKept
      OBVIOUS
    <2>1. PopsEmptyOnlyIfSpurious
      BY DEF QueueInv, Woken, PopsEmptyOnlyIfSpurious, NeverPopsEmpty
    <2>2. OverflowNeedsSpuriousWakeUp
      BY DEF QueueInv, Allowed, OverflowNeedsSpuriousWakeUp
    <2> QED BY <2>1, <2>2 DEF PartsInv, IoInv, BoundsAreKept
  <1> QED BY <1>1, <1>2, <1>3, PartsInvariant, PTL DEF PartsSpec
=============================================================================
