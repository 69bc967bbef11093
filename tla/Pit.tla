----------------------------------- MODULE Pit -----------------------------------
(***************************************************************************)
(* The timer of drivers/silabs/pit/drv_pit.cpp: it has no interrupt, but   *)
(* compares a counter of milliseconds, which starts again from 0 after     *)
(* MAX_COUNT, with a deadline whenever it is read.                         *)
(*                                                                         *)
(* write looks at the counter twice, and the counter may move in between.  *)
(***************************************************************************)
EXTENDS Integers

CONSTANTS
  MAX_COUNT,     \* DRV_PIT_MAX_COUNT_MS
  CountWidth,    \* 2^32, the values of a count or a deadline
  MaxAge         \* bound: milliseconds a timer runs

ASSUME PitAssumption ==
  /\ MAX_COUNT \in Nat \ {0} /\ CountWidth \in Nat /\ CountWidth > MAX_COUNT
  /\ MaxAge \in Nat

Counts == 0 .. MAX_COUNT

VARIABLES
  counter,        \* what readPITCounter returns
  timeout,        \* m_timer.timeout; expired is its status
  time_count, wait_overflow, expired, is_periodic,
  writing,        \* [at, asked, count]: where write is, the time it was asked for
                  \* and the counter it saw first
  asked_for,      \* the time the timer runs for
  age,            \* milliseconds since the timer was started
  wrapped,        \* whether the counter started again between write's two looks
  rearmed         \* whether the timer was restarted by a read

timer == <<timeout, time_count, wait_overflow, expired, is_periodic>>
ghosts == <<asked_for, age, wrapped, rearmed>>
pitVars == <<counter, timer, writing, ghosts>>

NotWriting == [at |-> "idle", asked |-> 0, count |-> 0]

\* initialize, at any time.
PitInit ==
  /\ counter \in Counts
  /\ timeout = 0 /\ time_count = 0 /\ wait_overflow = FALSE
  /\ expired = TRUE /\ is_periodic = FALSE
  /\ writing = NotWriting
  /\ asked_for = 0 /\ age = 0 /\ wrapped = FALSE /\ rearmed = FALSE

\* A millisecond passes.
PitTick ==
  /\ age < MaxAge
  /\ age' = age + 1
  /\ counter' = (counter + 1) % (MAX_COUNT + 1)
  /\ UNCHANGED <<timer, writing, asked_for, wrapped, rearmed>>

-----------------------------------------------------------------------------
\* write, which starts the timer again; a timeout of 0 is refused, and one that is
\* too long is one of the whole counter.
Write ==
  /\ writing = NotWriting
  /\ \E asked \in Counts \ {0}, periodic \in BOOLEAN :
       /\ writing' = [at |-> "count", asked |-> asked, count |-> counter]
       /\ is_periodic' = periodic
  /\ asked_for' = writing'.asked /\ age' = 0 /\ wrapped' = FALSE /\ rearmed' = FALSE
  /\ UNCHANGED <<counter, timeout, time_count, wait_overflow, expired>>

\* Mutant: the deadline counts from the overflow.
DeadlineFrom(count, asked) == asked
DeadlineBefore(count, asked) == (count + asked) % CountWidth

\* The deadline for a time asked for, when the counter was first and now is at
\* second: before the counter starts again, or after.
SetDeadline(first, second, asked) ==
  LET counts_to_overflow == MAX_COUNT - second IN
  /\ IF counts_to_overflow >= asked
       THEN timeout' = DeadlineBefore(first, asked) /\ wait_overflow' = FALSE
       ELSE timeout' = asked - counts_to_overflow /\ wait_overflow' = TRUE
  /\ time_count' = first
  /\ expired' = FALSE

EndOfWrite ==
  /\ writing.at = "count"
  /\ SetDeadline(writing.count, counter, writing.asked)
  /\ writing' = NotWriting
  /\ wrapped' = (counter < writing.count)
  /\ UNCHANGED <<counter, is_periodic, asked_for, age, rearmed>>

\* A time that is longer than the counter is cut.
Cut(time) == IF time > MAX_COUNT THEN MAX_COUNT ELSE time

\* read, while the timer runs: the counter is compared with the deadline; a
\* periodic timer is written again, with its deadline for a period.
PitRead ==
  /\ writing = NotWriting /\ ~expired
  /\ \/ /\ wait_overflow
        /\ wait_overflow' = ~(counter < time_count)
        /\ UNCHANGED <<timeout, time_count, expired, writing, asked_for, age, rearmed>>
     \/ /\ ~wait_overflow /\ counter < timeout
        /\ UNCHANGED <<timer, writing, asked_for, age, rearmed>>
     \/ /\ ~wait_overflow /\ counter >= timeout
        /\ IF is_periodic /\ timeout # 0
             THEN /\ writing' = [at |-> "count", asked |-> Cut(timeout), count |-> counter]
                  /\ rearmed' = TRUE
             ELSE UNCHANGED <<writing, rearmed>>
        /\ expired' = TRUE
        /\ UNCHANGED <<timeout, time_count, wait_overflow, asked_for, age>>
  /\ UNCHANGED <<counter, is_periodic, wrapped>>

PitNext == PitTick \/ Write \/ EndOfWrite \/ PitRead

PitSpec == PitInit /\ [][PitNext]_pitVars

-----------------------------------------------------------------------------
(***************************************************************************)
(* Properties                                                              *)
(***************************************************************************)
\* Every variable has its type.
PitTypeOK ==
  /\ counter \in Counts /\ timeout \in 0 .. 2 * MAX_COUNT /\ time_count \in Counts
  /\ wait_overflow \in BOOLEAN /\ expired \in BOOLEAN /\ is_periodic \in BOOLEAN
  /\ writing \in [at : {"idle", "count"}, asked : Counts, count : Counts]
  /\ asked_for \in Counts /\ age \in 0 .. MaxAge /\ wrapped \in BOOLEAN /\ rearmed \in BOOLEAN

\* A timer that says the time is over, and was not restarted by a read, ran for
\* the time asked for, although the counter starts again on the way; unless it
\* did so between write's two looks at it.
PitNeverEarly ==
  (expired /\ ~rearmed /\ ~wrapped /\ writing = NotWriting) => age >= asked_for
=============================================================================
