---------------------------------- MODULE Spt ----------------------------------
(***************************************************************************)
(* The software timer of interfaces/peripherals_base/spt_base.cpp, on a    *)
(* clock that its user polls.  start multiplies its duration, 32 bits      *)
(* wide, by the microseconds of its unit; hasExpired subtracts two times   *)
(* of 64 bits, and a periodic timer reads the clock a second time.         *)
(*                                                                         *)
(* On Linux (drivers/linux/spt/spt.cpp) the clock is the system's, which   *)
(* can be set back.                                                        *)
(***************************************************************************)
EXTENDS Integers

CONSTANTS
  Scale,           \* microseconds of the unit
  DurationWidth,   \* 2^32, the values of a duration
  TimeWidth,       \* 2^64, the values of a time
  MaxNow           \* bound: microseconds, and expiries told

ASSUME SptAssumption ==
  /\ Scale \in Nat \ {0} /\ DurationWidth \in Nat \ {0}
  /\ TimeWidth \in Nat \ {0} /\ MaxNow \in Nat

VARIABLES
  now,             \* getTimeSincePowerOnUs
  m_start_time, m_duration, m_is_running, m_mode,
  restarting,      \* whether hasExpired is before its second look at the clock
  duration,        \* microseconds start was asked for
  elapsed_us,      \* microseconds since start
  expiries,        \* expiries told since start
  set_back         \* whether the clock was set back since start

spt == <<m_start_time, m_duration, m_is_running, m_mode>>
sptGhosts == <<duration, elapsed_us, expiries, set_back>>
sptVars == <<now, spt, restarting, sptGhosts>>

SptInit ==
  /\ now = 0 /\ m_start_time = 0 /\ m_duration = 0 /\ m_is_running = FALSE
  /\ m_mode = "one_shot" /\ restarting = FALSE
  /\ duration = 0 /\ elapsed_us = 0 /\ expiries = 0 /\ set_back = FALSE

\* A microsecond passes; or the clock is set back.
SptTick ==
  /\ now < MaxNow /\ elapsed_us < MaxNow
  /\ now' = now + 1 /\ elapsed_us' = elapsed_us + 1
  /\ UNCHANGED <<spt, restarting, duration, expiries, set_back>>

SetBack ==
  /\ now > 0
  /\ now' \in 0 .. now - 1 /\ set_back' = TRUE
  /\ elapsed_us < MaxNow /\ elapsed_us' = elapsed_us + 1
  /\ UNCHANGED <<spt, restarting, duration, expiries>>

-----------------------------------------------------------------------------
Start ==
  /\ ~restarting
  /\ \E d \in 0 .. DurationWidth - 1, mode \in {"one_shot", "periodic"} :
       /\ m_duration' = (d * Scale) % DurationWidth
       /\ m_mode' = mode
       /\ duration' = d * Scale
  /\ m_start_time' = now /\ m_is_running' = TRUE
  /\ elapsed_us' = 0 /\ expiries' = 0 /\ set_back' = FALSE
  /\ UNCHANGED <<now, restarting>>

Stop ==
  /\ ~restarting
  /\ m_is_running' = FALSE
  /\ UNCHANGED <<now, m_start_time, m_duration, m_mode, restarting, sptGhosts>>

\* The difference of two unsigned times.
Difference == (now - m_start_time) % TimeWidth

\* hasExpired, which changes nothing of a timer that is stopped or not over.
HasExpired ==
  /\ m_is_running /\ ~restarting /\ expiries <= MaxNow
  /\ Difference >= m_duration
  /\ expiries' = expiries + 1
  /\ m_is_running' = (m_mode = "periodic")
  /\ restarting' = (m_mode = "periodic")
  /\ UNCHANGED <<now, m_start_time, m_duration, m_mode, duration, elapsed_us, set_back>>

\* Mutant: the next period starts where this one started.
RestartAtStart ==
  /\ restarting
  /\ restarting' = FALSE
  /\ UNCHANGED <<now, spt, sptGhosts>>

\* A periodic timer starts its next period.
Restart ==
  /\ restarting
  /\ m_start_time' = now
  /\ restarting' = FALSE
  /\ UNCHANGED <<now, m_duration, m_is_running, m_mode, sptGhosts>>

SptNext == SptTick \/ SetBack \/ Start \/ Stop \/ HasExpired \/ Restart

SptSpec == SptInit /\ [][SptNext]_sptVars

-----------------------------------------------------------------------------
(***************************************************************************)
(* Properties                                                              *)
(***************************************************************************)
\* Every variable has its type.
SptTypeOK ==
  /\ now \in 0 .. MaxNow /\ m_start_time \in 0 .. MaxNow
  /\ m_duration \in 0 .. DurationWidth - 1
  /\ m_is_running \in BOOLEAN /\ m_mode \in {"one_shot", "periodic"}
  /\ restarting \in BOOLEAN /\ set_back \in BOOLEAN
  /\ duration \in Nat /\ elapsed_us \in 0 .. MaxNow /\ expiries \in Nat

\* A timer never tells more expiries than durations have passed, however long
\* its user waits between two looks at it; if the duration fits in 32 bits and
\* the clock is not set back.
SptNeverEarly ==
  (duration < DurationWidth /\ ~set_back) => expiries * duration <= elapsed_us
=============================================================================
