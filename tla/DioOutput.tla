------------------------------- MODULE DioOutput -------------------------------
(***************************************************************************)
(* A digital output and its level: configure, write and toggle of          *)
(* drivers/linux/dio/dio.cpp, drivers/esp32/dio/dio.cpp and                *)
(* drivers/pipico/dio/dio.cpp.                                             *)
(*                                                                         *)
(* The first two toggle a level that the object remembers, which a call    *)
(* that fails changes all the same; the Pi Pico's toggles the pin itself,  *)
(* and no call to its hardware fails.                                      *)
(***************************************************************************)
EXTENDS Integers

VARIABLES
  platform,     \* "linux", "esp32" or "pico"
  m_level,      \* m_value
  output,       \* the level of the pin
  requested_line,  \* whether configure has succeeded at all: m_line_handle
  spoilt,       \* whether a call failed, or toggled nothing, since the last that
                \* set a level
  kept_level    \* whether a toggle that succeeded ever left the level as it was

outVars == <<platform, m_level, output, requested_line, spoilt, kept_level>>

OutInit ==
  /\ platform \in {"linux", "esp32", "pico"}
  /\ m_level = FALSE /\ output \in BOOLEAN
  /\ requested_line = FALSE /\ spoilt = FALSE /\ kept_level = FALSE

\* configure drives the initial level it is given, or the one the object
\* remembers; the Pi Pico drives a low level then.
OutConfigure ==
  /\ \E level \in BOOLEAN :
       /\ m_level' = IF platform = "pico" THEN m_level ELSE level
       /\ \/ output' = level /\ requested_line' = TRUE /\ spoilt' = FALSE
          \/ platform # "pico" /\ spoilt' = TRUE /\ UNCHANGED <<output, requested_line>>
          \/ platform = "esp32" /\ output' = level /\ spoilt' = TRUE /\ UNCHANGED requested_line
  /\ UNCHANGED <<platform, kept_level>>

Reachable == platform # "linux" \/ requested_line

\* write remembers the level when the hardware took it.
OutWrite ==
  /\ Reachable
  /\ \E level \in BOOLEAN :
       \/ output' = level /\ spoilt' = FALSE
          /\ m_level' = IF platform = "pico" THEN m_level ELSE level
       \/ platform # "pico" /\ spoilt' = TRUE /\ UNCHANGED <<m_level, output>>
  /\ UNCHANGED <<platform, requested_line, kept_level>>

\* Mutant: the level is not changed before it is written.
LevelAgain == m_level
NextLevel == IF platform = "pico" THEN ~output ELSE ~m_level

\* toggle remembers the new level before the hardware takes it, or does not.
Toggle ==
  /\ m_level' = IF platform = "pico" THEN m_level ELSE NextLevel
  /\ \/ /\ Reachable
        /\ output' = NextLevel
        /\ kept_level' = (kept_level \/ (requested_line /\ ~spoilt /\ output' = output))
        /\ UNCHANGED spoilt
     \/ platform # "pico" /\ spoilt' = TRUE /\ UNCHANGED <<output, kept_level>>
  /\ UNCHANGED <<platform, requested_line>>

OutNext == OutConfigure \/ OutWrite \/ Toggle

OutSpec == OutInit /\ [][OutNext]_outVars

-----------------------------------------------------------------------------
(***************************************************************************)
(* Properties                                                              *)
(***************************************************************************)
\* Every variable has its type.
OutTypeOK ==
  /\ platform \in {"linux", "esp32", "pico"}
  /\ m_level \in BOOLEAN /\ output \in BOOLEAN /\ requested_line \in BOOLEAN
  /\ spoilt \in BOOLEAN /\ kept_level \in BOOLEAN

\* A toggle that succeeds changes the level of the pin, although the object
\* goes by a level it remembers, unless a call failed since a level was set.
ToggleInverts == ~kept_level
=============================================================================
