-------------------------------- MODULE StdInOut --------------------------------
(***************************************************************************)
(* The terminal as a serial port, drivers/linux/std_in_out/std_in_out.cpp: *)
(* a LinuxSerialFile whose configure sets the terminal to raw mode.  The   *)
(* first configure keeps the terminal's settings and the last destructor   *)
(* writes them back; a counter of the class, and not of the objects, says  *)
(* which one is the first and which the last.                              *)
(***************************************************************************)
EXTENDS Integers, FiniteSets

CONSTANTS
  Ports,              \* the StdInOut objects
  MaxConfigured       \* bound: m_termios_counter

ASSUME StdInOutAssumption == IsFiniteSet(Ports) /\ MaxConfigured \in Nat

VARIABLES
  terminal,           \* the settings of the terminal: "cooked" or "raw"
  m_backup,           \* m_backup_termios_structure: "zero", "cooked" or "raw"
  m_termios_counter,
  port,               \* [life, raw] of each object: "none", "made" or "configured",
                      \* and whether its configure set the terminal to raw mode
  irregular           \* whether an object was configured twice, or one that was not
                      \* was destroyed after another was, or the terminal could not
                      \* be opened again

stdVars == <<terminal, m_backup, m_termios_counter, port, irregular>>

NoPort == [life |-> "none", raw |-> FALSE]

StdInit ==
  /\ terminal = "cooked" /\ m_backup = "zero" /\ m_termios_counter = 0
  /\ port = [o \in Ports |-> NoPort] /\ irregular = FALSE

Make(o) ==
  /\ port[o].life = "none"
  /\ port' = [port EXCEPT ![o] = [life |-> "made", raw |-> FALSE]]
  /\ UNCHANGED <<terminal, m_backup, m_termios_counter, irregular>>

\* configure keeps the settings, when it is the first, and goes on with that of
\* LinuxSerialFile, which may fail before it comes to the terminal.
StdConfigure(o) ==
  /\ port[o].life # "none" /\ m_termios_counter < MaxConfigured
  /\ m_backup' = IF m_termios_counter = 0 THEN terminal ELSE m_backup
  /\ m_termios_counter' = m_termios_counter + 1
  /\ \/ terminal' = "raw" /\ port' = [port EXCEPT ![o] = [life |-> "configured", raw |-> TRUE]]
     \/ UNCHANGED terminal /\ port' = [port EXCEPT ![o] = [life |-> "configured", raw |-> port[o].raw]]
  /\ irregular' = (irregular \/ port[o].life = "configured")

\* Mutant: the first destructor that finds a counter writes the settings back.
AnyOne == m_termios_counter > 0
LastOne == m_termios_counter = 1

\* Mutant: the counter goes below zero.
OneLessAlways == m_termios_counter - 1
OneLess == IF m_termios_counter > 0 THEN m_termios_counter - 1 ELSE 0

StdDestroy(o) ==
  /\ port[o].life # "none"
  /\ port' = [port EXCEPT ![o] = NoPort]
  /\ m_termios_counter' = OneLess
  /\ \/ /\ terminal' = IF LastOne THEN m_backup ELSE terminal
        /\ irregular' = (irregular \/ (port[o].life = "made" /\ m_termios_counter > 0))
     \/ LastOne /\ irregular' = TRUE /\ UNCHANGED terminal   \* fopen fails
  /\ UNCHANGED m_backup

StdNext == \E o \in Ports : Make(o) \/ StdConfigure(o) \/ StdDestroy(o)

StdSpec == StdInit /\ [][StdNext]_stdVars

-----------------------------------------------------------------------------
(***************************************************************************)
(* Properties                                                              *)
(***************************************************************************)
\* Every variable has its type.
StdTypeOK ==
  /\ terminal \in {"cooked", "raw"} /\ m_backup \in {"zero", "cooked", "raw"}
  /\ m_termios_counter \in 0 .. MaxConfigured
  /\ port \in [Ports -> [life : {"none", "made", "configured"}, raw : BOOLEAN]]
  /\ irregular \in BOOLEAN

\* The user's terminal is never lost: whatever order the objects come and go
\* in, it is in raw mode as long as one of them needs it, and as it was when
\* none is left; if each is configured once before it is destroyed.
TerminalRestored ==
  ~irregular =>
    /\ (\E o \in Ports : port[o].raw) => terminal = "raw"
    /\ (\A o \in Ports : port[o].life # "configured") => terminal = "cooked"
=============================================================================
