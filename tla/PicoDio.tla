-------------------------------- MODULE PicoDio --------------------------------
(***************************************************************************)
(* The callbacks of the digital inputs on the Pi Pico,                     *)
(* drivers/pipico/dio/dio.cpp: every DIO object whose callback is enabled  *)
(* is in the vector g_dio_ptr, and the one interrupt handler there is      *)
(* calls the function of the first object of the line.                     *)
(*                                                                         *)
(* The handler interrupts the program anywhere and runs to its end.  One   *)
(* that comes while the vector is being changed may find it in pieces, and *)
(* may end the program ("crashed").                                        *)
(***************************************************************************)
EXTENDS Sequences, SequencesExt, FiniteSets, Integers

CONSTANTS
  Dios,          \* the DIO objects
  Lines,         \* the GPIO lines
  MaxDioCalls    \* bound: calls of enableCallback

ASSUME PicoDioAssumption == Dios # {} /\ Lines # {} /\ MaxDioCalls \in Nat

VARIABLES
  m_line_number,  \* the line of an object
  g_dio_ptr,      \* the vector
  irq_enabled,    \* the lines whose interrupt is enabled
  program,        \* [at, dio]: where the program is in enableCallback
  wanted,         \* what the last enableCallback of an object that returned asked for
  twice,          \* objects that were enabled when they were already
  called,         \* the object whose function was called last, or "none"
  dio_calls

picoVars == <<m_line_number, g_dio_ptr, irq_enabled, program, wanted, twice, called, dio_calls>>

AtRest == [at |-> "idle", dio |-> "none"]

PicoInit ==
  /\ m_line_number \in [Dios -> Lines]
  /\ g_dio_ptr = <<>> /\ irq_enabled = {}
  /\ program = AtRest
  /\ wanted = [d \in Dios |-> "never"] /\ twice = {} /\ called = "none"
  /\ dio_calls = 0

EnableOrDisable(d, at) ==
  /\ program = AtRest
  /\ dio_calls < MaxDioCalls
  /\ dio_calls' = dio_calls + 1
  /\ program' = [at |-> at, dio |-> d]

\* enableCallback with an edge: the object is put into the vector, ...
PicoEnable(d) ==
  /\ EnableOrDisable(d, "push_back")
  /\ twice' = IF wanted[d] = "on" THEN twice \cup {d} ELSE twice
  /\ UNCHANGED <<m_line_number, g_dio_ptr, irq_enabled, wanted, called>>

PushBack ==
  /\ program.at = "push_back"
  /\ g_dio_ptr' = Append(g_dio_ptr, program.dio)
  /\ program' = [program EXCEPT !.at = "enable_irq"]
  /\ UNCHANGED <<m_line_number, irq_enabled, wanted, twice, called, dio_calls>>

\* ... and the interrupt of its line is enabled.
EnableIrq ==
  /\ program.at = "enable_irq"
  /\ irq_enabled' = irq_enabled \cup {m_line_number[program.dio]}
  /\ wanted' = [wanted EXCEPT ![program.dio] = "on"]
  /\ program' = AtRest
  /\ UNCHANGED <<m_line_number, g_dio_ptr, twice, called, dio_calls>>

\* enableCallback(false) disables an interrupt that is not one of an edge, ...
PicoDisable(d) ==
  /\ EnableOrDisable(d, "erase")
  /\ UNCHANGED <<m_line_number, g_dio_ptr, irq_enabled, wanted, twice, called>>

\* The places of the vector that hold an object of the line.
Places(number) == {i \in DOMAIN g_dio_ptr : m_line_number[g_dio_ptr[i]] = number}
First(places) == CHOOSE i \in places : \A j \in places : i <= j

\* Mutant: the line of the object is not looked at.
ErasableAny(d) == DOMAIN g_dio_ptr
Erasable(d) == Places(m_line_number[d])

\* ... and takes the object out of the vector.
Erase ==
  /\ program.at = "erase"
  /\ g_dio_ptr' = IF Erasable(program.dio) = {} THEN g_dio_ptr
                  ELSE RemoveAt(g_dio_ptr, First(Erasable(program.dio)))
  /\ wanted' = [wanted EXCEPT ![program.dio] = "off"]
  /\ program' = AtRest
  /\ UNCHANGED <<m_line_number, irq_enabled, twice, called, dio_calls>>

\* drvDioCallback, for an edge on a line.
DrvDioCallback(number) ==
  /\ program.at # "crashed"
  /\ number \in irq_enabled
  /\ \/ /\ called' = IF Places(number) = {} THEN "none" ELSE g_dio_ptr[First(Places(number))]
        /\ UNCHANGED program
     \/ /\ program.at \in {"push_back", "erase"}
        /\ program' = [program EXCEPT !.at = "crashed"]
        /\ UNCHANGED called
  /\ UNCHANGED <<m_line_number, g_dio_ptr, irq_enabled, wanted, twice, dio_calls>>

PicoNext ==
  \/ \E d \in Dios : PicoEnable(d) \/ PicoDisable(d)
  \/ PushBack \/ EnableIrq \/ Erase
  \/ \E number \in Lines : DrvDioCallback(number)

PicoSpec == PicoInit /\ [][PicoNext]_picoVars

-----------------------------------------------------------------------------
(***************************************************************************)
(* Properties                                                              *)
(***************************************************************************)
\* Every variable has its type.
PicoTypeOK ==
  /\ m_line_number \in [Dios -> Lines]
  /\ g_dio_ptr \in Seq(Dios) /\ irq_enabled \subseteq Lines
  /\ program.at \in {"idle", "push_back", "enable_irq", "erase", "crashed"}
  /\ wanted \in [Dios -> {"never", "on", "off"}] /\ twice \subseteq Dios
  /\ called \in Dios \cup {"none"}

OwnLines == \A d, e \in Dios : m_line_number[d] = m_line_number[e] => d = e

\* Objects on lines of their own that are not enabled twice in a row do not get
\* in each other's way: one that was disabled is not called back, and one that
\* was enabled is the one called for its line.
CalledIfWanted ==
  (OwnLines /\ twice = {}) =>
    \A d \in Dios :
      /\ wanted[d] = "off" /\ program.dio # d => d \notin {g_dio_ptr[i] : i \in DOMAIN g_dio_ptr}
      /\ wanted[d] = "on" /\ program.dio # d =>
           Places(m_line_number[d]) # {} /\ g_dio_ptr[First(Places(m_line_number[d]))] = d
=============================================================================
