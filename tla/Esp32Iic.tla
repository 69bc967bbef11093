-------------------------------- MODULE Esp32Iic --------------------------------
(***************************************************************************)
(* The IIC driver of the ESP32, drivers/esp32/iic/iic.cpp: an object is    *)
(* one device, but configure installs the IDF's driver of the whole port   *)
(* and the destructor deletes it.  A port's driver is installed once, so   *)
(* of two devices on one port only the first is told a success.            *)
(***************************************************************************)
EXTENDS Integers

CONSTANTS
  Chips,               \* the IIC objects
  PortOf,              \* the port of each
  MaxIicCalls          \* bound: calls of the driver's functions

ASSUME Esp32IicAssumption == MaxIicCalls \in Nat

VARIABLES
  drivers,             \* IDF: the ports whose driver is installed
  chip,                \* of each object: "none", "made", "failed" or "configured"
  m_read_status, m_write_status,  \* of each object: "unset", "success" or "error"
  evicted,             \* the objects that installed their port's driver and had it
                       \* deleted by another
  iicCalls

statuses == <<m_read_status, m_write_status>>
iicVars == <<drivers, chip, statuses, evicted, iicCalls>>

IicInit ==
  /\ drivers = {} /\ evicted = {} /\ iicCalls = 0
  /\ chip = [c \in Chips |-> "none"]
  /\ m_read_status = [c \in Chips |-> "unset"] /\ m_write_status = [c \in Chips |-> "unset"]

IicCall == iicCalls < MaxIicCalls /\ iicCalls' = iicCalls + 1

IicMake(c) ==
  /\ IicCall /\ chip[c] = "none"
  /\ chip' = [chip EXCEPT ![c] = "made"]
  /\ m_read_status' = [m_read_status EXCEPT ![c] = "unset"]
  /\ m_write_status' = [m_write_status EXCEPT ![c] = "unset"]
  /\ UNCHANGED <<drivers, evicted>>

\* Mutant: a driver that is there is deleted, and installed for this object.
Reinstallable(c) == TRUE
Installable(c) == PortOf[c] \notin drivers

\* configure: its parameters can be wrong, the driver be there, or its memory
\* not; an object that is configured again is told so and keeps what it has.
IicConfigure(c) ==
  /\ IicCall /\ chip[c] # "none"
  /\ \/ /\ Installable(c)
        /\ drivers' = drivers \cup {PortOf[c]}
        /\ chip' = [chip EXCEPT ![c] = "configured"]
        /\ evicted' = evicted \ {c}
     \/ chip' = [chip EXCEPT ![c] = IF chip[c] = "made" THEN "failed" ELSE @]
        /\ UNCHANGED <<drivers, evicted>>
  /\ UNCHANGED statuses

Reaches(c) == PortOf[c] \in drivers

\* read and write do not ask for a configure that succeeded.
IicTransfer(c) ==
  /\ IicCall /\ chip[c] # "none"
  /\ \E result \in (IF Reaches(c) THEN {"success", "error"} ELSE {"error"}) :
       \/ m_read_status' = [m_read_status EXCEPT ![c] = result] /\ UNCHANGED m_write_status
       \/ m_write_status' = [m_write_status EXCEPT ![c] = result] /\ UNCHANGED m_read_status
  /\ UNCHANGED <<drivers, chip, evicted>>

\* The destructor deletes the driver of the port, whoever installed it.
IicDestroy(c) ==
  /\ IicCall /\ chip[c] # "none"
  /\ drivers' = drivers \ {PortOf[c]}
  /\ chip' = [chip EXCEPT ![c] = "none"]
  /\ evicted' = (evicted \ {c}) \cup
       {o \in Chips \ {c} : PortOf[o] = PortOf[c] /\ chip[o] = "configured"}
  /\ UNCHANGED statuses

IicNext ==
  \E c \in Chips : IicMake(c) \/ IicConfigure(c) \/ IicTransfer(c) \/ IicDestroy(c)

IicSpec == IicInit /\ [][IicNext]_iicVars

-----------------------------------------------------------------------------
(***************************************************************************)
(* Properties                                                              *)
(***************************************************************************)
\* Every variable has its type.
IicTypeOK ==
  /\ drivers \subseteq {PortOf[c] : c \in Chips} /\ evicted \subseteq Chips
  /\ chip \in [Chips -> {"none", "made", "failed", "configured"}]
  /\ m_read_status \in [Chips -> {"unset", "success", "error"}]
  /\ m_write_status \in [Chips -> {"unset", "success", "error"}]

Owns(c) == chip[c] = "configured" /\ c \notin evicted

\* An object whose configure succeeded has the driver of its port, and has it
\* alone, until another object of the port is destroyed, which takes the driver
\* away whether it installed it or not.  No driver is left without an owner.
OwnerHasDriver ==
  /\ \A c \in Chips : Owns(c) => Reaches(c)
  /\ \A c, o \in Chips : (Owns(c) /\ Owns(o) /\ PortOf[c] = PortOf[o]) => c = o
  /\ \A p \in drivers : \E c \in Chips : Owns(c) /\ PortOf[c] = p
=============================================================================
