-------------------------------- MODULE Esp32Spi --------------------------------
(***************************************************************************)
(* The SPI driver of the ESP32, drivers/esp32/spi/spi.cpp: the objects are *)
(* devices of one host of the IDF's driver, which has a few slots for      *)
(* devices and a lock, and calls cs_select before a transaction and        *)
(* cs_unselect after it.                                                   *)
(*                                                                         *)
(* The driver knows a device by the handle its object keeps; an object     *)
(* that is configured again gets another slot, and nothing frees the old.  *)
(***************************************************************************)
EXTENDS Integers, FiniteSets

CONSTANTS
  Devices,             \* the SPI objects, each of one task
  Slots,               \* the slots of the host: the handles of the devices
  MaxSpiCalls          \* bound: calls of the driver's functions

ASSUME Esp32SpiAssumption == MaxSpiCalls \in Nat /\ 0 \notin Slots /\ "nobody" \notin Devices

VARIABLES
  m_esp_handle,        \* of each object: a slot, or 0 for null
  m_is_async_mode,
  attached,            \* IDF: the slots in use
  bus_owner,           \* IDF: the object whose transaction has the lock, or "nobody"
  selected,            \* the objects whose chip select is active
  transaction,         \* what each task does: "none", "queued", "acquired", "selected",
                       \* "moved" or "unselected"
  reconfigured,        \* whether an object was ever configured while it had a handle
  spiCalls

spiVars == <<m_esp_handle, m_is_async_mode, attached, bus_owner, selected, transaction,
             reconfigured, spiCalls>>

\* The application gives every chip select its inactive level first.
SpiInit ==
  /\ m_esp_handle = [d \in Devices |-> 0] /\ m_is_async_mode = [d \in Devices |-> FALSE]
  /\ attached = {} /\ bus_owner = "nobody" /\ selected = {}
  /\ transaction = [d \in Devices |-> "none"]
  /\ reconfigured = FALSE /\ spiCalls = 0

SpiCall(d) ==
  /\ transaction[d] = "none"
  /\ spiCalls < MaxSpiCalls
  /\ spiCalls' = spiCalls + 1

-----------------------------------------------------------------------------
\* configure: the host may already be initialised, by another object; its
\* failure, and the lack of a list, leave the device as it was.  A device that
\* does not get a slot loses the one it had.
SpiConfigure(d) ==
  /\ SpiCall(d)
  /\ m_is_async_mode' \in {m_is_async_mode, [m_is_async_mode EXCEPT ![d] = ~@]}
  /\ reconfigured' = (reconfigured \/ m_esp_handle[d] # 0)
  /\ \/ UNCHANGED <<m_esp_handle, attached>>
     \/ \E slot \in Slots \ attached :
          attached' = attached \cup {slot} /\ m_esp_handle' = [m_esp_handle EXCEPT ![d] = slot]
     \/ attached' = attached \ {m_esp_handle[d]} /\ m_esp_handle' = [m_esp_handle EXCEPT ![d] = 0]
  /\ UNCHANGED <<bus_owner, selected, transaction>>

\* Mutant: the destructor leaves the device where it is.
KeepsSlot(d) == attached
WithoutSlot(d) == attached \ {m_esp_handle[d]}

\* The destructor; the object can be made again.
SpiDestroy(d) ==
  /\ SpiCall(d)
  /\ attached' = WithoutSlot(d)
  /\ m_esp_handle' = [m_esp_handle EXCEPT ![d] = 0]
  /\ m_is_async_mode' = [m_is_async_mode EXCEPT ![d] = FALSE]
  /\ UNCHANGED <<bus_owner, selected, transaction, reconfigured>>

-----------------------------------------------------------------------------
\* read, write and transfer: asynchronous ones are not implemented, and without
\* a handle the IDF refuses the transaction.
Transact(d) ==
  /\ SpiCall(d)
  /\ transaction' = [transaction EXCEPT ![d] =
       IF ~m_is_async_mode[d] /\ m_esp_handle[d] # 0 THEN "queued" ELSE "none"]
  /\ UNCHANGED <<m_esp_handle, m_is_async_mode, attached, bus_owner, selected, reconfigured>>

\* The transaction gets the lock, unless the IDF refuses it.
Acquire(d) ==
  /\ transaction[d] = "queued" /\ bus_owner = "nobody"
  /\ \/ bus_owner' = d /\ transaction' = [transaction EXCEPT ![d] = "acquired"]
     \/ transaction' = [transaction EXCEPT ![d] = "none"] /\ UNCHANGED bus_owner
  /\ UNCHANGED <<m_esp_handle, m_is_async_mode, attached, selected, reconfigured, spiCalls>>

\* cs_select; the user of the transaction is the object that began it.
CsSelect(d) ==
  /\ transaction[d] = "acquired"
  /\ selected' = selected \cup {d}
  /\ transaction' = [transaction EXCEPT ![d] = "selected"]
  /\ UNCHANGED <<m_esp_handle, m_is_async_mode, attached, bus_owner, reconfigured, spiCalls>>

MoveBytes(d) ==
  /\ transaction[d] = "selected"
  /\ transaction' = [transaction EXCEPT ![d] = "moved"]
  /\ UNCHANGED <<m_esp_handle, m_is_async_mode, attached, bus_owner, selected,
                 reconfigured, spiCalls>>

\* Mutant: the level of the chip select is not inverted.
StillSelected(d) == selected \cup {d}
Unselected(d) == selected \ {d}

\* cs_unselect
CsUnselect(d) ==
  /\ transaction[d] = "moved"
  /\ selected' = Unselected(d)
  /\ transaction' = [transaction EXCEPT ![d] = "unselected"]
  /\ UNCHANGED <<m_esp_handle, m_is_async_mode, attached, bus_owner, reconfigured, spiCalls>>

\* The lock is given back and xSpiXfer returns.
Transacted(d) ==
  /\ transaction[d] = "unselected"
  /\ bus_owner' = "nobody"
  /\ transaction' = [transaction EXCEPT ![d] = "none"]
  /\ UNCHANGED <<m_esp_handle, m_is_async_mode, attached, selected, reconfigured, spiCalls>>

SpiNext ==
  \E d \in Devices :
    \/ SpiConfigure(d) \/ SpiDestroy(d) \/ Transact(d)
    \/ Acquire(d) \/ CsSelect(d) \/ MoveBytes(d) \/ CsUnselect(d) \/ Transacted(d)

SpiSpec == SpiInit /\ [][SpiNext]_spiVars

-----------------------------------------------------------------------------
(***************************************************************************)
(* Properties                                                              *)
(***************************************************************************)
\* Every variable has its type.
SpiTypeOK ==
  /\ m_esp_handle \in [Devices -> Slots \cup {0}] /\ m_is_async_mode \in [Devices -> BOOLEAN]
  /\ attached \subseteq Slots /\ bus_owner \in Devices \cup {"nobody"} /\ selected \subseteq Devices
  /\ transaction \in [Devices -> {"none", "queued", "acquired", "selected", "moved", "unselected"}]
  /\ reconfigured \in BOOLEAN

\* While bytes move, the device they are for is selected and no other: two that
\* listen at once would both drive the same line.
OneSelected ==
  /\ \A d \in Devices : transaction[d] = "selected" => selected = {d}
  /\ (\A d \in Devices : transaction[d] = "none") => selected = {}

\* Devices have slots of their own, and a slot that no device has is free: the
\* objects that come and go leave the host as they found it, if none of them is
\* configured twice.
SlotsAreReturned ==
  /\ \A d, e \in Devices : m_esp_handle[d] # 0 =>
       /\ m_esp_handle[d] \in attached
       /\ (d # e => m_esp_handle[e] # m_esp_handle[d])
  /\ ~reconfigured => attached = {m_esp_handle[d] : d \in Devices} \ {0}
=============================================================================
