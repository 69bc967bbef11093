----------------------------- MODULE Esp32Proofs -----------------------------
(***************************************************************************)
(* The drivers for the ESP32, for queues of every size and any number of   *)
(* calls, bytes, edges, devices and ports: an invariant for each part, all *)
(* the runs' safety properties from them, and EspInvariant, that they hold *)
(* together.                                                               *)
(*                                                                         *)
(* TaskInv   what the task served, took and finds are the last inputs up   *)
(*           to the latest, and who ends was told to;                      *)
(* PinInv    what is still to be told of an edge is on its way;            *)
(* RxInv     a buffer the task may find is the one of the read that runs;  *)
(* TxInv     the task has the last write at most, while the status runs;   *)
(* SpiInv    a chip select is active between its two calls, and only the   *)
(*           device with the lock is between them;                         *)
(* IicInv    who owns a port has its driver, which is inductive as it is.  *)
(*                                                                         *)
(* The provers are asked for types and for the rest apart: the Booleans,   *)
(* the records and the sequences each in a lemma of its own.               *)
(***************************************************************************)
EXTENDS MCEsp32, SequenceTheorems, TLAPS

-----------------------------------------------------------------------------
(* SPI                                                                      *)

LockInv ==
  \A d \in Devices :
    transaction[d] \in {"acquired", "selected", "moved", "unselected"} => bus_owner = d

SelectedInv == selected = {d \in Devices : transaction[d] \in {"selected", "moved"}}

SpiInv == SpiTypeOK /\ LockInv /\ SelectedInv /\ SlotsAreReturned

LEMMA SpiInitInv == SpiInit => SpiInv
  BY DEF SpiInit, SpiInv, SpiTypeOK, LockInv, SelectedInv, SlotsAreReturned

\* The transactions of the others stay as they are.
LEMMA TransactionChanges ==
  ASSUME SpiTypeOK, NEW d \in Devices, NEW at,
         transaction' = [transaction EXCEPT ![d] = at]
  PROVE  \A e \in Devices : transaction'[e] = IF e = d THEN at ELSE transaction[e]
  BY DEF SpiTypeOK

\* Steps of a transaction, none of which touches a slot.
LEMMA TransactionInv ==
  ASSUME SpiInv, NEW d \in Devices,
         \/ Transact(d) \/ Acquire(d) \/ CsSelect(d)
         \/ MoveBytes(d) \/ CsUnselect(d) \/ Transacted(d)
  PROVE  SpiInv'
  <1> USE DEF SpiInv
  <1>1. UNCHANGED <<m_esp_handle, m_is_async_mode, attached, reconfigured>>
    BY DEF Transact, Acquire, CsSelect, MoveBytes, CsUnselect, Transacted
  <1>2. SlotsAreReturned'
    BY <1>1 DEF SlotsAreReturned
  <1>3. PICK at \in {"none", "queued", "acquired", "selected", "moved", "unselected"} :
          transaction' = [transaction EXCEPT ![d] = at]
    BY DEF Transact, Acquire, CsSelect, MoveBytes, CsUnselect, Transacted
  <1>4. \A e \in Devices : transaction'[e] = IF e = d THEN at ELSE transaction[e]
    BY <1>3, TransactionChanges
  <1>5. bus_owner' \in Devices \cup {"nobody"} /\ selected' \subseteq Devices
    BY DEF SpiTypeOK, Transact, Acquire, CsSelect, MoveBytes, CsUnselect, Transacted, Unselected
  <1>6. SpiTypeOK'
    BY <1>1, <1>3, <1>5 DEF SpiTypeOK
  <1>7. LockInv'
    <2>1. CASE Transact(d)
      BY <1>4, <2>1 DEF LockInv, SpiCall, Transact, SpiTypeOK
    <2>2. CASE Acquire(d)
      <3>1. \A e \in Devices :
              transaction[e] \notin {"acquired", "selected", "moved", "unselected"}
        BY <2>2, Esp32SpiAssumption DEF LockInv, Acquire
      <3> QED BY <1>4, <2>2, <3>1 DEF LockInv, Acquire, SpiTypeOK
    <2>3. CASE CsSelect(d) \/ MoveBytes(d) \/ CsUnselect(d)
      BY <1>4, <2>3 DEF LockInv, CsSelect, MoveBytes, CsUnselect, SpiTypeOK
    <2>4. CASE Transacted(d)
      <3>1. bus_owner = d
        BY <2>4 DEF LockInv, Transacted
      <3>2. \A e \in Devices \ {d} :
              transaction[e] \notin {"acquired", "selected", "moved", "unselected"}
        BY <3>1 DEF LockInv
      <3> QED BY <1>4, <2>4, <3>2 DEF LockInv, Transacted, SpiTypeOK
    <2> QED BY <2>1, <2>2, <2>3, <2>4
  <1>8. SelectedInv'
    <2>1. CASE Transact(d) \/ Acquire(d) \/ Transacted(d)
      BY <1>4, <2>1 DEF SelectedInv, SpiCall, Transact, Acquire, Transacted, SpiTypeOK
    <2>2. CASE CsSelect(d)
      BY <1>4, <2>2 DEF SelectedInv, CsSelect, SpiTypeOK
    <2>3. CASE MoveBytes(d)
      BY <1>4, <2>3 DEF SelectedInv, MoveBytes, SpiTypeOK
    <2>4. CASE CsUnselect(d)
      BY <1>4, <2>4 DEF SelectedInv, CsUnselect, Unselected, SpiTypeOK
    <2> QED BY <2>1, <2>2, <2>3, <2>4
  <1> QED BY <1>2, <1>6, <1>7, <1>8

\* configure and the destructor, which touch no transaction.
LEMMA SlotsInv ==
  ASSUME SpiInv, NEW d \in Devices, SpiConfigure(d) \/ SpiDestroy(d)
  PROVE  SpiInv'
  <1> USE DEF SpiInv
  <1>1. UNCHANGED <<bus_owner, selected, transaction>>
    BY DEF SpiConfigure, SpiDestroy
  <1>2. LockInv' /\ SelectedInv'
    BY <1>1 DEF LockInv, SelectedInv
  <1>3. m_is_async_mode' \in [Devices -> BOOLEAN] /\ reconfigured' \in BOOLEAN
    BY DEF SpiConfigure, SpiDestroy, SpiTypeOK
  <1>4. (~reconfigured') => ~reconfigured /\ (SpiConfigure(d) => m_esp_handle[d] = 0)
    BY DEF SpiConfigure, SpiDestroy
  <1>5. CASE UNCHANGED <<m_esp_handle, attached>>
    BY <1>1, <1>2, <1>3, <1>4, <1>5 DEF SpiTypeOK, SlotsAreReturned
  <1>6. CASE /\ attached' = attached \ {m_esp_handle[d]}
             /\ m_esp_handle' = [m_esp_handle EXCEPT ![d] = 0]
    <2>1. SpiTypeOK'
      BY <1>1, <1>3, <1>6 DEF SpiTypeOK
    <2>2. \A e \in Devices : m_esp_handle'[e] = IF e = d THEN 0 ELSE m_esp_handle[e]
      BY <1>6 DEF SpiTypeOK
    <2>3. SlotsAreReturned'
      BY <1>4, <1>6, <2>2 DEF SlotsAreReturned
    <2> QED BY <1>2, <2>1, <2>3
  <1>7. ASSUME NEW slot \in Slots \ attached, SpiConfigure(d),
               attached' = attached \cup {slot},
               m_esp_handle' = [m_esp_handle EXCEPT ![d] = slot]
        PROVE  SpiInv'
    <2>1. SpiTypeOK'
      BY <1>1, <1>3, <1>7 DEF SpiTypeOK
    <2>2. \A e \in Devices : m_esp_handle'[e] = IF e = d THEN slot ELSE m_esp_handle[e]
      BY <1>7 DEF SpiTypeOK
    <2>3. slot # 0
      BY Esp32SpiAssumption
    <2>4. SlotsAreReturned'
      BY <1>4, <1>7, <2>2, <2>3 DEF SlotsAreReturned
    <2> QED BY <1>2, <2>1, <2>4
  <1> QED BY <1>5, <1>6, <1>7 DEF SpiConfigure, SpiDestroy, WithoutSlot

LEMMA SpiNextInv == SpiInv /\ [SpiNext]_spiVars => SpiInv'
  <1>1. SpiInv /\ UNCHANGED spiVars => SpiInv'
    BY DEF spiVars, SpiInv, SpiTypeOK, LockInv, SelectedInv, SlotsAreReturned
  <1> QED BY <1>1, TransactionInv, SlotsInv DEF SpiNext

LEMMA SpiIsSharedNow == SpiInv => OneSelected /\ SlotsAreReturned
  <1> SUFFICES ASSUME SpiInv PROVE OneSelected /\ SlotsAreReturned
    OBVIOUS
  <1>1. ASSUME NEW d \in Devices, transaction[d] = "selected" PROVE selected = {d}
    BY <1>1 DEF SpiInv, LockInv, SelectedInv
  <1>2. ASSUME \A d \in Devices : transaction[d] = "none" PROVE selected = {}
    BY <1>2 DEF SpiInv, SelectedInv
  <1> QED BY <1>1, <1>2 DEF OneSelected, SpiInv

\* While bytes move only the device they are for is selected, and devices that
\* come and go give their slots back (spi.cpp:281-326).
THEOREM SpiIsShared == SpiSpec => [](OneSelected /\ SlotsAreReturned)
  BY SpiIsSharedNow, SpiInitInv, SpiNextInv, PTL DEF SpiSpec

-----------------------------------------------------------------------------
(* IIC                                                                      *)

IicInv == IicTypeOK /\ OwnerHasDriver

LEMMA IicInitInv == IicInit => IicInv
  BY DEF IicInit, IicInv, IicTypeOK, OwnerHasDriver, Owns

\* The driver of a port is deleted together with what its owner has.
LEMMA IicNextInv == IicInv /\ [IicNext]_iicVars => IicInv'
  <1> SUFFICES ASSUME IicInv, [IicNext]_iicVars PROVE IicInv'
    OBVIOUS
  <1> USE DEF IicInv
  <1>1. CASE UNCHANGED iicVars
    BY <1>1 DEF iicVars, statuses, IicTypeOK, OwnerHasDriver, Owns, Reaches
  <1>2. ASSUME NEW c \in Chips, IicMake(c) PROVE IicInv'
    <2>1. IicTypeOK'
      BY <1>2 DEF IicMake, IicTypeOK
    <2>2. \A o \in Chips : Owns(o)' <=> Owns(o)
      BY <1>2 DEF IicMake, IicTypeOK, Owns
    <2>3. OwnerHasDriver'
      BY <1>2, <2>2 DEF IicMake, OwnerHasDriver, Reaches
    <2> QED BY <2>1, <2>2, <2>3
  <1>3. ASSUME NEW c \in Chips, UNCHANGED statuses,
               PortOf[c] \notin drivers, drivers' = drivers \cup {PortOf[c]},
               chip' = [chip EXCEPT ![c] = "configured"], evicted' = evicted \ {c}
        PROVE  IicInv'
    <2>1. /\ PortOf[c] \notin drivers /\ drivers' = drivers \cup {PortOf[c]}
          /\ chip' = [chip EXCEPT ![c] = "configured"] /\ evicted' = evicted \ {c}
          /\ UNCHANGED statuses
      BY <1>3
    <2>2. IicTypeOK'
      BY <2>1 DEF IicTypeOK, statuses
    <2>3. \A o \in Chips : Owns(o)' <=> (Owns(o) \/ o = c)
      BY <2>1 DEF IicTypeOK, Owns
    <2>4. \A o \in Chips : Owns(o) => PortOf[o] # PortOf[c]
      BY <2>1 DEF OwnerHasDriver, Reaches
    <2>5. OwnerHasDriver'
      BY <2>1, <2>3, <2>4 DEF OwnerHasDriver, Reaches
    <2> QED BY <2>2, <2>5
  <1>4. ASSUME NEW c \in Chips, UNCHANGED <<drivers, evicted, statuses>>, chip[c] # "none",
               chip' = [chip EXCEPT ![c] = IF chip[c] = "made" THEN "failed" ELSE @]
        PROVE  IicInv'
    <2>1. IicTypeOK'
      BY <1>4 DEF IicTypeOK, statuses
    <2>2. \A o \in Chips : Owns(o)' <=> Owns(o)
      BY <1>4 DEF IicTypeOK, Owns
    <2>3. OwnerHasDriver'
      BY <1>4, <2>2 DEF OwnerHasDriver, Reaches
    <2> QED BY <2>1, <2>2, <2>3
  <1>5. ASSUME NEW c \in Chips, IicTransfer(c) PROVE IicInv'
    <2>1. UNCHANGED <<drivers, chip, evicted>>
      BY <1>5 DEF IicTransfer
    <2>2. IicTypeOK'
      <3>1. /\ m_read_status' \in [Chips -> {"unset", "success", "error"}]
            /\ m_write_status' \in [Chips -> {"unset", "success", "error"}]
        BY <1>5 DEF IicTransfer, IicTypeOK
      <3> QED BY <2>1, <3>1 DEF IicTypeOK
    <2>3. OwnerHasDriver'
      BY <2>1 DEF OwnerHasDriver, Owns, Reaches
    <2> QED BY <2>2, <2>3
  <1>6. ASSUME NEW c \in Chips, IicDestroy(c) PROVE IicInv'
    <2>1. /\ drivers' = drivers \ {PortOf[c]} /\ chip' = [chip EXCEPT ![c] = "none"]
          /\ evicted' = (evicted \ {c}) \cup
               {o \in Chips \ {c} : PortOf[o] = PortOf[c] /\ chip[o] = "configured"}
          /\ UNCHANGED statuses
      BY <1>6 DEF IicDestroy
    <2>2. IicTypeOK'
      BY <2>1 DEF IicTypeOK, statuses
    <2>3. \A o \in Chips : Owns(o)' <=> (Owns(o) /\ PortOf[o] # PortOf[c])
      BY <2>1 DEF IicTypeOK, Owns
    <2>4. OwnerHasDriver'
      BY <2>1, <2>3 DEF OwnerHasDriver, Reaches
    <2> QED BY <2>2, <2>4
  <1>7. ASSUME NEW c \in Chips, IicConfigure(c) PROVE IicInv'
    <2>1. \/ /\ PortOf[c] \notin drivers /\ drivers' = drivers \cup {PortOf[c]}
             /\ chip' = [chip EXCEPT ![c] = "configured"] /\ evicted' = evicted \ {c}
          \/ /\ chip' = [chip EXCEPT ![c] = IF chip[c] = "made" THEN "failed" ELSE @]
             /\ UNCHANGED <<drivers, evicted>>
      BY <1>7 DEF IicConfigure, Installable
    <2>2. chip[c] # "none" /\ UNCHANGED statuses
      BY <1>7 DEF IicConfigure
    <2> QED BY <1>3, <1>4, <2>1, <2>2
  <1> QED BY <1>1, <1>2, <1>5, <1>6, <1>7 DEF IicNext

\* An object whose configure succeeded has the driver of its port alone until
\* another object of the port is destroyed (iic.cpp:32-73).
THEOREM IicOwnsItsDriver == IicSpec => []OwnerHasDriver
  <1>1. IicInv => OwnerHasDriver
    BY DEF IicInv
  <1> QED BY <1>1, IicInitInv, IicNextInv, PTL DEF IicSpec

-----------------------------------------------------------------------------
(* The callbacks of a pin                                                   *)

\* Who holds a handle to the task is in the driver, and the task of a handle that
\* was given up has deleted itself.
PinStages ==
  /\ PinQuietAfterDisable
  /\ m_dio_task = "null" => handler \in {"none", "deleted"}
  /\ m_obj_task = "set" => m_dio_task = "set" /\ user \in {"signal", "wait", "crashed"}
  /\ user_notified => handler = "deleted" /\ m_obj_task = "set"
  /\ user \in {"install", "signal", "wait"} => m_dio_task = "set"

\* Before the first disabling the task neither ends nor is told to, and without
\* an interrupt handler nobody tells it of an edge.
NeverDisabled ==
  disabled = 0 =>
    /\ ~m_terminate_dio /\ handler \notin {"leave", "deleted"}
    /\ user \in {"idle", "install"}
    /\ user = "install" => intr = {}
    /\ IF intr = {} THEN ~raised /\ ~handler_notified /\ handler \in {"none", "take"}
       ELSE m_dio_task = "set"

\* What is still to be told of the last edge is on its way: in m_value once the
\* interrupt handler has run, with the task once it has read it, in what was
\* reported once it has called back.
LevelOnItsWay ==
  (disabled = 0 /\ intr = PinEdges /\ ~lost /\ ~raised) =>
    IF handler_notified \/ handler = "test" THEN m_value = pin
    ELSE IF handler \in {"again", "call"} THEN level = pin ELSE reported = pin

PinInv ==
  PinTypeOK /\ disabled \in Nat /\ PinStages /\ NeverDisabled /\ LevelOnItsWay

LEMMA PinInitInv == PinInit => PinInv
  <1> SUFFICES ASSUME PinInit PROVE PinInv
    OBVIOUS
  <1> USE DEF PinInit
  <1>1. PinTypeOK /\ disabled \in Nat
    BY DEF PinTypeOK
  <1>2. PinStages /\ NeverDisabled
    BY DEF PinStages, PinQuietAfterDisable, NeverDisabled
  <1>3. LevelOnItsWay
    BY DEF LevelOnItsWay
  <1> QED BY <1>1, <1>2, <1>3 DEF PinInv

\* The type invariant, the Booleans and the rest, which the provers want apart.
PinFlagsOK ==
  /\ m_value \in BOOLEAN /\ m_terminate_dio \in BOOLEAN
  /\ handler_notified \in BOOLEAN /\ user_notified \in BOOLEAN
  /\ raised \in BOOLEAN /\ pin \in BOOLEAN /\ reported \in BOOLEAN /\ lost \in BOOLEAN
  /\ level \in BOOLEAN

PinPlacesOK ==
  /\ m_func_dio \in {"null", "set"}
  /\ m_dio_task \in {"null", "set"} /\ m_obj_task \in {"null", "set"}
  /\ handler \in {"none", "take", "test", "again", "call", "callback", "leave", "deleted",
                  "crashed"}
  /\ user \in {"idle", "install", "signal", "wait", "crashed"}
  /\ pin_asked \in {"never", "on", "off"}
  /\ intr \subseteq PinEdges /\ disabled \in Nat

LEMMA PinNextFlags == PinInv /\ [PinNext]_pinVars => PinFlagsOK'
  <1> SUFFICES ASSUME PinInv, [PinNext]_pinVars PROVE PinFlagsOK'
    OBVIOUS
  <1> USE DEF PinInv, PinTypeOK, PinFlagsOK, members, notifications, wire, seen
  <1>1. CASE UNCHANGED pinVars
    BY <1>1 DEF pinVars
  <1>2. CASE PinSetCallback
    BY <1>2 DEF PinSetCallback, PinCall
  <1>3. CASE PinEnable
    BY <1>3 DEF PinEnable, PinCall
  <1>4. CASE PinDisable
    BY <1>4 DEF PinDisable, PinCall
  <1>5. CASE InstallHandler
    BY <1>5 DEF InstallHandler
  <1>6. CASE SignalTask
    BY <1>6 DEF SignalTask
  <1>7. CASE WaitForTask
    BY <1>7 DEF WaitForTask, Awaited
  <1>8. CASE PinEdge
    BY <1>8 DEF PinEdge
  <1>9. CASE Callback
    BY <1>9 DEF Callback, LevelRead
  <1>10. CASE TakeNotification
    BY <1>10 DEF TakeNotification
  <1>11. CASE TestFunction
    BY <1>11 DEF TestFunction
  <1>14. CASE TestAgain
    BY <1>14 DEF TestAgain
  <1>15. CASE CallFunction
    BY <1>15 DEF CallFunction
  <1>12. CASE FunctionReturns
    BY <1>12 DEF FunctionReturns
  <1>13. CASE LeaveTask
    BY <1>13 DEF LeaveTask, NotifyUser
  <1> QED
    BY <1>1, <1>2, <1>3, <1>4, <1>5, <1>6, <1>7, <1>8, <1>9, <1>10, <1>11, <1>12, <1>13,
       <1>14, <1>15
       DEF PinNext, UserStep, HandlerStep

LEMMA PinNextPlaces == PinInv /\ [PinNext]_pinVars => PinPlacesOK'
  <1> SUFFICES ASSUME PinInv, [PinNext]_pinVars PROVE PinPlacesOK'
    OBVIOUS
  <1> USE DEF PinInv, PinTypeOK, PinPlacesOK, PinEdges,
              members, notifications, wire, seen
  <1>1. CASE UNCHANGED pinVars
    BY <1>1 DEF pinVars
  <1>2. CASE PinSetCallback
    BY <1>2 DEF PinSetCallback, PinCall
  <1>3. CASE PinEnable
    BY <1>3 DEF PinEnable, PinCall
  <1>4. CASE PinDisable
    BY <1>4 DEF PinDisable, PinCall
  <1>5. CASE InstallHandler
    BY <1>5 DEF InstallHandler
  <1>6. CASE SignalTask
    BY <1>6 DEF SignalTask
  <1>7. CASE WaitForTask
    BY <1>7 DEF WaitForTask, Awaited
  <1>8. CASE PinEdge
    BY <1>8 DEF PinEdge
  <1>9. CASE Callback
    BY <1>9 DEF Callback, LevelRead
  <1>10. CASE TakeNotification
    BY <1>10 DEF TakeNotification
  <1>11. CASE TestFunction
    BY <1>11 DEF TestFunction
  <1>14. CASE TestAgain
    BY <1>14 DEF TestAgain
  <1>15. CASE CallFunction
    BY <1>15 DEF CallFunction
  <1>12. CASE FunctionReturns
    BY <1>12 DEF FunctionReturns
  <1>13. CASE LeaveTask
    BY <1>13 DEF LeaveTask, NotifyUser
  <1> QED
    BY <1>1, <1>2, <1>3, <1>4, <1>5, <1>6, <1>7, <1>8, <1>9, <1>10, <1>11, <1>12, <1>13,
       <1>14, <1>15
       DEF PinNext, UserStep, HandlerStep

LEMMA PinNextTypes == PinInv /\ [PinNext]_pinVars => PinTypeOK' /\ (disabled \in Nat)'
  BY PinNextFlags, PinNextPlaces DEF PinTypeOK, PinFlagsOK, PinPlacesOK

LEMMA PinNextStages == PinInv /\ [PinNext]_pinVars => PinStages'
  <1> SUFFICES ASSUME PinInv, [PinNext]_pinVars PROVE PinStages'
    OBVIOUS
  <1> USE DEF PinInv, PinTypeOK, PinStages, PinQuietAfterDisable, NeverDisabled,
              members, notifications, wire, seen
  <1>1. CASE UNCHANGED pinVars
    BY <1>1 DEF pinVars
  <1>2. CASE PinSetCallback
    BY <1>2 DEF PinSetCallback, PinCall
  <1>3. CASE PinEnable
    BY <1>3 DEF PinEnable, PinCall
  <1>4. CASE PinDisable
    BY <1>4 DEF PinDisable, PinCall
  <1>5. CASE InstallHandler
    BY <1>5 DEF InstallHandler
  <1>6. CASE SignalTask
    BY <1>6 DEF SignalTask
  <1>7. CASE WaitForTask
    BY <1>7 DEF WaitForTask, Awaited
  <1>8. CASE PinEdge
    BY <1>8 DEF PinEdge
  <1>9. CASE Callback
    BY <1>9 DEF Callback, LevelRead
  <1>10. CASE TakeNotification
    BY <1>10 DEF TakeNotification
  <1>11. CASE TestFunction
    BY <1>11 DEF TestFunction
  <1>14. CASE TestAgain
    BY <1>14 DEF TestAgain
  <1>15. CASE CallFunction
    BY <1>15 DEF CallFunction
  <1>12. CASE FunctionReturns
    BY <1>12 DEF FunctionReturns
  <1>13. CASE LeaveTask
    BY <1>13 DEF LeaveTask, NotifyUser
  <1> QED
    BY <1>1, <1>2, <1>3, <1>4, <1>5, <1>6, <1>7, <1>8, <1>9, <1>10, <1>11, <1>12, <1>13,
       <1>14, <1>15
       DEF PinNext, UserStep, HandlerStep

LEMMA PinNextNever == PinInv /\ [PinNext]_pinVars => NeverDisabled'
  <1> SUFFICES ASSUME PinInv, [PinNext]_pinVars PROVE NeverDisabled'
    OBVIOUS
  <1> USE DEF PinInv, PinTypeOK, NeverDisabled, PinStages, PinEdges,
              members, notifications, wire, seen
  <1>1. CASE UNCHANGED pinVars
    BY <1>1 DEF pinVars
  <1>2. CASE PinSetCallback
    BY <1>2 DEF PinSetCallback, PinCall
  <1>3. CASE PinEnable
    BY <1>3 DEF PinEnable, PinCall
  <1>4. CASE PinDisable
    BY <1>4 DEF PinDisable, PinCall
  <1>5. CASE InstallHandler
    BY <1>5 DEF InstallHandler
  <1>6. CASE SignalTask
    BY <1>6 DEF SignalTask
  <1>7. CASE WaitForTask
    BY <1>7 DEF WaitForTask, Awaited
  <1>8. CASE PinEdge
    BY <1>8 DEF PinEdge
  <1>9. CASE Callback
    BY <1>9 DEF Callback, LevelRead
  <1>10. CASE TakeNotification
    BY <1>10 DEF TakeNotification
  <1>11. CASE TestFunction
    BY <1>11 DEF TestFunction
  <1>14. CASE TestAgain
    BY <1>14 DEF TestAgain
  <1>15. CASE CallFunction
    BY <1>15 DEF CallFunction
  <1>12. CASE FunctionReturns
    BY <1>12 DEF FunctionReturns
  <1>13. CASE LeaveTask
    BY <1>13 DEF LeaveTask, NotifyUser
  <1> QED
    BY <1>1, <1>2, <1>3, <1>4, <1>5, <1>6, <1>7, <1>8, <1>9, <1>10, <1>11, <1>12, <1>13,
       <1>14, <1>15
       DEF PinNext, UserStep, HandlerStep

LEMMA PinNextLevel == PinInv /\ [PinNext]_pinVars => LevelOnItsWay'
  <1> SUFFICES ASSUME PinInv, [PinNext]_pinVars PROVE LevelOnItsWay'
    OBVIOUS
  <1> USE DEF PinInv, PinTypeOK, NeverDisabled, LevelOnItsWay, PinEdges,
              members, notifications, wire, seen
  <1>1. CASE UNCHANGED pinVars
    BY <1>1 DEF pinVars
  <1>2. CASE PinSetCallback
    BY <1>2 DEF PinSetCallback, PinCall
  <1>3. CASE PinEnable
    BY <1>3 DEF PinEnable, PinCall
  <1>4. CASE PinDisable
    BY <1>4 DEF PinDisable, PinCall
  <1>5. CASE InstallHandler
    BY <1>5 DEF InstallHandler
  <1>6. CASE SignalTask
    BY <1>6 DEF SignalTask
  <1>7. CASE WaitForTask
    BY <1>7 DEF WaitForTask, Awaited
  <1>8. CASE PinEdge
    BY <1>8 DEF PinEdge
  <1>9. CASE Callback
    BY <1>9 DEF Callback, LevelRead
  <1>10. CASE TakeNotification
    BY <1>10 DEF TakeNotification
  <1>11. CASE TestFunction
    BY <1>11 DEF TestFunction
  <1>14. CASE TestAgain
    BY <1>14 DEF TestAgain
  <1>15. CASE CallFunction
    BY <1>15 DEF CallFunction
  <1>12. CASE FunctionReturns
    BY <1>12 DEF FunctionReturns
  <1>13. CASE LeaveTask
    BY <1>13 DEF LeaveTask, NotifyUser
  <1> QED
    BY <1>1, <1>2, <1>3, <1>4, <1>5, <1>6, <1>7, <1>8, <1>9, <1>10, <1>11, <1>12, <1>13,
       <1>14, <1>15
       DEF PinNext, UserStep, HandlerStep

LEMMA PinNextInv == PinInv /\ [PinNext]_pinVars => PinInv'
  BY PinNextTypes, PinNextStages, PinNextNever, PinNextLevel DEF PinInv

-----------------------------------------------------------------------------
(* Writes with the UART                                                     *)

\* Until configure is called again: the task exists for asynchronous writes only
\* and is never told to end; it has at most the last write, and that only while
\* the status runs, so whoever sets the status to "ok" does so for the last.
FirstMonitor ==
  /\ ~monitor_terminate /\ writer # "join"
  /\ tx_configures = 0 => ~tx_async
  /\ (~tx_async \/ writer = "task") =>
       monitor = NoMonitor /\ ~monitor_handle /\ monitor_input = <<>>
  /\ writer = "transfer" => ~tx_async
  /\ writer \in {"lock", "drain", "send"} => tx_async
  /\ writer \in {"transfer", "lock", "drain", "send"} => tx_status = "running"

OnlyTheLastWrite ==
  /\ (tx_status # "running" \/ writer # "idle") =>
       monitor_input = <<>> /\ monitor.at \notin {"wait", "lock"}
  /\ monitor_input # <<>> =>
       monitor_input = <<writes>> /\ monitor.at \notin {"wait", "lock"}
  /\ monitor.at \in {"wait", "lock"} => monitor.write = writes
  /\ (monitor.at = "lock" \/ tx_status = "ok") => left = writes

Writes == 0 .. MaxWrites

TxInv ==
  /\ TxTypeOK /\ writes \in Writes /\ tx_configures \in Nat
  /\ tx_configures <= 1 => FirstMonitor /\ OnlyTheLastWrite

\* The type invariant: the Booleans and the places, the task, and its queues.
TxPlacesOK ==
  /\ tx_status \in {"notConfigured", "idle", "running", "ok", "failed"}
  /\ tx_func \in {"null", "set"} /\ tx_mutex \in {"free", "writer", "monitor"}
  /\ writer \in {"idle", "task", "join", "pins", "transfer", "lock", "drain", "send"}
  /\ tx_async \in BOOLEAN /\ monitor_handle \in BOOLEAN /\ monitor_terminate \in BOOLEAN
  /\ refused \in BOOLEAN
  /\ left \in Writes /\ writes \in Writes /\ tx_configures \in Nat

MonitorPlaces ==
  {"none", "get", "wait", "lock", "test", "invoke", "callback", "put", "left", "crashed"}
Monitors == [at : MonitorPlaces, write : Writes]

OneAtMost == {q \in Seq(Writes) : Len(q) <= 1}
MonitorQueuesOK == monitor_input \in OneAtMost /\ monitor_output \in OneAtMost

LEMMA TxTypes ==
  TxTypeOK /\ writes \in Writes /\ tx_configures \in Nat
    <=> TxPlacesOK /\ monitor \in Monitors /\ MonitorQueuesOK
  BY DEF TxTypeOK, TxPlacesOK, Monitors, MonitorPlaces, MonitorQueuesOK, OneAtMost, Writes

LEMMA OneWrite ==
  /\ <<>> \in OneAtMost
  /\ \A w \in Writes : /\ <<w>> \in OneAtMost /\ <<w>> # <<>>
                       /\ Head(<<w>>) = w /\ Tail(<<w>>) = <<>>
  /\ \A q \in OneAtMost : q # <<>> => Head(q) \in Writes /\ Tail(q) = <<>>
  <1>1. ASSUME NEW q \in OneAtMost, q # <<>> PROVE Head(q) \in Writes /\ Tail(q) = <<>>
    <2>1. q \in Seq(Writes) /\ Len(q) <= 1 /\ Len(q) \in Nat
      BY DEF OneAtMost
    <2>2. Head(q) \in Writes /\ Tail(q) \in Seq(Writes) /\ Len(Tail(q)) = Len(q) - 1
      BY <1>1, <2>1, HeadTailProperties
    <2> QED BY <2>1, <2>2, EmptySeq
  <1>2. ASSUME NEW w \in Writes
        PROVE  <<w>> \in OneAtMost /\ <<w>> # <<>> /\ Head(<<w>>) = w
    BY DEF OneAtMost
  <1>3. <<>> \in OneAtMost
    BY EmptySeq DEF OneAtMost
  <1> QED BY <1>1, <1>2, <1>3

LEMMA MonitorAt ==
  ASSUME NEW at \in MonitorPlaces
  PROVE  /\ \A w \in Writes : [at |-> at, write |-> w] \in Monitors
         /\ \A m \in Monitors : [m EXCEPT !.at = at] \in Monitors
         /\ [NoMonitor EXCEPT !.at = at] = [at |-> at, write |-> 0]
  BY DEF Monitors, NoMonitor

LEMMA NoMonitorIsOne == 0 \in Writes /\ NoMonitor \in Monitors
  BY Esp32UartTxAssumption DEF Writes, Monitors, MonitorPlaces, NoMonitor

LEMMA TxInitInv == TxInit => TxInv
  <1> SUFFICES ASSUME TxInit PROVE TxInv
    OBVIOUS
  <1>1. TxPlacesOK
    BY NoMonitorIsOne DEF TxInit, TxPlacesOK
  <1>2. MonitorQueuesOK
    BY OneWrite DEF TxInit, MonitorQueuesOK
  <1>3. FirstMonitor /\ OnlyTheLastWrite
    BY DEF TxInit, FirstMonitor, OnlyTheLastWrite, NoMonitor
  <1> QED
    BY <1>1, <1>2, <1>3, TxTypes, NoMonitorIsOne DEF TxInit, TxInv

LEMMA TxNextPlaces ==
  ASSUME TxPlacesOK, monitor \in Monitors, [TxNext]_txVars
  PROVE  TxPlacesOK'
  <1> USE DEF TxPlacesOK, txMembers, txGhosts, monitorTask
  <1>1. CASE UNCHANGED txVars
    BY <1>1 DEF txVars
  <1>2. CASE TxConfigure \/ TxSetPins \/ WriteBytes \/ TxSetCallback
    BY <1>2 DEF TxConfigure, TxSetPins, WriteBytes, TxSetCallback
  <1>3. CASE TxWrite
    <2>1. writes' \in Writes
      BY <1>3, Esp32UartTxAssumption DEF TxWrite, Writes
    <2> QED BY <1>3, <2>1 DEF TxWrite
  <1>4. CASE LockAndWrite \/ DrainMonitor \/ SendToMonitor
    BY <1>4 DEF LockAndWrite, DrainMonitor, SendToMonitor
  <1>5. CASE CreateMonitor \/ TerminateMonitor \/ JoinMonitor
    BY <1>5 DEF CreateMonitor, TerminateMonitor, JoinMonitor
  <1>6. CASE GetWrite \/ WaitTxDone \/ PublishWrite
    BY <1>6 DEF GetWrite, WaitTxDone, PublishWrite, MonitorGoes, Monitors
  <1>7. CASE TestTxCallback \/ InvokeTxCallback \/ TxCallbackReturns \/ PutStatus
    BY <1>7 DEF TestTxCallback, InvokeTxCallback, TxCallbackReturns, PutStatus
  <1> QED
    BY <1>1, <1>2, <1>3, <1>4, <1>5, <1>6, <1>7 DEF TxNext, WriterStep, MonitorStep

LEMMA TxNextQueues ==
  ASSUME TxPlacesOK, monitor \in Monitors, MonitorQueuesOK, [TxNext]_txVars
  PROVE  MonitorQueuesOK'
  <1> USE OneWrite DEF monitorTask, MonitorQueuesOK
  <1>w. writes \in Writes /\ monitor.write \in Writes /\ 0 \in Writes
    BY NoMonitorIsOne DEF TxPlacesOK, Monitors
  <1>1. CASE UNCHANGED txVars
    BY <1>1 DEF txVars
  <1>2. CASE TxConfigure \/ TxWrite \/ TxSetCallback
    BY <1>2 DEF TxConfigure, TxWrite, TxSetCallback
  <1>3. CASE CreateMonitor \/ TerminateMonitor \/ JoinMonitor \/ TxSetPins
    BY <1>3, <1>w DEF CreateMonitor, TerminateMonitor, JoinMonitor, TxSetPins
  <1>4. CASE WriteBytes \/ LockAndWrite \/ DrainMonitor \/ SendToMonitor
    BY <1>4, <1>w DEF WriteBytes, LockAndWrite, DrainMonitor, Drained, SendToMonitor
  <1>5. CASE GetWrite \/ WaitTxDone \/ PublishWrite \/ PutStatus
    BY <1>5, <1>w DEF GetWrite, WaitTxDone, PublishWrite, PutStatus
  <1>6. CASE TestTxCallback \/ InvokeTxCallback \/ TxCallbackReturns
    BY <1>6 DEF TestTxCallback, InvokeTxCallback, TxCallbackReturns
  <1> QED BY <1>1, <1>2, <1>3, <1>4, <1>5, <1>6 DEF TxNext, WriterStep, MonitorStep

LEMMA TxNextMonitor ==
  ASSUME monitor \in Monitors, MonitorQueuesOK, [TxNext]_txVars
  PROVE  monitor' \in Monitors
  <1> USE DEF MonitorPlaces
  <1>1. ASSUME NEW at \in MonitorPlaces, monitor' = [monitor EXCEPT !.at = at]
        PROVE  monitor' \in Monitors
    BY <1>1, MonitorAt
  <1>2. CASE CreateMonitor \/ JoinMonitor
    BY <1>2, MonitorAt, NoMonitorIsOne DEF CreateMonitor, JoinMonitor, monitorTask
  <1>3. CASE GetWrite
    <2>1. Head(monitor_input) \in Writes /\ 0 \in Writes
      BY <1>3, OneWrite, NoMonitorIsOne DEF GetWrite, MonitorQueuesOK
    <2> QED BY <1>3, <2>1, MonitorAt DEF GetWrite
  <1>4. CASE WaitTxDone \/ PublishWrite \/ TestTxCallback \/ InvokeTxCallback
             \/ TxCallbackReturns \/ PutStatus
    <2>1. \E at \in MonitorPlaces : monitor' = [monitor EXCEPT !.at = at]
      BY <1>4 DEF WaitTxDone, PublishWrite, TestTxCallback, InvokeTxCallback,
                  TxCallbackReturns, PutStatus, MonitorGoes
    <2> QED BY <1>1, <2>1
  <1>5. CASE UNCHANGED monitor
    BY <1>5
  <1> QED
    BY <1>2, <1>3, <1>4, <1>5
       DEF txVars, TxNext, WriterStep, MonitorStep, TxConfigure, TxWrite, TxSetCallback,
           TerminateMonitor, TxSetPins, WriteBytes, LockAndWrite, DrainMonitor, SendToMonitor,
           monitorTask

LEMMA TxNextInv == TxInv /\ [TxNext]_txVars => TxInv'
  <1> SUFFICES ASSUME TxInv, [TxNext]_txVars PROVE TxInv'
    OBVIOUS
  <1>t. TxPlacesOK /\ monitor \in Monitors /\ MonitorQueuesOK
    BY TxTypes DEF TxInv
  <1>n. TxPlacesOK' /\ (monitor \in Monitors)' /\ MonitorQueuesOK'
    BY <1>t, TxNextPlaces, TxNextMonitor, TxNextQueues
  <1>m. TxTypeOK' /\ (writes \in Writes)' /\ (tx_configures \in Nat)'
    BY <1>n DEF TxTypeOK, TxPlacesOK, Monitors, MonitorPlaces, MonitorQueuesOK, OneAtMost, Writes
  <1>s. SUFFICES ASSUME tx_configures' <= 1 PROVE (FirstMonitor /\ OnlyTheLastWrite)'
    BY <1>m DEF TxInv
  <1>c. tx_configures \in Nat /\ (TxConfigure => tx_configures = 0)
        /\ tx_configures <= 1 /\ FirstMonitor /\ OnlyTheLastWrite
    BY <1>s, <1>t
       DEF TxInv, TxPlacesOK, txVars, TxNext, WriterStep, MonitorStep, TxConfigure, TxWrite,
           TxSetCallback, CreateMonitor, TerminateMonitor, JoinMonitor, TxSetPins, WriteBytes,
           LockAndWrite,
           DrainMonitor, SendToMonitor, GetWrite, WaitTxDone, PublishWrite, TestTxCallback,
           InvokeTxCallback, TxCallbackReturns, PutStatus, txGhosts
  <1> USE DEF txMembers, txGhosts, monitorTask, FirstMonitor, OnlyTheLastWrite, NoMonitor
  <1>2. CASE UNCHANGED txVars
    BY <1>2, <1>c DEF txVars
  <1>3. CASE TxConfigure
    BY <1>3, <1>c DEF TxConfigure
  <1>4. CASE CreateMonitor
    BY <1>4, <1>c DEF CreateMonitor
  <1>5. CASE TerminateMonitor
    BY <1>5, <1>c DEF TerminateMonitor
  <1>6. CASE JoinMonitor
    BY <1>6, <1>c DEF JoinMonitor
  <1>7. CASE TxSetPins
    BY <1>7, <1>c DEF TxSetPins
  <1>8. CASE TxWrite
    BY <1>8, <1>c DEF TxWrite
  <1>9. CASE WriteBytes
    BY <1>9, <1>c DEF WriteBytes
  <1>10. CASE LockAndWrite
    BY <1>10, <1>c DEF LockAndWrite
  <1>11. CASE DrainMonitor
    BY <1>11, <1>c DEF DrainMonitor
  <1>12. CASE SendToMonitor
    <2>w. writer = "send" /\ writer' = "idle"
      BY <1>12 DEF SendToMonitor
    <2>0. monitor_input = <<>>
      BY <2>w, <1>c
    <2>1. monitor_input' = <<writes>>
      BY <1>12, <2>0, Zenon DEF SendToMonitor
    <2>2. UNCHANGED <<monitor, tx_async, monitor_terminate, tx_status, left, writes,
                      tx_configures, monitor_handle>>
      BY <1>12 DEF SendToMonitor
    <2>3. tx_status = "running" /\ tx_async /\ monitor.at \notin {"wait", "lock"}
      BY <2>w, <1>c
    <2> QED BY <1>c, <2>w, <2>1, <2>2, <2>3
  <1>13. CASE TxSetCallback
    BY <1>13, <1>c DEF TxSetCallback
  <1>14. CASE GetWrite
    <2>1. monitor_input = <<writes>> /\ monitor_input' = <<>> /\ Head(monitor_input) = writes
      BY <1>14, <1>c, OneWrite DEF GetWrite, TxInv
    <2> QED BY <1>14, <1>c, <2>1 DEF GetWrite
  <1>15. CASE WaitTxDone
    BY <1>15, <1>c DEF WaitTxDone, MonitorGoes, TxInv, TxTypeOK
  <1>16. CASE PublishWrite
    BY <1>16, <1>c DEF PublishWrite, MonitorGoes, TxInv, TxTypeOK
  <1>17. CASE TestTxCallback \/ InvokeTxCallback \/ TxCallbackReturns
    BY <1>17, <1>c
       DEF TestTxCallback, InvokeTxCallback, TxCallbackReturns, MonitorGoes, TxInv, TxTypeOK
  <1>18. CASE PutStatus
    BY <1>18, <1>c DEF PutStatus, MonitorGoes, TxInv, TxTypeOK
  <1> QED
    BY <1>2, <1>3, <1>4, <1>5, <1>6, <1>7, <1>8, <1>9, <1>10, <1>11, <1>12, <1>13, <1>14, <1>15,
       <1>16, <1>17, <1>18 DEF TxNext, WriterStep, MonitorStep

-----------------------------------------------------------------------------
(* Reads with the UART                                                      *)

\* The task holds the mutex from when it finds a buffer until it gave it back.
MutexOfTask ==
  /\ rx_mutex = "task" <=> event_task.at \in {"fill", "test"}
  /\ event_task.at = "fill" => rx_buffer # NoBuffer

\* Until configure is called again: there are buffers, and a task for them, for
\* asynchronous reads only.
FirstInstall ==
  /\ installs = 0 => ~rx_async /\ reader \in {"idle", "transfer"}
  /\ (rx_buffer # NoBuffer \/ event_task.at # "none") => rx_async
  /\ reader = "transfer" => ~rx_async
  /\ reader = "setBuffer" => rx_async
  /\ reader \in {"task", "pins"} => rx_buffer = NoBuffer

\* A buffer the task may find is the one of the read that runs; only while the
\* task is about to give one back may the next read have begun.
BufferOfRunningRead ==
  /\ ~reused
  /\ reader = "setBuffer" => rx_status = "running"
  /\ event_task.at # "test" =>
       IF reader = "setBuffer" THEN rx_buffer = NoBuffer
       ELSE rx_buffer # NoBuffer => rx_buffer = reads /\ rx_status = "running"

RxInv ==
  /\ RxTypeOK /\ reads \in 0 .. MaxReads /\ MutexOfTask
  /\ installs <= 1 => FirstInstall
  /\ (installs <= 1 /\ ~silent_ends) => BufferOfRunningRead

\* The type invariant: the flags and the places, the task, and the queue.
Reads == 0 .. MaxReads

RxPlacesOK ==
  /\ rx_status \in {"notConfigured", "idle", "running", "ok", "timedOut", "failed"}
  /\ rx_func \in {"null", "set"} /\ rx_mutex \in {"free", "task"}
  /\ event_handle \in {"null", "set"}
  /\ reader \in {"idle", "task", "pins", "setBuffer", "transfer"}
  /\ rx_async \in BOOLEAN /\ rx_terminate \in BOOLEAN /\ installed \in BOOLEAN
  /\ silent_ends \in BOOLEAN

RxCountsOK ==
  /\ rx_buffer \in Reads /\ reads \in Reads
  /\ buffered \in 0 .. MaxBuffered /\ installs \in 0 .. MaxInstalls

EventTaskPlaces ==
  {"none", "receive", "flush", "lock", "fill", "test", "invoke", "callback", "deleted",
   "crashed"}
EventTasks == [at : EventTaskPlaces, queue : 0 .. MaxInstalls, buffer : Reads]

EventQueues ==
  {q \in Seq({"data", "idle", "overflow", "none"}) : Len(q) <= EventQueueSize}

RxParts ==
  /\ RxPlacesOK /\ RxCountsOK /\ reused \in BOOLEAN
  /\ event_task \in EventTasks /\ event_queue \in EventQueues

LEMMA RxTypes == RxTypeOK /\ reads \in 0 .. MaxReads <=> RxParts
  BY DEF RxTypeOK, RxParts, RxPlacesOK, RxCountsOK, EventTasks, EventTaskPlaces, EventQueues, Reads

LEMMA EventTaskAt ==
  ASSUME NEW t \in EventTasks, NEW at \in EventTaskPlaces, NEW b \in Reads
  PROVE  /\ [t EXCEPT !.at = at] \in EventTasks /\ [t EXCEPT !.at = at].at = at
         /\ [t EXCEPT !.at = at, !.buffer = b] \in EventTasks
         /\ [t EXCEPT !.at = at, !.buffer = b].at = at
  <1>1. [t EXCEPT !.at = at] \in EventTasks
    BY DEF EventTasks
  <1>2. [t EXCEPT !.at = at, !.buffer = b] \in EventTasks
    BY DEF EventTasks
  <1>3. [t EXCEPT !.at = at].at = at /\ [t EXCEPT !.at = at, !.buffer = b].at = at
    BY DEF EventTasks
  <1> QED BY <1>1, <1>2, <1>3

LEMMA ReceivingIsOne ==
  ASSUME RxCountsOK
  PROVE  /\ Receiving \in EventTasks /\ Receiving.at = "receive"
         /\ [NoEventTask EXCEPT !.at = "receive", !.queue = installs] = Receiving
         /\ NoEventTask \in EventTasks /\ NoEventTask.at = "none"
  <1>1. 0 \in Reads /\ 0 \in 0 .. MaxInstalls /\ installs \in 0 .. MaxInstalls
    BY Esp32UartRxAssumption DEF RxCountsOK, Reads
  <1>2. NoEventTask \in EventTasks /\ NoEventTask.at = "none"
    BY <1>1 DEF EventTasks, EventTaskPlaces, NoEventTask, NoBuffer
  <1>3. Receiving.at = "receive"
    BY DEF Receiving, NoEventTask
  <1>4. Receiving \in EventTasks
    BY <1>1, <1>2 DEF EventTasks, EventTaskPlaces, Receiving
  <1> QED BY <1>2, <1>3, <1>4 DEF Receiving

LEMMA EventQueuesKept ==
  /\ <<>> \in EventQueues
  /\ \A q \in EventQueues : q # <<>> =>
       Tail(q) \in EventQueues /\ Head(q) \in {"data", "idle", "overflow", "none"}
  /\ \A q \in EventQueues : \A e \in {"data", "idle", "overflow", "none"} :
       Len(q) < EventQueueSize => Append(q, e) \in EventQueues
  <1> DEFINE E == {"data", "idle", "overflow", "none"}
  <1> HIDE DEF E
  <1>1. EventQueueSize \in Nat
    BY Esp32UartRxAssumption
  <1>2. EventQueues = {q \in Seq(E) : Len(q) <= EventQueueSize}
    BY DEF EventQueues, E
  <1>3. <<>> \in EventQueues
    BY <1>1, <1>2, EmptySeq
  <1>4. ASSUME NEW q \in EventQueues, q # <<>>
        PROVE  Tail(q) \in EventQueues /\ Head(q) \in E
    <2>1. q \in Seq(E) /\ Len(q) <= EventQueueSize /\ Len(q) \in Nat
      BY <1>2
    <2>2. Head(q) \in E /\ Tail(q) \in Seq(E) /\ Len(Tail(q)) = Len(q) - 1
      BY <1>4, <2>1, HeadTailProperties
    <2> QED BY <1>1, <1>2, <2>1, <2>2
  <1>5. ASSUME NEW q \in EventQueues, NEW e \in E, Len(q) < EventQueueSize
        PROVE  Append(q, e) \in EventQueues
    <2>1. q \in Seq(E) /\ Len(q) \in Nat
      BY <1>2
    <2>2. Append(q, e) \in Seq(E) /\ Len(Append(q, e)) = Len(q) + 1
      BY <2>1, AppendProperties
    <2> QED BY <1>1, <1>2, <1>5, <2>1, <2>2
  <1> QED BY <1>3, <1>4, <1>5 DEF E

LEMMA RxInitInv == RxInit => RxInv
  <1> SUFFICES ASSUME RxInit PROVE RxInv
    OBVIOUS
  <1>1. RxCountsOK
    BY Esp32UartRxAssumption DEF RxInit, RxCountsOK, Reads, NoBuffer
  <1>2. RxPlacesOK /\ reused \in BOOLEAN
    BY DEF RxInit, RxPlacesOK
  <1>3. event_task \in EventTasks /\ event_queue \in EventQueues /\ event_task.at = "none"
    BY <1>1, ReceivingIsOne, EventQueuesKept DEF RxInit
  <1> QED
    BY <1>1, <1>2, <1>3, RxTypes
       DEF RxInit, RxInv, RxParts, MutexOfTask, FirstInstall, BufferOfRunningRead

LEMMA RxNextPlaces ==
  ASSUME RxParts, [RxNext]_rxVars
  PROVE  RxPlacesOK'
  <1> USE DEF RxParts, RxPlacesOK, rxMembers, idf, rxGhosts
  <1>1. CASE UNCHANGED rxVars
    BY <1>1 DEF rxVars
  <1>2. CASE RxConfigure
    BY <1>2 DEF RxConfigure
  <1>3. CASE RxCreateTask
    BY <1>3 DEF RxCreateTask
  <1>4. CASE TerminateRxEventTask
    BY <1>4 DEF TerminateRxEventTask
  <1>5. CASE RxSetPins
    BY <1>5 DEF RxSetPins
  <1>6. CASE RxRead
    BY <1>6 DEF RxRead
  <1>7. CASE SetBuffer
    BY <1>7 DEF SetBuffer
  <1>8. CASE ReadBytes
    BY <1>8 DEF ReadBytes
  <1>9. CASE RxSetCallback
    BY <1>9 DEF RxSetCallback
  <1>10. CASE Burst
    BY <1>10 DEF Burst
  <1>11. CASE ReceiveEvent
    BY <1>11 DEF ReceiveEvent
  <1>12. CASE ReceiveFromDeleted
    BY <1>12 DEF ReceiveFromDeleted
  <1>13. CASE Flush
    BY <1>13 DEF Flush
  <1>14. CASE LockForEvent
    BY <1>14 DEF LockForEvent
  <1>15. CASE FillBuffer
    BY <1>15 DEF FillBuffer, StatusRead
  <1>16. CASE TestRxCallback
    BY <1>16 DEF TestRxCallback
  <1>17. CASE InvokeRxCallback
    BY <1>17 DEF InvokeRxCallback
  <1>18. CASE RxCallbackReturns
    BY <1>18 DEF RxCallbackReturns
  <1> QED
    BY <1>1, <1>2, <1>3, <1>4, <1>5, <1>6, <1>7, <1>8, <1>9, <1>10, <1>11,
       <1>12, <1>13, <1>14, <1>15, <1>16, <1>17, <1>18
       DEF RxNext, ReaderStep, EventTaskStep

LEMMA RxNextCounts ==
  ASSUME RxParts, [RxNext]_rxVars
  PROVE  RxCountsOK'
  <1> USE DEF RxParts, RxCountsOK, Reads, rxMembers, idf, rxGhosts
  <1>1. CASE UNCHANGED rxVars
    BY <1>1 DEF rxVars
  <1>2. CASE RxConfigure
    BY <1>2, Esp32UartRxAssumption DEF RxConfigure
  <1>3. CASE RxCreateTask
    BY <1>3, Esp32UartRxAssumption DEF RxCreateTask, NoBuffer
  <1>4. CASE TerminateRxEventTask
    BY <1>4, Esp32UartRxAssumption DEF TerminateRxEventTask
  <1>5. CASE RxSetPins
    BY <1>5, Esp32UartRxAssumption DEF RxSetPins
  <1>6. CASE RxRead
    BY <1>6, Esp32UartRxAssumption DEF RxRead
  <1>7. CASE SetBuffer
    BY <1>7, Esp32UartRxAssumption DEF SetBuffer
  <1>8. CASE ReadBytes
    BY <1>8, Esp32UartRxAssumption DEF ReadBytes
  <1>9. CASE RxSetCallback
    BY <1>9, Esp32UartRxAssumption DEF RxSetCallback
  <1>10. CASE Burst
    BY <1>10, Esp32UartRxAssumption DEF Burst
  <1>11. CASE ReceiveEvent
    BY <1>11, Esp32UartRxAssumption DEF ReceiveEvent
  <1>12. CASE ReceiveFromDeleted
    BY <1>12, Esp32UartRxAssumption DEF ReceiveFromDeleted
  <1>13. CASE Flush
    BY <1>13, Esp32UartRxAssumption DEF Flush
  <1>14. CASE LockForEvent
    BY <1>14, Esp32UartRxAssumption DEF LockForEvent
  <1>15. CASE FillBuffer
    BY <1>15, Esp32UartRxAssumption DEF FillBuffer
  <1>16. CASE TestRxCallback
    BY <1>16, Esp32UartRxAssumption DEF TestRxCallback, BufferAfterEnd, NoBuffer
  <1>17. CASE InvokeRxCallback
    BY <1>17, Esp32UartRxAssumption DEF InvokeRxCallback
  <1>18. CASE RxCallbackReturns
    BY <1>18, Esp32UartRxAssumption DEF RxCallbackReturns
  <1> QED
    BY <1>1, <1>2, <1>3, <1>4, <1>5, <1>6, <1>7, <1>8, <1>9, <1>10, <1>11,
       <1>12, <1>13, <1>14, <1>15, <1>16, <1>17, <1>18
       DEF RxNext, ReaderStep, EventTaskStep

LEMMA RxNextQueue ==
  ASSUME RxParts, [RxNext]_rxVars
  PROVE  event_queue' \in EventQueues
  <1> USE DEF RxParts, Post, rxMembers, idf, rxGhosts
  <1>1. CASE UNCHANGED rxVars
    BY <1>1 DEF rxVars
  <1>2. CASE RxConfigure
    BY <1>2, EventQueuesKept DEF RxConfigure
  <1>3. CASE RxCreateTask
    BY <1>3, EventQueuesKept DEF RxCreateTask
  <1>4. CASE TerminateRxEventTask
    BY <1>4, EventQueuesKept DEF TerminateRxEventTask
  <1>5. CASE RxSetPins
    BY <1>5, EventQueuesKept DEF RxSetPins
  <1>6. CASE RxRead
    BY <1>6, EventQueuesKept DEF RxRead
  <1>7. CASE SetBuffer
    BY <1>7, EventQueuesKept DEF SetBuffer
  <1>8. CASE ReadBytes
    BY <1>8, EventQueuesKept DEF ReadBytes
  <1>9. CASE RxSetCallback
    BY <1>9, EventQueuesKept DEF RxSetCallback
  <1>10. CASE Burst
    BY <1>10, EventQueuesKept DEF Burst
  <1>11. CASE ReceiveEvent
    BY <1>11, EventQueuesKept DEF ReceiveEvent
  <1>12. CASE ReceiveFromDeleted
    BY <1>12, EventQueuesKept DEF ReceiveFromDeleted
  <1>13. CASE Flush
    BY <1>13, EventQueuesKept DEF Flush
  <1>14. CASE LockForEvent
    BY <1>14, EventQueuesKept DEF LockForEvent
  <1>15. CASE FillBuffer
    BY <1>15, EventQueuesKept DEF FillBuffer
  <1>16. CASE TestRxCallback
    BY <1>16, EventQueuesKept DEF TestRxCallback
  <1>17. CASE InvokeRxCallback
    BY <1>17, EventQueuesKept DEF InvokeRxCallback
  <1>18. CASE RxCallbackReturns
    BY <1>18, EventQueuesKept DEF RxCallbackReturns
  <1> QED
    BY <1>1, <1>2, <1>3, <1>4, <1>5, <1>6, <1>7, <1>8, <1>9, <1>10, <1>11,
       <1>12, <1>13, <1>14, <1>15, <1>16, <1>17, <1>18
       DEF RxNext, ReaderStep, EventTaskStep

LEMMA RxNextTask ==
  ASSUME RxParts, [RxNext]_rxVars
  PROVE  event_task' \in EventTasks
  <1> USE DEF rxMembers
  <1>1. Receiving \in EventTasks
        /\ [NoEventTask EXCEPT !.at = "receive", !.queue = installs] \in EventTasks
    BY ReceivingIsOne DEF RxParts
  <1>0. rx_buffer \in Reads /\ event_task \in EventTasks
    BY DEF RxParts, RxCountsOK
  <1>2. ASSUME NEW at \in EventTaskPlaces
        PROVE  /\ [event_task EXCEPT !.at = at] \in EventTasks
               /\ [event_task EXCEPT !.at = at, !.buffer = rx_buffer] \in EventTasks
    BY <1>0, EventTaskAt, Zenon
  <1>3. \A at \in EventTaskPlaces :
          /\ [event_task EXCEPT !.at = at] \in EventTasks
          /\ [event_task EXCEPT !.at = at, !.buffer = rx_buffer] \in EventTasks
    BY <1>2, Zenon
  <1>4. event_task \in EventTasks
    BY DEF RxParts
  <1>5. CASE UNCHANGED event_task
    BY <1>4, <1>5
  <1>6. CASE RxCreateTask \/ Flush \/ RxCallbackReturns
    BY <1>1, <1>4, <1>6 DEF RxCreateTask, Flush, RxCallbackReturns
  <1>7. CASE FillBuffer
    BY <1>3, <1>7 DEF FillBuffer, EventTaskPlaces
  <1>8. CASE ReceiveEvent \/ ReceiveFromDeleted \/ LockForEvent \/ TestRxCallback
             \/ InvokeRxCallback
    BY <1>1, <1>3, <1>8
       DEF ReceiveEvent, ReceiveFromDeleted, LockForEvent, TestRxCallback, InvokeRxCallback,
           EventTaskPlaces
  <1>9. CASE RxConfigure \/ TerminateRxEventTask \/ RxSetPins \/ RxRead \/ SetBuffer
             \/ ReadBytes \/ RxSetCallback \/ Burst
    BY <1>5, <1>9
       DEF RxConfigure, TerminateRxEventTask, RxSetPins, RxRead, SetBuffer, ReadBytes,
           RxSetCallback, Burst
  <1> QED
    BY <1>5, <1>6, <1>7, <1>8, <1>9 DEF rxVars, RxNext, ReaderStep, EventTaskStep

\* Where the task is after each of its steps.
LEMMA TaskStepsTo ==
  ASSUME RxParts
  PROVE  /\ ReceiveEvent =>
              /\ event_task.at = "receive"
              /\ event_task'.at \in {"deleted", "lock", "flush", "receive"}
         /\ ReceiveFromDeleted => event_task.at = "receive" /\ event_task'.at = "crashed"
         /\ Flush => event_task'.at = "receive"
         /\ LockForEvent =>
              event_task'.at = IF rx_buffer = NoBuffer \/ buffered = 0 THEN "receive" ELSE "fill"
         /\ FillBuffer => event_task'.at = "test"
         /\ TestRxCallback => event_task'.at \in {"receive", "invoke"}
         /\ InvokeRxCallback => event_task'.at \in {"crashed", "callback"}
         /\ RxCallbackReturns => event_task'.at = "receive"
         /\ RxCreateTask => UNCHANGED event_task \/ event_task'.at = "receive"
  <1>1. Receiving.at = "receive"
        /\ [NoEventTask EXCEPT !.at = "receive", !.queue = installs].at = "receive"
    BY ReceivingIsOne DEF RxParts
  <1>2. \A at \in EventTaskPlaces :
          /\ [event_task EXCEPT !.at = at].at = at
          /\ [event_task EXCEPT !.at = at, !.buffer = rx_buffer].at = at
    BY DEF RxParts, EventTasks
  <1> USE DEF EventTaskPlaces
  <1>3. ReceiveEvent =>
          event_task.at = "receive" /\ event_task'.at \in {"deleted", "lock", "flush", "receive"}
    BY <1>1, <1>2 DEF ReceiveEvent
  <1>4. ReceiveFromDeleted => event_task.at = "receive" /\ event_task'.at = "crashed"
    BY <1>2 DEF ReceiveFromDeleted
  <1>5. (Flush => event_task'.at = "receive") /\ (RxCallbackReturns => event_task'.at = "receive")
    BY <1>1 DEF Flush, RxCallbackReturns
  <1>6. LockForEvent =>
          event_task'.at = IF rx_buffer = NoBuffer \/ buffered = 0 THEN "receive" ELSE "fill"
    <2>1. CASE rx_buffer = NoBuffer \/ buffered = 0
      BY <1>1, <2>1 DEF LockForEvent
    <2>2. CASE ~(rx_buffer = NoBuffer \/ buffered = 0)
      <3>1. LockForEvent => event_task' = [event_task EXCEPT !.at = "fill"]
        BY <2>2 DEF LockForEvent
      <3>2. [event_task EXCEPT !.at = "fill"].at = "fill"
        BY <1>2
      <3> QED BY <2>2, <3>1, <3>2
    <2> QED BY <2>1, <2>2
  <1>7. FillBuffer => event_task'.at = "test"
    BY <1>2 DEF FillBuffer
  <1>8. TestRxCallback => event_task'.at \in {"receive", "invoke"}
    BY <1>1, <1>2 DEF TestRxCallback
  <1>9. InvokeRxCallback => event_task'.at \in {"crashed", "callback"}
    BY <1>2 DEF InvokeRxCallback
  <1>10. RxCreateTask => UNCHANGED event_task \/ event_task'.at = "receive"
    BY <1>1 DEF RxCreateTask
  <1> QED BY <1>3, <1>4, <1>5, <1>6, <1>7, <1>8, <1>9, <1>10

LEMMA RxNextMutex ==
  ASSUME RxParts, MutexOfTask, [RxNext]_rxVars
  PROVE  MutexOfTask'
  <1> USE DEF MutexOfTask, RxPlacesOK, RxCountsOK, RxParts, rxMembers, idf, rxGhosts
  <1>1. CASE UNCHANGED rxVars
    BY <1>1 DEF rxVars
  <1>2. CASE RxConfigure
    BY <1>2, TaskStepsTo DEF RxConfigure
  <1>3. CASE RxCreateTask
    BY <1>3, TaskStepsTo DEF RxCreateTask
  <1>4. CASE TerminateRxEventTask
    BY <1>4, TaskStepsTo DEF TerminateRxEventTask
  <1>5. CASE RxSetPins
    BY <1>5, TaskStepsTo DEF RxSetPins
  <1>6. CASE RxRead
    BY <1>6, TaskStepsTo DEF RxRead
  <1>7. CASE SetBuffer
    BY <1>7, TaskStepsTo DEF SetBuffer, Reads, NoBuffer
  <1>8. CASE ReadBytes
    BY <1>8, TaskStepsTo DEF ReadBytes
  <1>9. CASE RxSetCallback
    BY <1>9, TaskStepsTo DEF RxSetCallback
  <1>10. CASE Burst
    BY <1>10, TaskStepsTo DEF Burst
  <1>11. CASE ReceiveEvent
    BY <1>11, TaskStepsTo DEF ReceiveEvent
  <1>12. CASE ReceiveFromDeleted
    BY <1>12, TaskStepsTo DEF ReceiveFromDeleted
  <1>13. CASE Flush
    BY <1>13, TaskStepsTo DEF Flush
  <1>14. CASE LockForEvent
    BY <1>14, TaskStepsTo DEF LockForEvent
  <1>15. CASE FillBuffer
    BY <1>15, TaskStepsTo DEF FillBuffer
  <1>16. CASE TestRxCallback
    BY <1>16, TaskStepsTo DEF TestRxCallback
  <1>17. CASE InvokeRxCallback
    BY <1>17, TaskStepsTo DEF InvokeRxCallback
  <1>18. CASE RxCallbackReturns
    BY <1>18, TaskStepsTo DEF RxCallbackReturns
  <1> QED
    BY <1>1, <1>2, <1>3, <1>4, <1>5, <1>6, <1>7, <1>8, <1>9, <1>10, <1>11,
       <1>12, <1>13, <1>14, <1>15, <1>16, <1>17, <1>18
       DEF RxNext, ReaderStep, EventTaskStep

LEMMA RxNextFirst ==
  ASSUME RxParts, installs <= 1 => FirstInstall, installs' <= 1, [RxNext]_rxVars
  PROVE  FirstInstall'
  <1> USE DEF RxParts, RxCountsOK, RxPlacesOK, FirstInstall, rxMembers, idf, rxGhosts
  <1>1. CASE UNCHANGED rxVars
    BY <1>1 DEF rxVars
  <1>2. CASE RxConfigure
    BY <1>2, TaskStepsTo DEF RxConfigure
  <1>3. CASE RxCreateTask
    BY <1>3, TaskStepsTo DEF RxCreateTask
  <1>4. CASE TerminateRxEventTask
    BY <1>4, TaskStepsTo DEF TerminateRxEventTask
  <1>5. CASE RxSetPins
    BY <1>5, TaskStepsTo DEF RxSetPins
  <1>6. CASE RxRead
    BY <1>6, TaskStepsTo DEF RxRead
  <1>7. CASE SetBuffer
    BY <1>7, TaskStepsTo DEF SetBuffer
  <1>8. CASE ReadBytes
    BY <1>8, TaskStepsTo DEF ReadBytes
  <1>9. CASE RxSetCallback
    BY <1>9, TaskStepsTo DEF RxSetCallback
  <1>10. CASE Burst
    BY <1>10, TaskStepsTo DEF Burst
  <1>11. CASE ReceiveEvent
    BY <1>11, TaskStepsTo DEF ReceiveEvent
  <1>12. CASE ReceiveFromDeleted
    BY <1>12, TaskStepsTo DEF ReceiveFromDeleted
  <1>13. CASE Flush
    BY <1>13, TaskStepsTo DEF Flush
  <1>14. CASE LockForEvent
    BY <1>14, TaskStepsTo DEF LockForEvent
  <1>15. CASE FillBuffer
    BY <1>15, TaskStepsTo DEF FillBuffer
  <1>16. CASE TestRxCallback
    BY <1>16, TaskStepsTo DEF TestRxCallback, BufferAfterEnd
  <1>17. CASE InvokeRxCallback
    BY <1>17, TaskStepsTo DEF InvokeRxCallback
  <1>18. CASE RxCallbackReturns
    BY <1>18, TaskStepsTo DEF RxCallbackReturns
  <1> QED
    BY <1>1, <1>2, <1>3, <1>4, <1>5, <1>6, <1>7, <1>8, <1>9, <1>10, <1>11,
       <1>12, <1>13, <1>14, <1>15, <1>16, <1>17, <1>18
       DEF RxNext, ReaderStep, EventTaskStep

LEMMA RxNextBuffer ==
  ASSUME RxParts, MutexOfTask, installs <= 1 => FirstInstall, installs' <= 1,
         (installs <= 1 /\ ~silent_ends) => BufferOfRunningRead, ~silent_ends', [RxNext]_rxVars
  PROVE  BufferOfRunningRead'
  <1> USE DEF MutexOfTask, FirstInstall, BufferOfRunningRead, RxParts, RxCountsOK,
              rxMembers, idf, rxGhosts
  <1>1. CASE UNCHANGED rxVars
    BY <1>1 DEF rxVars
  <1>2. CASE RxConfigure
    BY <1>2, TaskStepsTo DEF RxConfigure
  <1>3. CASE RxCreateTask
    BY <1>3, TaskStepsTo DEF RxCreateTask
  <1>4. CASE TerminateRxEventTask
    BY <1>4, TaskStepsTo DEF TerminateRxEventTask
  <1>5. CASE RxSetPins
    BY <1>5, TaskStepsTo DEF RxSetPins
  <1>6. CASE RxRead
    BY <1>6, TaskStepsTo DEF RxRead
  <1>7. CASE SetBuffer
    BY <1>7, TaskStepsTo DEF SetBuffer
  <1>8. CASE ReadBytes
    BY <1>8, TaskStepsTo DEF ReadBytes
  <1>9. CASE RxSetCallback
    BY <1>9, TaskStepsTo DEF RxSetCallback
  <1>10. CASE Burst
    BY <1>10, TaskStepsTo DEF Burst
  <1>11. CASE ReceiveEvent
    BY <1>11, TaskStepsTo DEF ReceiveEvent
  <1>12. CASE ReceiveFromDeleted
    BY <1>12, TaskStepsTo DEF ReceiveFromDeleted
  <1>13. CASE Flush
    BY <1>13, TaskStepsTo DEF Flush
  <1>14. CASE LockForEvent
    BY <1>14, TaskStepsTo DEF LockForEvent
  <1>15. CASE FillBuffer
    <2>1. /\ event_task.at = "fill" /\ event_task'.at = "test"
          /\ UNCHANGED <<installs, silent_ends, reader>>
      BY <1>15, TaskStepsTo DEF FillBuffer
    <2>2. ~reused /\ rx_buffer = reads /\ rx_status = "running" /\ reader # "setBuffer"
      BY <2>1
    <2>3. ~reused'
      BY <1>15, <2>2 DEF FillBuffer
    <2> QED BY <2>1, <2>2, <2>3
  <1>16. CASE TestRxCallback
    BY <1>16, TaskStepsTo DEF TestRxCallback, BufferAfterEnd
  <1>17. CASE InvokeRxCallback
    BY <1>17, TaskStepsTo DEF InvokeRxCallback
  <1>18. CASE RxCallbackReturns
    BY <1>18, TaskStepsTo DEF RxCallbackReturns
  <1> QED
    BY <1>1, <1>2, <1>3, <1>4, <1>5, <1>6, <1>7, <1>8, <1>9, <1>10, <1>11,
       <1>12, <1>13, <1>14, <1>15, <1>16, <1>17, <1>18
       DEF RxNext, ReaderStep, EventTaskStep

LEMMA RxNextInv == RxInv /\ [RxNext]_rxVars => RxInv'
  <1> SUFFICES ASSUME RxInv, [RxNext]_rxVars PROVE RxInv'
    OBVIOUS
  <1>1. RxParts
    BY RxTypes DEF RxInv
  <1>2. RxPlacesOK' /\ RxCountsOK' /\ event_task' \in EventTasks /\ event_queue' \in EventQueues
    BY <1>1, RxNextPlaces, RxNextCounts, RxNextTask, RxNextQueue
  <1>3. reused' \in BOOLEAN
    BY <1>1
       DEF RxParts, RxNext, ReaderStep, EventTaskStep, rxVars, RxConfigure, RxCreateTask,
           TerminateRxEventTask, RxSetPins, RxRead, SetBuffer, ReadBytes, RxSetCallback, Burst,
           ReceiveEvent, ReceiveFromDeleted, Flush, LockForEvent, FillBuffer, TestRxCallback,
           InvokeRxCallback, RxCallbackReturns, rxGhosts
  <1>4. RxTypeOK' /\ (reads \in 0 .. MaxReads)'
    BY <1>2, <1>3
       DEF RxTypeOK, RxPlacesOK, RxCountsOK, EventTasks, EventTaskPlaces, EventQueues, Reads
  <1>5. MutexOfTask'
    BY <1>1, RxNextMutex DEF RxInv
  <1>6. installs' <= 1 => FirstInstall'
    BY <1>1, RxNextFirst DEF RxInv
  <1>7. installs' <= 1 /\ ~silent_ends' => BufferOfRunningRead'
    BY <1>1, RxNextBuffer DEF RxInv
  <1> QED BY <1>4, <1>5, <1>6, <1>7 DEF RxInv

-----------------------------------------------------------------------------
(* The task                                                                 *)

\* A task that ends was told to, by the application task that waits for it.
Endings ==
  /\ OneTaskAtMost
  /\ owner_notified => runner.at = "none"
  /\ owner_at # "idle" => m_task_handle = "set"
  /\ (owner_notified \/ runner.at = "leave" \/ owner_at # "idle") => m_task_terminate

NotYetCreated ==
  creates = 0 =>
    m_task_handle = "null" /\ output_queue = <<>> /\ served = <<>> /\ results = <<>>

\* The inputs of the first life, those it took and those that wait, are the last
\* ones that were put, up to the latest.
Latest(items) == \A i \in 1 .. Len(items) : items[i] = inputs - (Len(items) - i)

FirstLife ==
  (creates = 1 /\ m_type = "worker" /\ m_task_handle = "set" /\ ~m_task_terminate) =>
    /\ Latest((served \o Within("test")) \o input_queue)
    /\ (results \o output_queue) \o Within("put") = served

TaskInv == TaskTypeOK /\ Endings /\ NotYetCreated /\ FirstLife

\* The type invariant: the flags and the places, the task, and the sequences.
TaskPlacesOK ==
  /\ m_task_handle \in {"null", "set"} /\ m_type \in {"worker", "periodic"}
  /\ owner_at \in {"idle", "wake", "take"}
  /\ m_task_terminate \in BOOLEAN /\ suspended \in BOOLEAN /\ owner_notified \in BOOLEAN
  /\ inputs \in Inputs /\ creates \in 0 .. MaxCreates

RunnerPlaces == {"none", "get", "test", "put", "leave"}
Runners == [at : RunnerPlaces, input : Inputs]

TaskQueuesOK ==
  /\ input_queue \in Seq(Inputs) /\ Len(input_queue) <= INPUT_SIZE
  /\ output_queue \in Seq(Inputs) /\ Len(output_queue) <= OUTPUT_SIZE
  /\ served \in Seq(Inputs) /\ results \in Seq(Inputs)

LEMMA TaskTypes == TaskTypeOK <=> TaskPlacesOK /\ runner \in Runners /\ TaskQueuesOK
  BY DEF TaskTypeOK, TaskPlacesOK, Runners, RunnerPlaces, TaskQueuesOK, Inputs

LEMMA TaskSizes ==
  /\ INPUT_SIZE \in Nat \ {0} /\ OUTPUT_SIZE \in Nat \ {0} /\ MaxCreates \in Nat
  /\ NoInput \in Inputs /\ Inputs = 0 .. MaxInputs /\ MaxInputs \in Nat
  BY Esp32TaskAssumption DEF NoInput, Inputs

\* What the steps of the queues do to a sequence that is put together from them.
LEMMA TakenIsMoved ==
  ASSUME NEW S, NEW s \in Seq(S), NEW q \in Seq(S), q # <<>>
  PROVE  (s \o <<Head(q)>>) \o Tail(q) = s \o q
  <1>1. /\ Head(q) \in S /\ Tail(q) \in Seq(S) /\ Len(Tail(q)) = Len(q) - 1
        /\ \A i \in 1 .. Len(Tail(q)) : Tail(q)[i] = q[i + 1]
        /\ Len(q) \in Nat \ {0} /\ Head(q) = q[1]
    BY HeadTailProperties, EmptySeq
  <1>2. <<Head(q)>> \in Seq(S) /\ Len(<<Head(q)>>) = 1 /\ <<Head(q)>>[1] = Head(q)
    BY <1>1
  <1>3. /\ <<Head(q)>> \o Tail(q) \in Seq(S) /\ Len(<<Head(q)>> \o Tail(q)) = Len(q)
        /\ \A i \in 1 .. Len(q) : (<<Head(q)>> \o Tail(q))[i] = q[i]
    <2>1. /\ <<Head(q)>> \o Tail(q) \in Seq(S)
          /\ Len(<<Head(q)>> \o Tail(q)) = 1 + Len(Tail(q))
          /\ \A i \in 1 .. 1 + Len(Tail(q)) : (<<Head(q)>> \o Tail(q))[i] =
                IF i <= 1 THEN <<Head(q)>>[i] ELSE Tail(q)[i - 1]
      BY <1>1, <1>2, ConcatProperties
    <2>2. ASSUME NEW i \in 1 .. Len(q)
          PROVE  (<<Head(q)>> \o Tail(q))[i] = q[i]
      <3>1. CASE i = 1
        BY <1>1, <1>2, <2>1, <3>1
      <3>2. CASE i # 1
        <4>1. i - 1 \in 1 .. Len(Tail(q)) /\ (i - 1) + 1 = i
          BY <1>1, <3>2
        <4> QED BY <1>1, <2>1, <3>2, <4>1
      <3> QED BY <3>1, <3>2
    <2> QED BY <1>1, <2>1, <2>2
  <1>4. <<Head(q)>> \o Tail(q) = q
    BY <1>3, SeqEqual
  <1> QED BY <1>1, <1>2, <1>4, ConcatAssociative

LEMMA AppendedLast ==
  ASSUME NEW S, NEW s \in Seq(S), NEW q \in Seq(S), NEW e \in S
  PROVE  s \o Append(q, e) = (s \o q) \o <<e>>
  <1>1. <<e>> \in Seq(S)
    OBVIOUS
  <1> QED BY <1>1, AppendIsConcat, ConcatAssociative

LEMMA LatestIsInOrder ==
  ASSUME NEW items \in Seq(Inputs), Latest(items), inputs \in Inputs
  PROVE  \A i \in 1 .. Len(items) - 1 : items[i + 1] = items[i] + 1
  <1> SUFFICES ASSUME NEW i \in 1 .. Len(items) - 1 PROVE items[i + 1] = items[i] + 1
    OBVIOUS
  <1>1. Len(items) \in Nat /\ inputs \in Nat
    BY TaskSizes
  <1>2. i \in 1 .. Len(items) /\ i + 1 \in 1 .. Len(items)
    BY <1>1
  <1>3. items[i] = inputs - (Len(items) - i) /\ items[i + 1] = inputs - (Len(items) - (i + 1))
    BY <1>2 DEF Latest
  <1> QED BY <1>1, <1>3

LEMMA TaskInitInv == TaskInit => TaskInv
  <1> SUFFICES ASSUME TaskInit PROVE TaskInv
    OBVIOUS
  <1>0. 0 \in Inputs /\ 0 \in 0 .. MaxCreates
    BY TaskSizes
  <1>1. TaskPlacesOK
    BY <1>0 DEF TaskInit, TaskPlacesOK
  <1>2. runner \in Runners /\ runner.at = "none"
    BY TaskSizes DEF TaskInit, Nobody, Runners, RunnerPlaces
  <1>3. TaskQueuesOK
    BY TaskSizes, EmptySeq DEF TaskInit, TaskQueuesOK
  <1>4. Endings /\ NotYetCreated /\ FirstLife
    BY <1>2 DEF TaskInit, Endings, OneTaskAtMost, NotYetCreated, FirstLife
  <1> QED BY <1>1, <1>2, <1>3, <1>4, TaskTypes DEF TaskInv

LEMMA TaskNextPlaces ==
  ASSUME TaskPlacesOK, [TaskNext]_taskVars
  PROVE  TaskPlacesOK'
  <1> USE DEF TaskPlacesOK, queues, taskGhosts
  <1>1. CASE UNCHANGED taskVars
    BY <1>1 DEF taskVars
  <1>2. CASE Create
    <2>1. creates' \in 0 .. MaxCreates
      BY <1>2, TaskSizes DEF Create
    <2> QED BY <1>2, <2>1 DEF Create
  <1>6. CASE SetState
    BY <1>6 DEF SetState
  <1>3. CASE Terminate \/ WakeWorker \/ TakeEnd \/ NotifyEnd
    BY <1>3 DEF Terminate, WakeWorker, TakeEnd, NotifyEnd
  <1>4. CASE SetInputData
    BY <1>4, TaskSizes DEF SetInputData
  <1>5. CASE GetOutputData \/ GetInput \/ TestFlag \/ PutOutput
    BY <1>5 DEF GetOutputData, GetInput, TestFlag, PutOutput
  <1> QED
    BY <1>1, <1>2, <1>3, <1>4, <1>5, <1>6 DEF TaskNext, OwnerStep, RunnerStep

\* Where the task is after each of its steps, and with which input.
LEMMA RunnerStepsTo ==
  ASSUME runner \in Runners, TaskQueuesOK
  PROVE  /\ Create => \/ UNCHANGED <<runner, m_task_handle>>
                      \/ runner' \in Runners /\ runner'.at = "get" /\ m_task_handle' = "set"
         /\ GetInput => /\ runner' \in Runners /\ runner'.at = "test"
                        /\ m_type = "worker" => runner'.input = Head(input_queue)
         /\ TestFlag => /\ runner' \in Runners
                        /\ IF Tested THEN runner'.at = "leave"
                           ELSE runner'.at = "put" /\ runner'.input = runner.input
         /\ PutOutput => runner' \in Runners /\ runner'.at = "get"
         /\ NotifyEnd => runner' \in Runners /\ runner'.at = "none"
  <1> USE DEF RunnerPlaces
  <1>1. ASSUME NEW at \in RunnerPlaces
        PROVE  /\ [Nobody EXCEPT !.at = at] \in Runners
               /\ [Nobody EXCEPT !.at = at].at = at
    BY TaskSizes DEF Nobody, Runners
  <1>2. Nobody \in Runners /\ Nobody.at = "none"
    BY TaskSizes DEF Nobody, Runners
  <1>3. /\ [runner EXCEPT !.at = "put"] \in Runners
        /\ [runner EXCEPT !.at = "put"].at = "put"
        /\ [runner EXCEPT !.at = "put"].input = runner.input
    BY DEF Runners
  <1>4. Create => \/ UNCHANGED <<runner, m_task_handle>>
                  \/ runner' \in Runners /\ runner'.at = "get" /\ m_task_handle' = "set"
    <2> SUFFICES ASSUME Create
                 PROVE  \/ UNCHANGED <<runner, m_task_handle>>
                        \/ runner' \in Runners /\ runner'.at = "get" /\ m_task_handle' = "set"
      OBVIOUS
    <2>1. \/ UNCHANGED <<runner, m_task_handle>>
          \/ runner' = [Nobody EXCEPT !.at = "get"] /\ m_task_handle' = "set"
      BY DEF Create
    <2> QED BY <1>1, <2>1
  <1>5. GetInput => /\ runner' \in Runners /\ runner'.at = "test"
                    /\ m_type = "worker" => runner'.input = Head(input_queue)
    <2> SUFFICES ASSUME GetInput
                 PROVE  /\ runner' \in Runners /\ runner'.at = "test"
                        /\ m_type = "worker" => runner'.input = Head(input_queue)
      OBVIOUS
    <2>1. CASE m_type = "worker"
      <3>1. input_queue # <<>> /\ runner' = [at |-> "test", input |-> Head(input_queue)]
        BY <2>1 DEF GetInput
      <3>2. Head(input_queue) \in Inputs
        BY <3>1, HeadTailProperties DEF TaskQueuesOK
      <3> QED BY <3>1, <3>2 DEF Runners
    <2>2. CASE m_type # "worker"
      BY <2>2, TaskSizes DEF GetInput, Runners
    <2> QED BY <2>1, <2>2
  <1>6. TestFlag => /\ runner' \in Runners
                    /\ IF Tested THEN runner'.at = "leave"
                       ELSE runner'.at = "put" /\ runner'.input = runner.input
    <2>1. CASE Tested
      BY <1>1, <2>1 DEF TestFlag
    <2>2. CASE ~Tested
      BY <1>3, <2>2 DEF TestFlag
    <2> QED BY <2>1, <2>2
  <1>7. PutOutput => runner' \in Runners /\ runner'.at = "get"
    BY <1>1 DEF PutOutput
  <1>8. NotifyEnd => runner' \in Runners /\ runner'.at = "none"
    BY <1>2 DEF NotifyEnd
  <1> QED BY <1>4, <1>5, <1>6, <1>7, <1>8

LEMMA TaskNextRunner ==
  ASSUME runner \in Runners, TaskQueuesOK, [TaskNext]_taskVars
  PROVE  runner' \in Runners
  <1>1. CASE UNCHANGED runner
    BY <1>1
  <1>2. CASE Create \/ RunnerStep
    BY <1>1, <1>2, RunnerStepsTo DEF RunnerStep
  <1>3. CASE SetState \/ Terminate \/ OwnerStep \/ SetInputData \/ GetOutputData
    BY <1>1, <1>3
       DEF SetState, Terminate, OwnerStep, WakeWorker, TakeEnd, SetInputData, GetOutputData
  <1> QED BY <1>1, <1>2, <1>3 DEF taskVars, TaskNext

LEMMA TaskNextQueues ==
  ASSUME TaskPlacesOK, runner \in Runners, TaskQueuesOK, [TaskNext]_taskVars
  PROVE  TaskQueuesOK'
  <1> USE DEF TaskQueuesOK, queues, taskGhosts
  <1>e. <<>> \in Seq(Inputs) /\ Len(<<>>) = 0 /\ INPUT_SIZE \in Nat /\ OUTPUT_SIZE \in Nat
    BY TaskSizes, EmptySeq
  <1>l. Len(input_queue) \in Nat /\ Len(output_queue) \in Nat /\ runner.input \in Inputs
    BY DEF Runners
  <1>1. CASE UNCHANGED taskVars
    BY <1>1 DEF taskVars
  <1>2. CASE Create
    BY <1>2, <1>e DEF Create
  <1>3. CASE SetState \/ Terminate \/ TakeEnd \/ NotifyEnd
    BY <1>3 DEF SetState, Terminate, TakeEnd, NotifyEnd
  <1>4. CASE WakeWorker
    <2>1. CASE Len(input_queue) < INPUT_SIZE
      <3>1. input_queue' = Append(input_queue, NoInput)
        BY <1>4, <2>1 DEF WakeWorker
      <3>2. input_queue' \in Seq(Inputs) /\ Len(input_queue') = Len(input_queue) + 1
        BY <3>1, TaskSizes, AppendProperties
      <3> QED BY <1>4, <1>e, <1>l, <2>1, <3>2 DEF WakeWorker
    <2>2. CASE ~(Len(input_queue) < INPUT_SIZE)
      BY <1>4, <2>2 DEF WakeWorker
    <2> QED BY <2>1, <2>2
  <1>5. CASE SetInputData
    <2>1. inputs + 1 \in Inputs
      BY <1>5, TaskSizes DEF SetInputData, TaskPlacesOK
    <2>2. input_queue' \in Seq(Inputs) /\ Len(input_queue') = Len(input_queue) + 1
      BY <1>5, <2>1, AppendProperties DEF SetInputData
    <2> QED BY <1>5, <1>e, <1>l, <2>2 DEF SetInputData
  <1>6. CASE GetOutputData
    <2>1. /\ Head(output_queue) \in Inputs /\ Tail(output_queue) \in Seq(Inputs)
          /\ Len(Tail(output_queue)) = Len(output_queue) - 1
      BY <1>6, HeadTailProperties DEF GetOutputData
    <2>2. results' \in Seq(Inputs)
      BY <1>6, <2>1, AppendProperties DEF GetOutputData
    <2> QED BY <1>6, <1>e, <1>l, <2>1, <2>2 DEF GetOutputData
  <1>7. CASE GetInput
    <2>1. CASE UNCHANGED input_queue
      BY <1>7, <2>1 DEF GetInput
    <2>2. CASE input_queue # <<>> /\ input_queue' = Tail(input_queue)
      <3>1. input_queue' \in Seq(Inputs) /\ Len(input_queue') = Len(input_queue) - 1
        BY <2>2, HeadTailProperties
      <3> QED BY <1>7, <1>e, <1>l, <3>1 DEF GetInput
    <2> QED BY <1>7, <2>1, <2>2 DEF GetInput
  <1>8. CASE TestFlag
    <2>1. Append(served, runner.input) \in Seq(Inputs)
      BY <1>l, AppendProperties
    <2> QED BY <1>8, <2>1 DEF TestFlag
  <1>9. CASE PutOutput
    <2>1. output_queue' \in Seq(Inputs) /\ Len(output_queue') = Len(output_queue) + 1
      BY <1>9, <1>l, AppendProperties DEF PutOutput
    <2> QED BY <1>9, <1>e, <1>l, <2>1 DEF PutOutput, Room
  <1> QED
    BY <1>1, <1>2, <1>3, <1>4, <1>5, <1>6, <1>7, <1>8, <1>9 DEF TaskNext, OwnerStep, RunnerStep

LEMMA TaskNextEndings ==
  ASSUME TaskPlacesOK, runner \in Runners, TaskQueuesOK, Endings, NotYetCreated,
         [TaskNext]_taskVars
  PROVE  Endings' /\ NotYetCreated'
  <1> USE RunnerStepsTo DEF Endings, OneTaskAtMost, NotYetCreated, TaskPlacesOK, queues, taskGhosts
  <1>1. CASE UNCHANGED taskVars
    BY <1>1 DEF taskVars
  <1>2. CASE Create
    <2>1. /\ m_task_handle = "null" /\ owner_at = "idle" /\ owner_at' = "idle"
          /\ owner_notified' = owner_notified /\ creates' = creates + 1
      BY <1>2 DEF Create
    <2>2. runner.at = "none" /\ ~owner_notified /\ creates' # 0
      BY <2>1, TaskSizes
    <2>3. \/ UNCHANGED <<runner, m_task_handle>>
          \/ runner'.at = "get" /\ m_task_handle' = "set"
      BY <1>2
    <2> QED BY <2>1, <2>2, <2>3
  <1>3. CASE SetState
    BY <1>3 DEF SetState
  <1>4. CASE Terminate
    BY <1>4 DEF Terminate
  <1>5. CASE WakeWorker
    BY <1>5 DEF WakeWorker
  <1>6. CASE TakeEnd
    BY <1>6 DEF TakeEnd, Notified
  <1>7. CASE SetInputData
    BY <1>7 DEF SetInputData
  <1>8. CASE GetOutputData
    BY <1>8 DEF GetOutputData
  <1>9. CASE GetInput
    BY <1>9 DEF GetInput, Runner
  <1>10. CASE TestFlag
    BY <1>10 DEF TestFlag, Tested, Runner
  <1>11. CASE PutOutput
    BY <1>11 DEF PutOutput, Runner
  <1>12. CASE NotifyEnd
    BY <1>12 DEF NotifyEnd, Runner
  <1> QED
    BY <1>1, <1>2, <1>3, <1>4, <1>5, <1>6, <1>7, <1>8, <1>9, <1>10, <1>11, <1>12
       DEF TaskNext, OwnerStep, RunnerStep

\* Nothing but the queues of inputs and outputs matters to the order.
LEMMA TaskNextFirstLife ==
  ASSUME TaskPlacesOK, runner \in Runners, TaskQueuesOK, Endings, NotYetCreated, FirstLife,
         [TaskNext]_taskVars
  PROVE  FirstLife'
  <1> SUFFICES ASSUME creates' = 1, m_type' = "worker", m_task_handle' = "set",
                      ~m_task_terminate'
               PROVE  /\ (Latest((served \o Within("test")) \o input_queue))'
                      /\ ((results \o output_queue) \o Within("put") = served)'
    BY DEF FirstLife
  <1> DEFINE given == (served \o Within("test")) \o input_queue
             got == (results \o output_queue) \o Within("put")
  <1>t. /\ served \in Seq(Inputs) /\ results \in Seq(Inputs)
        /\ input_queue \in Seq(Inputs) /\ output_queue \in Seq(Inputs)
        /\ runner.input \in Inputs /\ <<runner.input>> \in Seq(Inputs)
        /\ inputs \in Inputs
    BY DEF TaskQueuesOK, Runners, TaskPlacesOK
  <1>1. CASE Create
    <2>1. creates = 0 /\ m_task_handle = "null"
      BY <1>1, TaskSizes DEF Create, TaskPlacesOK
    <2>2. /\ served' = <<>> /\ results' = <<>> /\ input_queue' = <<>> /\ output_queue' = <<>>
      BY <1>1, <2>1 DEF Create, NotYetCreated
    <2>3. runner'.at = "get"
      BY <1>1, <2>1, RunnerStepsTo
    <2>4. Within("test")' = <<>> /\ Within("put")' = <<>>
      BY <2>3 DEF Within
    <2>5. (<<>> \o <<>>) \o <<>> = <<>> /\ Len(<<>>) = 0
      BY ConcatEmptySeq, EmptySeq
    <2> QED BY <2>2, <2>4, <2>5 DEF Latest
  <1> SUFFICES ASSUME ~Create
               PROVE  /\ (Latest((served \o Within("test")) \o input_queue))'
                      /\ ((results \o output_queue) \o Within("put") = served)'
    BY <1>1
  <1>2. /\ creates = 1 /\ m_type = "worker" /\ m_task_handle = "set" /\ ~m_task_terminate
        /\ UNCHANGED m_type
    BY DEF taskVars, TaskNext, OwnerStep, RunnerStep, SetState, Terminate, WakeWorker, TakeEnd,
           SetInputData, GetOutputData, GetInput, TestFlag, PutOutput, NotifyEnd, taskGhosts,
           queues
  <1>3. Latest(given) /\ got = served
    BY <1>2 DEF FirstLife
  <1>4. CASE UNCHANGED <<served, results, input_queue, output_queue, runner, inputs>>
    BY <1>3, <1>4 DEF Latest, Within
  <1>5. CASE SetInputData
    <2>1. /\ inputs' = inputs + 1 /\ input_queue' = Append(input_queue, inputs + 1)
          /\ UNCHANGED <<served, results, output_queue, runner>> /\ inputs + 1 \in Inputs
      BY <1>5, <1>t, TaskSizes DEF SetInputData
    <2>2. Within("test")' = Within("test") /\ Within("put")' = Within("put")
      BY <2>1 DEF Within
    <2>3. served \o Within("test") \in Seq(Inputs)
      BY <1>t, ConcatProperties, EmptySeq DEF Within
    <2>4. given' = given \o <<inputs + 1>>
      BY <1>t, <2>1, <2>2, <2>3, AppendedLast
    <2>5. given \in Seq(Inputs) /\ given' = Append(given, inputs + 1)
      BY <1>t, <2>1, <2>3, <2>4, ConcatProperties, AppendIsConcat
    <2> HIDE DEF given
    <2>6. /\ Len(given') = Len(given) + 1 /\ Len(given) \in Nat /\ inputs \in Int
          /\ given'[Len(given) + 1] = inputs + 1
          /\ \A i \in 1 .. Len(given) : given'[i] = given[i]
      BY <1>t, <2>1, <2>5, AppendProperties, TaskSizes
    <2>7. \A i \in 1 .. Len(given') : given'[i] = inputs' - (Len(given') - i)
      <3> SUFFICES ASSUME NEW i \in 1 .. Len(given')
                   PROVE  given'[i] = inputs' - (Len(given') - i)
        OBVIOUS
      <3>1. CASE i = Len(given) + 1
        BY <2>1, <2>6, <3>1
      <3>2. CASE i # Len(given) + 1
        <4>1. i \in 1 .. Len(given)
          BY <2>6, <3>2
        <4>2. given[i] = inputs - (Len(given) - i)
          BY <1>3, <4>1 DEF Latest
        <4> QED BY <2>1, <2>6, <4>1, <4>2
      <3> QED BY <3>1, <3>2
    <2> QED BY <1>3, <2>1, <2>2, <2>7 DEF given, Latest
  <1>6. CASE GetOutputData
    <2>1. /\ output_queue # <<>> /\ results' = Append(results, Head(output_queue))
          /\ output_queue' = Tail(output_queue)
          /\ UNCHANGED <<served, input_queue, runner, inputs>>
      BY <1>6 DEF GetOutputData
    <2>2. Head(output_queue) \in Inputs
      BY <1>t, <2>1, HeadTailProperties
    <2>3. Append(results, Head(output_queue)) = results \o <<Head(output_queue)>>
      BY <1>t, <2>2, AppendIsConcat
    <2>4. Append(results, Head(output_queue)) \o Tail(output_queue) = results \o output_queue
      BY <1>t, <2>1, <2>3, TakenIsMoved
    <2> QED BY <1>3, <2>1, <2>4 DEF Latest, Within
  <1>7. CASE GetInput
    <2>1. /\ runner.at = "get" /\ runner'.at = "test" /\ runner'.input = Head(input_queue)
          /\ input_queue # <<>> /\ input_queue' = Tail(input_queue)
          /\ UNCHANGED <<served, results, output_queue, inputs>>
      BY <1>2, <1>7, RunnerStepsTo DEF GetInput, Runner, taskGhosts
    <2>2. /\ Within("test") = <<>> /\ Within("test")' = <<Head(input_queue)>>
          /\ Within("put") = <<>> /\ Within("put")' = <<>>
      BY <2>1 DEF Within
    <2>m. (served \o <<Head(input_queue)>>) \o Tail(input_queue) = served \o input_queue
      BY <1>t, <2>1, TakenIsMoved
    <2>s. served \o <<>> = served
      BY <1>t, ConcatEmptySeq
    <2>3. given' = given
      BY <2>1, <2>2, <2>m, <2>s
    <2> QED BY <1>3, <2>1, <2>2, <2>3 DEF Latest
  <1>8. CASE TestFlag
    <2>1. /\ runner.at = "test" /\ runner'.at = "put" /\ runner'.input = runner.input
          /\ served' = Append(served, runner.input)
          /\ UNCHANGED <<results, output_queue, input_queue, inputs>>
      BY <1>2, <1>8, RunnerStepsTo DEF TestFlag, Tested, Runner, queues
    <2>2. /\ Within("test") = <<runner.input>> /\ Within("test")' = <<>>
          /\ Within("put") = <<>> /\ Within("put")' = <<runner.input>>
      BY <2>1 DEF Within
    <2>3. /\ Append(served, runner.input) = served \o <<runner.input>>
          /\ served \o <<runner.input>> \in Seq(Inputs)
          /\ (served \o <<runner.input>>) \o <<>> = served \o <<runner.input>>
      BY <1>t, AppendIsConcat, ConcatEmptySeq, ConcatProperties
    <2>4. given' = given
      BY <2>1, <2>2, <2>3
    <2>5. results \o output_queue = served
      <3>1. (results \o output_queue) \o <<>> = results \o output_queue
        BY <1>t, ConcatProperties, ConcatEmptySeq
      <3> QED BY <1>3, <2>2, <3>1
    <2> QED BY <1>3, <2>1, <2>2, <2>3, <2>4, <2>5 DEF Latest
  <1>9. CASE PutOutput
    <2>1. /\ runner.at = "put" /\ runner'.at = "get"
          /\ output_queue' = Append(output_queue, runner.input)
          /\ UNCHANGED <<served, results, input_queue, inputs>>
      BY <1>9, RunnerStepsTo DEF PutOutput, Runner, taskGhosts
    <2>2. /\ Within("test") = <<>> /\ Within("test")' = <<>>
          /\ Within("put") = <<runner.input>> /\ Within("put")' = <<>>
      BY <2>1 DEF Within
    <2>a. results \o Append(output_queue, runner.input)
            = (results \o output_queue) \o <<runner.input>>
      BY <1>t, AppendedLast
    <2>3. results \o Append(output_queue, runner.input) = got
      BY <2>2, <2>a
    <2>4. (results \o Append(output_queue, runner.input)) \o <<>> = served
      BY <1>t, <1>3, <2>3, ConcatEmptySeq
    <2> QED BY <1>3, <2>1, <2>2, <2>4 DEF Latest
  <1>10. CASE SetState \/ Terminate \/ OwnerStep \/ NotifyEnd
    <2>1. ~WakeWorker /\ ~TakeEnd /\ ~Terminate /\ ~NotifyEnd
      BY <1>2, RunnerStepsTo DEF WakeWorker, TakeEnd, Terminate, NotifyEnd, Runner, Endings
    <2> QED BY <1>4, <1>10, <2>1 DEF OwnerStep, SetState, queues, taskGhosts
  <1> QED
    BY <1>4, <1>5, <1>6, <1>7, <1>8, <1>9, <1>10
       DEF taskVars, TaskNext, RunnerStep, queues, taskGhosts

LEMMA TaskNextInv == TaskInv /\ [TaskNext]_taskVars => TaskInv'
  <1> SUFFICES ASSUME TaskInv, [TaskNext]_taskVars PROVE TaskInv'
    OBVIOUS
  <1>1. TaskPlacesOK /\ runner \in Runners /\ TaskQueuesOK
    BY TaskTypes DEF TaskInv
  <1>2. TaskPlacesOK' /\ runner' \in Runners /\ TaskQueuesOK'
    BY <1>1, TaskNextPlaces, TaskNextRunner, TaskNextQueues
  <1>3. TaskTypeOK'
    BY <1>2 DEF TaskTypeOK, TaskPlacesOK, Runners, RunnerPlaces, TaskQueuesOK, Inputs
  <1>4. Endings' /\ NotYetCreated' /\ FirstLife'
    BY <1>1, TaskNextEndings, TaskNextFirstLife DEF TaskInv
  <1> QED BY <1>3, <1>4 DEF TaskInv

-----------------------------------------------------------------------------
(* All of them, as the run has them                                         *)

EspInv == TaskInv /\ PinInv /\ RxInv /\ TxInv /\ SpiInv /\ IicInv

\* Each part takes its own steps, and stays as it is while another part runs.
THEOREM EspInvariant == EspSpec => []EspInv
  <1>1. EspInit => EspInv
    BY TaskInitInv, PinInitInv, RxInitInv, TxInitInv, SpiInitInv, IicInitInv DEF EspInit, EspInv
  <1>2. EspInv /\ [EspNext]_allVars => EspInv'
    <2> SUFFICES ASSUME EspInv, [EspNext]_allVars PROVE EspInv'
      OBVIOUS
    <2>1. /\ [TaskNext]_taskVars /\ [PinNext]_pinVars /\ [RxNext]_rxVars
          /\ [TxNext]_txVars /\ [SpiNext]_spiVars /\ [IicNext]_iicVars
      BY DEF EspNext, TaskRuns, PinRuns, RxRuns, TxRuns, SpiRuns, IicRuns, Runs,
             NotTask, NotPin, NotRx, NotTx, NotSpi, NotIic, allVars
    <2> QED
      BY <2>1, TaskNextInv, PinNextInv, RxNextInv, TxNextInv, SpiNextInv, IicNextInv DEF EspInv
  <1> QED BY <1>1, <1>2, PTL DEF EspSpec

\* Every variable of the drivers for the ESP32 has its type.
THEOREM EspTypes == EspSpec => []TypeOK
  <1>1. EspInv => TypeOK
    BY DEF EspInv, TaskInv, PinInv, RxInv, TxInv, SpiInv, IicInv, TypeOK
  <1> QED BY <1>1, EspInvariant, PTL

\* Whoever was told that a task, or the callbacks of a pin, have ended never sees
\* it run again (idf_freertos_worker_task.tpp's terminate, dio.cpp's
\* enableCallback), for queues of every size and whatever is called in between.
THEOREM NothingRunsAfterItsEnd == EspSpec => []NothingRunsAfterEnd
  <1>1. EspInv => NothingRunsAfterEnd
    BY DEF EspInv, TaskInv, Endings, PinInv, PinStages, NothingRunsAfterEnd
  <1> QED BY <1>1, EspInvariant, PTL

\* In the first life of a task each input is served once and in order, with its
\* output got in the same order: what was served, taken and put are the last
\* inputs up to the latest.
LEMMA TaskServesInOrder == TaskInv => ServedInOrder
  <1> SUFFICES ASSUME TaskInv, creates = 1, m_type = "worker", m_task_handle = "set",
                      ~m_task_terminate
               PROVE  /\ \A i \in 1 .. Len((served \o Within("test")) \o input_queue) - 1 :
                           ((served \o Within("test")) \o input_queue)[i + 1] =
                             ((served \o Within("test")) \o input_queue)[i] + 1
                      /\ (results \o output_queue) \o Within("put") = served
    BY DEF ServedInOrder
  <1>1. TaskPlacesOK /\ runner \in Runners /\ TaskQueuesOK
    BY TaskTypes DEF TaskInv
  <1>2. (served \o Within("test")) \o input_queue \in Seq(Inputs)
    <2>1. Within("test") \in Seq(Inputs)
      BY <1>1, EmptySeq DEF Within, Runners
    <2> QED BY <1>1, <2>1, ConcatProperties DEF TaskQueuesOK
  <1>3. /\ Latest((served \o Within("test")) \o input_queue)
        /\ (results \o output_queue) \o Within("put") = served
    BY DEF TaskInv, FirstLife
  <1>4. inputs \in Inputs
    BY <1>1 DEF TaskPlacesOK
  <1> QED BY <1>2, <1>3, <1>4, LatestIsInOrder

\* What a task is given it answers in order, the callback of a pin is told the
\* level there was, and a status that says a transfer ended is true: the caller's
\* buffer is not touched any more (uart.cpp's rxEventTask and txMonitorTask).
THEOREM WhatIsToldIsRight == EspSpec => []ToldRight
  <1>1. TaskInv => ServedInOrder
    BY TaskServesInOrder
  <1>2. PinInv => LevelTold
    BY DEF PinInv, LevelOnItsWay, LevelTold
  <1>3. RxInv => BufferBelongsToCaller
    BY DEF RxInv, BufferOfRunningRead, BufferBelongsToCaller
  <1>4. TxInv => EndedHasLeft
    BY DEF TxInv, OnlyTheLastWrite, EndedHasLeft
  <1>5. EspInv => ToldRight
    BY <1>1, <1>2, <1>3, <1>4 DEF EspInv, ToldRight
  <1> QED BY <1>5, EspInvariant, PTL

\* Objects that share a bus, or the library's driver of a port, do not get in
\* each other's way, whatever the other parts do.
THEOREM BusesAreShared == EspSpec => []BusIsShared
  <1>1. SpiInv => OneSelected /\ SlotsAreReturned
    BY SpiIsSharedNow
  <1>2. EspInv => BusIsShared
    BY <1>1 DEF EspInv, IicInv, BusIsShared
  <1> QED BY <1>2, EspInvariant, PTL
=============================================================================
