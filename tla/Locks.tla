---------------------------------- MODULE Locks ----------------------------------
(***************************************************************************)
(* The lock of a peripheral, and the I2C driver that takes it.             *)
(*                                                                         *)
(* DrvCommBase::lock and unlock of                                         *)
(* interfaces/communication_base/drv_comm_base.cpp guard a peripheral with *)
(* a flag and, beside it and not in the same step, the key of its holder.  *)
(* The I2C driver of drivers/silabs/i2c/drv_i2c.cpp takes it with the      *)
(* address of a device as the key, tells with flags of its own that a      *)
(* transfer runs, and sets them again after it has given the lock back.    *)
(*                                                                         *)
(* A key here is an address of 8 bits, so two answers of lock and unlock   *)
(* are not met: INOUTSTREAM_MASTER_KEY (UINT32_MAX) is told success with   *)
(* nothing tested or taken, INOUTSTREAM_EMPTY_KEY is refused.  Neither     *)
(* changes a variable; whoever calls lock with the master key himself has  *)
(* no lock, and LockIsExclusive says nothing of him.                       *)
(***************************************************************************)
EXTENDS Integers

CONSTANTS
  Users,      \* the threads that use the I2C port
  Keys,       \* addresses of devices
  EmptyKey    \* INOUTSTREAM_EMPTY_KEY, which is no address

ASSUME LocksAssumption == EmptyKey \notin Keys

Directions == {"read", "write"}

VARIABLES
  mutex_key,     \* m_mutex.key
  mutex_lock,    \* m_mutex.lock
  done,          \* m_is_read_done and m_is_write_done
  is_operation_done,
  user           \* [at, direction, key] of each user

lockVars == <<mutex_key, mutex_lock, done, is_operation_done, user>>

Away == [at |-> "idle", direction |-> "read", key |-> EmptyKey]

LocksInit ==
  /\ mutex_key = EmptyKey /\ mutex_lock = FALSE
  /\ done = [d \in Directions |-> TRUE] /\ is_operation_done = TRUE
  /\ user = [u \in Users |-> Away]

-----------------------------------------------------------------------------
\* A call refused because the direction is busy changes nothing.
BeginI2c(u) ==
  /\ user[u].at = "idle"
  /\ \E d \in Directions, k \in Keys :
       /\ done[d]
       /\ user' = [user EXCEPT ![u] = [at |-> "compareKey", direction |-> d, key |-> k]]
  /\ UNCHANGED <<mutex_key, mutex_lock, done, is_operation_done>>

UserGoes(u, from, to) == user[u].at = from /\ user' = [user EXCEPT ![u].at = to]

\* lock: the key is held already, by this user or by another.
CompareKey(u) ==
  /\ IF mutex_key = user[u].key
       THEN user[u].at = "compareKey" /\ user' = [user EXCEPT ![u] = Away]
       ELSE UserGoes(u, "compareKey", "testAndSet")
  /\ UNCHANGED <<mutex_key, mutex_lock, done, is_operation_done>>

\* Mutant: the flag is looked at and not set.
TestThenSet(u) ==
  /\ IF mutex_lock
       THEN user[u].at = "testAndSet" /\ user' = [user EXCEPT ![u] = Away]
       ELSE UserGoes(u, "testAndSet", "storeKey")
  /\ UNCHANGED <<mutex_key, mutex_lock, done, is_operation_done>>

TestAndSet(u) ==
  /\ IF mutex_lock
       THEN user[u].at = "testAndSet" /\ user' = [user EXCEPT ![u] = Away]
       ELSE UserGoes(u, "testAndSet", "storeKey")
  /\ mutex_lock' = TRUE
  /\ UNCHANGED <<mutex_key, done, is_operation_done>>

StoreKey(u) ==
  /\ UserGoes(u, "storeKey", "start")
  /\ mutex_key' = user[u].key
  /\ UNCHANGED <<mutex_lock, done, is_operation_done>>

StartTransfer(u) ==
  /\ UserGoes(u, "start", "transfer")
  /\ done' = [done EXCEPT ![user[u].direction] = FALSE]
  /\ is_operation_done' = FALSE
  /\ UNCHANGED <<mutex_key, mutex_lock>>

\* The transfer ends, fails or is aborted when the time is over.
EndTransfer(u) ==
  /\ UserGoes(u, "transfer", "unlock")
  /\ UNCHANGED <<mutex_key, mutex_lock, done, is_operation_done>>

\* Mutant: unlock leaves the key.
KeepKey(u) ==
  /\ IF mutex_key = user[u].key
       THEN UserGoes(u, "unlock", "clear")
       ELSE UserGoes(u, "unlock", "tell")
  /\ UNCHANGED <<mutex_key, mutex_lock, done, is_operation_done>>

\* unlock: only the holder's key opens it.
ClearKey(u) ==
  /\ IF mutex_key = user[u].key
       THEN UserGoes(u, "unlock", "clear") /\ mutex_key' = EmptyKey
       ELSE UserGoes(u, "unlock", "tell") /\ UNCHANGED mutex_key
  /\ UNCHANGED <<mutex_lock, done, is_operation_done>>

ClearLock(u) ==
  /\ UserGoes(u, "clear", "tell")
  /\ mutex_lock' = FALSE
  /\ UNCHANGED <<mutex_key, done, is_operation_done>>

\* The flags of the driver are set when the lock may be another's already.
TellDone(u) ==
  /\ user[u].at = "tell"
  /\ user' = [user EXCEPT ![u] = Away]
  /\ done' = [done EXCEPT ![user[u].direction] = TRUE]
  /\ is_operation_done' = TRUE
  /\ UNCHANGED <<mutex_key, mutex_lock>>

I2cStep(u) ==
  \/ BeginI2c(u) \/ CompareKey(u) \/ TestAndSet(u) \/ StoreKey(u) \/ StartTransfer(u)
  \/ EndTransfer(u) \/ ClearKey(u) \/ ClearLock(u) \/ TellDone(u)

LocksNext == \E u \in Users : I2cStep(u)

LocksSpec == LocksInit /\ [][LocksNext]_lockVars

-----------------------------------------------------------------------------
(***************************************************************************)
(* Properties                                                              *)
(***************************************************************************)
\* Every variable has its type.
LocksTypeOK ==
  /\ mutex_key \in Keys \cup {EmptyKey} /\ mutex_lock \in BOOLEAN
  /\ done \in [Directions -> BOOLEAN] /\ is_operation_done \in BOOLEAN
  /\ user \in [Users -> [at : {"idle", "compareKey", "testAndSet", "storeKey", "start",
                               "transfer", "unlock", "clear", "tell"},
                         direction : Directions, key : Keys \cup {EmptyKey}]]

\* The users that have the port: from the flag taken to the flag given back.
Holds(u) == user[u].at \in {"storeKey", "start", "transfer", "unlock", "clear"}

\* One user at a time has the port, although the flag and the key change in
\* steps of their own and the users may have the same key.
LockIsExclusive == \A u, v \in Users : u # v => ~(Holds(u) /\ Holds(v))

\* Whatever order the users came and went in, the port is left free when they
\* are gone: no key or flag stays behind that would refuse everybody for good.
NothingLeftBehind ==
  (\A u \in Users : user[u] = Away) =>
    mutex_key = EmptyKey /\ ~mutex_lock /\ is_operation_done /\ \A d \in Directions : done[d]

\* The lock keeps one user out of the other's transfer and nobody out for good.
LockIsSound == LockIsExclusive /\ NothingLeftBehind
=============================================================================
