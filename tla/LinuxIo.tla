-------------------------------- MODULE LinuxIo --------------------------------
(***************************************************************************)
(* The reads with a timeout of drivers/linux/utils/linux_io.cpp: the       *)
(* functions readOnTimeoutSyscall, readOnTimeoutSyscall2 and               *)
(* readOnTimeoutSyscall3, which gather up to cnt bytes of a file           *)
(* descriptor while a peer sends more.  LinuxSerialFile reads with the     *)
(* first, the UART driver with the first or the third.                     *)
(*                                                                         *)
(* A byte is not told from another, and time is what the caller can see of *)
(* it: elapsed counts the milliseconds since start, up to the timeout.     *)
(***************************************************************************)
EXTENDS Integers

CONSTANTS
  Timeout,      \* timeout_ms
  MaxCount,     \* bound: bytes asked for
  MaxArrivals   \* bound: bytes the peer sends

ASSUME LinuxIoAssumption ==
  Timeout \in Nat \ {0} /\ MaxCount \in Nat \ {0} /\ MaxArrivals \in Nat

VARIABLES
  io_function,  \* 1, 2 or 3: which of the functions runs
  io_at,        \* where it is
  cnt,          \* bytes asked for
  bytes_read,   \* bytes put into the buffer so far, -1 after an error
  byte_count,   \* bytes the next system call is asked for
  available,    \* bytes the kernel holds for the descriptor
  arrivals,     \* bytes the peer can still send
  elapsed       \* milliseconds since start

ioVars == <<io_function, io_at, cnt, bytes_read, byte_count, available, arrivals, elapsed>>

IoInit ==
  /\ io_function \in 1 .. 3
  /\ io_at = IF io_function = 2 THEN "sleep" ELSE "poll"
  /\ cnt \in 1 .. MaxCount
  /\ bytes_read = 0 /\ byte_count = 0 /\ elapsed = 0
  /\ available \in 0 .. MaxArrivals /\ arrivals = MaxArrivals - available

-----------------------------------------------------------------------------
(* The peer sends a byte; time passes.                                      *)
Arrive ==
  /\ arrivals > 0
  /\ arrivals' = arrivals - 1 /\ available' = available + 1
  /\ UNCHANGED <<io_function, io_at, cnt, bytes_read, byte_count, elapsed>>

Tick ==
  /\ elapsed < Timeout
  /\ elapsed' = elapsed + 1
  /\ UNCHANGED <<io_function, io_at, cnt, bytes_read, byte_count, available, arrivals>>

-----------------------------------------------------------------------------
\* Mutant: the timeout never ends the wait.
NoWaitEnds == io_function = 3
\* The first function waits for its first byte without an end: UINT32_MAX is
\* -1 for poll.
WaitEnds == io_function = 3 \/ bytes_read > 0

Poll ==
  /\ io_at = "poll"
  /\ \/ available > 0 /\ io_at' = "count" /\ UNCHANGED bytes_read
     \/ available = 0 /\ WaitEnds /\ elapsed = Timeout /\ io_at' = "returned" /\ UNCHANGED bytes_read
  /\ UNCHANGED <<io_function, cnt, byte_count, available, arrivals, elapsed>>

\* poll tells at any time that the peer hung up, or fails: nobody may rely on it.
PollBreaks ==
  /\ io_at = "poll"
  /\ \/ available = 0 /\ io_at' = "count" /\ UNCHANGED bytes_read   \* hung up
     \/ io_at' = "returned" /\ bytes_read' = -1
  /\ UNCHANGED <<io_function, cnt, byte_count, available, arrivals, elapsed>>

\* What bytesAvailableSyscall may return: the bytes there are, or, since it does
\* not look whether FIONREAD failed, whatever its local held (bound: -1 for all
\* that is negative, and no more than the peer sends).
ByteCounts == -1 .. MaxArrivals

\* Mutant: everything counted is read.
Unclamped(count) == count
\* What is left of the buffer, at most.
Clamped(count) == IF count > cnt - bytes_read THEN cnt - bytes_read ELSE count

\* The bytes are counted, and if there are some the time begins again.
CountAvailable ==
  /\ io_at = "count"
  /\ \E count \in ByteCounts :
       \/ /\ count > 0 /\ io_at' = "read"
          /\ byte_count' = Clamped(count) /\ elapsed' = 0
          /\ UNCHANGED bytes_read
       \/ /\ count = 0 /\ io_at' = "test"
          /\ UNCHANGED <<byte_count, elapsed, bytes_read>>
       \/ /\ count < 0 /\ io_at' = "returned"
          /\ bytes_read' = -1 /\ UNCHANGED <<byte_count, elapsed>>
  /\ UNCHANGED <<io_function, cnt, available, arrivals>>

\* readOnTimeoutSyscall2: a sleep is over; the bytes there are counted, and
\* enough of them, an error, or the end of the time, ends the wait.
Sleep ==
  /\ io_at = "sleep"
  /\ \E count \in ByteCounts :
       /\ count < 0 \/ count >= cnt \/ elapsed = Timeout
       /\ byte_count' = IF count > 0 THEN count ELSE byte_count
       /\ io_at' = IF count > 0 THEN "read" ELSE "returned"
       /\ bytes_read' = IF count < 0 THEN -1 ELSE bytes_read
  /\ UNCHANGED <<io_function, cnt, available, arrivals, elapsed>>

\* read reports what it moved, or an error; asked for nothing, or finding nothing
\* (both drivers open with VMIN and VTIME 0), it moves nothing.
Read ==
  /\ io_at = "read"
  /\ \/ \E n \in 0 .. byte_count :
          /\ n <= available
          /\ n = 0 => byte_count = 0 \/ available = 0
          /\ bytes_read' = bytes_read + n
          /\ available' = available - n
          /\ io_at' = IF io_function = 2 THEN "returned" ELSE "test"
     \/ io_at' = "returned" /\ bytes_read' = -1 /\ UNCHANGED available
  /\ UNCHANGED <<io_function, cnt, byte_count, arrivals, elapsed>>

\* The third function goes on with a full buffer.
More == elapsed < Timeout /\ (io_function = 1 => bytes_read < cnt)

IoTest ==
  /\ io_at = "test"
  /\ io_at' = IF More THEN "poll" ELSE "returned"
  /\ UNCHANGED <<io_function, cnt, bytes_read, byte_count, available, arrivals, elapsed>>

IoStep == Poll \/ CountAvailable \/ Sleep \/ Read \/ IoTest

IoNext == Arrive \/ Tick \/ IoStep \/ PollBreaks

IoSpec == IoInit /\ [][IoNext]_ioVars

\* The thread runs and time passes; the peer need not send anything.
IoFairSpec == IoSpec /\ WF_ioVars(IoStep) /\ WF_ioVars(Tick)

-----------------------------------------------------------------------------
(***************************************************************************)
(* Properties                                                              *)
(***************************************************************************)
\* Every variable has its type.
IoTypeOK ==
  /\ io_function \in 1 .. 3 /\ cnt \in 1 .. MaxCount
  /\ io_at \in {"poll", "count", "sleep", "read", "test", "returned"}
  /\ bytes_read \in -1 .. MaxArrivals /\ byte_count \in 0 .. MaxArrivals
  /\ available \in 0 .. MaxArrivals /\ arrivals \in 0 .. MaxArrivals
  /\ elapsed \in 0 .. Timeout

\* Neither the first function nor the third writes behind the buffer: the bytes
\* gathered and the bytes the next read is asked for fit in it.  (The second
\* one reads whatever is available.)
NeverOverfills ==
  io_function # 2 =>
    bytes_read + (IF io_at = "read" THEN byte_count ELSE 0) <= cnt

\* A read goes after bytes that are not there, which FIONREAD told of by failing.
Misled == io_at = "read" /\ byte_count > 0 /\ available = 0

\* "timeout_ms Max. time to wait for data": a read comes to its end, unless
\* it is misled, which gives it its time again.
ReadReturns == <>(io_at = "returned" \/ Misled)

\* It does, when its first byte has come, in the first function, and when no
\* more is sent than it asked for, in the third; unless behind a hang-up it is
\* misled again and again.
ReadOfEnoughReturns ==
  (\/ io_function = 1 /\ bytes_read > 0
   \/ io_function = 2
   \/ io_function = 3 /\ bytes_read + available + arrivals <= cnt)
    ~> (io_at = "returned" \/ Misled)
=============================================================================
