-------------------------------- MODULE MCParts --------------------------------
(***************************************************************************)
(* The parts that work alone, for TLC: part says which one a behaviour is  *)
(* of, and the others stay as they began.                                  *)
(***************************************************************************)
EXTENDS LinuxQueue, LinuxIo, LinuxDio, PicoDio, Pit, Spt, Locks, StdInOut, DioOutput, TLC

CONSTANTS p1, c1, a

OneProducer == {p1}
OneConsumer == {c1}
OneItem == {a}

VARIABLE part

queueVars == vars
notQueue == <<ioVars, dioVars, picoVars, pitVars, sptVars, lockVars, stdVars, outVars>>
notIo == <<queueVars, dioVars, picoVars, pitVars, sptVars, lockVars, stdVars, outVars>>
notDio == <<queueVars, ioVars, picoVars, pitVars, sptVars, lockVars, stdVars, outVars>>
notPico == <<queueVars, ioVars, dioVars, pitVars, sptVars, lockVars, stdVars, outVars>>
notPit == <<queueVars, ioVars, dioVars, picoVars, sptVars, lockVars, stdVars, outVars>>
notSpt == <<queueVars, ioVars, dioVars, picoVars, pitVars, lockVars, stdVars, outVars>>
notLocks == <<queueVars, ioVars, dioVars, picoVars, pitVars, sptVars, stdVars, outVars>>
notTerminal == <<queueVars, ioVars, dioVars, picoVars, pitVars, sptVars, lockVars, outVars>>
notOutput == <<queueVars, ioVars, dioVars, picoVars, pitVars, sptVars, lockVars, stdVars>>
allVars == <<part, queueVars, notQueue>>

Parts == {"queue", "io", "dio", "pico", "pit", "spt", "locks", "terminal", "output"}

\* A part that does not run begins in one of its initial states.
PartsInit ==
  /\ part \in Parts
  /\ Init /\ IoInit /\ DioInit /\ PicoInit /\ PitInit /\ SptInit /\ LocksInit
  /\ StdInit /\ OutInit
  /\ part # "io" => (io_function = 1 /\ cnt = 1 /\ available = 0)
  /\ part # "dio" => m_thread = "null"
  /\ part # "output" => (platform = "linux" /\ ~output)
  /\ part # "pit" => counter = 0
  /\ part # "pico" => \A d \in Dios : m_line_number[d] = CHOOSE l \in Lines : TRUE

Runs(p, others) == part = p /\ UNCHANGED <<part, others>>

QueueRuns == Next /\ Runs("queue", notQueue)
IoRuns == IoNext /\ Runs("io", notIo)
DioRuns == DioNext /\ Runs("dio", notDio)
PicoRuns == PicoNext /\ Runs("pico", notPico)
PitRuns == PitNext /\ Runs("pit", notPit)
SptRuns == SptNext /\ Runs("spt", notSpt)
LocksRun == LocksNext /\ Runs("locks", notLocks)
TerminalRuns == StdNext /\ Runs("terminal", notTerminal)
OutputRuns == OutNext /\ Runs("output", notOutput)

PartsNext ==
  \/ QueueRuns \/ IoRuns \/ DioRuns \/ PicoRuns \/ PitRuns \/ SptRuns \/ LocksRun
  \/ TerminalRuns \/ OutputRuns

\* Threads run and time passes; nobody has to call, and nothing has to arrive.
PartsSpec ==
  /\ PartsInit /\ [][PartsNext]_allVars
  /\ WF_allVars(IoStep /\ Runs("io", notIo)) /\ WF_allVars(Tick /\ Runs("io", notIo))
  /\ WF_allVars(ListenerStep /\ Runs("dio", notDio))
  /\ WF_allVars(CallerStep /\ Runs("dio", notDio))

-----------------------------------------------------------------------------
\* Every variable has its type.
TypeOK ==
  IoTypeOK /\ DioTypeOK /\ PicoTypeOK /\ PitTypeOK /\ SptTypeOK /\ LocksTypeOK
  /\ StdTypeOK /\ OutTypeOK

\* Nothing grows past its bound.  The older queue, whose put and get wait once,
\* goes wrong only when a thread is woken spuriously: then it takes an item from
\* an empty queue, or is filled beyond its maximum.  A read with a timeout never
\* puts more bytes in the caller's buffer than it has room for.
BoundsAreKept == PopsEmptyOnlyIfSpurious /\ OverflowNeedsSpuriousWakeUp /\ NeverOverfills

\* The pins: on Linux a callback is told the events in the order of the edges,
\* each once, and none after the callbacks were disabled; on the Pi Pico the
\* function of the object that owns the line is called; a toggle inverts.
PinsAreRight == EventsInOrder /\ QuietAfterDisable /\ CalledIfWanted /\ ToggleInverts

\* Neither of the timers tells its end before its time.
NeverEarly == PitNeverEarly /\ SptNeverEarly

\* What waits comes to its end: a read of the bytes that were sent, and the
\* disabling of a pin's callbacks.
WaitsEnd == ReadOfEnoughReturns /\ DisableReturns
=============================================================================
