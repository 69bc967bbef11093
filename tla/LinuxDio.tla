------------------------------- MODULE LinuxDio -------------------------------
(***************************************************************************)
(* The callbacks of a digital input on Linux, drivers/linux/dio/dio.cpp: a *)
(* thread that waits for the edge events libgpiod queues for the line, and *)
(* an enableCallback that requests the events, starts the thread, or has   *)
(* it end and joins it.                                                    *)
(*                                                                         *)
(* The members are plain variables of both threads.  A call on a handle    *)
(* that was closed, or a second join of the thread, is the end of the      *)
(* process ("crashed"), as is a call of a function cleared since its test. *)
(***************************************************************************)
EXTENDS Integers, Sequences

CONSTANTS
  MaxEdges,      \* bound: times the pin changes
  MaxLineCalls,      \* bound: calls of the driver's functions
  MaxEvents      \* events libgpiod keeps for a line

ASSUME LinuxDioAssumption == MaxEdges \in Nat /\ MaxLineCalls \in Nat /\ MaxEvents \in Nat

DioEdges == {"rising", "falling"}

VARIABLES
  m_chip_handle,  \* "null", "open", or "closed" (and not null)
  m_line_handle,  \* "null", "plain", "events", or "released" (and not null)
  m_func,         \* "null" or "set"
  m_thread,       \* m_sync.thread: "null", "live", or "stale": joined, or never set
  m_terminate,    \* m_sync.terminate
  listener,       \* [at, edge]: the thread
  caller,         \* where the application is in the driver
  requested,      \* the edges the line was requested for
  events,         \* the events libgpiod keeps
  pin,            \* the level of the pin
  kept, told,     \* the events libgpiod ever kept, and those a callback got
  silent,         \* whether the thread ever found no function to call
  asked,          \* what the last enableCallback that returned asked for
  enables, disables, calls, edges

handles == <<m_chip_handle, m_line_handle>>
line == <<requested, events, pin, kept, edges>>
counters == <<enables, disables, calls>>
dioVars == <<handles, m_func, m_thread, m_terminate, listener, caller, line,
             told, silent, asked, counters>>

NoListener == [at |-> "none", edge |-> "none"]

\* The constructor leaves the pointer to the thread as it finds the memory: null
\* in static storage, anything elsewhere.
DioInit ==
  /\ m_chip_handle = "null" /\ m_line_handle = "null"
  /\ m_func = "null" /\ m_thread \in {"null", "stale"} /\ m_terminate = FALSE
  /\ listener = NoListener /\ caller = "idle"
  /\ requested = {} /\ events = <<>> /\ pin = FALSE
  /\ kept = <<>> /\ told = <<>> /\ silent = FALSE /\ asked = "never"
  /\ enables = 0 /\ disables = 0 /\ calls = 0 /\ edges = 0

\* The application calls a function of the driver.
Calls ==
  /\ caller = "idle"
  /\ calls < MaxLineCalls
  /\ calls' = calls + 1

-----------------------------------------------------------------------------
\* configure: it can fail to open the chip, to get the line or to request it.
\* (Bound: a pin that was configured is not configured again.)
Configure ==
  /\ Calls
  /\ m_line_handle \notin {"plain", "events"}
  /\ \/ m_chip_handle' = "open" /\ m_line_handle' = "plain"
     \/ m_chip_handle' = "closed" /\ m_line_handle' \in {"null", "released"}
     \/ m_chip_handle' = "null" /\ UNCHANGED m_line_handle
  /\ UNCHANGED <<m_func, m_thread, m_terminate, listener, caller, line, told, silent,
                 asked, enables, disables>>

SetCallback ==
  /\ Calls
  /\ m_func' \in {"null", "set"}
  /\ UNCHANGED <<handles, m_thread, m_terminate, listener, caller, line, told, silent,
                 asked, enables, disables>>

\* enableCallback with an edge: the line is released and its events are gone ...
EnableCallback ==
  /\ Calls
  /\ m_line_handle # "null" /\ m_chip_handle # "null"
  /\ enables' = enables + 1
  /\ IF m_chip_handle = "closed"
       THEN caller' = "crashed" /\ UNCHANGED <<m_line_handle, requested, events>>
       ELSE /\ caller' = "request"
            /\ m_line_handle' = "released"
            /\ requested' \in (SUBSET DioEdges) \ {{}}
            /\ events' = <<>>
  /\ UNCHANGED <<m_chip_handle, m_func, m_thread, m_terminate, listener, pin, edges, kept,
                 told, silent, asked, disables>>

\* ... it is requested again, and the thread is started if there was never one.
RequestLine ==
  /\ caller = "request"
  /\ caller' = "idle"
  /\ \/ /\ m_line_handle' = "events" /\ asked' = "on"
        /\ IF m_thread = "null"
             THEN m_thread' = "live" /\ listener' = [NoListener EXCEPT !.at = "test"]
             ELSE UNCHANGED <<m_thread, listener>>
     \/ UNCHANGED <<m_line_handle, asked, m_thread, listener>>
  /\ UNCHANGED <<m_chip_handle, m_func, m_terminate, line, told, silent, counters>>

\* Mutant: the thread is told to end and not waited for.
AfterSignal == "idle"
NextOfDisable == "join"

\* enableCallback(false), and with EVENT_NONE: the thread is told to end ...
DisableCallback ==
  /\ Calls
  /\ m_line_handle # "null" /\ m_chip_handle # "null"
  /\ disables' = disables + 1
  /\ IF m_thread = "null"
       THEN asked' = "off" /\ UNCHANGED <<m_terminate, caller>>
       ELSE /\ m_terminate' = TRUE
            /\ caller' = IF m_thread = "stale" THEN "crashed" ELSE NextOfDisable
            /\ asked' = IF caller' = "idle" THEN "off" ELSE asked
  /\ UNCHANGED <<handles, m_func, m_thread, listener, line, told, silent, enables>>

\* ... and joined; its pointer stays.
Join ==
  /\ caller = "join" /\ listener.at = "done"
  /\ caller' = "idle" /\ asked' = "off"
  /\ m_thread' = "stale" /\ listener' = NoListener
  /\ UNCHANGED <<handles, m_func, m_terminate, line, told, silent, counters>>

\* The destructor: the thread is told to end, ...
DioDestroy ==
  /\ Calls
  /\ IF m_thread = "null"
       THEN caller' = "release" /\ UNCHANGED m_terminate
       ELSE m_terminate' = TRUE /\ caller' = IF m_thread = "stale" THEN "crashed" ELSE "last join"
  /\ UNCHANGED <<handles, m_func, m_thread, listener, line, told, silent, asked,
                 enables, disables>>

\* ... joined ...
LastJoin ==
  /\ caller = "last join" /\ listener.at = "done"
  /\ caller' = "release"
  /\ m_thread' = "stale" /\ listener' = NoListener
  /\ UNCHANGED <<handles, m_func, m_terminate, line, told, silent, asked, counters>>

\* ... and line and chip are released, the chip perhaps for the second time.
Release ==
  /\ caller = "release"
  /\ caller' = IF m_chip_handle = "closed" THEN "crashed" ELSE "gone"
  /\ m_line_handle' = IF m_line_handle = "null" THEN "null" ELSE "released"
  /\ m_chip_handle' = IF m_chip_handle = "null" THEN "null" ELSE "closed"
  /\ events' = <<>>
  /\ UNCHANGED <<m_func, m_thread, m_terminate, listener, requested, pin, kept, edges, told,
                 silent, asked, counters>>

-----------------------------------------------------------------------------
\* The pin changes, and libgpiod keeps the event if it was asked for.
Edge ==
  /\ edges < MaxEdges
  /\ edges' = edges + 1
  /\ pin' = ~pin
  /\ LET e == IF pin THEN "falling" ELSE "rising" IN
       IF m_line_handle = "events" /\ e \in requested /\ Len(events) < MaxEvents
         THEN events' = Append(events, e) /\ kept' = Append(kept, e)
         ELSE UNCHANGED <<events, kept>>
  /\ UNCHANGED <<handles, m_func, m_thread, m_terminate, listener, caller, requested, told,
                 silent, asked, counters>>

\* Mutant: the flag is never seen.
NeverSeen == FALSE
Terminated == m_terminate

\* readAsyncThread: the flag is tested, and reset at the end.
ListenerTest ==
  /\ listener.at = "test"
  /\ IF Terminated
       THEN listener' = [listener EXCEPT !.at = "done"] /\ m_terminate' = FALSE
       ELSE listener' = [listener EXCEPT !.at = "wait"] /\ UNCHANGED m_terminate
  /\ UNCHANGED <<handles, m_func, m_thread, caller, line, told, silent,
                 asked, counters>>

\* The wait for an event ends with one, or without after 100 ms.
ListenerWait ==
  /\ listener.at = "wait"
  /\ listener' = [listener EXCEPT !.at = IF events # <<>> THEN "read" ELSE "test"]
  /\ UNCHANGED <<handles, m_func, m_thread, m_terminate, caller, line, told, silent,
                 asked, counters>>

\* Mutant: all the events that are there are taken, and the oldest is reported.
NoneOfEvents == <<>>
RestOfEvents == Tail(events)

\* The event is read (if it is not there any more, the read waits for the
\* next); without a function it is dropped.
ListenerRead ==
  /\ listener.at = "read"
  /\ events # <<>>
  /\ events' = RestOfEvents
  /\ IF m_func = "null"
       THEN listener' = [listener EXCEPT !.at = "test"] /\ silent' = TRUE
       ELSE listener' = [at |-> "invoke", edge |-> Head(events)] /\ UNCHANGED silent
  /\ UNCHANGED <<handles, m_func, m_thread, m_terminate, caller, requested, pin, kept, edges,
                 told, asked, counters>>

\* The function is tested once more, ...
ListenerInvoke ==
  /\ listener.at = "invoke"
  /\ IF m_func = "null"
       THEN listener' = [NoListener EXCEPT !.at = "test"] /\ silent' = TRUE
       ELSE listener' = [listener EXCEPT !.at = "call"] /\ UNCHANGED silent
  /\ UNCHANGED <<handles, m_func, m_thread, m_terminate, caller, line, told, asked, counters>>

\* ... called, whatever it is by then, ...
ListenerCall ==
  /\ listener.at = "call"
  /\ IF m_func = "null"
       THEN listener' = [NoListener EXCEPT !.at = "crashed"] /\ silent' = TRUE /\ UNCHANGED told
       ELSE /\ listener' = [NoListener EXCEPT !.at = "callback"]
            /\ told' = Append(told, listener.edge) /\ UNCHANGED silent
  /\ UNCHANGED <<handles, m_func, m_thread, m_terminate, caller, line, asked, counters>>

\* ... and returns.
CallbackReturns ==
  /\ listener.at = "callback"
  /\ listener' = [listener EXCEPT !.at = "test"]
  /\ UNCHANGED <<handles, m_func, m_thread, m_terminate, caller, line, told, silent,
                 asked, counters>>

ListenerStep ==
  \/ ListenerTest \/ ListenerWait \/ ListenerRead
  \/ ListenerInvoke \/ ListenerCall \/ CallbackReturns

CallerStep == RequestLine \/ Join \/ LastJoin \/ Release

DioNext ==
  \/ Configure \/ SetCallback \/ EnableCallback \/ DisableCallback \/ DioDestroy
  \/ CallerStep \/ ListenerStep \/ Edge

-----------------------------------------------------------------------------
(***************************************************************************)
(* Properties                                                              *)
(***************************************************************************)
\* Every variable has its type.
DioTypeOK ==
  /\ m_chip_handle \in {"null", "open", "closed"}
  /\ m_line_handle \in {"null", "plain", "events", "released"}
  /\ m_func \in {"null", "set"} /\ m_thread \in {"null", "live", "stale"}
  /\ m_terminate \in BOOLEAN
  /\ listener \in [at : {"none", "test", "wait", "read", "invoke", "call", "callback",
                         "done", "crashed"},
                   edge : DioEdges \cup {"none"}]
  /\ caller \in {"idle", "request", "join", "last join", "release", "gone", "crashed"}
  /\ requested \subseteq DioEdges /\ events \in Seq(DioEdges) /\ pin \in BOOLEAN
  /\ kept \in Seq(DioEdges) /\ told \in Seq(DioEdges) /\ silent \in BOOLEAN
  /\ asked \in {"never", "on", "off"}

\* Once a disabling has returned, nothing calls back, and nothing will until the
\* callbacks are enabled again: the arguments of the callback can be freed.  Once
\* the destructor has come to the handles no thread is left to use them.
QuietAfterDisable ==
  /\ asked = "off" => listener.at \notin {"read", "invoke", "call", "callback"}
  /\ caller \in {"release", "gone"} => listener.at = "none"

\* As long as there is a function and the line is not requested again, every
\* event libgpiod kept is reported once, in the order of the edges.
EventsInOrder ==
  (enables <= 1 /\ ~silent /\ caller # "gone") =>
    told \o (IF listener.at \in {"invoke", "call"} THEN <<listener.edge>> ELSE <<>>) \o events
      = kept

\* The first disabling returns, and so does the destructor, whether the pin
\* changes or not, if the line was not requested again behind the thread's back,
\* nor the function cleared between the thread's test and its call.
DisableReturns ==
  (caller \in {"join", "last join"} /\ enables = 1)
    ~> (caller \notin {"join", "last join"} \/ listener.at = "crashed")
=============================================================================
