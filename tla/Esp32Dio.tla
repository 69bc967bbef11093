------------------------------- MODULE Esp32Dio -------------------------------
(***************************************************************************)
(* The callbacks of a digital input on the ESP32, drivers/esp32/dio/dio.cpp:*)
(* an interrupt handler that keeps the level of the pin in m_value and     *)
(* notifies a task, which calls back, and an enableCallback that creates   *)
(* the task or has it end.                                                 *)
(*                                                                         *)
(* A task's notifications are a flag: both takes clear the whole count.    *)
(* Notifying a task that was deleted, whose memory may be in use again,    *)
(* may end the program, and the call of a function that was cleared since  *)
(* its test does ("crashed").                                              *)
(***************************************************************************)
EXTENDS Integers

CONSTANTS
  MaxEdges,      \* bound: times the pin changes
  MaxPinCalls    \* bound: calls of the driver's functions

ASSUME Esp32DioAssumption == MaxEdges \in Nat /\ MaxPinCalls \in Nat

PinEdges == {"rising", "falling"}

VARIABLES
  m_value,        \* the level the interrupt handler saw
  m_func_dio,     \* "null" or "set"
  m_dio_task,     \* m_dio_event_task_handle: "null" or "set"
  m_obj_task,     \* m_obj_task_handle: "null" or "set"
  m_terminate_dio,
  handler,        \* where the task is
  level,          \* its local: the level it has read for the callback
  handler_notified, user_notified,  \* the notifications of the task and of the application
  user,           \* where the application is in the driver
  intr,           \* the edges that raise the interrupt, while the handler is installed
  raised,         \* whether the interrupt is pending
  pin, reported,  \* the level of the pin, and the one a callback got last
  lost,           \* whether an interrupt may have gone untold
  pin_asked,      \* what the last enableCallback that returned asked for
  disabled, pin_calls, pin_edges

members == <<m_value, m_func_dio, m_dio_task, m_obj_task, m_terminate_dio>>
notifications == <<handler_notified, user_notified>>
wire == <<intr, raised, pin, pin_edges>>
seen == <<reported, lost>>
pinVars == <<members, handler, level, notifications, user, wire, seen, pin_asked, disabled,
             pin_calls>>

PinInit ==
  /\ m_value = FALSE /\ m_func_dio = "null"
  /\ m_dio_task = "null" /\ m_obj_task = "null" /\ m_terminate_dio = FALSE
  /\ handler = "none" /\ level = FALSE /\ handler_notified = FALSE /\ user_notified = FALSE
  /\ user = "idle"
  /\ intr = {} /\ raised = FALSE /\ pin = FALSE
  /\ reported = FALSE /\ lost = FALSE /\ pin_asked = "never"
  /\ disabled = 0 /\ pin_calls = 0 /\ pin_edges = 0

PinCall ==
  /\ user = "idle"
  /\ pin_calls < MaxPinCalls
  /\ pin_calls' = pin_calls + 1

-----------------------------------------------------------------------------
PinSetCallback ==
  /\ PinCall
  /\ m_func_dio' \in {"null", "set"}
  /\ UNCHANGED <<level, m_value, m_dio_task, m_obj_task, m_terminate_dio, handler,
                 notifications, user, wire, seen, pin_asked, disabled>>

\* enableCallback with an edge: the task is created, unless there is a handle
\* to one (then the edge is not looked at), or cannot be.
PinEnable ==
  /\ PinCall
  /\ \/ m_dio_task = "set" /\ pin_asked' = "on" /\ UNCHANGED <<m_dio_task, handler,
                                                               handler_notified, user>>
     \/ /\ m_dio_task = "null"
        /\ m_dio_task' = "set" /\ handler' = "take" /\ handler_notified' = FALSE
        /\ user' = "install" /\ UNCHANGED pin_asked
     \/ m_dio_task = "null" /\ UNCHANGED <<m_dio_task, handler, handler_notified, user,
                                           pin_asked>>
  /\ UNCHANGED <<level, m_value, m_func_dio, m_obj_task, m_terminate_dio, user_notified,
                 wire, seen, disabled>>

\* ... and the interrupt handler is installed.
InstallHandler ==
  /\ user = "install"
  /\ intr' \in (SUBSET PinEdges) \ {{}}
  /\ reported' = pin /\ lost' = FALSE
  /\ user' = "idle" /\ pin_asked' = "on"
  /\ UNCHANGED <<level, members, handler, notifications, raised, pin, pin_edges, disabled,
                 pin_calls>>

\* enableCallback(false): the interrupt handler is removed, and
\* terminateDioEventHandlerTask has the task end: the flag, ...
PinDisable ==
  /\ PinCall
  /\ disabled' = disabled + 1
  /\ intr' = {} /\ raised' = FALSE
  /\ IF m_dio_task = "null"
       THEN pin_asked' = "off" /\ UNCHANGED <<m_obj_task, m_terminate_dio, user>>
       ELSE /\ m_obj_task' = "set" /\ m_terminate_dio' = TRUE
            /\ user' = "signal" /\ UNCHANGED pin_asked
  /\ UNCHANGED <<level, m_value, m_func_dio, m_dio_task, handler, notifications, pin,
                 pin_edges, seen>>

\* ... the notification, ...
SignalTask ==
  /\ user = "signal"
  /\ \/ user' = "wait" /\ handler_notified' = TRUE
     \/ handler = "deleted" /\ user' = "crashed" /\ UNCHANGED handler_notified
  /\ UNCHANGED <<level, members, handler, user_notified, wire, seen, pin_asked, disabled,
                 pin_calls>>

\* Mutant: the application does not wait for the task.
NotAwaited == TRUE
Awaited == user_notified

\* ... and the wait for its end.
WaitForTask ==
  /\ user = "wait" /\ Awaited
  /\ user_notified' = FALSE
  /\ m_obj_task' = "null" /\ m_dio_task' = "null"
  /\ user' = "idle" /\ pin_asked' = "off"
  /\ UNCHANGED <<level, m_value, m_func_dio, m_terminate_dio, handler, handler_notified,
                 wire, seen, disabled, pin_calls>>

-----------------------------------------------------------------------------
\* The pin changes, which may raise the interrupt, ...
PinEdge ==
  /\ pin_edges < MaxEdges
  /\ pin_edges' = pin_edges + 1
  /\ pin' = ~pin
  /\ raised' = (raised \/ (IF pin THEN "falling" ELSE "rising") \in intr)
  /\ UNCHANGED <<level, members, handler, notifications, user, intr, seen, pin_asked,
                 disabled, pin_calls>>

\* Mutant: the level is the one the edge should have led to.
OppositeLevel == ~m_value
LevelRead == pin

\* ... and the interrupt handler reads the level, later, and notifies the task.
Callback ==
  /\ raised
  /\ raised' = FALSE
  /\ \/ m_dio_task = "null" /\ UNCHANGED <<m_value, handler_notified, user>>
     \/ /\ m_dio_task = "set"
        /\ m_value' = LevelRead
        /\ handler_notified' = TRUE /\ UNCHANGED user
     \/ handler = "deleted" /\ user' = "crashed" /\ UNCHANGED <<m_value, handler_notified>>
  /\ UNCHANGED <<level, m_func_dio, m_dio_task, m_obj_task, m_terminate_dio, handler,
                 user_notified, intr, pin, pin_edges, seen, pin_asked, disabled, pin_calls>>

\* dioEventHandlerTask: it takes the notifications, all at once, ...
TakeNotification ==
  /\ handler = "take"
  /\ handler_notified
  /\ handler_notified' = FALSE
  /\ handler' = IF m_terminate_dio THEN "leave" ELSE "test"
  /\ UNCHANGED <<level, members, user_notified, user, wire, seen, pin_asked, disabled,
                 pin_calls>>

\* ... reads the level if there is a function, ...
TestFunction ==
  /\ handler = "test"
  /\ IF m_func_dio = "null"
       THEN handler' = "take" /\ lost' = TRUE /\ UNCHANGED level
       ELSE handler' = "again" /\ level' = m_value /\ UNCHANGED lost
  /\ UNCHANGED <<members, notifications, user, wire, reported, pin_asked, disabled, pin_calls>>

\* ... looks for the function again, ...
TestAgain ==
  /\ handler = "again"
  /\ IF m_func_dio = "null"
       THEN handler' = "take" /\ lost' = TRUE
       ELSE handler' = "call" /\ UNCHANGED lost
  /\ UNCHANGED <<members, level, notifications, user, wire, reported, pin_asked, disabled,
                 pin_calls>>

\* ... and calls it, if it is there still.
CallFunction ==
  /\ handler = "call"
  /\ IF m_func_dio = "null"
       THEN handler' = "crashed" /\ lost' = TRUE /\ UNCHANGED reported
       ELSE handler' = "callback" /\ reported' = level /\ UNCHANGED lost
  /\ UNCHANGED <<members, level, notifications, user, wire, pin_asked, disabled, pin_calls>>

FunctionReturns ==
  /\ handler = "callback"
  /\ handler' = "take"
  /\ UNCHANGED <<members, level, notifications, user, wire, seen, pin_asked, disabled,
                 pin_calls>>

\* Mutant: the application is not notified.
NotifyNobody == FALSE
NotifyUser == m_obj_task = "set"

\* It ends: it notifies whoever waits and deletes itself.
LeaveTask ==
  /\ handler = "leave"
  /\ handler' = "deleted"
  /\ user_notified' = (user_notified \/ NotifyUser)
  /\ UNCHANGED <<level, members, handler_notified, user, wire, seen, pin_asked, disabled,
                 pin_calls>>

HandlerStep ==
  \/ TakeNotification \/ TestFunction \/ TestAgain \/ CallFunction \/ FunctionReturns
  \/ LeaveTask

UserStep == InstallHandler \/ SignalTask \/ WaitForTask

PinNext ==
  \/ PinSetCallback \/ PinEnable \/ PinDisable \/ UserStep
  \/ PinEdge \/ Callback \/ HandlerStep

-----------------------------------------------------------------------------
(***************************************************************************)
(* Properties                                                              *)
(***************************************************************************)
\* Every variable has its type.
PinTypeOK ==
  /\ m_value \in BOOLEAN /\ m_func_dio \in {"null", "set"}
  /\ m_dio_task \in {"null", "set"} /\ m_obj_task \in {"null", "set"}
  /\ m_terminate_dio \in BOOLEAN
  /\ handler \in {"none", "take", "test", "again", "call", "callback", "leave", "deleted",
                  "crashed"}
  /\ level \in BOOLEAN
  /\ handler_notified \in BOOLEAN /\ user_notified \in BOOLEAN
  /\ user \in {"idle", "install", "signal", "wait", "crashed"}
  /\ intr \subseteq PinEdges /\ raised \in BOOLEAN /\ pin \in BOOLEAN
  /\ reported \in BOOLEAN /\ lost \in BOOLEAN /\ pin_asked \in {"never", "on", "off"}

\* Once a disabling has returned, nothing calls back and nothing will.
PinQuietAfterDisable == pin_asked = "off" /\ user # "install" => handler \in {"none", "deleted"}

\* However many edges a notification stands for, a task that waits for the next
\* one has reported the level the pin has: with both edges, a function in its
\* place and the first task there was.
LevelTold ==
  (disabled = 0 /\ intr = PinEdges /\ handler = "take" /\ ~handler_notified /\ ~raised /\ ~lost)
    => reported = pin

\* The first disabling returns, unless the task saw the flag before it was
\* notified of it and the notification broke something, or the function was
\* cleared between the task's test and its call.
PinDisableReturns ==
  (user = "wait" /\ disabled = 1) ~> (user # "wait" \/ handler = "crashed")
=============================================================================
