---------------------------------- MODULE Iic ----------------------------------
(***************************************************************************)
(* The Linux IIC driver, drivers/linux/iic/iic.cpp, on top of SerialBus.   *)
(*                                                                         *)
(* Its worker is given a bundle without a direction: it looks at the read  *)
(* status and, if that says running, reads into the bundle's buffer; then  *)
(* it looks at the write status and, if that says running, writes from the *)
(* buffer of the same bundle.  Between the two it publishes the end of the *)
(* read and calls the read callback.                                       *)
(***************************************************************************)
EXTENDS SerialBus

CONSTANT MaxCallbacks   \* bound: calls of setCallback

VARIABLES
  m_func,       \* m_func_rx and m_func_tx: "null" or "set"
  callbacks,
  overtook      \* a write was started between the two looks of the worker

vars == <<busVars, m_func, callbacks, overtook>>

Init ==
  /\ BusInit
  /\ m_func = [d \in Directions |-> "null"]
  /\ callbacks = 0 /\ overtook = FALSE

\* What iicRead and iicWrite lead to: they fail unless every byte was moved.
\* Only a read counts its bytes.
Outcomes(d) ==
  IF d = "read"
    THEN {[status |-> IF n = Size THEN "ok" ELSE "failed", count |-> n] : n \in 0 .. Size}
    ELSE {[status |-> s, count |-> 0] : s \in {"ok", "failed"}}

Read == Start({"read"}) /\ UNCHANGED <<m_func, callbacks, overtook>>

\* The worker is past its look at the read status and before the other one.
BetweenLooks ==
  \/ worker.at = "test" /\ worker.directions = {"write"}
  \/ worker.at \in {"published", "invoke", "callback"} /\ worker.directions = {"read"}

Write ==
  /\ Start({"write"})
  /\ overtook' = (overtook \/ BetweenLooks)
  /\ UNCHANGED <<m_func, callbacks>>

BlockingTransfer ==
  /\ call = "transfer"
  /\ \E d \in started[Len(started)] : TransferInCaller(Outcomes(d))

SetCallback(d) ==
  /\ Free
  /\ callbacks < MaxCallbacks
  /\ m_status[d] # "running"
  /\ callbacks' = callbacks + 1
  /\ \E func \in {"null", "set"} : m_func' = [m_func EXCEPT ![d] = func]
  /\ UNCHANGED <<busVars, overtook>>

-----------------------------------------------------------------------------
\* transferDataAsync
Take == TakeBundle([at |-> "test", bundle |-> Head(queue), directions |-> {"read"}])

\* After one direction comes the other, and then the next bundle.
After(d) ==
  IF d = "read" THEN [worker EXCEPT !.at = "test", !.directions = {"write"}]
                ELSE [worker EXCEPT !.at = "get"]

Test(d) ==
  /\ worker.at = "test" /\ worker.directions = {d}
  /\ worker' = IF m_status[d] = "running" THEN [worker EXCEPT !.at = "transfer"] ELSE After(d)
  /\ UNCHANGED <<members, task, call, conf, configured, started, ended, configures>>

Transfer(d) ==
  /\ worker.at = "transfer" /\ worker.directions = {d}
  /\ \E outcome \in Outcomes(d) : Publish({d}, worker.bundle, outcome)
  /\ worker' = [worker EXCEPT !.at = "published"]
  /\ UNCHANGED <<m_linux_handle, m_is_async, task, call, conf, configured, started, configures>>

\* The callback is tested, called (it may be gone by then), and returns.
TestCallback(d) ==
  /\ worker.at = "published" /\ worker.directions = {d}
  /\ worker' = IF m_func[d] # "null" THEN [worker EXCEPT !.at = "invoke"] ELSE After(d)
  /\ UNCHANGED <<members, task, call, conf, configured, started, ended, configures>>

InvokeCallback(d) ==
  /\ worker.at = "invoke" /\ worker.directions = {d}
  /\ \E at \in {"callback"} \cup (IF m_func[d] = "null" THEN {"crashed"} ELSE {}) :
       worker' = [worker EXCEPT !.at = at]
  /\ UNCHANGED <<members, task, call, conf, configured, started, ended, configures>>

ReturnFromCallback(d) ==
  /\ worker.at = "callback" /\ worker.directions = {d}
  /\ worker' = After(d)
  /\ UNCHANGED <<members, task, call, conf, configured, started, ended, configures>>

-----------------------------------------------------------------------------
CallStep == (Send \/ BlockingTransfer) /\ UNCHANGED <<m_func, callbacks, overtook>>

WorkerStep ==
  /\ \/ Take \/ LeaveOnTimeout
     \/ \E d \in Directions :
          Test(d) \/ Transfer(d) \/ TestCallback(d) \/ InvokeCallback(d) \/ ReturnFromCallback(d)
  /\ UNCHANGED <<m_func, callbacks, overtook>>

ConfigureAll == (Configure \/ ConfigureStep \/ Destroy) /\ UNCHANGED <<m_func, callbacks, overtook>>

Next ==
  \/ ConfigureAll
  \/ Read \/ Write \/ CallStep
  \/ \E d \in Directions : SetCallback(d)
  \/ WorkerStep

Spec == Init /\ [][Next]_vars

\* The threads run, the system calls return, and the application goes through
\* with a call it began.
Fairness ==
  /\ WF_vars(ConfigureStep /\ UNCHANGED <<m_func, callbacks, overtook>>)
  /\ WF_vars(CallStep) /\ WF_vars(WorkerStep)

-----------------------------------------------------------------------------
(***************************************************************************)
(* Properties                                                              *)
(***************************************************************************)
\* Every variable has its type.
TypeOK ==
  /\ BusTypeOK
  /\ m_func \in [Directions -> {"null", "set"}]
  /\ callbacks \in 0 .. MaxCallbacks /\ overtook \in BOOLEAN

\* As long as configure is not called again and no write is started while the
\* worker is between its two looks, ...
Undisturbed == configures <= 1 /\ ~overtook

\* ... every transfer is made once and with its own buffer,
BundlesMatch == Undisturbed => OwnBundles

\* the bus is used by one thread at a time,
BusIsExclusive == Undisturbed => OneAtATime

\* and a caller that sees its transfer end may reuse the buffer.
EndIsTold == Undisturbed => EndedIsEnded

\* After a configure that succeeded, polling the status of a transfer ends,
\* unless a callback cleared between its test and its call ends the process, or
\* the object is destroyed.
TransferEnds ==
  \A d \in Directions :
    (m_status[d] = "running" /\ configured = "ok")
      ~> (m_status[d] # "running" \/ worker.at = "crashed" \/ configured = "destroyed")
=============================================================================
