----------------------------- MODULE DeviceLoop ------------------------------
(***************************************************************************)
(* The Android executor's task loops (ExecutorForegroundService.taskLoop):  *)
(* pull, ack, drive the WeCom UI, report.  onStartCommand launches a loop   *)
(* each time the service is started, so one device may run several; nothing *)
(* on the device makes them exclude one another.  An exception anywhere,    *)
(* a timeout or a non-2xx answer included, sends the loop back to pulling:  *)
(* no request is repeated and nothing is remembered across iterations.      *)
(***************************************************************************)
EXTENDS ExecutorApi

CONSTANTS Loops,        \* the task loops that may run
          NoRequest,    \* a loop that is waiting for no answer
          DeviceOf      \* the device a loop runs on

ASSUME LoopAssumption == /\ IsFiniteSet(Loops)
                         /\ DeviceOf \in [Loops -> Devices]
                         /\ NoRequest \notin Requests

VARIABLES loop,         \* where each loop is
          pressed       \* how often the send button was pressed for a task

loopVars == <<loop, pressed>>

LoopPlaces == {"idle", "pulled", "acking", "sending", "executed", "reporting"}

LoopState == [at : LoopPlaces, task : Tasks \cup {NoTask},
              req : Requests \cup {NoRequest}, outcome : SettledStatuses]

Idle == [at |-> "idle", task |-> NoTask, req |-> NoRequest, outcome |-> "failed"]

LoopTypeOK == /\ loop \in [Loops -> LoopState]
              /\ \A l \in Loops : loop[l].at # "idle" => loop[l].task \in Tasks
              /\ \A l \in Loops : loop[l].at \in {"acking", "reporting"}
                                      => loop[l].req \in Requests
              /\ pressed \in [Tasks -> Nat]

LoopInit == /\ loop = [l \in Loops |-> Idle]
            /\ pressed = [t \in Tasks |-> 0]

-----------------------------------------------------------------------------
GoIdle(l) == loop' = [loop EXCEPT ![l] = Idle]

(* ApiClient.pullTask returned a task.  The pull only reads, so it needs no  *)
(* request slot: a pull that fails leaves the loop idle.                    *)
Pull(l) ==
    /\ loop[l] = Idle
    /\ \E t \in Tasks :
          /\ PulledTask(t)
          /\ loop' = [loop EXCEPT ![l].at = "pulled", ![l].task = t]
    /\ UNCHANGED <<storeVars, req, pressed>>

(* ApiClient.ackTask is called; other loops may have acked the task since. *)
Ack(l, r) ==
    /\ loop[l].at = "pulled"
    /\ Submit(r, "ack_sent", loop[l].task, DeviceOf[l], "failed")
    /\ loop' = [loop EXCEPT ![l].at = "acking", ![l].req = r]
    /\ UNCHANGED <<storeVars, pressed>>

AckRefusalIgnored(l) ==
    /\ loop[l].at = "acking"
    /\ Answered(loop[l].req)
    /\ loop' = [loop EXCEPT ![l].at = "sending", ![l].req = NoRequest]
    /\ req' = [req EXCEPT ![loop[l].req] = Free]
    /\ UNCHANGED <<storeVars, pressed>>

(* ApiClient.ackTask returned, or threw on a 409. *)
AckReturns(l) ==
    LET r == loop[l].req IN
    /\ loop[l].at = "acking"
    /\ Answered(r)
    /\ loop' = [loop EXCEPT ![l] = IF req[r].at = "acked"
                                   THEN [loop[l] EXCEPT !.at = "sending", !.req = NoRequest]
                                   ELSE Idle]
    /\ req' = [req EXCEPT ![r] = Free]
    /\ UNCHANGED <<storeVars, pressed>>

(* SendTextTaskExecutor.run: navigation, input and foreground checks may    *)
(* fail before the button is pressed (as when there is no accessibility     *)
(* service at all); after it, the verification may find the bubble or not.  *)
(* A success is only ever returned behind the press.  An exception that     *)
(* escapes it, before or after the press, is caught by taskLoop's own       *)
(* catch, which logs it and starts over: nothing is reported.               *)
SuccessWithoutPress(p, o) == TRUE
Executions(p, o) == o = "success" => p = 1

FailureNotReported(l) ==
    /\ loop[l].at = "sending"
    /\ \/ GoIdle(l) /\ UNCHANGED pressed
       \/ /\ loop' = [loop EXCEPT ![l].at = "executed", ![l].outcome = "success"]
          /\ pressed' = [pressed EXCEPT ![loop[l].task] = @ + 1]
    /\ UNCHANGED <<storeVars, req>>

Execute(l) ==
    /\ loop[l].at = "sending"
    /\ \E p \in {0, 1} :
          /\ pressed' = [pressed EXCEPT ![loop[l].task] = @ + p]
          /\ \/ \E o \in SettledStatuses :
                   /\ Executions(p, o)
                   /\ loop' = [loop EXCEPT ![l].at = "executed", ![l].outcome = o]
             \/ "exec_error" \in Faults /\ GoIdle(l)
    /\ UNCHANGED <<storeVars, req>>

(* ApiClient.resultTask is called ... *)
Report(l, r) ==
    /\ loop[l].at = "executed"
    /\ Submit(r, "result_sent", loop[l].task, DeviceOf[l], loop[l].outcome)
    /\ loop' = [loop EXCEPT ![l].at = "reporting", ![l].req = r]
    /\ UNCHANGED <<storeVars, pressed>>

(* ... and returns or throws: either way the loop starts over. *)
ReportReturns(l) ==
    /\ loop[l].at = "reporting"
    /\ Answered(loop[l].req)
    /\ GoIdle(l)
    /\ req' = [req EXCEPT ![loop[l].req] = Free]
    /\ UNCHANGED <<storeVars, pressed>>

(* OkHttp gives up after its connect or read timeout. *)
TimeoutTakenForAck(l) ==
    /\ "timeout" \in Faults
    /\ loop[l].at = "acking"
    /\ loop' = [loop EXCEPT ![l].at = "sending", ![l].req = NoRequest]
    /\ req' = [req EXCEPT ![loop[l].req] = Hangup(@)]
    /\ UNCHANGED <<storeVars, pressed>>

Timeout(l) ==
    /\ "timeout" \in Faults
    /\ loop[l].at \in {"acking", "reporting"}
    /\ GoIdle(l)
    /\ req' = [req EXCEPT ![loop[l].req] = Hangup(@)]
    /\ UNCHANGED <<storeVars, pressed>>

(* The app is killed; START_STICKY starts it again with fresh loops. *)
Crash(d) ==
    LET dead == {l \in Loops : DeviceOf[l] = d}
        waiting == {loop[l].req : l \in dead} \ {NoRequest}
    IN  /\ "crash" \in Faults
        /\ \E l \in dead : loop[l] # Idle
        /\ loop' = [l \in Loops |-> IF l \in dead THEN Idle ELSE loop[l]]
        /\ req' = [r \in Requests |-> IF r \in waiting THEN Hangup(req[r]) ELSE req[r]]
        /\ UNCHANGED <<storeVars, pressed>>

LoopProgress(l) ==
    \/ Pull(l) \/ AckReturns(l) \/ Execute(l) \/ ReportReturns(l)
    \/ \E r \in Requests : Ack(l, r) \/ Report(l, r)

LoopStep ==
    \/ \E l \in Loops : LoopProgress(l) \/ Timeout(l)
    \/ \E d \in Devices : Crash(d)
=============================================================================
