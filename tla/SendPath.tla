------------------------------ MODULE SendPath -------------------------------
(***************************************************************************)
(* The sending path as a whole: the send worker, the executor API, the      *)
(* admin and the task loops of the devices, over the shared rows.           *)
(***************************************************************************)
EXTENDS DeviceLoop, SendWorker

vars == <<storeVars, req, loopVars, workerVars>>

TypeOK == StoreTypeOK /\ ApiTypeOK /\ LoopTypeOK /\ WorkerTypeOK

Init == StoreInit /\ ApiInit /\ LoopInit /\ WorkerInit

-----------------------------------------------------------------------------
(* API and workers live in one Node process and die together. *)
ServerRestart ==
    /\ "restart" \in Faults
    /\ req' = [r \in Requests |-> AbortedByRestart(req[r])]
    /\ run' = [w \in Workers |-> NoRun]
    /\ <<req', run'>> # <<req, run>>
    /\ UNCHANGED <<storeVars, loopVars, job>>

Next ==
    \/ ApiStep /\ UNCHANGED <<loopVars, workerVars>>
    \/ LoopStep /\ UNCHANGED workerVars
    \/ WorkerStep /\ UNCHANGED <<req, loopVars>>
    \/ ServerRestart

Spec == Init /\ [][Next]_vars

(* The event loop runs every handler and worker run to its end, the queue   *)
(* hands out waiting jobs and takes back those whose run is dead, and the   *)
(* devices keep pulling.  Nothing makes the pipeline add a job, the admin   *)
(* act or a fault occur.                                                    *)
Fairness ==
    /\ \A r \in Requests : WF_vars(Handler(r) /\ UNCHANGED <<loopVars, workerVars>>)
    /\ \A l \in Loops : WF_vars(LoopProgress(l) /\ UNCHANGED workerVars)
    /\ \A w \in Workers : WF_vars(WorkerProgress(w) /\ UNCHANGED <<req, loopVars>>)
    /\ \A o \in Outbounds :
          WF_vars(NobodyRuns(o) /\ Stall(o) /\ UNCHANGED <<req, loopVars>>)

FairSpec == Spec /\ Fairness

-----------------------------------------------------------------------------
(* Safety under every interleaving and fault.                              *)

(* A task, and the message it is linked to, reads success only if a device  *)
(* really pressed send for it: no retry, cancellation, stale handler or     *)
(* late write makes up a success (reportExecutorTaskResult with taskLoop).  *)
SuccessWasPressed ==
    /\ \A t \in Tasks : status[t] = "success" => pressed[t] > 0
    /\ \A o \in Outbounds : sendStatus[o] = "success" =>
          \E t \in Tasks : LinkedTo(t, o) /\ pressed[t] > 0

(* A running task is accounted for: its last attempt belongs to its owner   *)
(* and is still open, so the owner's report will find it and the admin      *)
(* sees who is sending, even when acks and results overtake each other.     *)
RunningHasOpenAttempt ==
    \A t \in Tasks : status[t] = "running" =>
        /\ attempts[t] # <<>>
        /\ attempts[t][Len(attempts[t])] = [device |-> owner[t], status |-> "running"]

(* Every press of send is on record: a task has at least as many attempt    *)
(* rows as there were presses for it, whatever answers were lost and        *)
(* whoever crashed (ackExecutorTask with taskLoop).                         *)
PressesAreRecorded == \A t \in Tasks : pressed[t] <= Len(attempts[t])

(* Acks that overlap may each be granted, but that is bounded: whatever the  *)
(* loops timed out on, forgot or pulled again, the presses for a task, all   *)
(* loops together, are never more than the loops there are (taskLoop with    *)
(* ackExecutorTask).                                                         *)
PressedOncePerLoop == \A t \in Tasks : pressed[t] <= Cardinality(Loops)

(* No message is dropped in silence: a job that ended as completed left an   *)
(* executor task or a cancelled message behind, however its runs threw,     *)
(* stalled, overlapped or died with the server (processSendOutboundJob).    *)
HandledBy(o) == (\E t \in Tasks : LinkedTo(t, o)) \/ sendStatus[o] = "cancelled"

CompletedIsHandled == \A o \in Outbounds : job[o].at = "completed" => HandledBy(o)

(* A device drives the chat only for a task the server granted to it: the   *)
(* task has an attempt row of this device, and no answer meant for another  *)
(* loop or an abandoned request can have started it.                        *)
HasAttemptOf(t, d) == \E i \in 1..Len(attempts[t]) : attempts[t][i].device = d

SendersWereGranted ==
    \A l \in Loops : loop[l].at \in {"sending", "executed", "reporting"}
                         => HasAttemptOf(loop[l].task, DeviceOf[l])

-----------------------------------------------------------------------------
(* Safety when the server handles one request at a time.                   *)

(* The API implements the documented life cycle of a task: it is granted    *)
(* once and a terminal task is final.                                       *)
Lifecycle == INSTANCE TaskLifecycle WITH
    Tasks <- Tasks, Devices <- Devices, NoDevice <- NoDevice, status <- status, owner <- owner
ImplementsLifecycle == Lifecycle!Spec

(* A message is never put into a chat twice: answers may be lost, apps may  *)
(* crash and several loops may race, but at most one press happens.         *)
PressedAtMostOnce == \A t \in Tasks : pressed[t] <= 1

-----------------------------------------------------------------------------
(* What the repository says and overlapping steps do not keep.             *)

(* "repeated ack is rejected" (tests/task-lifecycle.test.ts): a task is     *)
(* granted to at most one loop.                                             *)
GrantedOnce == \A t \in Tasks : Len(attempts[t]) <= 1

(* "a settled task is not changed back" (README.md): success and failed     *)
(* are final.                                                               *)
SettledTaskStays ==
    [][\A t \in Tasks : status[t] \in SettledStatuses => status'[t] = status[t]]_vars

(* "the worker marks the message pending_executor, then the device acks,    *)
(* then the result settles it" (server/README.md): a settled message does   *)
(* not go back to pending_executor.                                         *)
SettledOutboundStays ==
    [][\A o \in Outbounds : sendStatus[o] \in SettledStatuses
                               => sendStatus'[o] # "pending_executor"]_vars

(* "the block reason tells that no task was created" (send-message.worker): *)
(* when the precheck cancels a message, the message has no executor task.   *)
BlockedHasNoTask ==
    [][\A w \in Workers :
           CancelBlocked(w) => \A t \in Tasks : ~LinkedTo(t, run[w].outbound)]_vars

-----------------------------------------------------------------------------
(* Liveness.                                                               *)

(* Without faults every task is eventually terminal for good: racing acks,  *)
(* cancellations and results never leave one pending or running.            *)
EveryTaskEnds ==
    \A t \in Tasks : status[t] = "pending" ~> [](status[t] \in TerminalStatuses)

(* However its runs throw, stall, overlap or die with the server, a queued  *)
(* job ends for good (processSendOutboundJob under BullMQ's retries and     *)
(* stalled-job check).                                                      *)
EveryJobEnds ==
    \A o \in Outbounds :
        job[o].at \in {"waiting", "active"} ~> [](job[o].at \in {"completed", "failed"})
=============================================================================
