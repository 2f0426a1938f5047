------------------------------ MODULE TaskStore ------------------------------
(***************************************************************************)
(* The rows of Postgres that the sending path shares: executor_tasks, their *)
(* attempts, and the send status of outbound_messages.  The server's        *)
(* handlers, the send worker and the admin console are separate processes   *)
(* that meet only here.  Task ids are allocated in creation order, so the   *)
(* order of ids is the order of createdAt.                                  *)
(***************************************************************************)
EXTENDS Naturals, Sequences, FiniteSets

CONSTANTS MaxTasks,     \* bound on the executor_tasks rows ever created
          MaxTestTasks, \* bound on those the admin creates
          Outbounds,    \* the outbound_messages rows
          NoOutbound,   \* a task without outboundMessageId (the admin's test task)
          Devices,      \* registered Android devices
          NoDevice,     \* ExecutorTask.deviceId is null
          Faults        \* what the environment may do to the processes

(* "timeout": a client gives up on an answer; "drop": a request is lost;    *)
(* "crash": the app is killed; "exec_error": the UI automation throws;      *)
(* "post_ack": an error after the ack's commit; "job_error": a statement of *)
(* a worker run throws; "stall": the lock of a running job expires;         *)
(* "restart": the server process dies.                                      *)
FaultKinds ==
    {"timeout", "drop", "crash", "exec_error", "post_ack", "job_error", "stall", "restart"}

ASSUME StoreAssumption == /\ MaxTasks \in Nat
                          /\ MaxTestTasks \in Nat
                          /\ NoOutbound \notin Outbounds
                          /\ NoDevice \notin Devices
                          /\ Faults \subseteq FaultKinds

VARIABLES status,       \* ExecutorTask.status; "absent" before the row exists
          owner,        \* ExecutorTask.deviceId
          link,         \* ExecutorTask.outboundMessageId
          attempts,     \* the ExecutorTaskAttempt rows of a task, by startedAt
          sendStatus    \* OutboundMessage.sendStatus; "absent" before the row exists

storeVars == <<status, owner, link, attempts, sendStatus>>

Tasks == 1..MaxTasks
NoTask == 0

ActiveStatuses == {"pending", "claimed", "running"}
SettledStatuses == {"success", "failed"}
TerminalStatuses == SettledStatuses \cup {"cancelled"}
TaskStatuses == {"absent"} \cup ActiveStatuses \cup TerminalStatuses

(* "claimed" is written and overwritten inside the ack's transaction. *)
VisibleStatuses == TaskStatuses \ {"claimed"}

SendStatuses ==
    {"absent", "pending", "pending_executor", "success", "failed", "cancelled"}

Attempt == [device : Devices, status : {"running", "success", "failed"}]

StoreTypeOK ==
    /\ status \in [Tasks -> VisibleStatuses]
    /\ owner \in [Tasks -> Devices \cup {NoDevice}]
    /\ link \in [Tasks -> Outbounds \cup {NoOutbound}]
    /\ attempts \in [Tasks -> Seq(Attempt)]
    /\ sendStatus \in [Outbounds -> SendStatuses]

StoreInit ==
    /\ status = [t \in Tasks |-> "absent"]
    /\ owner = [t \in Tasks |-> NoDevice]
    /\ link = [t \in Tasks |-> NoOutbound]
    /\ attempts = [t \in Tasks |-> <<>>]
    /\ sendStatus = [o \in Outbounds |-> "absent"]

-----------------------------------------------------------------------------
(* outboundMessageId carries a unique index: a second insert for the same   *)
(* outbound message raises P2002.                                           *)
OutboundUnlinked(o) ==
    o = NoOutbound \/ \A t \in Tasks : status[t] # "absent" => link[t] # o

NextTaskId(t) ==
    /\ status[t] = "absent"
    /\ \A u \in Tasks : u < t => status[u] # "absent"

(* createSendTextExecutorTask: one INSERT of a pending, unowned task. *)
InsertTask(t, o) ==
    /\ NextTaskId(t)
    /\ OutboundUnlinked(o)
    /\ status' = [status EXCEPT ![t] = "pending"]
    /\ link' = [link EXCEPT ![t] = o]

(* The task row linked to an outbound message, if there is one. *)
LinkedTo(t, o) == status[t] # "absent" /\ link[t] = o

(* UPDATE outbound_messages SET sendStatus = s WHERE id = link(t): no row   *)
(* matches when the task has no outbound message.  The WHERE clause does    *)
(* not look at the current sendStatus.                                      *)
SettleOutbound(t, s) ==
    sendStatus' = IF link[t] = NoOutbound THEN sendStatus
                  ELSE [sendStatus EXCEPT ![link[t]] = s]
=============================================================================
