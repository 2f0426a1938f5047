----------------------------- MODULE ExecutorApi -----------------------------
(***************************************************************************)
(* The executor task API of the server (executor.service.ts) and the admin  *)
(* operations on tasks.  A handler is a sequence of database statements;    *)
(* between two of them the event loop runs other handlers, so every         *)
(* statement, or transaction from its first row lock to its commit, is a    *)
(* step of its own.  Isolation is Postgres' default, READ COMMITTED, which  *)
(* Prisma's $transaction keeps: a row read inside a transaction is not      *)
(* locked, and an UPDATE by primary key waits for the lock and then         *)
(* overwrites whatever has been committed meanwhile.                        *)
(*                                                                          *)
(* A request occupies one slot of Requests from the moment the client       *)
(* submits it until the client has read the answer or, if the client went   *)
(* away, until the handler has ended.                                       *)
(***************************************************************************)
EXTENDS TaskStore

CONSTANT Requests       \* slots for requests in flight

ASSUME ApiAssumption == IsFiniteSet(Requests)

VARIABLE req

(* Where a request is: "x_sent" on the wire, then the last statement the    *)
(* handler executed, then the answer it gave.                               *)
AckPlaces == {"ack_sent", "ack_read", "ack_committed"}
ResultPlaces == {"result_sent", "result_read", "result_attempt", "result_fresh"}
CancelPlaces == {"cancel_read", "cancel_task"}
AnswerPlaces == {"acked", "ack_refused", "answered"}
Places == {"free"} \cup AckPlaces \cup ResultPlaces \cup CancelPlaces \cup AnswerPlaces

Request == [at : Places, task : Tasks \cup {NoTask}, device : Devices \cup {NoDevice},
            outcome : SettledStatuses, attempt : Nat, open : BOOLEAN]

Free == [at |-> "free", task |-> NoTask, device |-> NoDevice,
         outcome |-> "failed", attempt |-> 0, open |-> FALSE]

(* A request under way names an existing row and, but for the admin's, the  *)
(* device that sent it.                                                     *)
Named(q) == /\ q.at # "free" => q.task \in Tasks
            /\ q.at \notin CancelPlaces \cup {"free"} => q.device \in Devices

ApiTypeOK == /\ req \in [Requests -> Request]
             /\ \A r \in Requests : Named(req[r])
ApiInit == req = [r \in Requests |-> Free]

-----------------------------------------------------------------------------
(* The client's side of a request. *)
Submit(r, place, t, d, o) ==
    /\ req[r] = Free
    /\ req' = [req EXCEPT ![r] = [at |-> place, task |-> t, device |-> d,
                                  outcome |-> o, attempt |-> 0, open |-> TRUE]]

Answered(r) == req[r].at \in AnswerPlaces

(* The client stops waiting: an answer already there is lost, a handler     *)
(* still at work goes on and answers nobody.                                *)
Hangup(q) == IF q.at \in AnswerPlaces THEN Free ELSE [q EXCEPT !.open = FALSE]

(* The server answers, or ends without anyone listening. *)
Respond(r, answer) ==
    req' = [req EXCEPT ![r] = IF req[r].open THEN [req[r] EXCEPT !.at = answer]
                              ELSE Free]

Advance(r, place) == req' = [req EXCEPT ![r].at = place]

(* A request whose client has given up never reaches the server. *)
DropRequest(r) ==
    /\ "drop" \in Faults
    /\ req[r].at \in {"ack_sent", "result_sent"}
    /\ ~req[r].open
    /\ req' = [req EXCEPT ![r] = Free]
    /\ UNCHANGED storeVars

-----------------------------------------------------------------------------
(* pullExecutorTask: one read; the task is not claimed by it. *)
PulledTask(t) ==
    /\ status[t] = "pending"
    /\ \A u \in Tasks : status[u] = "pending" => t <= u

-----------------------------------------------------------------------------
(* ackExecutorTask: findFirst {id, pending} inside the transaction ... *)
AckAnyState(t) == status[t] # "absent"
CanAck(t) == status[t] = "pending"

AckRead(r) ==
    /\ req[r].at = "ack_sent"
    /\ IF CanAck(req[r].task) THEN Advance(r, "ack_read") ELSE Respond(r, "ack_refused")
    /\ UNCHANGED storeVars

(* ... then two UPDATEs, pending -> claimed -> running, of which only the   *)
(* second is conditional (on the first), and the INSERT of an attempt.      *)
AckLeavesClaimed(t, d) ==
    /\ status' = [status EXCEPT ![t] = "claimed"]
    /\ owner' = [owner EXCEPT ![t] = d]
    /\ attempts' = [attempts EXCEPT ![t] =
                        Append(@, [device |-> d, status |-> "running"])]

AckLeavesPending(t, d) ==
    /\ owner' = [owner EXCEPT ![t] = d]
    /\ attempts' = [attempts EXCEPT ![t] =
                        Append(@, [device |-> d, status |-> "running"])]
    /\ UNCHANGED status

AckWritesNoAttempt(t, d) ==
    /\ status' = [status EXCEPT ![t] = "running"]
    /\ owner' = [owner EXCEPT ![t] = d]
    /\ UNCHANGED attempts

AckWrites(t, d) ==
    /\ status' = [status EXCEPT ![t] = "running"]
    /\ owner' = [owner EXCEPT ![t] = d]
    /\ attempts' = [attempts EXCEPT ![t] =
                        Append(@, [device |-> d, status |-> "running"])]

AckCommit(r) ==
    /\ req[r].at = "ack_read"
    /\ AckWrites(req[r].task, req[r].device)
    /\ Advance(r, "ack_committed")
    /\ UNCHANGED <<link, sendStatus>>

(* After the commit the latency of the reply trace is merged inside the     *)
(* same try: an error there is answered 409 although the task is running.   *)
AckAnswer(r) ==
    /\ req[r].at = "ack_committed"
    /\ \/ Respond(r, "acked")
       \/ "post_ack" \in Faults /\ Respond(r, "ack_refused")
    /\ UNCHANGED storeVars

-----------------------------------------------------------------------------
(* reportExecutorTaskResult: the first read of the task.  A settled task    *)
(* and an illegal transition are both answered at once.                     *)
MayReport(t, d) == status[t] = "running" /\ owner[t] = d

ResultRead(r) ==
    /\ req[r].at = "result_sent"
    /\ IF MayReport(req[r].task, req[r].device) THEN Advance(r, "result_read")
       ELSE Respond(r, "answered")
    /\ UNCHANGED storeVars

(* The latest running attempt of this device; 0 stands for none. *)
RunningAttempts(t, d) ==
    {i \in 1..Len(attempts[t]) : attempts[t][i] = [device |-> d, status |-> "running"]}

LatestAttempt(t, d) ==
    IF RunningAttempts(t, d) = {} THEN {0}
    ELSE {i \in RunningAttempts(t, d) : \A j \in RunningAttempts(t, d) : j <= i}

ResultAttempt(r) ==
    /\ req[r].at = "result_read"
    /\ \E i \in LatestAttempt(req[r].task, req[r].device) :
          req' = [req EXCEPT ![r].at = "result_attempt", ![r].attempt = i]
    /\ UNCHANGED storeVars

(* The transaction reads the task again under the same conditions ... *)
ResultTrustsFirstRead(r) ==
    /\ req[r].at = "result_attempt"
    /\ Advance(r, "result_fresh")
    /\ UNCHANGED storeVars

ResultFresh(r) ==
    /\ req[r].at = "result_attempt"
    /\ IF MayReport(req[r].task, req[r].device) THEN Advance(r, "result_fresh")
       ELSE Respond(r, "answered")
    /\ UNCHANGED storeVars

(* ... and writes task, attempt and outbound by primary key. *)
ResultWrites(t, i, s) ==
    /\ status' = [status EXCEPT ![t] = s]
    /\ attempts' = IF i = 0 THEN attempts
                   ELSE [attempts EXCEPT ![t][i].status = s]
    /\ SettleOutbound(t, s)

ResultCommit(r) ==
    /\ req[r].at = "result_fresh"
    /\ ResultWrites(req[r].task, req[r].attempt, req[r].outcome)
    /\ Respond(r, "answered")
    /\ UNCHANGED <<owner, link>>

-----------------------------------------------------------------------------
(* adminCreateTestSendTask *)
TestTasks == {t \in Tasks : LinkedTo(t, NoOutbound)}

CreateTestTask ==
    /\ Cardinality(TestTasks) < MaxTestTasks
    /\ \E t \in Tasks : InsertTask(t, NoOutbound)
    /\ UNCHANGED <<owner, attempts, sendStatus, req>>

(* cancelExecutorTaskAdmin: the read, with its early return ... *)
CancelRead(r, t) ==
    /\ req[r] = Free
    /\ status[t] \in ActiveStatuses
    /\ req' = [req EXCEPT ![r] = [Free EXCEPT !.at = "cancel_read", !.task = t]]
    /\ UNCHANGED storeVars

(* ... the UPDATE of the task, which does not look at its status again ... *)
CancelTask(r) ==
    /\ req[r].at = "cancel_read"
    /\ status' = [status EXCEPT ![req[r].task] = "cancelled"]
    /\ Advance(r, "cancel_task")
    /\ UNCHANGED <<owner, link, attempts, sendStatus>>

(* ... and, outside any transaction, the UPDATE of the outbound message. *)
CancelOutbound(r) ==
    /\ req[r].at = "cancel_task"
    /\ SettleOutbound(req[r].task, "cancelled")
    /\ req' = [req EXCEPT ![r] = Free]
    /\ UNCHANGED <<status, owner, link, attempts>>

(* The server process dies: a transaction in progress rolls back, handlers  *)
(* vanish between two statements, and a waiting client gets a connection    *)
(* error, which the device treats like a refusal.                           *)
AbortedByRestart(q) ==
    CASE q.at \in AnswerPlaces \cup {"free"} -> q
      [] q.open /\ q.at \in AckPlaces -> [q EXCEPT !.at = "ack_refused"]
      [] q.open /\ q.at \in ResultPlaces -> [q EXCEPT !.at = "answered"]
      [] OTHER -> Free

-----------------------------------------------------------------------------
Handler(r) ==
    \/ AckRead(r) \/ AckCommit(r) \/ AckAnswer(r)
    \/ ResultRead(r) \/ ResultAttempt(r) \/ ResultFresh(r) \/ ResultCommit(r)
    \/ CancelTask(r) \/ CancelOutbound(r)

ApiStep ==
    \/ \E r \in Requests : Handler(r) \/ DropRequest(r)
    \/ CreateTestTask
    \/ \E r \in Requests, t \in Tasks : CancelRead(r, t)
=============================================================================
