--------------------------- MODULE SendPath_proofs ---------------------------
(***************************************************************************)
(* Proofs about SendPath, for every number of tasks, messages, devices,    *)
(* loops, requests and workers, and for every set of faults: first its     *)
(* types, then the safety invariants that hold under every interleaving.   *)
(* Each theorem strengthens its invariant until it is inductive; what      *)
(* the steps of the system may do to the state is stated once per step     *)
(* (RowsStep, HonestStep) and the invariants follow from that alone.       *)
(***************************************************************************)
EXTENDS SendPath, SequenceTheorems, TLAPS

(* Closing an attempt (the attempt update of reportExecutorTaskResult) keeps
   the list of attempts a list of attempts. *)
LEMMA CloseAttemptType ==
  ASSUME NEW q \in Seq(Attempt), NEW i \in Nat, NEW s \in SettledStatuses
  PROVE  [q EXCEPT ![i].status = s] \in Seq(Attempt)
<1>1. CASE i \in 1..Len(q)
  <2>1. q[i] \in Attempt
    BY <1>1
  <2>2. [q[i] EXCEPT !.status = s] \in Attempt
    BY <2>1 DEF Attempt, SettledStatuses
  <2>3. QED
    BY <1>1, <2>2
<1>2. CASE i \notin 1..Len(q)
  <2>1. [q EXCEPT ![i].status = s] = q
    BY <1>2
  <2>2. QED BY <2>1
<1>3. QED BY <1>1, <1>2

(* The empty database and idle processes have the right types. *)
LEMMA InitType == Init => TypeOK
  BY StoreAssumption, WorkerAssumption, LoopAssumption
     DEF Init, StoreInit, ApiInit, LoopInit, WorkerInit, TypeOK, StoreTypeOK, ApiTypeOK,
         LoopTypeOK, WorkerTypeOK, Request, Free, LoopState, Idle, Job, Run, NoJob, NoRun,
         Named, Places, VisibleStatuses, TaskStatuses, SendStatuses, SettledStatuses,
         LoopPlaces, JobPlaces, RunPlaces

-----------------------------------------------------------------------------
USE DEF Tasks, NoTask

(* createSendTextExecutorTask keeps the types of the rows. *)
LEMMA InsertTaskType ==
  ASSUME StoreTypeOK, NEW t \in Tasks, NEW o \in Outbounds \cup {NoOutbound},
         InsertTask(t, o), UNCHANGED <<owner, attempts, sendStatus>>
  PROVE  StoreTypeOK'
  BY DEF StoreTypeOK, InsertTask, VisibleStatuses, TaskStatuses, ActiveStatuses

(* The writes of ackExecutorTask's transaction, taken together, keep the types
   of the rows: the claimed in between is not visible. *)
LEMMA AckWritesType ==
  ASSUME StoreTypeOK, NEW t \in Tasks, NEW d \in Devices,
         AckWrites(t, d), UNCHANGED <<link, sendStatus>>
  PROVE  StoreTypeOK'
<1>1. [device |-> d, status |-> "running"] \in Attempt
  BY DEF Attempt
<1>2. Append(attempts[t], [device |-> d, status |-> "running"]) \in Seq(Attempt)
  BY <1>1 DEF StoreTypeOK
<1>3. attempts' \in [Tasks -> Seq(Attempt)]
  BY <1>2 DEF AckWrites, StoreTypeOK
<1>4. QED
  BY <1>3 DEF StoreTypeOK, AckWrites, VisibleStatuses, TaskStatuses, ActiveStatuses

(* The writes of reportExecutorTaskResult's transaction keep the types of the rows. *)
LEMMA ResultWritesType ==
  ASSUME StoreTypeOK, NEW t \in Tasks, NEW i \in Nat, NEW s \in SettledStatuses,
         ResultWrites(t, i, s), UNCHANGED <<owner, link>>
  PROVE  StoreTypeOK'
<1>1. attempts[t] \in Seq(Attempt)
  BY DEF StoreTypeOK
<1>2. [attempts[t] EXCEPT ![i].status = s] \in Seq(Attempt)
  BY <1>1, CloseAttemptType
<1>3. attempts' \in [Tasks -> Seq(Attempt)]
  BY <1>2 DEF ResultWrites, StoreTypeOK
<1>4. sendStatus' \in [Outbounds -> SendStatuses]
  BY DEF ResultWrites, SettleOutbound, StoreTypeOK, SettledStatuses, SendStatuses
<1>5. status' \in [Tasks -> VisibleStatuses]
  BY DEF ResultWrites, StoreTypeOK, SettledStatuses, VisibleStatuses, TaskStatuses,
         TerminalStatuses
<1>6. QED
  BY <1>3, <1>4, <1>5 DEF StoreTypeOK

(* The handlers of the executor API and the admin keep the type invariant. *)
LEMMA ApiStepType ==
  ASSUME TypeOK, ApiStep, UNCHANGED <<loopVars, workerVars>>
  PROVE  TypeOK'
<1> USE DEF TypeOK
<1>1. LoopTypeOK' /\ WorkerTypeOK'
  BY DEF LoopTypeOK, WorkerTypeOK, loopVars, workerVars
<1> USE DEF Request, Named, Free, Places, AckPlaces, ResultPlaces, CancelPlaces,
            AnswerPlaces, SettledStatuses
<1>2. ASSUME NEW r \in Requests, NEW p \in Places,
             Advance(r, p), p # "free", req[r].at # "free",
             req[r].at \notin CancelPlaces \/ p \in CancelPlaces, ApiTypeOK
      PROVE  ApiTypeOK'
  BY <1>2 DEF ApiTypeOK, Advance
<1>3. ASSUME NEW r \in Requests, NEW p \in AnswerPlaces,
             Respond(r, p), req[r].at \notin CancelPlaces \cup {"free"}, ApiTypeOK
      PROVE  ApiTypeOK'
  BY <1>3 DEF ApiTypeOK, Respond
<1>4. ASSUME NEW r \in Requests, req' = [req EXCEPT ![r] = Free], ApiTypeOK
      PROVE  ApiTypeOK'
  BY <1>4 DEF ApiTypeOK
<1>5. ASSUME NEW r \in Requests, Handler(r) \/ DropRequest(r)
      PROVE  TypeOK'
  <2>0. /\ req[r] \in Request
        /\ Named(req[r])
    BY DEF ApiTypeOK
  <2>1. CASE AckRead(r)
    BY <2>1, <1>1, <1>2, <1>3 DEF AckRead, StoreTypeOK, storeVars
  <2>2. CASE AckCommit(r)
    <3>1. ApiTypeOK'
      BY <2>2, <1>2 DEF AckCommit
    <3>2. req[r].task \in Tasks /\ req[r].device \in Devices
      BY <2>2, <2>0 DEF AckCommit
    <3>3. StoreTypeOK'
      BY <2>2, <3>2, AckWritesType DEF AckCommit
    <3>4. QED BY <1>1, <3>1, <3>3
  <2>3. CASE AckAnswer(r)
    BY <2>3, <1>1, <1>3 DEF AckAnswer, StoreTypeOK, storeVars
  <2>4. CASE ResultRead(r)
    BY <2>4, <1>1, <1>2, <1>3 DEF ResultRead, StoreTypeOK, storeVars
  <2>5. CASE ResultAttempt(r)
    <3>1. attempts[req[r].task] \in Seq(Attempt)
      BY <2>5, <2>0 DEF ResultAttempt, StoreTypeOK
    <3>2. LatestAttempt(req[r].task, req[r].device) \subseteq Nat
      BY <3>1 DEF LatestAttempt, RunningAttempts
    <3>3. PICK i \in Nat :
              req' = [req EXCEPT ![r].at = "result_attempt", ![r].attempt = i]
      BY <2>5, <3>2 DEF ResultAttempt
    <3>6. ApiTypeOK'
      BY <2>5, <3>3, <2>0 DEF ResultAttempt, ApiTypeOK
    <3>4. StoreTypeOK'
      BY <2>5 DEF ResultAttempt, StoreTypeOK, storeVars
    <3>5. QED BY <1>1, <3>6, <3>4
  <2>6. CASE ResultFresh(r)
    BY <2>6, <1>1, <1>2, <1>3 DEF ResultFresh, StoreTypeOK, storeVars
  <2>7. CASE ResultCommit(r)
    <3>1. ApiTypeOK'
      BY <2>7, <1>3 DEF ResultCommit
    <3>2. StoreTypeOK'
      BY <2>7, <2>0, ResultWritesType DEF ResultCommit
    <3>3. QED BY <1>1, <3>1, <3>2
  <2>8. CASE CancelTask(r)
    <3>1. ApiTypeOK'
      BY <2>8, <1>2 DEF CancelTask
    <3>2. StoreTypeOK'
      BY <2>8, <2>0 DEF CancelTask, StoreTypeOK, VisibleStatuses, TaskStatuses,
                        TerminalStatuses
    <3>3. QED BY <1>1, <3>1, <3>2
  <2>9. CASE CancelOutbound(r)
    <3>1. ApiTypeOK'
      BY <2>9, <1>4 DEF CancelOutbound
    <3>2. StoreTypeOK'
      BY <2>9, <2>0 DEF CancelOutbound, StoreTypeOK, SettleOutbound, SendStatuses
    <3>3. QED BY <1>1, <3>1, <3>2
  <2>10. CASE DropRequest(r)
    BY <2>10, <1>1, <1>4 DEF DropRequest, StoreTypeOK, storeVars
  <2>11. QED
    BY <1>5, <2>1, <2>2, <2>3, <2>4, <2>5, <2>6, <2>7, <2>8, <2>9, <2>10 DEF Handler
<1>6. CASE CreateTestTask
  <2>1. StoreTypeOK'
    BY <1>6, InsertTaskType DEF CreateTestTask
  <2>2. ApiTypeOK'
    BY <1>6 DEF CreateTestTask, ApiTypeOK
  <2>3. QED BY <1>1, <2>1, <2>2
<1>7. ASSUME NEW r \in Requests, NEW t \in Tasks, CancelRead(r, t)
      PROVE  TypeOK'
  <2>1. ApiTypeOK'
    BY <1>7 DEF CancelRead, ApiTypeOK
  <2>2. StoreTypeOK'
    BY <1>7 DEF CancelRead, StoreTypeOK, storeVars
  <2>3. QED BY <1>1, <2>1, <2>2
<1>8. QED
  BY <1>5, <1>6, <1>7 DEF ApiStep

(* A request whose client goes away stays a request. *)
LEMMA HangupType ==
  ASSUME NEW q \in Request, Named(q)
  PROVE  Hangup(q) \in Request /\ Named(Hangup(q))
<1> USE DEF Request, Named, Hangup, Free, Places, AckPlaces, ResultPlaces, CancelPlaces,
            AnswerPlaces, SettledStatuses
<1>1. CASE q.at \in AnswerPlaces
  BY <1>1
<1>2. CASE q.at \notin AnswerPlaces
  BY <1>2
<1>3. QED BY <1>1, <1>2

(* The task loops of the devices keep the type invariant. *)
LEMMA LoopStepType ==
  ASSUME TypeOK, LoopStep, UNCHANGED workerVars
  PROVE  TypeOK'
<1> USE LoopAssumption DEF TypeOK
<1>1. WorkerTypeOK'
  BY DEF WorkerTypeOK, workerVars
<1>2. ASSUME UNCHANGED storeVars
      PROVE  StoreTypeOK'
  BY <1>2 DEF StoreTypeOK, storeVars
<1> USE DEF Request, Named, Free, Places, AckPlaces, ResultPlaces, CancelPlaces,
            AnswerPlaces, SettledStatuses, LoopState, LoopPlaces, Idle
<1>3. ASSUME NEW l \in Loops, LoopProgress(l) \/ Timeout(l)
      PROVE  TypeOK'
  <2>0. /\ loop[l] \in LoopState
        /\ loop[l].at # "idle" => loop[l].task \in Tasks
        /\ loop[l].at \in {"acking", "reporting"} => loop[l].req \in Requests
        /\ DeviceOf[l] \in Devices
    BY DEF LoopTypeOK
  <2>1. CASE AckReturns(l)
    <3>1. LoopTypeOK'
      BY <2>1, <2>0 DEF AckReturns, LoopTypeOK
    <3>2. ApiTypeOK'
      BY <2>1, <2>0 DEF AckReturns, ApiTypeOK
    <3>3. QED BY <2>1, <1>1, <1>2, <3>1, <3>2 DEF AckReturns
  <2>2. CASE Execute(l)
    <3>0. PICK p \in {0, 1}, o \in SettledStatuses :
              /\ pressed' = [pressed EXCEPT ![loop[l].task] = @ + p]
              /\ \/ loop' = [loop EXCEPT ![l].at = "executed", ![l].outcome = o]
                 \/ GoIdle(l)
      BY <2>2 DEF Execute, SettledStatuses
    <3>5. pressed[loop[l].task] + p \in Nat
      BY <2>0, <2>2 DEF Execute, LoopTypeOK
    <3>4. pressed' \in [Tasks -> Nat]
      BY <3>0, <3>5 DEF LoopTypeOK
    <3>6. ASSUME GoIdle(l)
          PROVE  LoopTypeOK'
      BY <3>4, <3>6, <2>0 DEF GoIdle, LoopTypeOK
    <3>7. ASSUME loop' = [loop EXCEPT ![l].at = "executed", ![l].outcome = o]
          PROVE  LoopTypeOK'
      BY <2>2, <3>7, <3>4, <2>0 DEF Execute, LoopTypeOK
    <3>1. LoopTypeOK'
      BY <3>0, <3>6, <3>7
    <3>2. ApiTypeOK'
      BY <2>2 DEF Execute, ApiTypeOK
    <3>3. QED BY <2>2, <1>1, <1>2, <3>1, <3>2 DEF Execute
  <2>3. CASE ReportReturns(l)
    <3>1. LoopTypeOK'
      BY <2>3, <2>0 DEF ReportReturns, GoIdle, LoopTypeOK
    <3>2. ApiTypeOK'
      BY <2>3, <2>0 DEF ReportReturns, ApiTypeOK
    <3>3. QED BY <2>3, <1>1, <1>2, <3>1, <3>2 DEF ReportReturns
  <2>4. ASSUME NEW r \in Requests, Ack(l, r)
        PROVE  TypeOK'
    <3>1. LoopTypeOK'
      BY <2>4, <2>0 DEF Ack, LoopTypeOK
    <3>2. ApiTypeOK'
      BY <2>4, <2>0 DEF Ack, Submit, ApiTypeOK
    <3>3. QED BY <2>4, <1>1, <1>2, <3>1, <3>2 DEF Ack
  <2>5. ASSUME NEW r \in Requests, Report(l, r)
        PROVE  TypeOK'
    <3>1. LoopTypeOK'
      BY <2>5, <2>0 DEF Report, LoopTypeOK
    <3>2. ApiTypeOK'
      BY <2>5, <2>0 DEF Report, Submit, ApiTypeOK
    <3>3. QED BY <2>5, <1>1, <1>2, <3>1, <3>2 DEF Report
  <2>6. CASE Timeout(l)
    <3>1. LoopTypeOK'
      BY <2>6, <2>0 DEF Timeout, GoIdle, LoopTypeOK
    <3>2. ApiTypeOK'
      BY <2>6, <2>0, HangupType DEF Timeout, ApiTypeOK
    <3>3. QED BY <2>6, <1>1, <1>2, <3>1, <3>2 DEF Timeout
  <2>7. CASE Pull(l)
    <3>1. LoopTypeOK'
      BY <2>7, <2>0 DEF Pull, LoopTypeOK
    <3>2. ApiTypeOK'
      BY <2>7 DEF Pull, ApiTypeOK
    <3>3. QED BY <2>7, <1>1, <1>2, <3>1, <3>2 DEF Pull
  <2>8. QED
    BY <1>3, <2>1, <2>2, <2>3, <2>4, <2>5, <2>6, <2>7 DEF LoopProgress
<1>4. ASSUME NEW d \in Devices, Crash(d)
      PROVE  TypeOK'
  <2>1. LoopTypeOK'
    BY <1>4 DEF Crash, LoopTypeOK
  <2>2. ApiTypeOK'
    BY <1>4, HangupType DEF Crash, ApiTypeOK
  <2>3. QED BY <1>4, <1>1, <1>2, <2>1, <2>2 DEF Crash
<1>5. QED
  BY <1>3, <1>4 DEF LoopStep

(* The end of a worker run keeps the types of jobs and runs. *)
LEMMA EndRunType ==
  ASSUME WorkerTypeOK, NEW w \in Workers, NEW j \in Job, EndRun(w, j)
  PROVE  WorkerTypeOK'
  BY DEF WorkerTypeOK, EndRun, Run, NoRun, RunPlaces

(* What the queue changes of a job leaves a job. *)
LEMMA JobUpdateType ==
  ASSUME NEW j \in Job, NEW p \in JobPlaces, NEW n \in Nat
  PROVE  /\ [j EXCEPT !.at = p, !.tries = n, !.lock = NoWorker] \in Job
         /\ [j EXCEPT !.at = p, !.stalls = n, !.lock = NoWorker] \in Job
  BY DEF Job

(* A job that a worker fetches is still a job. *)
LEMMA JobFetchType ==
  ASSUME NEW j \in Job, NEW w \in Workers
  PROVE  [j EXCEPT !.at = "active", !.lock = w] \in Job
  BY DEF Job, JobPlaces

(* A run that returns keeps the types of jobs and runs. *)
LEMMA CompletedType ==
  ASSUME WorkerTypeOK, NEW w \in Workers, ~At(w, "free"), Completed(w)
  PROVE  WorkerTypeOK'
<1>1. [job[run[w].outbound] EXCEPT !.at = "completed", !.lock = NoWorker] \in Job
  BY DEF WorkerTypeOK, At, Job, JobPlaces
<1>2. QED BY <1>1, EndRunType DEF Completed

(* A run that throws keeps the types of jobs and runs. *)
LEMMA ThrownType ==
  ASSUME WorkerTypeOK, NEW w \in Workers, ~At(w, "free"), Thrown(w)
  PROVE  WorkerTypeOK'
<1> DEFINE j == job[run[w].outbound]
           left == j.tries + 1 < JobAttempts
           after == [j EXCEPT !.at = IF left THEN "waiting" ELSE "failed",
                              !.tries = j.tries + 1, !.lock = NoWorker]
<1>1. j \in Job
  BY DEF WorkerTypeOK, At
<1>2. after \in Job
  <2>1. (IF left THEN "waiting" ELSE "failed") \in JobPlaces
    BY DEF JobPlaces
  <2>2. j.tries + 1 \in Nat
    BY <1>1 DEF Job
  <2> HIDE DEF j, left
  <2>3. QED BY <1>1, <2>1, <2>2, JobUpdateType
<1>3. EndRun(w, after)
  BY DEF Thrown
<1>4. QED BY <1>2, <1>3, EndRunType

(* The send worker and its queue keep the type invariant. *)
LEMMA WorkerStepType ==
  ASSUME TypeOK, WorkerStep, UNCHANGED <<req, loopVars>>
  PROVE  TypeOK'
<1> USE DEF TypeOK
<1>1. ApiTypeOK' /\ LoopTypeOK'
  BY DEF ApiTypeOK, LoopTypeOK, loopVars
<1>2. ASSUME UNCHANGED storeVars
      PROVE  StoreTypeOK'
  BY <1>2 DEF StoreTypeOK, storeVars
<1>3. ASSUME NEW o \in Outbounds, NEW s \in SendStatuses,
             sendStatus' = [sendStatus EXCEPT ![o] = s],
             UNCHANGED <<status, owner, link, attempts>>
      PROVE  StoreTypeOK'
  BY <1>3 DEF StoreTypeOK
<1>4. ASSUME NEW w \in Workers, NEW p \in RunPlaces, ~At(w, "free"), Goto(w, p)
      PROVE  WorkerTypeOK'
  BY <1>4 DEF Goto, At, WorkerTypeOK, Run
<1>5. ASSUME NEW o \in Outbounds, CreateOutbound(o) \/ AddJob(o) \/ Stall(o)
      PROVE  TypeOK'
  <2>1. CASE CreateOutbound(o)
    BY <2>1, <1>1, <1>3 DEF CreateOutbound, SendStatuses, WorkerTypeOK, workerVars
  <2>2. CASE AddJob(o)
    <3>1. WorkerTypeOK'
      BY <2>2 DEF AddJob, WorkerTypeOK, Job, JobPlaces
    <3>2. QED BY <2>2, <3>1, <1>1, <1>2 DEF AddJob
  <2>3. CASE Stall(o)
    <3>1. WorkerTypeOK'
      <4>1. CASE job[o].stalls < MaxStalls
        <5> DEFINE j == job[o]
        <5>1. j \in Job /\ j.stalls + 1 \in Nat
          BY DEF WorkerTypeOK, Job
        <5>2. [j EXCEPT !.at = "waiting", !.stalls = j.stalls + 1, !.lock = NoWorker] \in Job
          BY <5>1, JobUpdateType DEF JobPlaces
        <5>3. job' = [job EXCEPT ![o] =
                        [j EXCEPT !.at = "waiting", !.stalls = j.stalls + 1, !.lock = NoWorker]]
          BY <2>3, <4>1 DEF Stall
        <5>4. QED BY <2>3, <5>2, <5>3 DEF Stall, WorkerTypeOK
      <4>2. CASE ~(job[o].stalls < MaxStalls)
        BY <2>3, <4>2 DEF Stall, WorkerTypeOK, Job, JobPlaces
      <4>3. QED BY <4>1, <4>2
    <3>2. QED BY <2>3, <3>1, <1>1, <1>2 DEF Stall
  <2>4. QED BY <1>5, <2>1, <2>2, <2>3
<1>6. ASSUME NEW w \in Workers, WorkerProgress(w) \/ JobError(w)
      PROVE  TypeOK'
  <2>0. ~At(w, "free") => run[w].outbound \in Outbounds
    BY DEF At, WorkerTypeOK
  <2> USE DEF RunPlaces, SendStatuses
  <2>1. ASSUME NEW o \in Outbounds, Fetch(w, o)
        PROVE  TypeOK'
    <3> DEFINE fetched == [job[o] EXCEPT !.at = "active", !.lock = w]
    <3>1. fetched \in Job
      BY JobFetchType DEF WorkerTypeOK
    <3>2. job' \in [Outbounds -> Job]
      <4>1. job' = [job EXCEPT ![o] = fetched]
        BY <2>1 DEF Fetch
      <4>2. QED BY <3>1, <4>1 DEF WorkerTypeOK
    <3>3. run' \in [Workers -> Run]
      BY <2>1 DEF Fetch, WorkerTypeOK, Run
    <3>4. \A v \in Workers : run'[v].at # "free" => run'[v].outbound \in Outbounds
      BY <2>1 DEF Fetch, WorkerTypeOK
    <3>5. WorkerTypeOK'
      BY <3>2, <3>3, <3>4 DEF WorkerTypeOK
    <3>6. QED BY <2>1, <3>5, <1>1, <1>2 DEF Fetch
  <2>2. CASE Precheck(w)
    BY <2>2, <1>1, <1>2, <1>4 DEF Precheck, At
  <2>3. CASE CancelBlocked(w)
    <3>1. ~At(w, "free")
      BY <2>3 DEF CancelBlocked, At
    <3>2. StoreTypeOK'
      BY <2>0, <2>3, <3>1, <1>3 DEF CancelBlocked
    <3>3. QED BY <1>1, <2>3, <3>1, <3>2, CompletedType DEF CancelBlocked
  <2>4. CASE InsertLinked(w)
    <3>1. StoreTypeOK'
      BY <2>0, <2>4, InsertTaskType DEF InsertLinked, At
    <3>2. QED BY <2>4, <3>1, <1>1, <1>4 DEF InsertLinked, At
  <2>5. CASE InsertRefused(w)
    BY <2>5, <1>1, <1>2, ThrownType DEF InsertRefused, At
  <2>6. CASE MarkPendingExecutor(w)
    <3>1. ~At(w, "free")
      BY <2>6 DEF MarkPendingExecutor, At
    <3>2. StoreTypeOK'
      BY <2>0, <2>6, <3>1, <1>3 DEF MarkPendingExecutor
    <3>3. QED BY <1>1, <2>6, <3>1, <3>2, <1>4 DEF MarkPendingExecutor
  <2>7. CASE FinishJob(w)
    BY <2>7, <1>1, <1>2, CompletedType DEF FinishJob, At
  <2>8. CASE JobError(w)
    BY <2>8, <1>1, <1>2, ThrownType DEF JobError
  <2>9. QED
    BY <1>6, <2>1, <2>2, <2>3, <2>4, <2>5, <2>6, <2>7, <2>8 DEF WorkerProgress
<1>7. QED
  BY <1>5, <1>6 DEF WorkerStep

(* A restart of the server keeps the type invariant. *)
LEMMA ServerRestartType ==
  ASSUME TypeOK, ServerRestart
  PROVE  TypeOK'
<1> USE DEF TypeOK
<1>1. StoreTypeOK' /\ LoopTypeOK'
  BY DEF ServerRestart, StoreTypeOK, LoopTypeOK, storeVars, loopVars
<1>2. WorkerTypeOK'
  BY DEF ServerRestart, WorkerTypeOK, Run, NoRun, RunPlaces
<1>3. ApiTypeOK'
  BY DEF ServerRestart, AbortedByRestart, ApiTypeOK, Request, Named, Free, Places, AckPlaces,
         ResultPlaces, CancelPlaces, AnswerPlaces, SettledStatuses
<1>4. QED BY <1>1, <1>2, <1>3

(* No step of the server, of a device or of a worker breaks the types.      *)
LEMMA NextType == TypeOK /\ [Next]_vars => TypeOK'
<1> SUFFICES ASSUME TypeOK, [Next]_vars
             PROVE  TypeOK'
  OBVIOUS
<1>1. CASE ApiStep /\ UNCHANGED <<loopVars, workerVars>>
  BY <1>1, ApiStepType
<1>2. CASE LoopStep /\ UNCHANGED workerVars
  BY <1>2, LoopStepType
<1>3. CASE WorkerStep /\ UNCHANGED <<req, loopVars>>
  BY <1>3, WorkerStepType
<1>4. CASE ServerRestart
  BY <1>4, ServerRestartType
<1>5. CASE UNCHANGED vars
  BY <1>5 DEF vars, storeVars, loopVars, workerVars, TypeOK, StoreTypeOK, ApiTypeOK,
              LoopTypeOK, WorkerTypeOK
<1>6. QED
  BY <1>1, <1>2, <1>3, <1>4, <1>5 DEF Next

(* Whatever is dropped, killed, retried or restarted, every row, request,   *)
(* loop and job stays within its type; in particular "claimed" never        *)
(* outlives the transaction of ackExecutorTask, and a request under way     *)
(* names a row and a device that exist.                                     *)
THEOREM TypeCorrect == Spec => []TypeOK
  BY InitType, NextType, PTL DEF Spec

-----------------------------------------------------------------------------
(* Rows.  A step leaves every row and its link in place, except that it may *)
(* insert one task.                                                         *)

RowsKept == /\ link' = link
            /\ \A t \in Tasks : status[t] # "absent" => status'[t] # "absent"

RowsStep == \/ RowsKept
            \/ \E t \in Tasks, o \in Outbounds \cup {NoOutbound} : InsertTask(t, o)

(* A row that is not there yet carries no link. *)
AbsentIsUnlinked == \A t \in Tasks : status[t] = "absent" => link[t] = NoOutbound

(* No two rows carry the same link: what the unique index is there for.     *)
OneTaskPerOutbound ==
    \A t, u \in Tasks : \A o \in Outbounds : LinkedTo(t, o) /\ LinkedTo(u, o) => t = u

(* No handler deletes a row or changes its link; only CreateTestTask and    *)
(* InsertLinked set a link, by inserting a row.                             *)
LEMMA NextRows == TypeOK /\ [Next]_vars => RowsStep
<1> SUFFICES ASSUME TypeOK, [Next]_vars
             PROVE  RowsStep
  OBVIOUS
<1> USE DEF RowsStep, RowsKept
<1>1. ASSUME UNCHANGED <<status, link>>
      PROVE  RowsStep
  BY <1>1
<1>2. CASE ApiStep /\ UNCHANGED <<loopVars, workerVars>>
  <2>1. ASSUME NEW r \in Requests, Handler(r)
        PROVE  RowsStep
    <3>1. /\ req[r].at # "free" => req[r].task \in Tasks
          /\ req[r].outcome \in SettledStatuses
          /\ status \in [Tasks -> VisibleStatuses]
      BY DEF TypeOK, ApiTypeOK, StoreTypeOK, Named, Request
    <3>2. CASE AckCommit(r)
      BY <3>1, <3>2 DEF AckCommit, AckWrites
    <3>3. CASE ResultCommit(r)
      BY <3>1, <3>3 DEF ResultCommit, ResultWrites, SettledStatuses
    <3>4. CASE CancelTask(r)
      BY <3>1, <3>4 DEF CancelTask
    <3>5. QED
      BY <2>1, <1>1, <3>2, <3>3, <3>4
         DEF Handler, AckRead, AckAnswer, ResultRead, ResultAttempt, ResultFresh,
             CancelOutbound, storeVars
  <2>2. ASSUME NEW r \in Requests, DropRequest(r)
        PROVE  RowsStep
    BY <2>2, <1>1 DEF DropRequest, storeVars
  <2>3. CASE CreateTestTask
    BY <2>3 DEF CreateTestTask
  <2>4. ASSUME NEW r \in Requests, NEW t \in Tasks, CancelRead(r, t)
        PROVE  RowsStep
    BY <2>4, <1>1 DEF CancelRead, storeVars
  <2>5. QED BY <1>2, <2>1, <2>2, <2>3, <2>4 DEF ApiStep
<1>3. CASE LoopStep /\ UNCHANGED workerVars
  BY <1>3, <1>1 DEF LoopStep, LoopProgress, Pull, Ack, AckReturns, Execute, Report,
                    ReportReturns, Timeout, Crash, storeVars
<1>4. CASE WorkerStep /\ UNCHANGED <<req, loopVars>>
  <2>1. ASSUME NEW w \in Workers, InsertLinked(w)
        PROVE  RowsStep
    <3>1. run[w].outbound \in Outbounds
      BY <2>1 DEF InsertLinked, At, TypeOK, WorkerTypeOK
    <3>2. QED BY <2>1, <3>1 DEF InsertLinked
  <2>2. QED
    BY <1>4, <1>1, <2>1
       DEF WorkerStep, WorkerProgress, CreateOutbound, AddJob, Stall, Fetch, Precheck,
           CancelBlocked, InsertRefused, MarkPendingExecutor, FinishJob, JobError, storeVars
<1>5. CASE ServerRestart
  BY <1>5, <1>1 DEF ServerRestart, storeVars
<1>6. CASE UNCHANGED vars
  BY <1>6, <1>1 DEF vars, storeVars
<1>7. QED
  BY <1>2, <1>3, <1>4, <1>5, <1>6 DEF Next

(* The unique index keeps links injective across every such step. *)
LEMMA RowsStepUnique ==
  ASSUME TypeOK, RowsStep, AbsentIsUnlinked, OneTaskPerOutbound
  PROVE  AbsentIsUnlinked' /\ OneTaskPerOutbound'
<1> USE DEF AbsentIsUnlinked, OneTaskPerOutbound, LinkedTo
<1>1. CASE RowsKept
  BY <1>1, StoreAssumption DEF RowsKept
<1>2. ASSUME NEW t \in Tasks, NEW o \in Outbounds \cup {NoOutbound}, InsertTask(t, o)
      PROVE  AbsentIsUnlinked' /\ OneTaskPerOutbound'
  <2>1. /\ status'[t] = "pending" /\ link'[t] = o
        /\ \A u \in Tasks : u # t => status'[u] = status[u] /\ link'[u] = link[u]
    BY <1>2 DEF InsertTask, TypeOK, StoreTypeOK
  <2>2. o \in Outbounds => \A u \in Tasks : status[u] # "absent" => link[u] # o
    BY <1>2, StoreAssumption DEF InsertTask, OutboundUnlinked
  <2>3. QED BY <2>1, <2>2
<1>3. QED
  BY <1>1, <1>2 DEF RowsStep

-----------------------------------------------------------------------------
(* Attempts.  A task that is running after a step was left alone by it, or  *)
(* was granted by it.                                                       *)

LeftAlone(t) == status'[t] = status[t] /\ owner'[t] = owner[t] /\ attempts'[t] = attempts[t]

Granted(t) ==
    attempts'[t] = Append(attempts[t], [device |-> owner'[t], status |-> "running"])

AttemptStep == \A t \in Tasks : status'[t] # "running" \/ LeftAlone(t) \/ Granted(t)

(* Only the commit of ackExecutorTask makes a task running, and a report    *)
(* closes an attempt only together with its task.                           *)
LEMMA NextAttempt == TypeOK /\ [Next]_vars => AttemptStep
<1> SUFFICES ASSUME TypeOK, [Next]_vars
             PROVE  AttemptStep
  OBVIOUS
<1> USE DEF AttemptStep, LeftAlone
<1>0. /\ status \in [Tasks -> VisibleStatuses]
      /\ owner \in [Tasks -> Devices \cup {NoDevice}]
      /\ attempts \in [Tasks -> Seq(Attempt)]
  BY DEF TypeOK, StoreTypeOK
<1>1. ASSUME UNCHANGED <<status, owner, attempts>>
      PROVE  AttemptStep
  BY <1>1
<1>2. ASSUME NEW t \in Tasks, NEW o, InsertTask(t, o), UNCHANGED <<owner, attempts>>
      PROVE  AttemptStep
  BY <1>0, <1>2 DEF InsertTask
<1>3. CASE ApiStep /\ UNCHANGED <<loopVars, workerVars>>
  <2>1. ASSUME NEW r \in Requests, Handler(r)
        PROVE  AttemptStep
    <3>1. /\ req[r].at # "free" => req[r].task \in Tasks
          /\ req[r].outcome \in SettledStatuses
      BY DEF TypeOK, ApiTypeOK, Named, Request
    <3>2. CASE AckCommit(r)
      BY <1>0, <3>1, <3>2 DEF AckCommit, AckWrites, Granted
    <3>3. CASE ResultCommit(r)
      BY <1>0, <3>1, <3>3 DEF ResultCommit, ResultWrites, SettledStatuses
    <3>4. CASE CancelTask(r)
      BY <1>0, <3>1, <3>4 DEF CancelTask
    <3>5. QED
      BY <2>1, <1>1, <3>2, <3>3, <3>4
         DEF Handler, AckRead, AckAnswer, ResultRead, ResultAttempt, ResultFresh,
             CancelOutbound, storeVars
  <2>2. QED
    BY <1>3, <1>1, <1>2, <2>1
       DEF ApiStep, DropRequest, CreateTestTask, CancelRead, storeVars
<1>4. CASE LoopStep /\ UNCHANGED workerVars
  BY <1>4, <1>1 DEF LoopStep, LoopProgress, Pull, Ack, AckReturns, Execute, Report,
                    ReportReturns, Timeout, Crash, storeVars
<1>5. CASE WorkerStep /\ UNCHANGED <<req, loopVars>>
  BY <1>5, <1>1, <1>2
     DEF WorkerStep, WorkerProgress, CreateOutbound, AddJob, Stall, Fetch, Precheck,
         CancelBlocked, InsertLinked, InsertRefused, MarkPendingExecutor, FinishJob,
         JobError, storeVars
<1>6. CASE ServerRestart
  BY <1>6, <1>1 DEF ServerRestart, storeVars
<1>7. CASE UNCHANGED vars
  BY <1>7, <1>1 DEF vars, storeVars
<1>8. QED
  BY <1>3, <1>4, <1>5, <1>6, <1>7 DEF Next

(* Even when two acks of one task both commit, or a stale cancellation and  *)
(* a report cross, a running task ends in an open attempt of its owner: the *)
(* attempt that the owner's result will look for.                           *)
THEOREM RunningHasOpenAttemptHolds == Spec => []RunningHasOpenAttempt
<1> DEFINE IInv == TypeOK /\ RunningHasOpenAttempt
<1>1. Init => IInv
  BY InitType DEF Init, StoreInit, RunningHasOpenAttempt
<1>2. IInv /\ [Next]_vars => IInv'
  <2> SUFFICES ASSUME IInv, [Next]_vars
               PROVE  IInv'
    OBVIOUS
  <2>1. TypeOK' /\ AttemptStep
    BY NextType, NextAttempt
  <2>2. ASSUME NEW t \in Tasks, status'[t] = "running"
        PROVE  /\ attempts'[t] # <<>>
               /\ attempts'[t][Len(attempts'[t])] = [device |-> owner'[t], status |-> "running"]
    <3>1. CASE LeftAlone(t)
      BY <2>2, <3>1 DEF LeftAlone, RunningHasOpenAttempt
    <3>2. CASE Granted(t)
      <4>1. attempts[t] \in Seq(Attempt) /\ attempts'[t] \in Seq(Attempt)
        BY <2>1 DEF TypeOK, StoreTypeOK
      <4> DEFINE e == [device |-> owner'[t], status |-> "running"]
      <4>2. e \in Attempt
        <5>1. attempts'[t] = Append(attempts[t], e)
          BY <3>2 DEF Granted
        <5>2. attempts'[t][Len(attempts[t]) + 1] = e /\ Len(attempts'[t]) = Len(attempts[t]) + 1
          BY <4>1, <5>1
        <5>3. QED BY <4>1, <5>2
      <4>3. attempts'[t] = Append(attempts[t], e)
        BY <3>2 DEF Granted
      <4> HIDE DEF e
      <4>4. attempts'[t] # <<>> /\ attempts'[t][Len(attempts'[t])] = e
        BY <4>1, <4>2, <4>3, AppendProperties
      <4>5. QED
        BY <4>4 DEF e
    <3>3. QED BY <2>1, <2>2, <3>1, <3>2 DEF AttemptStep
  <2>3. QED BY <2>1, <2>2 DEF RunningHasOpenAttempt
<1>3. QED
  BY <1>1, <1>2, PTL DEF Spec

-----------------------------------------------------------------------------
(* Success.  A loop, a request, a task and a message read success only      *)
(* after a press; each takes it from the one before.                        *)

Pressed(t) == t \in Tasks /\ pressed[t] > 0

LoopsAreHonest == \A l \in Loops : loop[l].outcome = "success" => Pressed(loop[l].task)

RequestsAreHonest == \A r \in Requests : req[r].outcome = "success" => Pressed(req[r].task)

(* A request that claims success of task t. *)
Claims(r, t) == req[r].outcome = "success" /\ req[r].task = t

PressedGrows == \A t \in Tasks : pressed'[t] >= pressed[t]

LoopsHonestStep ==
    \A l \in Loops : loop'[l].outcome = "success" =>
        \/ loop[l].outcome = "success" /\ loop'[l].task = loop[l].task
        \/ loop'[l].task \in Tasks /\ pressed'[loop'[l].task] > 0

RequestsHonestStep ==
    \A r \in Requests : req'[r].outcome = "success" =>
        \/ Claims(r, req'[r].task)
        \/ \E l \in Loops : loop[l].outcome = "success" /\ loop[l].task = req'[r].task

TasksHonestStep ==
    \A t \in Tasks : status'[t] = "success" =>
        status[t] = "success" \/ \E r \in Requests : Claims(r, t)

MessagesHonestStep ==
    \A o \in Outbounds : sendStatus'[o] = "success" =>
        \/ sendStatus[o] = "success"
        \/ \E r \in Requests, t \in Tasks : Claims(r, t) /\ LinkedTo(t, o)'

HonestStep == /\ PressedGrows /\ LoopsHonestStep /\ RequestsHonestStep
              /\ TasksHonestStep /\ MessagesHonestStep

(* The handlers pass on what a request claims; none makes up a success. *)
LEMMA ApiHonest ==
  ASSUME TypeOK, ApiStep, UNCHANGED <<loopVars, workerVars>>
  PROVE  HonestStep
<1>0. /\ status \in [Tasks -> VisibleStatuses]
      /\ link \in [Tasks -> Outbounds \cup {NoOutbound}]
      /\ sendStatus \in [Outbounds -> SendStatuses]
      /\ req \in [Requests -> Request]
      /\ pressed \in [Tasks -> Nat]
      /\ \A r \in Requests : req[r].at # "free" => req[r].task \in Tasks
  BY DEF TypeOK, StoreTypeOK, ApiTypeOK, LoopTypeOK, Named
<1>1. PressedGrows /\ LoopsHonestStep
  BY <1>0 DEF PressedGrows, LoopsHonestStep, loopVars
<1>2. ASSUME NEW r \in Requests, NEW p, Advance(r, p) \/ Respond(r, p)
      PROVE  RequestsHonestStep
  BY <1>0, <1>2 DEF Advance, Respond, RequestsHonestStep, Claims, Free, Request
<1>3. ASSUME NEW r \in Requests, req' = [req EXCEPT ![r] = Free]
      PROVE  RequestsHonestStep
  BY <1>0, <1>3 DEF RequestsHonestStep, Claims, Free
<1>4. ASSUME UNCHANGED status
      PROVE  TasksHonestStep
  BY <1>4 DEF TasksHonestStep
<1>5. ASSUME UNCHANGED sendStatus
      PROVE  MessagesHonestStep
  BY <1>5 DEF MessagesHonestStep
<1>6. ASSUME NEW r \in Requests, Handler(r) \/ DropRequest(r)
      PROVE  HonestStep
  <2>1. CASE AckRead(r) \/ AckAnswer(r) \/ ResultRead(r) \/ ResultFresh(r) \/ DropRequest(r)
    BY <2>1, <1>1, <1>2, <1>3, <1>4, <1>5
       DEF HonestStep, AckRead, AckAnswer, ResultRead, ResultFresh, DropRequest, storeVars
  <2>2. CASE AckCommit(r)
    <3>1. TasksHonestStep
      BY <2>2, <1>0 DEF AckCommit, AckWrites, TasksHonestStep
    <3>2. QED BY <2>2, <3>1, <1>1, <1>2, <1>5 DEF HonestStep, AckCommit
  <2>3. CASE ResultAttempt(r)
    <3>1. RequestsHonestStep
      BY <2>3, <1>0 DEF ResultAttempt, RequestsHonestStep, Claims, Request
    <3>2. QED BY <2>3, <3>1, <1>1, <1>4, <1>5 DEF HonestStep, ResultAttempt, storeVars
  <2>4. CASE ResultCommit(r)
    <3> DEFINE t == req[r].task
    <3>1. /\ t \in Tasks
          /\ status' = [status EXCEPT ![t] = req[r].outcome]
          /\ link' = link
          /\ SettleOutbound(t, req[r].outcome)
          /\ req[r].outcome \in SettledStatuses
      BY <2>4, <1>0 DEF ResultCommit, ResultWrites, Request
    <3> HIDE DEF t
    <3>2. TasksHonestStep
      BY <3>1, <1>0 DEF TasksHonestStep, Claims, t
    <3>3. MessagesHonestStep
      <4>1. ASSUME NEW o \in Outbounds, sendStatus'[o] = "success",
                   sendStatus[o] # "success"
            PROVE  Claims(r, t) /\ (status'[t] # "absent" /\ link'[t] = o)
        <5>1. link[t] = o /\ req[r].outcome = "success"
          BY <3>1, <4>1, <1>0 DEF SettleOutbound
        <5>2. status'[t] # "absent" /\ link'[t] = o
          BY <3>1, <5>1, <1>0
        <5>3. QED BY <5>1, <5>2 DEF Claims, t
      <4>2. QED BY <3>1, <4>1 DEF MessagesHonestStep, LinkedTo
    <3>4. QED BY <2>4, <3>2, <3>3, <1>1, <1>2 DEF HonestStep, ResultCommit
  <2>5. CASE CancelTask(r)
    <3>1. TasksHonestStep
      BY <2>5, <1>0 DEF CancelTask, TasksHonestStep
    <3>2. QED BY <2>5, <3>1, <1>1, <1>2, <1>5 DEF HonestStep, CancelTask
  <2>6. CASE CancelOutbound(r)
    <3>1. MessagesHonestStep
      BY <2>6, <1>0 DEF CancelOutbound, SettleOutbound, MessagesHonestStep
    <3>2. QED BY <2>6, <3>1, <1>1, <1>3, <1>4 DEF HonestStep, CancelOutbound
  <2>7. QED
    BY <1>6, <2>1, <2>2, <2>3, <2>4, <2>5, <2>6 DEF Handler
<1>7. CASE CreateTestTask
  BY <1>7, <1>0, <1>1, <1>5
     DEF CreateTestTask, InsertTask, HonestStep, RequestsHonestStep, TasksHonestStep, Claims
<1>8. ASSUME NEW r \in Requests, NEW t \in Tasks, CancelRead(r, t)
      PROVE  HonestStep
  <2>1. RequestsHonestStep
    BY <1>8, <1>0 DEF CancelRead, RequestsHonestStep, Claims, Free
  <2>2. QED BY <1>8, <2>1, <1>1, <1>4, <1>5 DEF CancelRead, HonestStep, storeVars
<1>9. QED
  BY <1>6, <1>7, <1>8 DEF ApiStep

(* A loop reads success only behind its press, and reports what it reads. *)
LEMMA LoopHonest ==
  ASSUME TypeOK, LoopStep, UNCHANGED workerVars
  PROVE  HonestStep
<1>0. /\ req \in [Requests -> Request]
      /\ loop \in [Loops -> LoopState]
      /\ pressed \in [Tasks -> Nat]
      /\ \A l \in Loops : loop[l].at # "idle" => loop[l].task \in Tasks
  BY DEF TypeOK, ApiTypeOK, LoopTypeOK
<1>1. UNCHANGED storeVars => TasksHonestStep /\ MessagesHonestStep
  BY DEF storeVars, TasksHonestStep, MessagesHonestStep
<1>2. UNCHANGED pressed => PressedGrows
  BY <1>0 DEF PressedGrows
<1>3. UNCHANGED req => RequestsHonestStep
  BY DEF RequestsHonestStep, Claims
<1>4. ASSUME NEW l \in Loops, loop' = [loop EXCEPT ![l] = Idle]
      PROVE  LoopsHonestStep
  BY <1>0, <1>4 DEF LoopsHonestStep, Idle
<1> USE DEF HonestStep
<1>5. ASSUME NEW l \in Loops, LoopProgress(l) \/ Timeout(l)
      PROVE  HonestStep
  <2>1. ASSUME NEW r \in Requests, Ack(l, r)
        PROVE  HonestStep
    <3>1. LoopsHonestStep
      BY <2>1, <1>0 DEF Ack, LoopsHonestStep
    <3>2. RequestsHonestStep
      BY <2>1, <1>0 DEF Ack, Submit, RequestsHonestStep, Claims
    <3>3. QED BY <2>1, <3>1, <3>2, <1>1, <1>2 DEF Ack
  <2>2. CASE AckReturns(l)
    <3>1. LoopsHonestStep
      BY <2>2, <1>0 DEF AckReturns, LoopsHonestStep, Idle
    <3>2. RequestsHonestStep
      BY <2>2, <1>0 DEF AckReturns, RequestsHonestStep, Claims, Free
    <3>3. QED BY <2>2, <3>1, <3>2, <1>1, <1>2 DEF AckReturns
  <2>3. CASE Execute(l)
    <3>1. PICK p \in {0, 1} :
              /\ pressed' = [pressed EXCEPT ![loop[l].task] = @ + p]
              /\ \/ \E o \in SettledStatuses :
                       /\ Executions(p, o)
                       /\ loop' = [loop EXCEPT ![l].at = "executed", ![l].outcome = o]
                 \/ GoIdle(l)
      BY <2>3 DEF Execute
    <3>2. loop[l].task \in Tasks /\ pressed[loop[l].task] \in Nat
      BY <2>3, <1>0 DEF Execute
    <3>3. PressedGrows
      BY <3>1, <3>2, <1>0 DEF PressedGrows
    <3>4. ASSUME NEW o \in SettledStatuses, Executions(p, o),
                 loop' = [loop EXCEPT ![l].at = "executed", ![l].outcome = o]
          PROVE  LoopsHonestStep
      <4>1. loop'[l].outcome = "success" => pressed'[loop'[l].task] > 0
        <5>1. loop'[l].task = loop[l].task /\ loop'[l].outcome = o
          BY <3>4, <1>0
        <5>2. pressed'[loop[l].task] = pressed[loop[l].task] + p
          BY <3>1, <3>2, <1>0
        <5>3. o = "success" => p = 1
          BY <3>4 DEF Executions
        <5>4. QED BY <3>2, <5>1, <5>2, <5>3
      <4>2. QED BY <3>2, <3>4, <4>1, <1>0 DEF LoopsHonestStep
    <3>5. LoopsHonestStep
      <4>1. ASSUME GoIdle(l)
            PROVE  LoopsHonestStep
        BY <4>1, <1>0 DEF LoopsHonestStep, GoIdle, Idle
      <4>2. QED BY <3>1, <3>4, <4>1
    <3>6. QED BY <2>3, <3>3, <3>5, <1>1, <1>3 DEF Execute
  <2>4. ASSUME NEW r \in Requests, Report(l, r)
        PROVE  HonestStep
    <3>1. LoopsHonestStep
      BY <2>4, <1>0 DEF Report, LoopsHonestStep
    <3>2. RequestsHonestStep
      BY <2>4, <1>0 DEF Report, Submit, RequestsHonestStep, Claims
    <3>3. QED BY <2>4, <3>1, <3>2, <1>1, <1>2 DEF Report
  <2>5. CASE ReportReturns(l)
    <3>1. RequestsHonestStep
      BY <2>5, <1>0 DEF ReportReturns, RequestsHonestStep, Claims, Free
    <3>2. QED BY <2>5, <3>1, <1>1, <1>2, <1>4 DEF ReportReturns, GoIdle
  <2>6. CASE Timeout(l)
    <3>1. RequestsHonestStep
      BY <2>6, <1>0 DEF Timeout, Hangup, RequestsHonestStep, Claims, Free
    <3>2. QED BY <2>6, <3>1, <1>1, <1>2, <1>4 DEF Timeout, GoIdle
  <2>7. CASE Pull(l)
    <3>1. LoopsHonestStep
      BY <2>7, <1>0 DEF Pull, LoopsHonestStep, Idle
    <3>2. QED BY <2>7, <3>1, <1>1, <1>2, <1>3 DEF Pull
  <2>8. QED
    BY <1>5, <2>1, <2>2, <2>3, <2>4, <2>5, <2>6, <2>7 DEF LoopProgress
<1>6. ASSUME NEW d \in Devices, Crash(d)
      PROVE  HonestStep
  <2>1. LoopsHonestStep
    BY <1>6, <1>0 DEF Crash, LoopsHonestStep, Idle
  <2>2. RequestsHonestStep
    BY <1>6, <1>0 DEF Crash, Hangup, RequestsHonestStep, Claims, Free
  <2>3. QED BY <1>6, <2>1, <2>2, <1>1, <1>2 DEF Crash
<1>7. QED
  BY <1>5, <1>6 DEF LoopStep

(* The worker never writes success, and a restart claims nothing. *)
LEMMA WorkerHonest ==
  ASSUME TypeOK, WorkerStep, UNCHANGED <<req, loopVars>>
  PROVE  HonestStep
<1>0. /\ status \in [Tasks -> VisibleStatuses]
      /\ sendStatus \in [Outbounds -> SendStatuses]
      /\ pressed \in [Tasks -> Nat]
  BY DEF TypeOK, StoreTypeOK, LoopTypeOK
<1>1. PressedGrows /\ LoopsHonestStep /\ RequestsHonestStep
  BY <1>0 DEF PressedGrows, LoopsHonestStep, RequestsHonestStep, Claims, loopVars
<1>2. UNCHANGED status => TasksHonestStep
  BY DEF TasksHonestStep
<1>3. UNCHANGED sendStatus => MessagesHonestStep
  BY DEF MessagesHonestStep
<1>4. ASSUME NEW o \in Outbounds, NEW s, s # "success",
             sendStatus' = [sendStatus EXCEPT ![o] = s]
      PROVE  MessagesHonestStep
  BY <1>0, <1>4 DEF MessagesHonestStep
<1>5. ASSUME NEW t \in Tasks, NEW o, InsertTask(t, o)
      PROVE  TasksHonestStep
  BY <1>0, <1>5 DEF InsertTask, TasksHonestStep
<1>6. ASSUME NEW o \in Outbounds, CreateOutbound(o) \/ AddJob(o) \/ Stall(o)
      PROVE  HonestStep
  BY <1>6, <1>1, <1>2, <1>3, <1>4
     DEF HonestStep, CreateOutbound, AddJob, Stall, storeVars
<1>7. ASSUME NEW w \in Workers, WorkerProgress(w) \/ JobError(w)
      PROVE  HonestStep
  <2>0. ~At(w, "free") => run[w].outbound \in Outbounds
    BY DEF At, TypeOK, WorkerTypeOK
  <2>1. CASE CancelBlocked(w)
    <3>1. MessagesHonestStep
      BY <2>0, <2>1, <1>4 DEF CancelBlocked, At
    <3>2. QED BY <2>1, <3>1, <1>1, <1>2 DEF CancelBlocked, HonestStep
  <2>2. CASE MarkPendingExecutor(w)
    <3>1. MessagesHonestStep
      BY <2>0, <2>2, <1>4 DEF MarkPendingExecutor, At
    <3>2. QED BY <2>2, <3>1, <1>1, <1>2 DEF MarkPendingExecutor, HonestStep
  <2>3. QED
    BY <1>7, <2>1, <2>2, <1>1, <1>2, <1>3, <1>5
       DEF HonestStep, WorkerProgress, Fetch, Precheck, InsertLinked, InsertRefused, FinishJob,
           JobError, storeVars
<1>8. QED
  BY <1>6, <1>7 DEF WorkerStep

(* No step of the system makes up a success. *)
LEMMA NextHonest == TypeOK /\ [Next]_vars => HonestStep
<1> SUFFICES ASSUME TypeOK, [Next]_vars
             PROVE  HonestStep
  OBVIOUS
<1>0. /\ pressed \in [Tasks -> Nat]
      /\ req \in [Requests -> Request]
  BY DEF TypeOK, LoopTypeOK, ApiTypeOK
<1>1. ASSUME UNCHANGED <<storeVars, loopVars>>
      PROVE  RequestsHonestStep => HonestStep
  BY <1>0, <1>1 DEF HonestStep, PressedGrows, LoopsHonestStep, TasksHonestStep,
                    MessagesHonestStep, storeVars, loopVars
<1>2. CASE ServerRestart
  <2>1. RequestsHonestStep
    BY <1>0, <1>2 DEF ServerRestart, AbortedByRestart, RequestsHonestStep, Claims, Free
  <2>2. QED BY <1>1, <1>2, <2>1 DEF ServerRestart
<1>3. CASE UNCHANGED vars
  BY <1>1, <1>3 DEF vars, RequestsHonestStep, Claims
<1>4. QED
  BY <1>2, <1>3, ApiHonest, LoopHonest, WorkerHonest DEF Next

(* No retry, cancellation, stale handler or late write ever makes up a      *)
(* success: where a task or its message reads success, a device did press   *)
(* send for that task.                                                      *)
THEOREM SuccessWasPressedHolds == Spec => []SuccessWasPressed
<1> DEFINE IInv == /\ TypeOK /\ AbsentIsUnlinked /\ OneTaskPerOutbound
                   /\ LoopsAreHonest /\ RequestsAreHonest /\ SuccessWasPressed
<1>1. Init => IInv
  BY InitType DEF Init, StoreInit, ApiInit, LoopInit, Free, Idle, AbsentIsUnlinked,
                  OneTaskPerOutbound, LinkedTo, LoopsAreHonest, RequestsAreHonest,
                  SuccessWasPressed
<1>2. IInv /\ [Next]_vars => IInv'
  <2> SUFFICES ASSUME IInv, [Next]_vars
               PROVE  IInv'
    OBVIOUS
  <2>1. TypeOK' /\ RowsStep /\ HonestStep
    BY NextType, NextRows, NextHonest
  <2>2. AbsentIsUnlinked' /\ OneTaskPerOutbound'
    BY <2>1, RowsStepUnique
  <2>3. pressed \in [Tasks -> Nat] /\ pressed' \in [Tasks -> Nat]
    BY <2>1 DEF TypeOK, LoopTypeOK
  <2>4. \A t : Pressed(t) => Pressed(t)'
    BY <2>1, <2>3 DEF Pressed, HonestStep, PressedGrows
  <2>5. LoopsAreHonest'
    BY <2>1, <2>4 DEF HonestStep, LoopsHonestStep, LoopsAreHonest, Pressed
  <2>6. RequestsAreHonest'
    BY <2>1, <2>4 DEF HonestStep, RequestsHonestStep, RequestsAreHonest, LoopsAreHonest, Claims
  <2>7. \A t \in Tasks : status'[t] = "success" => Pressed(t)'
    BY <2>1, <2>4 DEF HonestStep, TasksHonestStep, RequestsAreHonest, Claims,
                      SuccessWasPressed, Pressed
  <2>8. \A t \in Tasks, o \in Outbounds : LinkedTo(t, o) => LinkedTo(t, o)'
    <3>1. CASE RowsKept
      BY <3>1 DEF RowsKept, LinkedTo
    <3>2. ASSUME NEW t \in Tasks, NEW o, InsertTask(t, o)
          PROVE  \A u \in Tasks, m \in Outbounds : LinkedTo(u, m) => LinkedTo(u, m)'
      BY <3>2 DEF InsertTask, NextTaskId, LinkedTo, TypeOK, StoreTypeOK
    <3>3. QED BY <2>1, <3>1, <3>2 DEF RowsStep
  <2>9. ASSUME NEW o \in Outbounds, sendStatus'[o] = "success"
        PROVE  \E t \in Tasks : LinkedTo(t, o)' /\ Pressed(t)'
    <3>1. CASE sendStatus[o] = "success"
      BY <3>1, <2>4, <2>8 DEF SuccessWasPressed, Pressed
    <3>2. CASE \E r \in Requests, t \in Tasks : Claims(r, t) /\ LinkedTo(t, o)'
      BY <3>2, <2>4 DEF Claims, RequestsAreHonest
    <3>3. QED BY <2>1, <2>9, <3>1, <3>2 DEF HonestStep, MessagesHonestStep
  <2>10. SuccessWasPressed'
    BY <2>7, <2>9 DEF SuccessWasPressed, Pressed
  <2>11. QED BY <2>1, <2>2, <2>5, <2>6, <2>10
<1>3. QED
  BY <1>1, <1>2, PTL DEF Spec

-----------------------------------------------------------------------------
(* Jobs.  A run that is past its insert has a task, and so has a message    *)
(* whose sendStatus can still be overwritten after its job completed.       *)
HasTask(o) == \E t \in Tasks : LinkedTo(t, o)
HasTaskThen(o) == \E t \in Tasks : status'[t] # "absent" /\ link'[t] = o

RunsPastInsertHaveTask ==
    \A w \in Workers : run[w].at \in {"inserted", "marked"} => HasTask(run[w].outbound)

(* A run keeps its place, or is at a new one its message allows.            *)
RunsStep ==
    \A w \in Workers : run'[w].at \in {"inserted", "marked"} =>
        \/ run'[w].outbound = run[w].outbound /\ run[w].at \in {"inserted", "marked"}
        \/ HasTaskThen(run'[w].outbound)

(* A job completes with its message cancelled or behind the insert, and a   *)
(* message that has no task stays cancelled.                                *)
JobsStep ==
    \A o \in Outbounds :
        /\ job'[o].at = "completed" =>
              \/ job[o].at = "completed"
              \/ sendStatus'[o] = "cancelled"
              \/ \E w \in Workers : run[w].at = "marked" /\ run[w].outbound = o
        /\ sendStatus[o] = "cancelled" =>
              \/ sendStatus'[o] = "cancelled"
              \/ HasTask(o)
              \/ \E w \in Workers : run[w].at = "inserted" /\ run[w].outbound = o

(* The worker and its queue. *)
LEMMA WorkerHandles ==
  ASSUME TypeOK, WorkerStep
  PROVE  RunsStep /\ JobsStep
<1>0. /\ job \in [Outbounds -> Job] /\ run \in [Workers -> Run]
      /\ sendStatus \in [Outbounds -> SendStatuses]
      /\ \A w \in Workers : ~At(w, "free") => run[w].outbound \in Outbounds
  BY DEF TypeOK, WorkerTypeOK, StoreTypeOK, At
<1>1. ASSUME NEW o \in Outbounds, CreateOutbound(o) \/ AddJob(o) \/ Stall(o)
      PROVE  RunsStep /\ JobsStep
  BY <1>0, <1>1 DEF CreateOutbound, AddJob, Stall, RunsStep, JobsStep, workerVars, storeVars, Job
<1>2. ASSUME NEW w \in Workers, Thrown(w), ~At(w, "free"), UNCHANGED storeVars
      PROVE  RunsStep /\ JobsStep
  BY <1>0, <1>2 DEF Thrown, EndRun, NoRun, RunsStep, JobsStep, storeVars, Job
<1>3. ASSUME NEW w \in Workers, NEW o \in Outbounds, Fetch(w, o)
      PROVE  RunsStep /\ JobsStep
  BY <1>0, <1>3 DEF Fetch, RunsStep, JobsStep, storeVars, Job, Run
<1>4. ASSUME NEW w \in Workers, Precheck(w)
      PROVE  RunsStep /\ JobsStep
  BY <1>0, <1>4 DEF Precheck, Goto, At, RunsStep, JobsStep, storeVars, Run
<1>5. ASSUME NEW w \in Workers, CancelBlocked(w)
      PROVE  RunsStep /\ JobsStep
  BY <1>0, <1>5 DEF CancelBlocked, Completed, EndRun, At, NoRun, RunsStep, JobsStep, Job, Run
<1>6. ASSUME NEW w \in Workers, InsertLinked(w)
      PROVE  RunsStep /\ JobsStep
  <2>1. HasTaskThen(run[w].outbound)
    BY <1>6 DEF InsertLinked, InsertTask, HasTaskThen, TypeOK, StoreTypeOK
  <2>2. \A v \in Workers : v # w => run'[v] = run[v]
    BY <1>0, <1>6 DEF InsertLinked, Goto
  <2>3. run'[w].outbound = run[w].outbound
    BY <1>0, <1>6 DEF InsertLinked, Goto, Run
  <2>4. RunsStep
    <3> SUFFICES ASSUME NEW v \in Workers, run'[v].at \in {"inserted", "marked"}
                 PROVE  \/ run'[v].outbound = run[v].outbound
                           /\ run[v].at \in {"inserted", "marked"}
                        \/ HasTaskThen(run'[v].outbound)
      BY DEF RunsStep
    <3>1. HasTaskThen(run'[w].outbound)
      BY <2>1, <2>3
    <3>2. QED BY <2>2, <3>1
  <2>5. JobsStep
    BY <1>6 DEF InsertLinked, Goto, JobsStep
  <2>6. QED BY <2>4, <2>5
<1>7. ASSUME NEW w \in Workers, MarkPendingExecutor(w)
      PROVE  RunsStep /\ JobsStep
  BY <1>0, <1>7 DEF MarkPendingExecutor, Goto, At, RunsStep, JobsStep, Run
<1>8. ASSUME NEW w \in Workers, FinishJob(w)
      PROVE  RunsStep /\ JobsStep
  BY <1>0, <1>8 DEF FinishJob, Completed, EndRun, At, NoRun, RunsStep, JobsStep, Job, Run, storeVars
<1>9. QED
  BY <1>1, <1>2, <1>3, <1>4, <1>5, <1>6, <1>7, <1>8
     DEF WorkerStep, WorkerProgress, JobError, InsertRefused, At

(* The handlers settle only the message of a task that exists. *)
LEMMA NextHandles ==
  ASSUME TypeOK, AbsentIsUnlinked, [Next]_vars
  PROVE  RunsStep /\ JobsStep
<1>0. /\ run \in [Workers -> Run] /\ sendStatus \in [Outbounds -> SendStatuses]
      /\ link \in [Tasks -> Outbounds \cup {NoOutbound}]
  BY DEF TypeOK, WorkerTypeOK, StoreTypeOK
<1>1. ASSUME UNCHANGED workerVars, UNCHANGED sendStatus
      PROVE  RunsStep /\ JobsStep
  BY <1>1 DEF RunsStep, JobsStep, workerVars
<1>2. ASSUME UNCHANGED workerVars, NEW t \in Tasks, NEW s, SettleOutbound(t, s)
      PROVE  RunsStep /\ JobsStep
  <2>1. \A o \in Outbounds : sendStatus'[o] # sendStatus[o] => HasTask(o)
    BY <1>0, <1>2, StoreAssumption DEF SettleOutbound, HasTask, LinkedTo, AbsentIsUnlinked
  <2>2. QED BY <1>2, <2>1 DEF RunsStep, JobsStep, workerVars
<1>3. CASE ApiStep /\ UNCHANGED <<loopVars, workerVars>>
  <2>1. ASSUME NEW r \in Requests, ResultCommit(r) \/ CancelOutbound(r)
        PROVE  RunsStep /\ JobsStep
    <3>1. req[r].task \in Tasks
      BY <2>1 DEF ResultCommit, CancelOutbound, TypeOK, ApiTypeOK, Named
    <3>2. \E s : SettleOutbound(req[r].task, s)
      BY <2>1 DEF ResultCommit, CancelOutbound, ResultWrites
    <3>3. QED BY <1>2, <1>3, <3>1, <3>2
  <2>2. QED
    BY <1>1, <1>3, <2>1
       DEF ApiStep, Handler, AckRead, AckCommit, AckAnswer, ResultRead, ResultAttempt,
           ResultFresh, CancelTask, DropRequest, CreateTestTask, CancelRead, storeVars
<1>4. CASE LoopStep /\ UNCHANGED workerVars
  BY <1>1, <1>4 DEF LoopStep, LoopProgress, Pull, Ack, AckReturns, Execute, Report,
                    ReportReturns, Timeout, Crash, storeVars
<1>5. CASE ServerRestart
  BY <1>5 DEF ServerRestart, RunsStep, JobsStep, NoRun, storeVars
<1>6. CASE UNCHANGED vars
  BY <1>1, <1>6 DEF vars, storeVars
<1>7. QED
  BY <1>3, <1>4, <1>5, <1>6, WorkerHandles DEF Next

(* No message is dropped in silence: whatever a run of its job threw on,    *)
(* however often it was retried, taken away as stalled while it went on, or *)
(* killed with the server, a job that completed left a task or a cancelled  *)
(* message (processSendOutboundJob).                                        *)
THEOREM CompletedIsHandledHolds == Spec => []CompletedIsHandled
<1> DEFINE IInv == TypeOK /\ AbsentIsUnlinked /\ OneTaskPerOutbound
                   /\ RunsPastInsertHaveTask /\ CompletedIsHandled
<1>1. Init => IInv
  BY InitType DEF Init, StoreInit, WorkerInit, NoJob, NoRun, AbsentIsUnlinked,
                  OneTaskPerOutbound, LinkedTo, RunsPastInsertHaveTask, CompletedIsHandled
<1>2. IInv /\ [Next]_vars => IInv'
  <2> SUFFICES ASSUME IInv, [Next]_vars
               PROVE  IInv'
    OBVIOUS
  <2>1. TypeOK' /\ RowsStep /\ RunsStep /\ JobsStep
    BY NextType, NextRows, NextHandles
  <2>2. AbsentIsUnlinked' /\ OneTaskPerOutbound'
    BY <2>1, RowsStepUnique
  <2>3. \A o \in Outbounds : HasTask(o) => HasTaskThen(o)
    <3>1. CASE RowsKept
      BY <3>1 DEF RowsKept, HasTask, HasTaskThen, LinkedTo
    <3>2. ASSUME NEW t \in Tasks, NEW o, InsertTask(t, o)
          PROVE  \A m \in Outbounds : HasTask(m) => HasTaskThen(m)
      BY <3>2 DEF InsertTask, NextTaskId, HasTask, HasTaskThen, LinkedTo, TypeOK, StoreTypeOK
    <3>3. QED BY <2>1, <3>1, <3>2 DEF RowsStep
  <2>4. \A w \in Workers : run[w].at # "free" => run[w].outbound \in Outbounds
    BY DEF TypeOK, WorkerTypeOK
  <2>5. RunsPastInsertHaveTask'
    <3> SUFFICES ASSUME NEW w \in Workers, run'[w].at \in {"inserted", "marked"}
                 PROVE  HasTaskThen(run'[w].outbound)
      BY DEF RunsPastInsertHaveTask, HasTask, HasTaskThen, LinkedTo
    <3>1. CASE run'[w].outbound = run[w].outbound /\ run[w].at \in {"inserted", "marked"}
      BY <2>3, <2>4, <3>1 DEF RunsPastInsertHaveTask
    <3>2. QED BY <2>1, <3>1 DEF RunsStep
  <2>6. CompletedIsHandled'
    <3> SUFFICES ASSUME NEW o \in Outbounds, job'[o].at = "completed"
                 PROVE  HasTaskThen(o) \/ sendStatus'[o] = "cancelled"
      BY DEF CompletedIsHandled, HandledBy, HasTaskThen, LinkedTo
    <3>1. ASSUME NEW w \in Workers, run[w].at \in {"inserted", "marked"}, run[w].outbound = o
          PROVE  HasTaskThen(o)
      BY <2>3, <3>1 DEF RunsPastInsertHaveTask
    <3>2. CASE job[o].at = "completed"
      BY <2>1, <2>3, <3>1, <3>2 DEF CompletedIsHandled, HandledBy, HasTask, JobsStep
    <3>3. QED BY <2>1, <3>1, <3>2 DEF JobsStep
  <2>7. QED BY <2>1, <2>2, <2>5, <2>6
<1>3. QED
  BY <1>1, <1>2, PTL DEF Spec
=============================================================================
