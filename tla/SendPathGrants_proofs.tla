------------------------ MODULE SendPathGrants_proofs -------------------------
(***************************************************************************)
(* Who may press send, and how often.  A loop sends only what an answer to  *)
(* its own request granted it; every press is backed by an attempt row; a   *)
(* loop presses once for a task however many of its acks are granted; and   *)
(* a task is granted and pressed once, and lives the documented life cycle, *)
(* unless two handlers of it met between their reads and their writes.      *)
(***************************************************************************)
EXTENDS SendPath_proofs, SendPathRaces, FiniteSetTheorems

-----------------------------------------------------------------------------
(* Attempts are never deleted, and never change hands. *)

AttemptsGrow ==
    \A t \in Tasks : /\ Len(attempts'[t]) >= Len(attempts[t])
                     /\ \A i \in 1..Len(attempts[t]) :
                           attempts'[t][i].device = attempts[t][i].device

(* ackExecutorTask appends an attempt, reportExecutorTaskResult closes one; *)
(* nothing else touches them.                                               *)
LEMMA NextAttemptsGrow == TypeOK /\ [Next]_vars => AttemptsGrow
<1> SUFFICES ASSUME TypeOK, [Next]_vars
             PROVE  AttemptsGrow
  OBVIOUS
<1>0. attempts \in [Tasks -> Seq(Attempt)] /\ \A t \in Tasks : Len(attempts[t]) \in Nat
  BY DEF TypeOK, StoreTypeOK
<1>1. ASSUME UNCHANGED attempts
      PROVE  AttemptsGrow
  BY <1>0, <1>1 DEF AttemptsGrow
<1>2. ASSUME NEW r \in Requests, Handler(r)
      PROVE  AttemptsGrow
  <2>1. /\ req[r].at # "free" => req[r].task \in Tasks /\ req[r].attempt \in Nat
        /\ req[r].at \notin CancelPlaces \cup {"free"} => req[r].device \in Devices
    BY DEF TypeOK, ApiTypeOK, Named, Request
  <2>2. CASE AckCommit(r)
    <3>1. req[r].task \in Tasks /\ req[r].device \in Devices
      BY <2>1, <2>2 DEF AckCommit, CancelPlaces
    <3> DEFINE t == req[r].task
               e == [device |-> req[r].device, status |-> "running"]
    <3>2. e \in Attempt
      BY <3>1 DEF Attempt
    <3>3. attempts' = [attempts EXCEPT ![t] = Append(@, e)]
      BY <2>2 DEF AckCommit, AckWrites
    <3> HIDE DEF e
    <3>4. /\ Len(Append(attempts[t], e)) = Len(attempts[t]) + 1
          /\ \A i \in 1..Len(attempts[t]) : Append(attempts[t], e)[i] = attempts[t][i]
      BY <1>0, <3>1, <3>2, AppendProperties
    <3>5. QED
      BY <1>0, <3>1, <3>3, <3>4 DEF AttemptsGrow
  <2>3. CASE ResultCommit(r)
    <3>1. req[r].task \in Tasks
      BY <2>1, <2>3 DEF ResultCommit
    <3>2. \/ attempts' = attempts
          \/ attempts' = [attempts EXCEPT ![req[r].task][req[r].attempt].status = req[r].outcome]
      BY <2>3 DEF ResultCommit, ResultWrites
    <3>3. CASE attempts' # attempts
      <4> DEFINE t == req[r].task  i == req[r].attempt
                 q == [attempts[t] EXCEPT ![i].status = req[r].outcome]
      <4>1. attempts' = [attempts EXCEPT ![t] = q]
        BY <3>2, <3>3
      <4>2. Len(q) = Len(attempts[t])
        BY <1>0, <3>1
      <4>3. \A j \in 1..Len(attempts[t]) : q[j].device = attempts[t][j].device
        <5>1. \A j \in 1..Len(attempts[t]) : attempts[t][j] \in Attempt
          BY <1>0, <3>1
        <5>2. QED BY <1>0, <3>1, <5>1 DEF Attempt
      <4>4. QED
        BY <1>0, <3>1, <4>1, <4>2, <4>3 DEF AttemptsGrow
    <3>4. QED BY <1>1, <3>3
  <2>4. QED
    BY <1>1, <1>2, <2>2, <2>3
       DEF Handler, AckRead, AckAnswer, ResultRead, ResultAttempt, ResultFresh, CancelTask,
           CancelOutbound, storeVars
<1>3. CASE ApiStep /\ UNCHANGED <<loopVars, workerVars>>
  BY <1>1, <1>2, <1>3 DEF ApiStep, DropRequest, CreateTestTask, CancelRead, storeVars
<1>4. CASE LoopStep /\ UNCHANGED workerVars
  BY <1>4, <1>1 DEF LoopStep, LoopProgress, Pull, Ack, AckReturns, Execute, Report,
                    ReportReturns, Timeout, Crash, storeVars
<1>5. CASE WorkerStep /\ UNCHANGED <<req, loopVars>>
  BY <1>5, <1>1
     DEF WorkerStep, WorkerProgress, CreateOutbound, AddJob, Stall, Fetch, Precheck,
         CancelBlocked, InsertLinked, InsertRefused, MarkPendingExecutor, FinishJob,
         JobError, storeVars
<1>6. CASE ServerRestart \/ UNCHANGED vars
  BY <1>6, <1>1 DEF ServerRestart, vars, storeVars
<1>7. QED
  BY <1>3, <1>4, <1>5, <1>6 DEF Next

(* An attempt of a device stays an attempt of that device. *)
LEMMA AttemptStays ==
  ASSUME TypeOK, AttemptsGrow, NEW t \in Tasks, NEW d, HasAttemptOf(t, d)
  PROVE  HasAttemptOf(t, d)'
<1>1. PICK i \in 1..Len(attempts[t]) : attempts[t][i].device = d
  BY DEF HasAttemptOf
<1>2. Len(attempts[t]) \in Nat
  BY LenProperties DEF TypeOK, StoreTypeOK
<1>3. Len(attempts'[t]) >= Len(attempts[t]) /\ attempts'[t][i].device = d
  BY <1>1 DEF AttemptsGrow
<1>4. i \in 1..Len(attempts'[t])
  BY <1>1, <1>2, <1>3
<1>5. QED
  BY <1>3, <1>4 DEF HasAttemptOf

-----------------------------------------------------------------------------
(* A loop that waits owns its request: it is open, about the loop's task,   *)
(* from the loop's device and of the kind the loop waits for.               *)
AckKind == AckPlaces \cup {"acked", "ack_refused"}
ResultKind == ResultPlaces \cup {"answered"}

Waits(l) == loop[l].at \in {"acking", "reporting"}

OwnsRequest(l) ==
    LET q == req[loop[l].req] IN
    /\ q.open
    /\ q.task = loop[l].task
    /\ q.device = DeviceOf[l]
    /\ q.at \in IF loop[l].at = "acking" THEN AckKind ELSE ResultKind

WaitersOwn ==
    \A l \in Loops : IF Waits(l) THEN OwnsRequest(l) ELSE loop[l].req = NoRequest

WaitersApart ==
    \A l, k \in Loops : Waits(l) /\ Waits(k) /\ loop[l].req = loop[k].req => l = k

(* A request that carries a grant has its attempt row. *)
CarriesGrant(r) == req[r].at \in {"ack_committed", "acked"}

GrantsAreRecorded ==
    \A r \in Requests : CarriesGrant(r) => HasAttemptOf(req[r].task, req[r].device)

(* Grants of a task on their way to a loop, and loops about to press. *)
Grants(t) == {r \in Requests : CarriesGrant(r) /\ req[r].task = t}
AboutToPress(t) == {l \in Loops : loop[l].at = "sending" /\ loop[l].task = t}

Covered(t) ==
    pressed[t] + Cardinality(Grants(t)) + Cardinality(AboutToPress(t)) <= Len(attempts[t])

PressesAreCovered == \A t \in Tasks : Covered(t)

GrantInv == WaitersOwn /\ WaitersApart /\ GrantsAreRecorded /\ SendersWereGranted

-----------------------------------------------------------------------------
(* Requests.  A handler neither closes a request its client waits for nor   *)
(* answers it with what it was not asked, and only the commit of an ack     *)
(* grants.                                                                  *)

OpenRequest(r) == req[r].open /\ req[r].at \in AckKind \cup ResultKind

RequestsKept ==
    \A r \in Requests : OpenRequest(r) =>
        /\ req'[r].open /\ req'[r].task = req[r].task /\ req'[r].device = req[r].device
        /\ req[r].at \in AckKind => req'[r].at \in AckKind
        /\ req[r].at \in ResultKind => req'[r].at \in ResultKind

StillCarries(r) == /\ CarriesGrant(r)
                   /\ req'[r].task = req[r].task /\ req'[r].device = req[r].device

GrantsStep == \A r \in Requests : CarriesGrant(r)' => StillCarries(r) \/ AckCommit(r)

(* A request that moves on, or is answered. *)
LEMMA RequestMoves ==
  ASSUME req \in [Requests -> Request], NEW r \in Requests, NEW p,
         Advance(r, p) \/ Respond(r, p),
         \/ req[r].at \in AckKind /\ p \in AckKind
         \/ req[r].at \in ResultKind /\ p \in ResultKind
  PROVE  /\ RequestsKept
         /\ \A s \in Requests : CarriesGrant(s)' =>
               \/ StillCarries(s)
               \/ s = r /\ p \in {"ack_committed", "acked"}
BY DEF Advance, Respond, RequestsKept, OpenRequest, StillCarries, CarriesGrant, Request, Free,
       AckKind, ResultKind, AckPlaces, ResultPlaces

(* Requests go on as they are, or end. *)
LEMMA RequestsStay ==
  ASSUME \A r \in Requests : req'[r] = req[r] \/ (~OpenRequest(r) /\ ~CarriesGrant(r)')
  PROVE  RequestsKept /\ GrantsStep
BY DEF RequestsKept, OpenRequest, GrantsStep, StillCarries, CarriesGrant

(* The commit of an ack adds an attempt of the device that sent it. *)
LEMMA AckRecords ==
  ASSUME TypeOK, NEW r \in Requests, AckCommit(r)
  PROVE  LET t == req[r].task IN
         /\ t \in Tasks
         /\ req'[r].task = t /\ req'[r].device = req[r].device
         /\ Len(attempts'[t]) = Len(attempts[t]) + 1
         /\ attempts'[t][Len(attempts[t]) + 1].device = req[r].device
<1> DEFINE t == req[r].task  d == req[r].device
           e == [device |-> d, status |-> "running"]
<1>1. attempts \in [Tasks -> Seq(Attempt)] /\ req \in [Requests -> Request]
  BY DEF TypeOK, ApiTypeOK, StoreTypeOK
<1>2. t \in Tasks /\ e \in Attempt
  BY DEF TypeOK, ApiTypeOK, Named, AckCommit, CancelPlaces, Attempt
<1>3. attempts' = [attempts EXCEPT ![t] = Append(@, e)] /\ e.device = d
  BY DEF AckCommit, AckWrites
<1> HIDE DEF e
<1>4. /\ Len(attempts'[t]) = Len(attempts[t]) + 1
      /\ attempts'[t][Len(attempts[t]) + 1] = e
  BY <1>1, <1>2, <1>3, AppendProperties, LenProperties
<1>5. req'[r].task = t /\ req'[r].device = d
  BY <1>1 DEF AckCommit, Advance, Request
<1>6. QED
  BY <1>2, <1>3, <1>4, <1>5

(* Every handler, statement by statement. *)
LEMMA HandlerKeeps ==
  ASSUME TypeOK, NEW r \in Requests, Handler(r)
  PROVE  RequestsKept /\ GrantsStep
<1>0. req \in [Requests -> Request]
  BY DEF TypeOK, ApiTypeOK
<1>1. CASE AckRead(r)
  <2>1. PICK p \in {"ack_read", "ack_refused"} : Advance(r, p) \/ Respond(r, p)
    BY <1>1 DEF AckRead
  <2>2. req[r].at \in AckKind /\ p \in AckKind /\ p \notin {"ack_committed", "acked"}
    BY <1>1, <2>1 DEF AckRead, AckKind, AckPlaces
  <2>3. /\ RequestsKept
        /\ \A s \in Requests : CarriesGrant(s)' => StillCarries(s)
    BY <1>0, <2>1, <2>2, RequestMoves
  <2>4. QED
    BY <2>3 DEF GrantsStep
<1>2. CASE AckCommit(r)
  <2>1. Advance(r, "ack_committed") /\ req[r].at \in AckKind /\ "ack_committed" \in AckKind
    BY <1>2 DEF AckCommit, AckKind, AckPlaces
  <2>2. /\ RequestsKept
        /\ \A s \in Requests : CarriesGrant(s)' => StillCarries(s) \/ s = r
    BY <1>0, <2>1, RequestMoves
  <2>3. QED
    BY <1>2, <2>2 DEF GrantsStep
<1>3. CASE AckAnswer(r)
  <2>1. /\ req[r].at = "ack_committed"
        /\ \E p \in {"acked", "ack_refused"} : Respond(r, p)
    BY <1>3 DEF AckAnswer
  <2>2. CarriesGrant(r)' => StillCarries(r)
    BY <1>0, <2>1 DEF Respond, StillCarries, CarriesGrant, Request, Free
  <2>3. PICK p \in {"acked", "ack_refused"} : Respond(r, p)
    BY <2>1
  <2>4. /\ RequestsKept
        /\ \A s \in Requests : CarriesGrant(s)' => StillCarries(s) \/ s = r
    <3>1. req[r].at \in AckKind /\ p \in AckKind
      BY <2>1, <2>3 DEF AckKind, AckPlaces
    <3>2. QED BY <1>0, <2>3, <3>1, RequestMoves
  <2>5. QED
    BY <2>2, <2>4 DEF GrantsStep
<1>4. CASE ResultRead(r) \/ ResultFresh(r) \/ ResultCommit(r)
  <2>1. /\ req[r].at \in ResultPlaces
        /\ \E p \in ResultKind : Advance(r, p) \/ Respond(r, p)
    BY <1>4 DEF ResultRead, ResultFresh, ResultCommit, ResultKind, ResultPlaces
  <2>2. PICK p \in ResultKind : Advance(r, p) \/ Respond(r, p)
    BY <2>1
  <2>3. req[r].at \in ResultKind /\ p \notin {"ack_committed", "acked"}
    BY <2>1 DEF ResultKind, ResultPlaces
  <2>4. RequestsKept /\ \A s \in Requests : CarriesGrant(s)' => StillCarries(s)
    BY <1>0, <2>2, <2>3, RequestMoves
  <2>5. QED
    BY <2>4 DEF GrantsStep
<1>5. CASE ResultAttempt(r)
  BY <1>0, <1>5 DEF ResultAttempt, RequestsKept, OpenRequest, GrantsStep, StillCarries,
                    CarriesGrant, Request, AckKind, ResultKind, AckPlaces, ResultPlaces
<1>6. CASE CancelTask(r) \/ CancelOutbound(r)
  <2>1. \A s \in Requests : req'[s] = req[s] \/ (~OpenRequest(s) /\ ~CarriesGrant(s)')
    BY <1>0, <1>6 DEF CancelTask, CancelOutbound, Advance, OpenRequest, CarriesGrant, Request,
                      Free, AckKind, ResultKind, AckPlaces, ResultPlaces
  <2>2. QED BY <2>1, RequestsStay
<1>7. QED
  BY <1>1, <1>2, <1>3, <1>4, <1>5, <1>6 DEF Handler

(* The API, the workers and a restart. *)
LEMMA ServerKeeps ==
  ASSUME TypeOK, ApiStep \/ UNCHANGED req \/ ServerRestart
  PROVE  RequestsKept /\ GrantsStep
<1>0. req \in [Requests -> Request]
  BY DEF TypeOK, ApiTypeOK
<1> USE DEF AckKind, ResultKind, AckPlaces, ResultPlaces
<1>1. ASSUME NEW r \in Requests, DropRequest(r)
      PROVE  RequestsKept /\ GrantsStep
  BY <1>0, <1>1, RequestsStay DEF DropRequest, OpenRequest, CarriesGrant, Free
<1>2. ASSUME NEW r \in Requests, NEW t \in Tasks, CancelRead(r, t)
      PROVE  RequestsKept /\ GrantsStep
  BY <1>0, <1>2, RequestsStay DEF CancelRead, OpenRequest, CarriesGrant, Free
<1>3. CASE UNCHANGED req
  BY <1>3, RequestsStay
<1>4. CASE ServerRestart
  <2>1. \A r \in Requests : req'[r] = AbortedByRestart(req[r])
    BY <1>4 DEF ServerRestart
  <2>2. RequestsKept
    BY <1>0, <2>1 DEF RequestsKept, OpenRequest, AbortedByRestart, AnswerPlaces, Request
  <2>3. GrantsStep
    <3>1. ASSUME NEW r \in Requests, CarriesGrant(r)'
          PROVE  StillCarries(r)
      <4>1. req'[r].at \in {"ack_committed", "acked"} /\ req'[r] = AbortedByRestart(req[r])
        BY <2>1, <3>1 DEF CarriesGrant
      <4>2. req'[r] = req[r]
        BY <1>0, <4>1 DEF AbortedByRestart, AnswerPlaces, Free, Request
      <4>3. QED BY <4>1, <4>2 DEF StillCarries, CarriesGrant
    <3>2. QED BY <3>1 DEF GrantsStep
  <2>4. QED BY <2>2, <2>3
<1>5. QED
  BY <1>1, <1>2, <1>3, <1>4, HandlerKeeps DEF ApiStep, CreateTestTask

(* While no loop moves, whoever waits keeps its request. *)
LEMMA WaitersKept ==
  ASSUME TypeOK, WaitersOwn, WaitersApart, RequestsKept, UNCHANGED loop
  PROVE  WaitersOwn' /\ WaitersApart'
<1>1. ASSUME NEW l \in Loops, Waits(l)
      PROVE  OwnsRequest(l)'
  <2>1. loop[l].req \in Requests /\ OwnsRequest(l)
    BY <1>1 DEF WaitersOwn, Waits, TypeOK, LoopTypeOK
  <2>2. OpenRequest(loop[l].req)
    BY <2>1 DEF OwnsRequest, OpenRequest
  <2>3. QED
    BY <2>1, <2>2 DEF OwnsRequest, RequestsKept
<1>2. QED
  BY <1>1 DEF WaitersOwn, WaitersApart, Waits

-----------------------------------------------------------------------------
(* Loops.  A loop that is done waiting, or never did, and leaves all other  *)
(* requests alone.                                                          *)
LEMMA LoopMoves ==
  ASSUME TypeOK, WaitersOwn, WaitersApart, NEW l \in Loops,
         \A k \in Loops \ {l} : loop'[k] = loop[k],
         ~Waits(l)', loop'[l].req = NoRequest,
         \A r \in Requests : r # loop[l].req => req'[r] = req[r]
  PROVE  WaitersOwn' /\ WaitersApart'
<1>1. ASSUME NEW k \in Loops \ {l}
      PROVE  IF Waits(k)' THEN OwnsRequest(k)' ELSE loop'[k].req = NoRequest
  <2>1. CASE Waits(k)
    <3>1. loop[k].req \in Requests /\ OwnsRequest(k)
      BY <2>1 DEF WaitersOwn, Waits, TypeOK, LoopTypeOK
    <3>2. loop[k].req # loop[l].req
      <4>1. Waits(l) \/ loop[l].req = NoRequest
        BY DEF WaitersOwn
      <4>2. QED BY <2>1, <3>1, <4>1, LoopAssumption DEF WaitersApart
    <3>3. loop'[k] = loop[k] /\ req'[loop[k].req] = req[loop[k].req]
      BY <3>1, <3>2
    <3>4. QED BY <2>1, <3>1, <3>3 DEF OwnsRequest, Waits
  <2>2. CASE ~Waits(k)
    BY <2>2 DEF WaitersOwn, Waits
  <2>3. QED BY <2>1, <2>2
<1>2. WaitersOwn'
  BY <1>1 DEF WaitersOwn
<1>3. WaitersApart'
  BY DEF WaitersApart, Waits
<1>4. QED BY <1>2, <1>3

(* A loop sends a request of its own through a slot nobody uses. *)
LEMMA LoopSubmits ==
  ASSUME TypeOK, WaitersOwn, WaitersApart, NEW l \in Loops, NEW r \in Requests,
         Ack(l, r) \/ Report(l, r)
  PROVE  WaitersOwn' /\ WaitersApart'
<1>0. /\ req \in [Requests -> Request] /\ loop \in [Loops -> LoopState]
  BY DEF TypeOK, ApiTypeOK, LoopTypeOK
<1>1. /\ req[r] = Free
      /\ \A q \in Requests \ {r} : req'[q] = req[q]
      /\ \A k \in Loops \ {l} : loop'[k] = loop[k]
  BY <1>0 DEF Ack, Report, Submit
<1>2. /\ loop'[l].req = r /\ Waits(l)'
      /\ OwnsRequest(l)'
  BY <1>0 DEF Ack, Report, Submit, Waits, OwnsRequest, AckKind, ResultKind, AckPlaces,
              ResultPlaces, LoopState
<1>3. ASSUME NEW k \in Loops \ {l}, Waits(k)
      PROVE  loop[k].req \in Requests \ {r} /\ OwnsRequest(k)
  BY <1>1, <1>3 DEF WaitersOwn, OwnsRequest, Free, Waits, TypeOK, LoopTypeOK
<1>4. ASSUME NEW k \in Loops \ {l}
      PROVE  IF Waits(k)' THEN OwnsRequest(k)' ELSE loop'[k].req = NoRequest
  BY <1>1, <1>3, <1>4 DEF WaitersOwn, OwnsRequest, Waits
<1>5. WaitersOwn'
  BY <1>2, <1>4 DEF WaitersOwn
<1>6. WaitersApart'
  BY <1>1, <1>2, <1>3 DEF WaitersApart, Waits
<1>7. QED BY <1>5, <1>6

(* The loops of a device die; those of the others keep their requests. *)
LEMMA CrashLeaves ==
  ASSUME TypeOK, WaitersOwn, WaitersApart, NEW d \in Devices, Crash(d)
  PROVE  WaitersOwn' /\ WaitersApart'
<1> DEFINE dead == {l \in Loops : DeviceOf[l] = d}
<1>1. \A k \in dead : loop'[k] = Idle
  BY DEF Crash
<1>2. \A k \in Loops \ dead : loop'[k] = loop[k]
  BY DEF Crash
<1>3. \A r \in Requests : (\A k \in dead : loop[k].req # r) => req'[r] = req[r]
  BY DEF Crash
<1>4. ASSUME NEW k \in Loops \ dead, Waits(k)
      PROVE  OwnsRequest(k)'
  <2>1. loop[k].req \in Requests /\ OwnsRequest(k)
    BY <1>4 DEF WaitersOwn, Waits, TypeOK, LoopTypeOK
  <2>2. \A l \in dead : loop[l].req # loop[k].req
    BY <1>4, <2>1, LoopAssumption DEF WaitersOwn, WaitersApart
  <2>3. loop'[k] = loop[k] /\ req'[loop[k].req] = req[loop[k].req]
    BY <1>2, <1>3, <2>1, <2>2
  <2>4. QED BY <2>1, <2>3 DEF OwnsRequest
<1>5. WaitersOwn'
  BY <1>1, <1>2, <1>4 DEF WaitersOwn, Waits, Idle
<1>6. WaitersApart'
  BY <1>1, <1>2 DEF WaitersApart, Waits, Idle
<1>7. QED BY <1>5, <1>6

(* Every step of the loops. *)
LEMMA LoopsKeep ==
  ASSUME TypeOK, WaitersOwn, WaitersApart, LoopStep
  PROVE  WaitersOwn' /\ WaitersApart'
<1>0. /\ req \in [Requests -> Request] /\ loop \in [Loops -> LoopState]
  BY DEF TypeOK, ApiTypeOK, LoopTypeOK
<1>1. ASSUME NEW l \in Loops,
             Pull(l) \/ AckReturns(l) \/ Execute(l) \/ ReportReturns(l) \/ Timeout(l)
      PROVE  WaitersOwn' /\ WaitersApart'
  <2>1. \A k \in Loops \ {l} : loop'[k] = loop[k]
    BY <1>0, <1>1 DEF Pull, AckReturns, Execute, ReportReturns, Timeout, GoIdle
  <2>2. \A r \in Requests : r # loop[l].req => req'[r] = req[r]
    BY <1>0, <1>1 DEF Pull, AckReturns, Execute, ReportReturns, Timeout
  <2>3. loop[l].at \in {"idle", "sending"} => loop[l].req = NoRequest
    BY DEF WaitersOwn, Waits
  <2>4. ~Waits(l)' /\ loop'[l].req = NoRequest
    <3>1. CASE loop' = [loop EXCEPT ![l] = Idle]
      BY <1>0, <3>1 DEF Waits, Idle
    <3>2. CASE Pull(l)
      BY <1>0, <2>3, <3>2 DEF Pull, Waits, Idle, LoopState
    <3>3. CASE AckReturns(l)
      BY <1>0, <3>3 DEF AckReturns, Waits, Idle, LoopState
    <3>4. CASE Execute(l)
      BY <1>0, <2>3, <3>4 DEF Execute, GoIdle, Idle, Waits, LoopState
    <3>5. QED
      BY <1>1, <3>1, <3>2, <3>3, <3>4 DEF ReportReturns, Timeout, GoIdle
  <2>5. QED BY <2>1, <2>2, <2>4, LoopMoves
<1>2. QED
  BY <1>1, LoopSubmits, CrashLeaves DEF LoopStep, LoopProgress

(* What a loop does to requests makes no grant. *)
LEMMA LoopsGrantNothing ==
  ASSUME TypeOK, LoopStep
  PROVE  \A r \in Requests : CarriesGrant(r)' => StillCarries(r)
<1>0. req \in [Requests -> Request] /\ loop \in [Loops -> LoopState]
  BY DEF TypeOK, ApiTypeOK, LoopTypeOK
<1> USE DEF CarriesGrant, StillCarries
<1>1. ASSUME NEW l \in Loops, NEW r \in Requests, Ack(l, r) \/ Report(l, r)
      PROVE  \A s \in Requests : CarriesGrant(s)' => StillCarries(s)
  BY <1>0, <1>1 DEF Ack, Report, Submit
<1>2. ASSUME NEW l \in Loops, AckReturns(l) \/ ReportReturns(l)
      PROVE  \A s \in Requests : CarriesGrant(s)' => StillCarries(s)
  BY <1>0, <1>2 DEF AckReturns, ReportReturns, Free
<1>3. ASSUME NEW l \in Loops, Timeout(l)
      PROVE  \A s \in Requests : CarriesGrant(s)' => StillCarries(s)
  BY <1>0, <1>3 DEF Timeout, Hangup, Free, Request
<1>4. ASSUME NEW d \in Devices, Crash(d)
      PROVE  \A s \in Requests : CarriesGrant(s)' => StillCarries(s)
  BY <1>0, <1>4 DEF Crash, Hangup, Free, Request
<1>5. QED
  BY <1>1, <1>2, <1>3, <1>4 DEF LoopStep, LoopProgress, Pull, Execute

Sends(l) == loop[l].at \in {"sending", "executed", "reporting"}

(* Who drives the chat did so already, or got the answer to its ack. *)
LEMMA SendersStep ==
  ASSUME TypeOK, LoopStep, NEW l \in Loops, Sends(l)'
  PROVE  /\ loop'[l].task = loop[l].task
         /\ \/ Sends(l)
            \/ loop[l].at = "acking" /\ CarriesGrant(loop[l].req)
<1>0. loop \in [Loops -> LoopState]
  BY DEF TypeOK, LoopTypeOK
<1> USE DEF Sends
<1>1. ASSUME NEW k \in Loops, NEW r \in Requests, Ack(k, r) \/ Report(k, r)
      PROVE  loop'[l].task = loop[l].task /\ Sends(l)
  <2>1. CASE Ack(k, r)
    BY <1>0, <2>1 DEF Ack, LoopState
  <2>2. CASE Report(k, r)
    BY <1>0, <2>2 DEF Report, LoopState
  <2>3. QED BY <1>1, <2>1, <2>2
<1>2. ASSUME NEW k \in Loops, AckReturns(k), ~Sends(l)
      PROVE  /\ loop'[l].task = loop[l].task
             /\ loop[l].at = "acking" /\ CarriesGrant(loop[l].req)
  BY <1>0, <1>2 DEF AckReturns, CarriesGrant, Idle
<1>3. ASSUME NEW k \in Loops, Sends(l),
             AckReturns(k) \/ ReportReturns(k) \/ Timeout(k) \/ Pull(k) \/ Execute(k)
      PROVE  loop'[l].task = loop[l].task
  <2>1. CASE loop' = [loop EXCEPT ![k] = Idle]
    BY <1>0, <2>1 DEF Idle
  <2>2. CASE AckReturns(k)
    BY <1>0, <2>2, <1>3 DEF AckReturns, Idle, LoopState
  <2>3. CASE Pull(k)
    BY <1>0, <2>3, <1>3 DEF Pull, Idle, LoopState
  <2>4. CASE Execute(k)
    BY <1>0, <2>1, <2>4 DEF Execute, GoIdle, LoopState
  <2>5. QED
    BY <1>3, <2>1, <2>2, <2>3, <2>4 DEF ReportReturns, Timeout, GoIdle
<1>4. ASSUME NEW k \in Loops, ReportReturns(k) \/ Timeout(k) \/ Pull(k) \/ Execute(k)
      PROVE  Sends(l)
  BY <1>0, <1>4 DEF ReportReturns, Timeout, Pull, Execute, GoIdle, Idle
<1>5. ASSUME NEW d \in Devices, Crash(d)
      PROVE  loop'[l].task = loop[l].task /\ Sends(l)
  BY <1>0, <1>5 DEF Crash, Idle
<1>6. QED
  BY <1>1, <1>2, <1>3, <1>4, <1>5 DEF LoopStep, LoopProgress

-----------------------------------------------------------------------------
(* All steps together. *)
LEMMA NextGrants ==
  ASSUME TypeOK, GrantInv, [Next]_vars
  PROVE  GrantInv'
<1>1. TypeOK' /\ AttemptsGrow
  BY NextType, NextAttemptsGrow
<1>2. req \in [Requests -> Request] /\ loop \in [Loops -> LoopState]
  BY DEF TypeOK, ApiTypeOK, LoopTypeOK
<1>3. LoopStep \/ (UNCHANGED loop /\ (ApiStep \/ UNCHANGED req \/ ServerRestart))
  BY DEF Next, vars, loopVars, ServerRestart
<1>4. WaitersOwn' /\ WaitersApart'
  BY <1>3, LoopsKeep, ServerKeeps, WaitersKept DEF GrantInv
<1>5. GrantsStep
  BY <1>3, LoopsGrantNothing, ServerKeeps DEF GrantsStep
<1>6. GrantsAreRecorded'
  <2>1. ASSUME NEW r \in Requests, CarriesGrant(r)'
        PROVE  HasAttemptOf(req[r].task, req[r].device)'
    <3>1. CASE StillCarries(r)
      <4>1. HasAttemptOf(req[r].task, req[r].device)
        BY <3>1 DEF StillCarries, GrantInv, GrantsAreRecorded
      <4>2. req[r].task \in Tasks
        BY <3>1 DEF StillCarries, CarriesGrant, TypeOK, ApiTypeOK, Named
      <4>3. HasAttemptOf(req[r].task, req[r].device)
            => \E i \in 1..Len(attempts'[req[r].task]) :
                   attempts'[req[r].task][i].device = req[r].device
        BY <1>1, <4>2, AttemptStays DEF HasAttemptOf
      <4>4. req'[r].task = req[r].task /\ req'[r].device = req[r].device
        BY <3>1 DEF StillCarries
      <4>5. QED BY <4>1, <4>3, <4>4 DEF HasAttemptOf
    <3>2. CASE AckCommit(r)
      <4> DEFINE t == req[r].task
      <4>1. /\ t \in Tasks /\ req'[r].task = t /\ req'[r].device = req[r].device
            /\ Len(attempts'[t]) = Len(attempts[t]) + 1
            /\ attempts'[t][Len(attempts[t]) + 1].device = req[r].device
        BY <3>2, AckRecords
      <4>2. Len(attempts[t]) + 1 \in 1..Len(attempts'[t])
        BY <4>1, LenProperties DEF TypeOK, StoreTypeOK
      <4>3. QED BY <4>1, <4>2 DEF HasAttemptOf
    <3>3. QED BY <1>5, <2>1, <3>1, <3>2 DEF GrantsStep
  <2>2. QED BY <2>1 DEF GrantsAreRecorded
<1>7. SendersWereGranted'
  <2>1. ASSUME NEW l \in Loops, Sends(l)'
        PROVE  HasAttemptOf(loop[l].task, DeviceOf[l])'
    <3>1. /\ loop'[l].task = loop[l].task
          /\ Sends(l) \/ (loop[l].at = "acking" /\ CarriesGrant(loop[l].req))
      BY <1>3, <2>1, SendersStep DEF Sends
    <3>2. loop[l].task \in Tasks
      BY <3>1 DEF Sends, TypeOK, LoopTypeOK
    <3>3. HasAttemptOf(loop[l].task, DeviceOf[l])
      <4>1. CASE Sends(l)
        BY <4>1 DEF Sends, GrantInv, SendersWereGranted
      <4>2. CASE loop[l].at = "acking" /\ CarriesGrant(loop[l].req)
        <5>1. loop[l].req \in Requests /\ OwnsRequest(l)
          BY <4>2 DEF GrantInv, WaitersOwn, Waits, TypeOK, LoopTypeOK
        <5>2. QED
          BY <4>2, <5>1 DEF OwnsRequest, GrantInv, GrantsAreRecorded
      <4>3. QED BY <3>1, <4>1, <4>2
    <3>4. \E i \in 1..Len(attempts'[loop[l].task]) :
              attempts'[loop[l].task][i].device = DeviceOf[l]
      BY <1>1, <3>2, <3>3, AttemptStays DEF HasAttemptOf
    <3>5. QED BY <3>1, <3>4 DEF HasAttemptOf
  <2>2. QED BY <2>1 DEF SendersWereGranted, Sends
<1>8. QED
  BY <1>4, <1>6, <1>7 DEF GrantInv

(* At first nobody waits, and nobody sends. *)
LEMMA InitGrants == Init => GrantInv
BY LoopAssumption DEF Init, ApiInit, LoopInit, GrantInv, WaitersOwn, WaitersApart,
   GrantsAreRecorded, SendersWereGranted, CarriesGrant, Waits, Free, Idle

(* A device drives the chat only for a task of which it has an attempt: no  *)
(* answer meant for another loop or for an abandoned request, no timeout,   *)
(* crash or restart starts a loop (ackExecutorTask with taskLoop).          *)
THEOREM SendersWereGrantedHolds == Spec => []SendersWereGranted
<1>1. Init => TypeOK /\ GrantInv
  BY InitType, InitGrants
<1>2. TypeOK /\ GrantInv /\ [Next]_vars => (TypeOK /\ GrantInv)'
  BY NextType, NextGrants
<1>3. GrantInv => SendersWereGranted
  BY DEF GrantInv
<1>4. QED
  BY <1>1, <1>2, <1>3, PTL DEF Spec

-----------------------------------------------------------------------------
(* Presses.  A grant is written with its attempt, handed to one loop, and   *)
(* used up by one press: what a step does to the account of a task.         *)

Quiet(t) == /\ Grants(t)' \subseteq Grants(t)
            /\ AboutToPress(t)' \subseteq AboutToPress(t)
            /\ pressed'[t] = pressed[t]

Written(t) == /\ \E r \in Requests : Grants(t)' \subseteq Grants(t) \cup {r}
              /\ AboutToPress(t)' \subseteq AboutToPress(t)
              /\ pressed'[t] = pressed[t]
              /\ Len(attempts'[t]) = Len(attempts[t]) + 1

Handed(t) == /\ \E r \in Grants(t) : Grants(t)' \subseteq Grants(t) \ {r}
             /\ \E l \in Loops : AboutToPress(t)' \subseteq AboutToPress(t) \cup {l}
             /\ pressed'[t] = pressed[t]

UsedUp(t) == /\ Grants(t)' \subseteq Grants(t)
             /\ \E l \in AboutToPress(t) : AboutToPress(t)' \subseteq AboutToPress(t) \ {l}
             /\ pressed'[t] \in {pressed[t], pressed[t] + 1}

AccountStep == \A t \in Tasks : Quiet(t) \/ Written(t) \/ Handed(t) \/ UsedUp(t)

(* A set that lost elements, gained one, or lost one and perhaps others. *)
LEMMA Fewer ==
  ASSUME NEW S, NEW T, IsFiniteSet(T), S \subseteq T
  PROVE  /\ Cardinality(S) \in Nat /\ Cardinality(T) \in Nat
         /\ Cardinality(S) <= Cardinality(T)
BY FS_Subset, FS_CardinalityType

(* A subset of a set with one more element. *)
LEMMA AtMostOneMore ==
  ASSUME NEW S, NEW T, NEW x, IsFiniteSet(T), S \subseteq T \cup {x}
  PROVE  /\ Cardinality(S) \in Nat /\ Cardinality(T) \in Nat
         /\ Cardinality(S) <= Cardinality(T) + 1
<1>1. IsFiniteSet(T \cup {x}) /\ Cardinality(T \cup {x}) <= Cardinality(T) + 1
  <2>1. /\ IsFiniteSet(T \cup {x})
        /\ Cardinality(T \cup {x}) = IF x \in T THEN Cardinality(T) ELSE Cardinality(T) + 1
    BY FS_AddElement
  <2>2. Cardinality(T) \in Nat
    BY FS_CardinalityType
  <2>3. QED BY <2>1, <2>2
<1>2. Cardinality(S) \in Nat /\ Cardinality(S) <= Cardinality(T \cup {x})
  BY <1>1, Fewer
<1>3. Cardinality(T) \in Nat /\ Cardinality(T \cup {x}) \in Nat
  BY <1>1, FS_CardinalityType
<1>4. QED BY <1>1, <1>2, <1>3

(* A subset of a set without one of its elements. *)
LEMMA AtLeastOneLess ==
  ASSUME NEW S, NEW T, NEW x \in T, IsFiniteSet(T), S \subseteq T \ {x}
  PROVE  /\ Cardinality(S) \in Nat /\ Cardinality(T) \in Nat
         /\ Cardinality(S) + 1 <= Cardinality(T)
<1>1. IsFiniteSet(T \ {x}) /\ Cardinality(T \ {x}) = Cardinality(T) - 1
  BY FS_RemoveElement
<1>2. Cardinality(S) \in Nat /\ Cardinality(S) <= Cardinality(T \ {x})
  BY <1>1, Fewer
<1>3. Cardinality(T) \in Nat
  BY FS_CardinalityType
<1>4. QED BY <1>1, <1>2, <1>3

(* What is added on one side of the account is taken off the other. *)
LEMMA OneMoreOneLess ==
  ASSUME NEW p \in Nat, NEW q \in Nat, NEW g \in Nat, NEW h \in Nat,
         NEW a \in Nat, NEW b \in Nat, NEW n \in Nat, NEW m \in Nat,
         p + g + a <= n, q <= p + 1, h <= g, b + 1 <= a, n <= m
  PROVE  q + h + b <= m
OBVIOUS

(* Every kind of step keeps the account covered. *)
LEMMA AccountCovered ==
  ASSUME TypeOK, TypeOK', AttemptsGrow, AccountStep, NEW t \in Tasks, Covered(t)
  PROVE  Covered(t)'
<1> DEFINE G == Grants(t)  A == AboutToPress(t)
<1>1. IsFiniteSet(G) /\ IsFiniteSet(A)
  BY FS_Subset, ApiAssumption, LoopAssumption DEF Grants, AboutToPress
<1>2. /\ pressed[t] \in Nat /\ pressed'[t] \in Nat
      /\ Len(attempts[t]) \in Nat /\ Len(attempts'[t]) \in Nat
      /\ Len(attempts'[t]) >= Len(attempts[t])
  BY LenProperties DEF TypeOK, StoreTypeOK, LoopTypeOK, AttemptsGrow
<1>3. pressed[t] + Cardinality(G) + Cardinality(A) <= Len(attempts[t])
  BY DEF Covered
<1> SUFFICES pressed'[t] + Cardinality(G') + Cardinality(A') <= Len(attempts'[t])
  BY DEF Covered
<1> HIDE DEF G, A
<1>4. CASE Quiet(t)
  <2>1. G' \subseteq G /\ A' \subseteq A /\ pressed'[t] = pressed[t]
    BY <1>4 DEF Quiet, G, A
  <2>2. /\ Cardinality(G') \in Nat /\ Cardinality(G) \in Nat
        /\ Cardinality(G') <= Cardinality(G)
    BY <1>1, <2>1, Fewer
  <2>3. /\ Cardinality(A') \in Nat /\ Cardinality(A) \in Nat
        /\ Cardinality(A') <= Cardinality(A)
    BY <1>1, <2>1, Fewer
  <2>4. QED BY <1>2, <1>3, <2>1, <2>2, <2>3
<1>5. CASE Written(t)
  <2>1. PICK r \in Requests : G' \subseteq G \cup {r}
    BY <1>5 DEF Written, G
  <2>2. /\ A' \subseteq A /\ pressed'[t] = pressed[t]
        /\ Len(attempts'[t]) = Len(attempts[t]) + 1
    BY <1>5 DEF Written, A
  <2>3. /\ Cardinality(G') \in Nat /\ Cardinality(G) \in Nat
        /\ Cardinality(G') <= Cardinality(G) + 1
    BY <1>1, <2>1, AtMostOneMore
  <2>4. /\ Cardinality(A') \in Nat /\ Cardinality(A) \in Nat
        /\ Cardinality(A') <= Cardinality(A)
    BY <1>1, <2>2, Fewer
  <2>5. QED BY <1>2, <1>3, <2>2, <2>3, <2>4
<1>6. CASE Handed(t)
  <2>1. PICK r \in G : G' \subseteq G \ {r}
    BY <1>6 DEF Handed, G
  <2>2. PICK l \in Loops : A' \subseteq A \cup {l}
    BY <1>6 DEF Handed, A
  <2>3. pressed'[t] = pressed[t]
    BY <1>6 DEF Handed
  <2>4. /\ Cardinality(G') \in Nat /\ Cardinality(G) \in Nat
        /\ Cardinality(G') + 1 <= Cardinality(G)
    BY <1>1, <2>1, AtLeastOneLess
  <2>5. /\ Cardinality(A') \in Nat /\ Cardinality(A) \in Nat
        /\ Cardinality(A') <= Cardinality(A) + 1
    BY <1>1, <2>2, AtMostOneMore
  <2>6. QED BY <1>2, <1>3, <2>3, <2>4, <2>5, OneMoreOneLess
<1>7. CASE UsedUp(t)
  <2>1. PICK l \in A : A' \subseteq A \ {l}
    BY <1>7 DEF UsedUp, A
  <2>2. G' \subseteq G /\ pressed'[t] \in {pressed[t], pressed[t] + 1}
    BY <1>7 DEF UsedUp, G
  <2>3. /\ Cardinality(G') \in Nat /\ Cardinality(G) \in Nat
        /\ Cardinality(G') <= Cardinality(G)
    BY <1>1, <2>2, Fewer
  <2>4. /\ Cardinality(A') \in Nat /\ Cardinality(A) \in Nat
        /\ Cardinality(A') + 1 <= Cardinality(A)
    BY <1>1, <2>1, AtLeastOneLess
  <2>5. pressed'[t] <= pressed[t] + 1
    BY <1>2, <2>2
  <2>6. QED BY <1>2, <1>3, <2>3, <2>4, <2>5, OneMoreOneLess
<1>8. QED
  BY <1>4, <1>5, <1>6, <1>7 DEF AccountStep

(* On the server only the commit of an ack writes a grant. *)
LEMMA ServerAccount ==
  ASSUME TypeOK, GrantsStep, UNCHANGED loopVars
  PROVE  AccountStep
<1>1. \A t \in Tasks : AboutToPress(t)' = AboutToPress(t) /\ pressed'[t] = pressed[t]
  BY DEF AboutToPress, loopVars
<1>2. ASSUME NEW r \in Requests, AckCommit(r), NEW t \in Tasks
      PROVE  Quiet(t) \/ Written(t)
  <2>1. /\ req'[r].task = req[r].task
        /\ Len(attempts'[req[r].task]) = Len(attempts[req[r].task]) + 1
    BY <1>2, AckRecords
  <2>2. \A s \in Requests \ {r} : req'[s] = req[s]
    BY <1>2 DEF AckCommit, Advance, TypeOK, ApiTypeOK
  <2>3. \A s \in Grants(t)' : s \in Grants(t) \/ (s = r /\ req[r].task = t)
    BY <2>1, <2>2 DEF Grants, CarriesGrant
  <2>4. CASE req[r].task = t
    BY <1>1, <2>1, <2>3, <2>4 DEF Written
  <2>5. CASE req[r].task # t
    BY <1>1, <2>3, <2>5 DEF Quiet
  <2>6. QED BY <2>4, <2>5
<1>3. ASSUME \A r \in Requests : ~AckCommit(r), NEW t \in Tasks
      PROVE  Quiet(t)
  <2>1. \A r \in Requests : CarriesGrant(r)' => StillCarries(r)
    BY <1>3 DEF GrantsStep
  <2>2. Grants(t)' \subseteq Grants(t)
    BY <2>1 DEF Grants, StillCarries
  <2>3. QED BY <1>1, <2>2 DEF Quiet
<1>4. QED
  BY <1>2, <1>3 DEF AccountStep

(* A loop presses only after it took a grant off its request. *)
LEMMA LoopsAccount ==
  ASSUME TypeOK, WaitersOwn, LoopStep
  PROVE  AccountStep
<1>0. /\ req \in [Requests -> Request] /\ loop \in [Loops -> LoopState]
      /\ pressed \in [Tasks -> Nat]
  BY DEF TypeOK, ApiTypeOK, LoopTypeOK
<1>1. \A t \in Tasks : Grants(t)' \subseteq Grants(t)
  BY LoopsGrantNothing DEF Grants, StillCarries
<1>2. ASSUME NEW l \in Loops, AckReturns(l), NEW t \in Tasks
      PROVE  Quiet(t) \/ Handed(t)
  <2>1. /\ pressed' = pressed
        /\ \A k \in Loops \ {l} : loop'[k] = loop[k]
    BY <1>0, <1>2 DEF AckReturns
  <2>2. CASE req[loop[l].req].at = "acked" /\ loop[l].task = t
    <3>1. loop[l].req \in Requests /\ OwnsRequest(l)
      BY <1>2 DEF AckReturns, WaitersOwn, Waits, TypeOK, LoopTypeOK
    <3>2. loop[l].req \in Grants(t)
      BY <2>2, <3>1 DEF OwnsRequest, Grants, CarriesGrant
    <3>3. loop[l].req \notin Grants(t)'
      BY <1>0, <1>2, <3>1 DEF AckReturns, Grants, CarriesGrant, Free
    <3>4. AboutToPress(t)' \subseteq AboutToPress(t) \cup {l}
      BY <2>1 DEF AboutToPress
    <3>5. Grants(t)' \subseteq Grants(t) \ {loop[l].req}
      BY <1>1, <3>3
    <3>6. QED BY <2>1, <3>2, <3>4, <3>5 DEF Handed
  <2>3. CASE req[loop[l].req].at # "acked" \/ loop[l].task # t
    <3>1. l \notin AboutToPress(t)'
      BY <1>0, <1>2, <2>3 DEF AckReturns, AboutToPress, Idle, LoopState
    <3>2. AboutToPress(t)' \subseteq AboutToPress(t)
      BY <2>1, <3>1 DEF AboutToPress
    <3>3. QED BY <1>1, <2>1, <3>2 DEF Quiet
  <2>4. QED BY <2>2, <2>3
<1>3. ASSUME NEW l \in Loops, Execute(l), NEW t \in Tasks
      PROVE  Quiet(t) \/ UsedUp(t)
  <2>1. /\ loop'[l].at # "sending" /\ loop[l].at = "sending"
        /\ \A k \in Loops \ {l} : loop'[k] = loop[k]
    BY <1>0, <1>3 DEF Execute, GoIdle, Idle, LoopState
  <2>2. AboutToPress(t)' \subseteq AboutToPress(t) \ {l}
    BY <2>1 DEF AboutToPress
  <2>3. CASE loop[l].task = t
    <3>1. pressed'[t] \in {pressed[t], pressed[t] + 1}
      BY <1>0, <1>3, <2>3 DEF Execute
    <3>2. l \in AboutToPress(t)
      BY <2>1, <2>3 DEF AboutToPress
    <3>3. QED BY <1>1, <2>2, <3>1, <3>2 DEF UsedUp
  <2>4. CASE loop[l].task # t
    <3>1. pressed'[t] = pressed[t]
      BY <1>0, <1>3, <2>4 DEF Execute
    <3>2. QED BY <1>1, <2>2, <3>1 DEF Quiet
  <2>5. QED BY <2>3, <2>4
<1>4. ASSUME UNCHANGED pressed, \A k \in Loops : loop'[k] = loop[k] \/ loop'[k].at # "sending",
             NEW t \in Tasks
      PROVE  Quiet(t)
  BY <1>1, <1>4 DEF Quiet, AboutToPress
<1>5. ASSUME NEW l \in Loops,
             \/ Pull(l) \/ ReportReturns(l) \/ Timeout(l)
             \/ \E r \in Requests : Ack(l, r) \/ Report(l, r)
      PROVE  /\ UNCHANGED pressed
             /\ \A k \in Loops : loop'[k] = loop[k] \/ loop'[k].at # "sending"
  <2>1. CASE Pull(l) \/ ReportReturns(l) \/ Timeout(l)
    BY <1>0, <2>1 DEF Pull, ReportReturns, Timeout, GoIdle, Idle, LoopState
  <2>2. ASSUME NEW r \in Requests, Ack(l, r) \/ Report(l, r)
        PROVE  /\ UNCHANGED pressed
               /\ \A k \in Loops : loop'[k] = loop[k] \/ loop'[k].at # "sending"
    BY <1>0, <2>2 DEF Ack, Report, LoopState
  <2>3. QED BY <1>5, <2>1, <2>2
<1>6. ASSUME NEW d \in Devices, Crash(d)
      PROVE  /\ UNCHANGED pressed
             /\ \A k \in Loops : loop'[k] = loop[k] \/ loop'[k].at # "sending"
  BY <1>0, <1>6 DEF Crash, Idle
<1>7. QED
  BY <1>2, <1>3, <1>4, <1>5, <1>6 DEF AccountStep, LoopStep, LoopProgress

(* At first there is nothing to account for. *)
LEMMA InitCovered == Init => PressesAreCovered
<1> SUFFICES ASSUME Init, NEW t \in Tasks
             PROVE  Covered(t)
  BY DEF PressesAreCovered
<1>1. Grants(t) = {} /\ AboutToPress(t) = {}
  BY DEF Init, ApiInit, LoopInit, Grants, AboutToPress, CarriesGrant, Free, Idle
<1>2. pressed[t] = 0 /\ attempts[t] = <<>>
  BY DEF Init, LoopInit, StoreInit
<1>3. QED
  BY <1>1, <1>2, FS_EmptySet DEF Covered

(* Every step keeps every account covered. *)
LEMMA NextCovered ==
  ASSUME TypeOK, GrantInv, PressesAreCovered, [Next]_vars
  PROVE  PressesAreCovered'
<1>1. TypeOK' /\ AttemptsGrow
  BY NextType, NextAttemptsGrow
<1>2. LoopStep \/ (UNCHANGED loopVars /\ (ApiStep \/ UNCHANGED req \/ ServerRestart))
  BY DEF Next, vars, ServerRestart
<1>3. AccountStep
  BY <1>2, LoopsAccount, ServerKeeps, ServerAccount DEF GrantInv
<1>4. \A t \in Tasks : Covered(t)'
  BY <1>1, <1>3, AccountCovered DEF PressesAreCovered
<1>5. QED BY <1>4 DEF PressesAreCovered

(* Answers may be lost, apps and the server may die, loops may race: the    *)
(* number of presses of a task never exceeds that of its attempt rows, the  *)
(* only trace of a press whose report was lost.                             *)
THEOREM PressesAreRecordedHolds == Spec => []PressesAreRecorded
<1> DEFINE IInv == TypeOK /\ GrantInv /\ PressesAreCovered
<1>1. Init => IInv
  BY InitType, InitGrants, InitCovered
<1>2. IInv /\ [Next]_vars => IInv'
  BY NextType, NextGrants, NextCovered
<1>3. IInv => PressesAreRecorded
  <2> SUFFICES ASSUME IInv, NEW t \in Tasks
               PROVE  pressed[t] <= Len(attempts[t])
    BY DEF PressesAreRecorded
  <2>1. Cardinality(Grants(t)) \in Nat /\ Cardinality(AboutToPress(t)) \in Nat
    BY FS_Subset, FS_CardinalityType, ApiAssumption, LoopAssumption DEF Grants, AboutToPress
  <2>2. pressed[t] \in Nat /\ Len(attempts[t]) \in Nat
    BY LenProperties DEF TypeOK, StoreTypeOK, LoopTypeOK
  <2>3. Covered(t)
    BY DEF PressesAreCovered
  <2>4. QED BY <2>1, <2>2, <2>3 DEF Covered
<1>4. QED
  BY <1>1, <1>2, <1>3, PTL DEF Spec

-----------------------------------------------------------------------------
(* One press per loop.  What an ack can still be granted was read while the *)
(* task was pending; once somebody took the task, no loop joins those that  *)
(* may press, and each leaves them by its one press.                        *)
Taken(t) == status[t] \notin {"absent", "pending"}

SawPending == {"ack_read", "ack_committed", "acked"}
ReadPending(r) == req[r].at \in SawPending

MayPress(t) ==
    {l \in Loops : /\ loop[l].task = t
                   /\ \/ loop[l].at = "sending"
                      \/ loop[l].at = "acking" /\ ReadPending(loop[l].req)}

(* An ack is at work on a pending task, or was before this step.            *)
LEMMA ReadsStep ==
  ASSUME TypeOK, [Next]_vars, NEW r \in Requests, ReadPending(r)'
  PROVE  ReadPending(r) \/ (AckRead(r) /\ status[req[r].task] = "pending")
<1>0. req \in [Requests -> Request] /\ loop \in [Loops -> LoopState]
  BY DEF TypeOK, ApiTypeOK, LoopTypeOK
<1> USE DEF ReadPending, SawPending
<1>1. ASSUME NEW s \in Requests, Handler(s)
      PROVE  ReadPending(r) \/ (AckRead(r) /\ status[req[r].task] = "pending")
  <2>1. CASE AckRead(s)
    BY <1>0, <2>1 DEF AckRead, CanAck, Advance, Respond, Free, Request
  <2>2. CASE AckCommit(s) \/ AckAnswer(s)
    BY <1>0, <2>2 DEF AckCommit, AckAnswer, Advance, Respond
  <2>3. CASE ResultRead(s) \/ ResultAttempt(s) \/ ResultFresh(s) \/ ResultCommit(s)
    BY <1>0, <2>3 DEF ResultRead, ResultAttempt, ResultFresh, ResultCommit, Advance, Respond, Free,
                        Request
  <2>4. CASE CancelTask(s) \/ CancelOutbound(s)
    BY <1>0, <2>4 DEF CancelTask, CancelOutbound, Advance, Free, Request
  <2>5. QED BY <1>1, <2>1, <2>2, <2>3, <2>4 DEF Handler
<1>2. CASE ApiStep
  <2>1. ASSUME NEW s \in Requests, DropRequest(s) PROVE ReadPending(r)
    BY <1>0, <2>1 DEF DropRequest, Free
  <2>2. ASSUME NEW s \in Requests, NEW t \in Tasks, CancelRead(s, t) PROVE ReadPending(r)
    BY <1>0, <2>2 DEF CancelRead, Free
  <2>3. CASE CreateTestTask
    BY <2>3 DEF CreateTestTask
  <2>4. QED BY <1>1, <1>2, <2>1, <2>2, <2>3 DEF ApiStep
<1>3. CASE LoopStep
  <2>1. ASSUME NEW l \in Loops, NEW s \in Requests, Ack(l, s) \/ Report(l, s)
        PROVE  ReadPending(r)
    BY <1>0, <2>1 DEF Ack, Report, Submit
  <2>2. ASSUME NEW l \in Loops, AckReturns(l) \/ ReportReturns(l)
        PROVE  ReadPending(r)
    BY <1>0, <2>2 DEF AckReturns, ReportReturns, Free
  <2>3. ASSUME NEW l \in Loops, Timeout(l)
        PROVE  ReadPending(r)
    BY <1>0, <2>3 DEF Timeout, Hangup, Free, Request
  <2>4. ASSUME NEW d \in Devices, Crash(d)
        PROVE  ReadPending(r)
    BY <1>0, <2>4 DEF Crash, Hangup, Free, Request
  <2>5. QED
    BY <1>3, <2>1, <2>2, <2>3, <2>4 DEF LoopStep, LoopProgress, Pull, Execute
<1>4. CASE ServerRestart
  BY <1>0, <1>4 DEF ServerRestart, AbortedByRestart, AnswerPlaces, Free, Request
<1>5. CASE UNCHANGED req
  BY <1>5
<1>6. QED
  BY <1>2, <1>3, <1>4, <1>5 DEF Next, vars

(* A loop about to press was about to before this step, or waits for its    *)
(* ack as it did.                                                           *)
LEMMA LoopsStep ==
  ASSUME TypeOK, [Next]_vars, NEW l \in Loops,
         \/ loop'[l].at = "sending"
         \/ loop'[l].at = "acking" /\ req'[loop'[l].req].at \in SawPending
  PROVE  /\ loop'[l].task = loop[l].task
         /\ \/ loop[l].at = "sending"
            \/ loop[l].at = "acking" /\ ReadPending(loop[l].req)
            \/ loop[l].at = "acking" /\ loop'[l] = loop[l]
<1>0. req \in [Requests -> Request] /\ loop \in [Loops -> LoopState]
  BY DEF TypeOK, ApiTypeOK, LoopTypeOK
<1>1. ASSUME loop'[l] = loop[l]
      PROVE  \/ loop[l].at = "sending"
             \/ loop[l].at = "acking" /\ loop'[l] = loop[l]
  BY <1>1
<1>2. ASSUME NEW r \in Requests, Ack(l, r)
      PROVE  FALSE
  <2>1. loop'[l].at = "acking" /\ loop'[l].req = r
    BY <1>0, <1>2 DEF Ack, LoopState
  <2>2. req'[r].at = "ack_sent"
    BY <1>0, <1>2 DEF Ack, Submit
  <2>3. QED BY <2>1, <2>2 DEF SawPending
<1>3. ASSUME NEW r \in Requests, Report(l, r)
      PROVE  FALSE
  BY <1>0, <1>3 DEF Report, LoopState
<1>4. ASSUME AckReturns(l)
      PROVE  /\ loop'[l].task = loop[l].task
             /\ loop[l].at = "acking" /\ ReadPending(loop[l].req)
  BY <1>0, <1>4 DEF AckReturns, ReadPending, SawPending, Idle, LoopState
<1>5. ASSUME Pull(l) \/ Execute(l) \/ ReportReturns(l) \/ Timeout(l)
      PROVE  FALSE
  BY <1>0, <1>5 DEF Pull, Execute, ReportReturns, Timeout, GoIdle, Idle, LoopState
<1>6. ASSUME NEW k \in Loops, k # l, LoopProgress(k) \/ Timeout(k)
      PROVE  loop'[l] = loop[l]
  BY <1>0, <1>6 DEF LoopProgress, Pull, Ack, AckReturns, Execute, Report, ReportReturns,
                    Timeout, GoIdle
<1>7. ASSUME NEW d \in Devices, Crash(d)
      PROVE  loop'[l] = loop[l]
  BY <1>0, <1>7 DEF Crash, Idle
<1>8. CASE LoopStep
  BY <1>1, <1>2, <1>3, <1>4, <1>5, <1>6, <1>7, <1>8 DEF LoopStep, LoopProgress
<1>9. CASE UNCHANGED loop
  BY <1>1, <1>9
<1>10. QED
  BY <1>8, <1>9 DEF Next, vars, loopVars, ServerRestart

(* Nobody joins those that may press a task that is taken.                  *)
LEMMA NobodyJoins ==
  ASSUME TypeOK, WaitersOwn, [Next]_vars, NEW t \in Tasks, Taken(t)
  PROVE  MayPress(t)' \subseteq MayPress(t)
<1> SUFFICES ASSUME NEW l \in MayPress(t)' PROVE l \in MayPress(t)
  OBVIOUS
<1>1. l \in Loops /\ loop'[l].task = t
  BY DEF MayPress
<1>2. /\ loop[l].task = t
      /\ \/ loop[l].at = "sending"
         \/ loop[l].at = "acking" /\ ReadPending(loop[l].req)
         \/ loop[l].at = "acking" /\ loop'[l] = loop[l]
  BY <1>1, LoopsStep DEF MayPress, ReadPending
<1>3. CASE loop[l].at = "acking" /\ loop'[l] = loop[l]
  <2> DEFINE r == loop[l].req
  <2>1. r \in Requests /\ req[r].task = t
    BY <1>1, <1>2, <1>3 DEF WaitersOwn, Waits, OwnsRequest, TypeOK, LoopTypeOK
  <2>2. req'[r].at \in SawPending
    BY <1>3 DEF MayPress, ReadPending
  <2> HIDE DEF r
  <2>3. ReadPending(r) \/ status[req[r].task] = "pending"
    BY <2>1, <2>2, ReadsStep DEF ReadPending
  <2> USE DEF r
  <2>4. QED
    BY <1>1, <1>2, <1>3, <2>1, <2>3 DEF MayPress, Taken
<1>4. QED BY <1>1, <1>2, <1>3 DEF MayPress

(* A press takes the loop out of those that may.                            *)
LEMMA PressLeaves ==
  ASSUME TypeOK, [Next]_vars, NEW t \in Tasks, pressed'[t] # pressed[t]
  PROVE  /\ UNCHANGED status
         /\ pressed'[t] = pressed[t] + 1
         /\ \E l \in MayPress(t) : l \notin MayPress(t)'
<1>0. /\ loop \in [Loops -> LoopState] /\ pressed \in [Tasks -> Nat]
      /\ \A l \in Loops : loop[l].at # "idle" => loop[l].task \in Tasks
  BY DEF TypeOK, LoopTypeOK
<1>1. PICK l \in Loops : Execute(l)
  BY DEF Next, vars, loopVars, ServerRestart, LoopStep, LoopProgress, Pull, Ack, AckReturns,
         Report, ReportReturns, Timeout, Crash
<1>2. PICK p \in {0, 1} : pressed' = [pressed EXCEPT ![loop[l].task] = @ + p]
  BY <1>1 DEF Execute
<1>3. loop[l].task = t /\ pressed'[t] = pressed[t] + 1
  BY <1>0, <1>2
<1>4. l \in MayPress(t)
  BY <1>1, <1>3 DEF Execute, MayPress
<1>5. loop'[l].at \in {"executed", "idle"}
  <2>1. CASE GoIdle(l)
    BY <1>0, <2>1 DEF GoIdle, Idle
  <2>2. CASE \E o \in SettledStatuses :
               loop' = [loop EXCEPT ![l].at = "executed", ![l].outcome = o]
    BY <1>0, <2>2 DEF LoopState
  <2>3. QED BY <1>1, <2>1, <2>2 DEF Execute
<1>6. l \notin MayPress(t)'
  BY <1>5 DEF MayPress
<1>7. QED
  BY <1>1, <1>3, <1>4, <1>6 DEF Execute, storeVars

(* A task that nobody took was not taken before, and has no new attempt.    *)
LEMMA UntakenStays ==
  ASSUME TypeOK, [Next]_vars, NEW t \in Tasks, ~Taken(t)'
  PROVE  ~Taken(t) /\ Len(attempts'[t]) = Len(attempts[t])
<1>0. /\ status \in [Tasks -> VisibleStatuses] /\ attempts \in [Tasks -> Seq(Attempt)]
      /\ req \in [Requests -> Request]
  BY DEF TypeOK, StoreTypeOK, ApiTypeOK
<1> USE DEF Taken
<1>1. ASSUME UNCHANGED <<status, attempts>> PROVE ~Taken(t) /\ attempts'[t] = attempts[t]
  BY <1>1
<1>2. ASSUME NEW u \in Tasks, NEW o, InsertTask(u, o), UNCHANGED attempts
      PROVE  ~Taken(t) /\ attempts'[t] = attempts[t]
  BY <1>0, <1>2 DEF InsertTask, NextTaskId
<1>3. ASSUME NEW r \in Requests, Handler(r)
      PROVE  ~Taken(t) /\ attempts'[t] = attempts[t]
  <2>1. CASE AckCommit(r)
    BY <1>0, <2>1 DEF AckCommit, AckWrites
  <2>2. CASE ResultCommit(r)
    BY <1>0, <2>2 DEF ResultCommit, ResultWrites, Request, SettledStatuses
  <2>3. CASE CancelTask(r)
    BY <1>0, <2>3 DEF CancelTask
  <2>4. QED
    BY <1>1, <1>3, <2>1, <2>2, <2>3
       DEF Handler, AckRead, AckAnswer, ResultRead, ResultAttempt, ResultFresh,
           CancelOutbound, storeVars
<1>4. CASE ApiStep
  BY <1>1, <1>2, <1>3, <1>4 DEF ApiStep, DropRequest, CreateTestTask, CancelRead, storeVars
<1>5. CASE LoopStep
  BY <1>5, <1>1 DEF LoopStep, LoopProgress, Pull, Ack, AckReturns, Execute, Report,
                    ReportReturns, Timeout, Crash, storeVars
<1>6. CASE WorkerStep
  BY <1>6, <1>1, <1>2
     DEF WorkerStep, WorkerProgress, CreateOutbound, AddJob, Stall, Fetch, Precheck,
         CancelBlocked, InsertLinked, InsertRefused, MarkPendingExecutor, FinishJob,
         JobError, storeVars
<1>7. CASE ServerRestart \/ UNCHANGED vars
  BY <1>7, <1>1 DEF ServerRestart, vars, storeVars
<1>8. QED
  BY <1>4, <1>5, <1>6, <1>7 DEF Next

(* A task nobody took has no attempt, and presses and loops that may press  *)
(* are never more than loops.                                               *)
UntakenIsUntried == \A t \in Tasks : Taken(t) \/ Len(attempts[t]) = 0
RoomToPress == \A t \in Tasks : pressed[t] + Cardinality(MayPress(t)) <= Cardinality(Loops)

LEMMA NextRoom ==
  ASSUME TypeOK, WaitersOwn, PressesAreRecorded, PressesAreRecorded', UntakenIsUntried,
         RoomToPress, [Next]_vars
  PROVE  UntakenIsUntried' /\ RoomToPress'
<1>0. TypeOK'
  BY NextType
<1>1. UntakenIsUntried'
  BY UntakenStays DEF UntakenIsUntried
<1>2. ASSUME NEW t \in Tasks
      PROVE  (pressed[t] + Cardinality(MayPress(t)) <= Cardinality(Loops))'
  <2> DEFINE M == MayPress(t)
  <2>1. /\ IsFiniteSet(Loops) /\ Cardinality(Loops) \in Nat
        /\ M \subseteq Loops /\ M' \subseteq Loops
    BY LoopAssumption, FS_CardinalityType DEF MayPress
  <2>2. /\ IsFiniteSet(M) /\ IsFiniteSet(M')
        /\ Cardinality(M) \in Nat /\ Cardinality(M') \in Nat
        /\ Cardinality(M') <= Cardinality(Loops)
    BY <2>1, FS_Subset, FS_CardinalityType
  <2>3. pressed[t] \in Nat /\ pressed'[t] \in Nat /\ Len(attempts[t]) \in Nat
    BY <1>0, LenProperties DEF TypeOK, LoopTypeOK, StoreTypeOK
  <2>4. pressed[t] + Cardinality(M) <= Cardinality(Loops) /\ pressed[t] <= Len(attempts[t])
    BY DEF RoomToPress, PressesAreRecorded
  <2> SUFFICES pressed'[t] + Cardinality(M') <= Cardinality(Loops)
    OBVIOUS
  <2>5. CASE Taken(t)
    <3>1. M' \subseteq M
      BY <2>5, NobodyJoins
    <3>2. pressed'[t] # pressed[t] =>
            pressed'[t] = pressed[t] + 1 /\ \E l \in M : l \notin M'
      BY PressLeaves
    <3> HIDE DEF M
    <3>3. CASE pressed'[t] = pressed[t]
      <4>1. Cardinality(M') <= Cardinality(M)
        BY <2>2, <3>1, Fewer
      <4>2. QED BY <2>2, <2>3, <2>4, <2>1, <3>3, <4>1
    <3>4. CASE pressed'[t] # pressed[t]
      <4>1. PICK l \in M : l \notin M'
        BY <3>2, <3>4
      <4>2. Cardinality(M') + 1 <= Cardinality(M)
        BY <2>2, <3>1, <4>1, AtLeastOneLess
      <4>3. QED BY <2>1, <2>2, <2>3, <2>4, <3>2, <3>4, <4>2
    <3>5. QED BY <3>3, <3>4
  <2>6. CASE ~Taken(t)
    <3>1. pressed[t] = 0
      BY <2>3, <2>4, <2>6 DEF UntakenIsUntried
    <3>2. pressed'[t] = pressed[t]
      <4>1. SUFFICES ASSUME pressed'[t] # pressed[t] PROVE FALSE
        OBVIOUS
      <4>2. UNCHANGED status /\ pressed'[t] = pressed[t] + 1
        BY <4>1, PressLeaves
      <4>3. ~Taken(t)'
        BY <2>6, <4>2 DEF Taken
      <4>4. Len(attempts'[t]) = 0
        BY <1>1, <4>3 DEF UntakenIsUntried
      <4>5. pressed'[t] <= Len(attempts'[t])
        BY DEF PressesAreRecorded
      <4>6. QED BY <3>1, <4>2, <4>4, <4>5
    <3> HIDE DEF M
    <3>3. QED BY <2>1, <2>2, <3>1, <3>2
  <2>7. QED BY <2>5, <2>6
<1>3. QED
  BY <1>1, <1>2 DEF RoomToPress

(* At first nobody took a task, and nobody presses.                          *)
LEMMA InitRoom == Init => UntakenIsUntried /\ RoomToPress
<1> SUFFICES ASSUME Init PROVE UntakenIsUntried /\ RoomToPress
  OBVIOUS
<1>1. UntakenIsUntried
  BY DEF Init, StoreInit, UntakenIsUntried
<1>2. ASSUME NEW t \in Tasks
      PROVE  pressed[t] + Cardinality(MayPress(t)) <= Cardinality(Loops)
  <2>1. MayPress(t) = {} /\ pressed[t] = 0
    BY DEF Init, LoopInit, Idle, MayPress
  <2>2. Cardinality(MayPress(t)) = 0
    BY <2>1, FS_EmptySet
  <2>3. Cardinality(Loops) \in Nat
    BY LoopAssumption, FS_CardinalityType
  <2>4. QED BY <2>1, <2>2, <2>3
<1>3. QED BY <1>1, <1>2 DEF RoomToPress

(* However many acks of a task are granted at once, and whatever a loop      *)
(* timed out on, lost in a crash or pulled again, each loop presses send     *)
(* once for it at most (taskLoop with ackExecutorTask).                      *)
THEOREM PressedOncePerLoopHolds == Spec => []PressedOncePerLoop
<1> DEFINE IInv == TypeOK /\ GrantInv /\ UntakenIsUntried /\ RoomToPress
<1>1. Init => IInv
  BY InitType, InitGrants, InitRoom
<1>2. IInv /\ PressesAreRecorded /\ PressesAreRecorded' /\ [Next]_vars => IInv'
  BY NextType, NextGrants, NextRoom DEF GrantInv
<1>3. IInv => PressedOncePerLoop
  <2> SUFFICES ASSUME IInv, NEW t \in Tasks PROVE pressed[t] <= Cardinality(Loops)
    BY DEF PressedOncePerLoop
  <2>1. pressed[t] + Cardinality(MayPress(t)) <= Cardinality(Loops)
    BY DEF RoomToPress
  <2>2. IsFiniteSet(MayPress(t)) /\ Cardinality(Loops) \in Nat
    BY LoopAssumption, FS_Subset, FS_CardinalityType DEF MayPress
  <2>3. Cardinality(MayPress(t)) \in Nat /\ pressed[t] \in Nat
    BY <2>2, FS_CardinalityType DEF TypeOK, LoopTypeOK
  <2>4. QED BY <2>1, <2>2, <2>3
<1> HIDE DEF IInv
<1>4. QED
  BY <1>1, <1>2, <1>3, PressesAreRecordedHolds, PTL DEF Spec

(* So a chat gets a message at most once where one loop runs, although the   *)
(* server may grant the task to several requests of that loop.               *)
THEOREM PressedAtMostOnceByOneLoop ==
  ASSUME \A l, k \in Loops : l = k
  PROVE  Spec => []PressedAtMostOnce
<1>1. Cardinality(Loops) \in {0, 1}
  <2>1. CASE Loops = {}
    BY <2>1, FS_EmptySet
  <2>2. CASE Loops # {}
    <3>1. PICK l \in Loops : Loops = {l}
      BY <2>2
    <3>2. QED BY <3>1, FS_Singleton
  <2>3. QED BY <2>1, <2>2
<1>2. TypeOK /\ PressedOncePerLoop => PressedAtMostOnce
  BY <1>1 DEF PressedOncePerLoop, PressedAtMostOnce, TypeOK, LoopTypeOK
<1>3. QED
  BY <1>2, TypeCorrect, PressedOncePerLoopHolds, PTL

-----------------------------------------------------------------------------
(* Handlers that meet.  What a handler of the API read of a task still      *)
(* holds when it writes, unless another one was in its gap meanwhile, and   *)
(* then the history remembers the task.                                     *)

MeetingsAreKept ==
    \A t \in Tasks : /\ Meet(t, GapPlaces) => t \in met
                     /\ Meet(t, {"ack_read"}) => t \in acksMet

FreshRead(r) ==
    LET t == req[r].task IN
    /\ req[r].at = "ack_read" => status[t] = "pending"
    /\ req[r].at = "result_fresh" => status[t] = "running"
    /\ req[r].at = "cancel_read" => status[t] \in {"pending", "running"}

ReadsAreFresh ==
    \A r \in Requests : req[r].at \in GapPlaces /\ req[r].task \notin met => FreshRead(r)

(* A task whose acks did not meet is untried while one is about to commit,  *)
(* and has one attempt at most.                                             *)
GrantsAreSingle ==
    /\ \A r \in Requests : req[r].at = "ack_read" /\ req[r].task \notin acksMet =>
           Len(attempts[req[r].task]) = 0
    /\ \A t \in Tasks \ acksMet : Len(attempts[t]) <= 1

-----------------------------------------------------------------------------
(* What one step does to the gaps, to a status and to the attempts.         *)

(* A request in its gap was there already, or has just read the task.       *)
EntersGap(r) == /\ UNCHANGED <<status, attempts>>
                /\ req'[r].at = "ack_read" => status[req'[r].task] = "pending"
                /\ req'[r].at = "result_fresh" => status[req'[r].task] = "running"
                /\ req'[r].at = "cancel_read" => status[req'[r].task] \in {"pending", "running"}

StaysInGap(r) == req'[r].at = req[r].at /\ req'[r].task = req[r].task

(* A handler of the API, statement by statement. *)
LEMMA HandlerGaps ==
  ASSUME TypeOK, NEW s \in Requests, Handler(s), NEW r \in Requests, req'[r].at \in GapPlaces
  PROVE  StaysInGap(r) \/ EntersGap(r)
<1>0. req \in [Requests -> Request]
  BY DEF TypeOK, ApiTypeOK
<1> USE DEF GapPlaces, Advance, Respond, Free, StaysInGap, EntersGap
<1>1. CASE AckRead(s)
  BY <1>0, <1>1 DEF AckRead, CanAck, storeVars, Request
<1>2. CASE ResultFresh(s)
  BY <1>0, <1>2 DEF ResultFresh, MayReport, storeVars, Request
<1>3. CASE AckCommit(s) \/ AckAnswer(s) \/ ResultRead(s) \/ ResultCommit(s)
  BY <1>0, <1>3 DEF AckCommit, AckAnswer, ResultRead, ResultCommit, Request
<1>4. CASE ResultAttempt(s) \/ CancelTask(s) \/ CancelOutbound(s)
  BY <1>0, <1>4 DEF ResultAttempt, CancelTask, CancelOutbound, Request
<1>5. QED
  BY <1>1, <1>2, <1>3, <1>4 DEF Handler

(* Every step. *)
LEMMA NextGaps ==
  ASSUME TypeOK, [Next]_vars, NEW r \in Requests, req'[r].at \in GapPlaces
  PROVE  StaysInGap(r) \/ EntersGap(r)
<1>0. /\ req \in [Requests -> Request] /\ status \in [Tasks -> VisibleStatuses]
  BY DEF TypeOK, ApiTypeOK, StoreTypeOK
<1>1. CASE UNCHANGED req
  BY <1>1 DEF StaysInGap
<1>2. CASE ApiStep
  <2>1. ASSUME NEW s \in Requests, DropRequest(s)
        PROVE  StaysInGap(r)
    BY <1>0, <2>1 DEF DropRequest, Free, GapPlaces, StaysInGap
  <2>2. ASSUME NEW s \in Requests, NEW t \in Tasks, CancelRead(s, t)
        PROVE  StaysInGap(r) \/ EntersGap(r)
    <3>1. status[t] \in {"pending", "running"} /\ UNCHANGED <<status, attempts>>
      BY <1>0, <2>2 DEF CancelRead, ActiveStatuses, VisibleStatuses, storeVars
    <3>2. /\ req'[s].at = "cancel_read" /\ req'[s].task = t
          /\ r # s => req'[r] = req[r]
      BY <1>0, <2>2 DEF CancelRead, Free
    <3>3. CASE r = s
      BY <3>1, <3>2, <3>3 DEF EntersGap
    <3>4. QED BY <3>2, <3>3 DEF StaysInGap
  <2>3. QED
    BY <1>1, <1>2, <2>1, <2>2, HandlerGaps DEF ApiStep, CreateTestTask
<1>3. CASE LoopStep
  <2> USE DEF GapPlaces, Free, StaysInGap
  <2>1. ASSUME NEW l \in Loops, NEW s \in Requests, Ack(l, s) \/ Report(l, s)
        PROVE  StaysInGap(r)
    BY <1>0, <2>1 DEF Ack, Report, Submit
  <2>2. ASSUME NEW l \in Loops, AckReturns(l) \/ ReportReturns(l)
        PROVE  StaysInGap(r)
    BY <1>0, <2>2 DEF AckReturns, ReportReturns
  <2>3. ASSUME NEW l \in Loops, Timeout(l)
        PROVE  StaysInGap(r)
    BY <1>0, <2>3 DEF Timeout, Hangup, Request
  <2>4. ASSUME NEW d \in Devices, Crash(d)
        PROVE  StaysInGap(r)
    BY <1>0, <2>4 DEF Crash, Hangup, Request
  <2>5. QED
    BY <1>1, <1>3, <2>1, <2>2, <2>3, <2>4 DEF LoopStep, LoopProgress, Pull, Execute
<1>4. CASE ServerRestart
  BY <1>0, <1>4 DEF ServerRestart, AbortedByRestart, AnswerPlaces, GapPlaces, Free, Request,
                    StaysInGap
<1>5. QED
  BY <1>1, <1>2, <1>3, <1>4 DEF Next, vars

(* A handler leaves its gap by writing one task.                            *)
Writes(s, t) == /\ req[s].at \in GapPlaces /\ req[s].task = t
                /\ Handler(s) /\ req'[s].at \notin GapPlaces

(* Only such a write changes a task that exists, and only the commit of an  *)
(* ack adds an attempt.                                                     *)
LEMMA NextWrites ==
  ASSUME TypeOK, [Next]_vars, NEW t \in Tasks
  PROVE  /\ \/ status'[t] = status[t] /\ owner'[t] = owner[t]
            \/ status[t] = "absent"
            \/ \E s \in Requests : Writes(s, t)
         /\ \/ Len(attempts'[t]) = Len(attempts[t])
            \/ \E s \in Requests : /\ Writes(s, t) /\ req[s].at = "ack_read"
                                   /\ Len(attempts'[t]) = Len(attempts[t]) + 1
<1>0. /\ req \in [Requests -> Request] /\ status \in [Tasks -> VisibleStatuses]
      /\ owner \in [Tasks -> Devices \cup {NoDevice}] /\ attempts \in [Tasks -> Seq(Attempt)]
      /\ \A r \in Requests : req[r].at # "free" => req[r].task \in Tasks
  BY DEF TypeOK, ApiTypeOK, StoreTypeOK, Named
<1> DEFINE Goal == /\ \/ status'[t] = status[t] /\ owner'[t] = owner[t]
                      \/ status[t] = "absent"
                      \/ \E s \in Requests : Writes(s, t)
                   /\ \/ Len(attempts'[t]) = Len(attempts[t])
                      \/ \E s \in Requests : /\ Writes(s, t) /\ req[s].at = "ack_read"
                                             /\ Len(attempts'[t]) = Len(attempts[t]) + 1
<1> SUFFICES Goal
  OBVIOUS
<1>1. ASSUME UNCHANGED <<status, owner, attempts>> PROVE Goal
  BY <1>1
<1>2. ASSUME NEW u \in Tasks, NEW o, InsertTask(u, o), UNCHANGED <<owner, attempts>>
      PROVE  Goal
  BY <1>0, <1>2 DEF InsertTask, NextTaskId
<1>3. ASSUME NEW s \in Requests, Handler(s)
      PROVE  Goal
  <2> USE DEF GapPlaces
  <2>1. CASE AckCommit(s)
    <3>1. /\ req[s].at = "ack_read" /\ req'[s].at = "ack_committed"
      BY <1>0, <2>1 DEF AckCommit, Advance, Request
    <3>2. CASE req[s].task = t
      BY <2>1, <1>3, <3>1, <3>2, AckRecords DEF Writes
    <3>3. CASE req[s].task # t
      BY <1>0, <2>1, <3>3 DEF AckCommit, AckWrites
    <3>4. QED BY <3>2, <3>3
  <2>2. CASE ResultCommit(s)
    <3>1. req[s].at = "result_fresh" /\ req'[s].at \notin GapPlaces
      BY <1>0, <2>2 DEF ResultCommit, Respond, Free, Request
    <3>2. req[s].task \in Tasks /\ owner'[t] = owner[t]
      BY <1>0, <2>2, <3>1 DEF ResultCommit
    <3>3. req[s].task # t => status'[t] = status[t]
      BY <1>0, <2>2 DEF ResultCommit, ResultWrites
    <3>4. Len(attempts'[t]) = Len(attempts[t])
      <4>1. \/ attempts' = attempts
            \/ attempts' = [attempts EXCEPT ![req[s].task][req[s].attempt].status = req[s].outcome]
        BY <2>2 DEF ResultCommit, ResultWrites
      <4> DEFINE u == req[s].task
                 q == [attempts[u] EXCEPT ![req[s].attempt].status = req[s].outcome]
      <4>2. CASE attempts' # attempts
        <5>1. attempts' = [attempts EXCEPT ![u] = q]
          BY <4>1, <4>2
        <5>2. Len(q) = Len(attempts[u])
          BY <1>0, <3>2
        <5> HIDE DEF q
        <5>3. QED BY <1>0, <3>2, <5>1, <5>2
      <4>3. QED BY <4>2
    <3>5. QED BY <1>3, <3>1, <3>2, <3>3, <3>4 DEF Writes
  <2>3. CASE CancelTask(s)
    <3>1. req[s].at = "cancel_read" /\ req'[s].at \notin GapPlaces
      BY <1>0, <2>3 DEF CancelTask, Advance, Request
    <3>2. CASE req[s].task = t
      BY <1>3, <2>3, <3>1, <3>2 DEF Writes, CancelTask
    <3>3. CASE req[s].task # t
      BY <1>0, <2>3, <3>3 DEF CancelTask
    <3>4. QED BY <3>2, <3>3
  <2>4. QED
    BY <1>1, <1>3, <2>1, <2>2, <2>3
       DEF Handler, AckRead, AckAnswer, ResultRead, ResultAttempt, ResultFresh, CancelOutbound,
           storeVars
<1>4. CASE ApiStep
  BY <1>1, <1>2, <1>3, <1>4 DEF ApiStep, DropRequest, CreateTestTask, CancelRead, storeVars
<1>5. CASE LoopStep
  BY <1>5, <1>1 DEF LoopStep, LoopProgress, Pull, Ack, AckReturns, Execute, Report,
                    ReportReturns, Timeout, Crash, storeVars
<1>6. CASE WorkerStep
  BY <1>6, <1>1, <1>2
     DEF WorkerStep, WorkerProgress, CreateOutbound, AddJob, Stall, Fetch, Precheck,
         CancelBlocked, InsertLinked, InsertRefused, MarkPendingExecutor, FinishJob,
         JobError, storeVars
<1>7. CASE ServerRestart \/ UNCHANGED vars
  BY <1>7, <1>1 DEF ServerRestart, vars, storeVars
<1> HIDE DEF Goal
<1>8. QED
  BY <1>4, <1>5, <1>6, <1>7 DEF Next

(* The writer of a task meets whoever is in a gap about the same task and   *)
(* stays there.                                                             *)
LEMMA WriterMeets ==
  ASSUME NEW t \in Tasks, NEW s \in Requests, Writes(s, t), NEW r \in Requests,
         req'[r].at \in GapPlaces, StaysInGap(r), req[r].task = t
  PROVE  /\ Meet(t, GapPlaces)
         /\ req[s].at = "ack_read" /\ req[r].at = "ack_read" => Meet(t, {"ack_read"})
<1>1. r # s
  BY DEF Writes
<1>2. r \in InGap(t, GapPlaces) /\ s \in InGap(t, GapPlaces)
  BY DEF Writes, StaysInGap, InGap
<1>3. req[s].at = "ack_read" /\ req[r].at = "ack_read" =>
        r \in InGap(t, {"ack_read"}) /\ s \in InGap(t, {"ack_read"})
  BY <1>2 DEF InGap
<1>4. QED BY <1>1, <1>2, <1>3 DEF Meet

-----------------------------------------------------------------------------
(* The inductive invariant of the races. *)
RaceInv == TypeOK /\ UntakenIsUntried /\ MeetingsAreKept /\ ReadsAreFresh /\ GrantsAreSingle

(* At first nobody read anything. *)
LEMMA InitRaces == RInit => RaceInv
<1> SUFFICES ASSUME RInit PROVE RaceInv
  OBVIOUS
<1>1. TypeOK /\ UntakenIsUntried
  BY InitType, InitRoom DEF RInit
<1>2. \A r \in Requests : req[r].at \notin GapPlaces
  BY DEF RInit, Init, ApiInit, Free, GapPlaces
<1>3. MeetingsAreKept /\ ReadsAreFresh
  BY <1>2 DEF MeetingsAreKept, ReadsAreFresh, Meet, InGap, GapPlaces
<1>4. GrantsAreSingle
  BY <1>2 DEF GrantsAreSingle, GapPlaces, RInit, Init, StoreInit
<1>5. QED BY <1>1, <1>3, <1>4 DEF RaceInv

(* Every step keeps it. *)
LEMMA NextRaces == RaceInv /\ [RNext]_rvars => RaceInv'
<1> SUFFICES ASSUME RaceInv, [RNext]_rvars PROVE RaceInv'
  OBVIOUS
<1>1. [Next]_vars
  BY DEF RNext, rvars
<1>2. TypeOK /\ TypeOK' /\ UntakenIsUntried /\ UntakenIsUntried'
  BY <1>1, NextType, UntakenStays DEF RaceInv, UntakenIsUntried
<1>3. MeetingsAreKept'
  <2>1. CASE RNext
    BY <2>1 DEF RNext, MeetingsAreKept
  <2>2. CASE UNCHANGED rvars
    BY <2>2 DEF RaceInv, rvars, vars, MeetingsAreKept, Meet, InGap
  <2>3. QED BY <2>1, <2>2
<1>4. met \subseteq met' /\ acksMet \subseteq acksMet'
  BY DEF RNext, rvars
<1>5. \A r \in Requests : req[r].at # "free" => req[r].task \in Tasks
  BY <1>2 DEF TypeOK, ApiTypeOK, Named
<1>6. ReadsAreFresh'
  <2> SUFFICES ASSUME NEW r \in Requests, req'[r].at \in GapPlaces, req'[r].task \notin met'
               PROVE  FreshRead(r)'
    BY DEF ReadsAreFresh
  <2>1. CASE EntersGap(r)
    BY <2>1 DEF EntersGap, FreshRead
  <2>2. CASE StaysInGap(r)
    <3> DEFINE t == req[r].task
    <3>1. req'[r].task = t /\ req'[r].at = req[r].at /\ t \in Tasks /\ t \notin met
      BY <1>4, <1>5, <2>2 DEF StaysInGap, GapPlaces
    <3>2. FreshRead(r)
      BY <3>1 DEF RaceInv, ReadsAreFresh
    <3>3. ~\E s \in Requests : Writes(s, t)
      BY <2>2, <3>1, WriterMeets DEF RaceInv, MeetingsAreKept
    <3>4. status'[t] = status[t] \/ status[t] = "absent"
      BY <1>1, <1>2, <3>1, <3>3, NextWrites
    <3>5. status[t] # "absent"
      BY <3>1, <3>2 DEF FreshRead, GapPlaces
    <3>6. QED BY <3>1, <3>2, <3>4, <3>5 DEF FreshRead
  <2>3. QED BY <1>1, <1>2, <2>1, <2>2, NextGaps
<1>7. \A t \in Tasks : Len(attempts[t]) \in Nat
  BY <1>2, LenProperties DEF TypeOK, StoreTypeOK
<1>8. ASSUME NEW r \in Requests, req'[r].at = "ack_read", req'[r].task \notin acksMet'
      PROVE  Len(attempts'[req'[r].task]) = 0
  <2>0. req'[r].at \in GapPlaces
    BY <1>8 DEF GapPlaces
  <2>1. CASE EntersGap(r)
    <3>1. req'[r].task \in Tasks
      BY <1>2, <1>8 DEF TypeOK, ApiTypeOK, Named
    <3>2. QED BY <1>2, <1>8, <2>1, <3>1 DEF EntersGap, UntakenIsUntried, Taken
  <2>2. CASE StaysInGap(r)
    <3> DEFINE t == req[r].task
    <3>1. req'[r].task = t /\ req[r].at = "ack_read" /\ t \in Tasks /\ t \notin acksMet
      BY <1>4, <1>5, <1>8, <2>2 DEF StaysInGap
    <3>2. Len(attempts[t]) = 0
      BY <3>1 DEF RaceInv, GrantsAreSingle
    <3>3. ~\E s \in Requests : Writes(s, t) /\ req[s].at = "ack_read"
      BY <2>0, <2>2, <3>1, WriterMeets DEF RaceInv, MeetingsAreKept
    <3>4. QED BY <1>1, <1>2, <3>1, <3>2, <3>3, NextWrites
  <2>3. QED BY <1>1, <1>2, <2>0, <2>1, <2>2, NextGaps
<1>9. ASSUME NEW t \in Tasks, t \notin acksMet'
      PROVE  Len(attempts'[t]) <= 1
  <2>1. t \notin acksMet /\ Len(attempts[t]) <= 1
    BY <1>4, <1>9 DEF RaceInv, GrantsAreSingle
  <2>2. ASSUME NEW s \in Requests, Writes(s, t), req[s].at = "ack_read"
        PROVE  Len(attempts[t]) = 0
    BY <2>1, <2>2 DEF Writes, RaceInv, GrantsAreSingle
  <2>3. QED BY <1>1, <1>2, <1>7, <2>1, <2>2, NextWrites
<1>10. QED BY <1>2, <1>3, <1>6, <1>8, <1>9 DEF RaceInv, GrantsAreSingle

(* A repeated ack is rejected, and a chat gets a message at most once,      *)
(* for every task of which no two acks met between findFirst and commit:    *)
(* whatever else overlaps, is lost, late, repeated, killed or restarted     *)
(* (ackExecutorTask, taskLoop).                                             *)
THEOREM GrantedOnceUnlessAcksMeetHolds == RSpec => []GrantedOnceUnlessAcksMeet
<1>1. RSpec => Spec
  <2>1. RInit => Init
    BY DEF RInit
  <2>2. [RNext]_rvars => [Next]_vars
    BY DEF RNext, rvars
  <2>3. QED BY <2>1, <2>2, PTL DEF RSpec, Spec
<1>2. RaceInv /\ PressesAreRecorded => GrantedOnceUnlessAcksMeet
  <2> SUFFICES ASSUME RaceInv, PressesAreRecorded, NEW t \in Tasks \ acksMet
               PROVE  Len(attempts[t]) <= 1 /\ pressed[t] <= 1
    BY DEF GrantedOnceUnlessAcksMeet
  <2>1. pressed[t] \in Nat /\ Len(attempts[t]) \in Nat
    BY LenProperties DEF RaceInv, TypeOK, StoreTypeOK, LoopTypeOK
  <2>2. pressed[t] <= Len(attempts[t]) /\ Len(attempts[t]) <= 1
    BY DEF PressesAreRecorded, RaceInv, GrantsAreSingle
  <2>3. QED BY <2>1, <2>2
<1>3. QED
  BY <1>1, <1>2, InitRaces, NextRaces, PressesAreRecordedHolds, PTL DEF RSpec

-----------------------------------------------------------------------------
(* The life cycle. *)

(* A write about a task in no meeting is a step of the life cycle. *)
LEMMA FreshWriteFits ==
  ASSUME TypeOK, NEW r \in Requests, NEW t \in Tasks, Writes(r, t), FreshRead(r)
  PROVE  Lifecycle!Next
<1>0. /\ req \in [Requests -> Request] /\ req[r].task = t
      /\ req[r].at \notin CancelPlaces \cup {"free"} => req[r].device \in Devices
  BY DEF TypeOK, ApiTypeOK, Named, Writes
<1>1. CASE AckCommit(r)
  <2>1. req[r].device \in Devices /\ status[t] = "pending"
    BY <1>0, <1>1 DEF AckCommit, CancelPlaces, FreshRead
  <2>2. Lifecycle!Grant(t, req[r].device)
    BY <1>0, <1>1, <2>1 DEF AckCommit, AckWrites, Lifecycle!Grant, Lifecycle!Move
  <2>3. QED BY <2>1, <2>2 DEF Lifecycle!Next
<1>2. CASE ResultCommit(r)
  <2>1. status[t] = "running" /\ req[r].outcome \in {"success", "failed"}
    BY <1>0, <1>2 DEF ResultCommit, FreshRead, Request, SettledStatuses
  <2>2. Lifecycle!Settle(t)
    BY <1>0, <1>2, <2>1 DEF ResultCommit, ResultWrites, Lifecycle!Settle, Lifecycle!Move
  <2>3. QED BY <2>2 DEF Lifecycle!Next
<1>3. CASE CancelTask(r)
  <2>1. status[t] \in {"pending", "running"}
    BY <1>0, <1>3 DEF CancelTask, FreshRead
  <2>2. Lifecycle!Cancel(t)
    BY <1>0, <1>3, <2>1 DEF CancelTask, Lifecycle!Cancel, Lifecycle!Move
  <2>3. QED BY <2>2 DEF Lifecycle!Next
<1>4. QED
  BY <1>1, <1>2, <1>3
     DEF Writes, GapPlaces, Handler, AckRead, AckAnswer, ResultRead, ResultAttempt, ResultFresh,
         CancelOutbound

(* A handler changes no task but the one it writes. *)
LEMMA WritesOne ==
  ASSUME TypeOK, NEW r \in Requests, Handler(r)
  PROVE  \/ UNCHANGED <<status, owner>>
         \/ \E t \in Tasks :
               /\ Writes(r, t)
               /\ ~ChangesOf(t) => UNCHANGED <<status, owner>>
<1>0. /\ req \in [Requests -> Request]
      /\ status \in [Tasks -> VisibleStatuses] /\ owner \in [Tasks -> Devices \cup {NoDevice}]
      /\ req[r].at # "free" => req[r].task \in Tasks
  BY DEF TypeOK, ApiTypeOK, StoreTypeOK, Named
<1>1. CASE AckCommit(r) \/ ResultCommit(r) \/ CancelTask(r)
  <2>0. PICK t \in Tasks : t = req[r].task
    BY <1>0, <1>1 DEF AckCommit, ResultCommit, CancelTask
  <2>1. Writes(r, t)
    BY <1>0, <1>1, <2>0 DEF AckCommit, ResultCommit, CancelTask, Advance, Respond, Free, Writes,
                      GapPlaces, Request
  <2>2. PICK s, d : /\ status' = [status EXCEPT ![t] = s]
                    /\ owner' = owner \/ owner' = [owner EXCEPT ![t] = d]
    BY <1>1, <2>0 DEF AckCommit, ResultCommit, CancelTask, AckWrites, ResultWrites
  <2>3. ASSUME ~ChangesOf(t)
        PROVE  UNCHANGED <<status, owner>>
    <3>1. status'[t] = status[t] /\ owner'[t] = owner[t]
      BY <2>3 DEF ChangesOf
    <3>2. \A u \in Tasks : status'[u] = status[u] /\ owner'[u] = owner[u]
      BY <1>0, <2>2, <3>1
    <3>3. status' \in [Tasks -> {status'[u] : u \in Tasks}]
          /\ owner' \in [Tasks -> {owner'[u] : u \in Tasks}]
      BY <1>0, <2>2
    <3>4. QED BY <1>0, <3>2, <3>3
  <2>4. QED BY <2>1, <2>3
<1>2. QED
  BY <1>1 DEF Handler, AckRead, AckAnswer, ResultRead, ResultAttempt, ResultFresh,
              CancelOutbound, storeVars

(* createSendTextExecutorTask creates a task of the life cycle. *)
LEMMA InsertCreates ==
  ASSUME TypeOK, NEW t \in Tasks, NEW o, InsertTask(t, o), UNCHANGED owner
  PROVE  Lifecycle!Next
BY DEF InsertTask, NextTaskId, Lifecycle!Create, Lifecycle!Move, Lifecycle!Next

(* Every step fits, or changes a task whose handlers met.                   *)
LEMMA NextFits ==
  ASSUME RaceInv, [Next]_vars
  PROVE  FitsOrMet
<1>0. TypeOK /\ ReadsAreFresh
  BY DEF RaceInv
<1>1. ASSUME UNCHANGED <<status, owner>> PROVE FitsOrMet
  BY <1>1 DEF FitsOrMet
<1>2. ASSUME NEW r \in Requests, Handler(r) PROVE FitsOrMet
  <2>1. ASSUME NEW t \in Tasks, Writes(r, t), ~ChangesOf(t) => UNCHANGED <<status, owner>>
        PROVE  FitsOrMet
    <3>1. CASE t \in met
      BY <1>1, <2>1, <3>1 DEF FitsOrMet
    <3>2. CASE t \notin met
      <4>1. FreshRead(r)
        BY <1>0, <2>1, <3>2 DEF ReadsAreFresh, Writes
      <4>2. QED BY <1>0, <2>1, <4>1, FreshWriteFits DEF FitsOrMet
    <3>3. QED BY <3>1, <3>2
  <2>2. QED BY <1>0, <1>1, <1>2, <2>1, WritesOne
<1>3. ASSUME NEW t \in Tasks, NEW o, InsertTask(t, o), UNCHANGED owner PROVE FitsOrMet
  BY <1>0, <1>3, InsertCreates DEF FitsOrMet
<1>4. CASE ApiStep
  BY <1>1, <1>2, <1>3, <1>4 DEF ApiStep, DropRequest, CreateTestTask, CancelRead, storeVars
<1>5. CASE LoopStep
  BY <1>5, <1>1 DEF LoopStep, LoopProgress, Pull, Ack, AckReturns, Execute, Report,
                    ReportReturns, Timeout, Crash, storeVars
<1>6. CASE WorkerStep
  BY <1>6, <1>1, <1>3
     DEF WorkerStep, WorkerProgress, CreateOutbound, AddJob, Stall, Fetch, Precheck,
         CancelBlocked, InsertLinked, InsertRefused, MarkPendingExecutor, FinishJob,
         JobError, storeVars
<1>7. CASE ServerRestart \/ UNCHANGED vars
  BY <1>7, <1>1 DEF ServerRestart, vars, storeVars
<1>8. QED
  BY <1>4, <1>5, <1>6, <1>7 DEF Next

(* The API implements the documented life cycle for every task of which no  *)
(* two handlers met in their gaps, whatever the other requests, the workers *)
(* and the admin do meanwhile and whatever answers, apps or servers are     *)
(* lost (executor.service.ts, server/README.md).                            *)
THEOREM LifecycleUnlessHandlersMeetHolds == RSpec => LifecycleUnlessHandlersMeet
<1>1. RaceInv /\ [RNext]_rvars => FitsOrMet
  BY NextFits DEF RNext, rvars
<1>2. RSpec => [][FitsOrMet]_rvars
  BY <1>1, InitRaces, NextRaces, PTL DEF RSpec
<1>3. QED
  BY <1>2 DEF LifecycleUnlessHandlersMeet
=============================================================================
