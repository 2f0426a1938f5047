----------------------------- MODULE SendWorker ------------------------------
(***************************************************************************)
(* The outbound-send queue and its worker (send-message.worker.ts).  The    *)
(* reply pipeline creates an outbound message and adds a job for it; the    *)
(* worker checks it, inserts the executor task and marks the message        *)
(* pending_executor, each a statement of its own.                           *)
(*                                                                          *)
(* The queue is BullMQ, modelled from how the worker uses it: a job is run  *)
(* under a lock; a run that throws is retried up to JobAttempts times; a    *)
(* job whose lock is not renewed is handed out again, at most MaxStalls     *)
(* times, even if its first run is still going.                             *)
(***************************************************************************)
EXTENDS TaskStore

CONSTANTS Workers,      \* concurrent runs of the worker (concurrency: 5)
          NoWorker,     \* a job nobody holds
          JobAttempts,  \* attempts: 3
          MaxStalls     \* BullMQ's maxStalledCount

ASSUME WorkerAssumption == /\ NoWorker \notin Workers
                           /\ JobAttempts \in Nat \ {0}
                           /\ MaxStalls \in Nat

VARIABLES job,          \* the job of each outbound message
          run           \* what each worker slot is doing

workerVars == <<job, run>>

JobPlaces == {"absent", "waiting", "active", "completed", "failed"}
RunPlaces == {"free", "fetched", "blocked", "passed", "inserted", "marked"}

Job == [at : JobPlaces, tries : Nat, stalls : Nat,
        lock : Workers \cup {NoWorker}]
Run == [at : RunPlaces, outbound : Outbounds \cup {NoOutbound}]

NoJob == [at |-> "absent", tries |-> 0, stalls |-> 0, lock |-> NoWorker]
NoRun == [at |-> "free", outbound |-> NoOutbound]

WorkerTypeOK ==
    /\ job \in [Outbounds -> Job]
    /\ run \in [Workers -> Run]
    /\ \A w \in Workers : run[w].at # "free" => run[w].outbound \in Outbounds

WorkerInit == /\ job = [o \in Outbounds |-> NoJob]
              /\ run = [w \in Workers |-> NoRun]

-----------------------------------------------------------------------------
(* buildAndQueueReplyWithTrace: the row, then the job.  If the queue is     *)
(* unreachable the job is never added and the row stays as it is.           *)
CreateOutbound(o) ==
    /\ sendStatus[o] = "absent"
    /\ sendStatus' = [sendStatus EXCEPT ![o] = "pending"]
    /\ UNCHANGED <<status, owner, link, attempts, workerVars>>

AddJob(o) ==
    /\ sendStatus[o] # "absent"
    /\ job[o].at = "absent"
    /\ job' = [job EXCEPT ![o].at = "waiting"]
    /\ UNCHANGED <<storeVars, run>>

-----------------------------------------------------------------------------
Holds(w, o) == job[o].at = "active" /\ job[o].lock = w

(* The run of w ends: only the holder of the lock can move the job. *)
EndRun(w, after) ==
    LET o == run[w].outbound IN
    /\ run' = [run EXCEPT ![w] = NoRun]
    /\ job' = IF Holds(w, o) THEN [job EXCEPT ![o] = after] ELSE job

Completed(w) ==
    EndRun(w, [job[run[w].outbound] EXCEPT !.at = "completed", !.lock = NoWorker])

(* The processor threw: the job is retried until its attempts are used up.  *)
Thrown(w) ==
    LET j == job[run[w].outbound]
        left == j.tries + 1 < JobAttempts
    IN  EndRun(w, [j EXCEPT !.at = IF left THEN "waiting" ELSE "failed",
                            !.tries = j.tries + 1, !.lock = NoWorker])

At(w, place) == run[w].at = place
Goto(w, place) == run' = [run EXCEPT ![w].at = place] /\ UNCHANGED job

(* processSendOutboundJob is called. *)
Fetch(w, o) ==
    /\ At(w, "free")
    /\ job[o].at = "waiting"
    /\ job' = [job EXCEPT ![o].at = "active", ![o].lock = w]
    /\ run' = [run EXCEPT ![w] = [at |-> "fetched", outbound |-> o]]
    /\ UNCHANGED storeVars

(* checkSendOutboundPrecheck: anything but a pending message is blocked; a  *)
(* pending one is blocked by the group's switches, its cooldown, a recent   *)
(* human message or the hourly cap.                                         *)
PrecheckPasses(o) == sendStatus[o] = "pending"

PrecheckWaits(w) ==
    /\ At(w, "fetched")
    /\ PrecheckPasses(run[w].outbound)
    /\ Goto(w, "passed")
    /\ UNCHANGED storeVars

Precheck(w) ==
    /\ At(w, "fetched")
    /\ \/ Goto(w, "blocked")
       \/ PrecheckPasses(run[w].outbound) /\ Goto(w, "passed")
    /\ UNCHANGED storeVars

BlockedIsNotCancelled(w) ==
    /\ At(w, "blocked")
    /\ Completed(w)
    /\ UNCHANGED storeVars

(* A blocked message is cancelled, whatever its sendStatus is by now. *)
CancelBlocked(w) ==
    /\ At(w, "blocked")
    /\ sendStatus' = [sendStatus EXCEPT ![run[w].outbound] = "cancelled"]
    /\ Completed(w)
    /\ UNCHANGED <<status, owner, link, attempts>>

(* The executor task is inserted ... *)
InsertLinked(w) ==
    /\ At(w, "passed")
    /\ \E t \in Tasks : InsertTask(t, run[w].outbound)
    /\ Goto(w, "inserted")
    /\ UNCHANGED <<owner, attempts, sendStatus>>

(* ... unless the message already has one, which raises P2002. *)
InsertRefused(w) ==
    /\ At(w, "passed")
    /\ ~OutboundUnlinked(run[w].outbound)
    /\ Thrown(w)
    /\ UNCHANGED storeVars

(* The message is marked, whatever its sendStatus is by now. *)
MarkPendingExecutor(w) ==
    /\ At(w, "inserted")
    /\ sendStatus' = [sendStatus EXCEPT ![run[w].outbound] = "pending_executor"]
    /\ Goto(w, "marked")
    /\ UNCHANGED <<status, owner, link, attempts>>

(* The latency of the trace and the audit log are written; the job is done. *)
FinishJob(w) ==
    /\ At(w, "marked")
    /\ Completed(w)
    /\ UNCHANGED storeVars

-----------------------------------------------------------------------------
(* Any statement of a run may throw (database, trace or audit log). *)
JobError(w) ==
    /\ "job_error" \in Faults
    /\ ~At(w, "free")
    /\ Thrown(w)
    /\ UNCHANGED storeVars

(* The lock of an active job expires: its run is still going (a fault), or  *)
(* died with the process.                                                   *)
NobodyRuns(o) == \A w \in Workers : run[w].outbound # o

Stall(o) ==
    LET j == job[o] IN
    /\ "stall" \in Faults \/ NobodyRuns(o)
    /\ j.at = "active"
    /\ job' = [job EXCEPT ![o] =
                  IF j.stalls < MaxStalls
                  THEN [j EXCEPT !.at = "waiting", !.stalls = j.stalls + 1, !.lock = NoWorker]
                  ELSE [j EXCEPT !.at = "failed", !.lock = NoWorker]]
    /\ UNCHANGED <<storeVars, run>>

WorkerProgress(w) ==
    \/ \E o \in Outbounds : Fetch(w, o)
    \/ Precheck(w) \/ CancelBlocked(w)
    \/ InsertLinked(w) \/ InsertRefused(w) \/ MarkPendingExecutor(w) \/ FinishJob(w)

WorkerStep ==
    \/ \E o \in Outbounds : CreateOutbound(o) \/ AddJob(o) \/ Stall(o)
    \/ \E w \in Workers : WorkerProgress(w) \/ JobError(w)
=============================================================================
