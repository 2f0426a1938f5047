----------------------------- MODULE GroupBurst ------------------------------
(***************************************************************************)
(* The burst of one group: messages that follow each other within a few     *)
(* seconds are collected in a Redis list and answered together by a flush   *)
(* job, under a lock of the group.  List, jobs and lock carry the group's   *)
(* id, so groups do not meet and one is enough.                             *)
(***************************************************************************)
EXTENDS Naturals, Sequences, FiniteSets

CONSTANTS MaxMessages, \* bound on the inbound_messages rows
          Slots,       \* concurrent runs of the flush worker
          NoHolder,    \* the lock's key does not exist
          Gone,        \* the token of a run that will not come back
          Bodies,      \* texts of messages and of replies
          NoBody,      \* no text yet
          FaultPlans   \* sets of faults: those of one may strike, once each

(* "intake_error", "flush_error": a statement throws; "outage": one throws   *)
(* and so does the catch clause's own; "stall": the queue takes the worker  *)
(* of a running job for dead and hands the job out again; "slow": a reply   *)
(* outlives its lock; "restart": the server process dies; "list_ttl": the   *)
(* list's TTL runs out; "send": a queued reply is reported failed.          *)
(* Two are no strikes: "left_lock", the process before this one died and    *)
(* left its lock; "ageing", replies outgrow the duplicate check's window.   *)
FaultKinds == {"left_lock", "ageing", "intake_error", "flush_error", "outage", "stall",
               "slow", "restart", "list_ttl", "send"}

ASSUME BurstAssumption == /\ MaxMessages \in Nat
                          /\ IsFiniteSet(Slots)
                          /\ NoHolder \notin Slots /\ Gone \notin Slots
                          /\ NoHolder # Gone
                          /\ NoBody \notin Bodies
                          /\ FaultPlans \subseteq SUBSET FaultKinds

VARIABLES burst,      \* the message ids in burst:msgs
          mainJob,    \* the job burst-flush:<group>
          retryJobs,  \* number of burst-flush-retry jobs waiting
          lock,       \* the token in lock:group-reply
          flush,      \* the runs of processGroupBurstFlush
          taken,      \* history: the messages some run took on under the lock
          plan,       \* the faults that may strike
          faults      \* history: those that did

burstVars == <<burst, mainJob, retryJobs, lock, flush, taken>>
faultVars == <<plan, faults>>

Messages == 1..MaxMessages

(* read, delete, lock, pushback: before the lock; decide to release: under  *)
(* it.  late: the lock ran out under the run.                               *)
BeforeLock == {"read", "delete", "lock", "pushback"}
UnderLock == {"decide", "generate", "outbound", "complete", "queue", "release"}

NoRun == [at |-> "idle", job |-> "none", ids |-> {}, late |-> FALSE,
          trace |-> 0, body |-> NoBody]

Flush == [at : {"idle"} \cup BeforeLock \cup UnderLock, job : {"none", "main", "retry"},
          ids : SUBSET Messages, late : BOOLEAN, trace : Nat, body : Bodies \cup {NoBody}]

BurstTypeOK ==
    /\ burst \subseteq Messages
    /\ mainJob \in {"absent", "delayed", "active", "finished"}
    /\ retryJobs \in Nat
    /\ lock \in Slots \cup {NoHolder, Gone}
    /\ flush \in [Slots -> Flush]
    /\ \A s \in Slots : flush[s].at \in UnderLock \cup {"delete", "lock"}
                          => flush[s].ids # {}
    /\ taken \subseteq Messages
    /\ plan \in FaultPlans /\ faults \subseteq plan

BurstInit ==
    /\ plan \in FaultPlans
    /\ burst = {}
    /\ mainJob = "absent"
    /\ retryJobs = 0
    /\ lock = IF "left_lock" \in plan THEN Gone ELSE NoHolder
    /\ flush = [s \in Slots |-> NoRun]
    /\ taken = {}
    /\ faults = {}

Fault(kind) ==
    /\ kind \in plan \ faults
    /\ faults' = faults \cup {kind}
    /\ UNCHANGED plan

-----------------------------------------------------------------------------
(* appendAndScheduleGroupBurst: three commands.  A run removes duplicates    *)
(* and sorts the rows by createdAt, so the order within the list is lost    *)
(* and a set stands for it.  Removing a job a worker is running throws, and *)
(* that is only logged; a completed or failed job is kept and removed;      *)
(* adding a job whose id exists does nothing.                               *)
PushId(m) == burst' = burst \cup {m}

RemoveAnyJob == mainJob' = "absent"
RemoveFlushJob == mainJob' = IF mainJob = "active" THEN "active" ELSE "absent"

AddFlushJob == mainJob' = IF mainJob = "absent" THEN "delayed" ELSE mainJob

-----------------------------------------------------------------------------
(* processGroupBurstFlush. *)
At(s, pc) == flush[s].at = pc

GoOn(s, pc) == flush' = [flush EXCEPT ![s].at = pc]

EndRun(s) ==
    /\ flush' = [flush EXCEPT ![s] = NoRun]
    /\ mainJob' = IF flush[s].job = "main" THEN "finished" ELSE mainJob

StartFlush(s) ==
    /\ flush[s] = NoRun
    /\ \/ /\ mainJob = "delayed"
          /\ mainJob' = "active"
          /\ flush' = [flush EXCEPT ![s].at = "read", ![s].job = "main"]
          /\ UNCHANGED retryJobs
       \/ /\ retryJobs > 0
          /\ retryJobs' = retryJobs - 1
          /\ flush' = [flush EXCEPT ![s].at = "read", ![s].job = "retry"]
          /\ UNCHANGED mainJob
    /\ UNCHANGED <<burst, lock, taken>>

NeverNothing == FALSE
NothingCollected == burst = {}

ReadList(s) ==
    /\ At(s, "read")
    /\ IF NothingCollected THEN EndRun(s)
       ELSE /\ flush' = [flush EXCEPT ![s].at = "delete", ![s].ids = burst]
            /\ UNCHANGED mainJob
    /\ UNCHANGED <<burst, retryJobs, lock, taken>>

(* The key goes, and with it whatever was pushed since the read. *)
DeleteList(s) ==
    /\ At(s, "delete")
    /\ burst' = {}
    /\ GoOn(s, "lock")
    /\ UNCHANGED <<mainJob, retryJobs, lock, taken>>

(* SET lock NX with a TTL of 240 s. *)
LockUnchecked == TRUE
LockFree == lock = NoHolder

TakeLock(s) ==
    /\ At(s, "lock")
    /\ LockFree
    /\ lock' = s
    /\ taken' = taken \cup flush[s].ids
    /\ GoOn(s, "decide")
    /\ UNCHANGED <<burst, mainJob, retryJobs>>

LockBusy(s) ==
    /\ At(s, "lock")
    /\ ~LockFree
    /\ GoOn(s, "pushback")
    /\ UNCHANGED <<burst, mainJob, retryJobs, lock, taken>>

PushBack(s) ==
    /\ At(s, "pushback")
    /\ \E m \in flush[s].ids :
          /\ burst' = burst \cup {m}
          /\ flush' = [flush EXCEPT ![s].ids = @ \ {m}]
    /\ UNCHANGED <<mainJob, retryJobs, lock, taken>>

(* The id of the retry job is the millisecond: two of one instant are one.  *)
AddRetry(s) ==
    /\ At(s, "pushback")
    /\ flush[s].ids = {}
    /\ retryJobs' \in {retryJobs + 1} \cup (IF retryJobs > 0 THEN {retryJobs} ELSE {})
    /\ EndRun(s)
    /\ UNCHANGED <<burst, lock, taken>>

(* releaseLock deletes the key only if it still holds the run's own token.  *)
ReleaseUnchecked(s) == NoHolder
AfterRelease(s) == IF lock = s THEN NoHolder ELSE lock

ReleaseLock(s) ==
    /\ At(s, "release")
    /\ lock' = AfterRelease(s)
    /\ EndRun(s)
    /\ UNCHANGED <<burst, retryJobs, taken>>

-----------------------------------------------------------------------------
(* Redis drops a lock whose TTL ran out: the orphan of a run that died and, *)
(* where replies may be slow, the lock of a run at work.                    *)
LockWithoutTtl == FALSE

OrphanExpires ==
    /\ lock = Gone
    /\ lock' = NoHolder
    /\ UNCHANGED <<burst, mainJob, retryJobs, flush, taken>>

SlowReply(s) ==
    /\ lock = s
    /\ Fault("slow")
    /\ lock' = NoHolder
    /\ flush' = [flush EXCEPT ![s].late = TRUE]
    /\ UNCHANGED <<burst, mainJob, retryJobs, taken>>

ListExpires ==
    /\ burst # {}
    /\ Fault("list_ttl")
    /\ burst' = {}
    /\ UNCHANGED <<mainJob, retryJobs, lock, flush, taken>>

(* The run throws: what it had read is lost, and a lock it could not        *)
(* release is left to its TTL.                                              *)
FlushThrows(s) ==
    /\ flush[s].at \in BeforeLock \cup {"release"}
    /\ Fault("flush_error")
    /\ lock' = IF lock = s THEN Gone ELSE lock
    /\ EndRun(s)
    /\ UNCHANGED <<burst, retryJobs, taken>>

(* A run whose job's lock was not renewed in time goes on without the job,   *)
(* which waits for another run.                                             *)
FlushStalls(s) ==
    /\ flush[s].job # "none"
    /\ Fault("stall")
    /\ flush' = [flush EXCEPT ![s].job = "none"]
    /\ IF flush[s].job = "main" THEN mainJob' = "delayed" /\ UNCHANGED retryJobs
                                ELSE retryJobs' = retryJobs + 1 /\ UNCHANGED mainJob
    /\ UNCHANGED <<burst, lock, taken>>

(* The stalled-job check gives a job whose worker died another run. *)
RequeueStalled ==
    /\ mainJob = "active"
    /\ \A s \in Slots : flush[s].job # "main"
    /\ mainJob' = "delayed"
    /\ UNCHANGED <<burst, retryJobs, lock, flush, taken>>

BurstRestart ==
    /\ flush' = [s \in Slots |-> NoRun]
    /\ retryJobs' = retryJobs + Cardinality({s \in Slots : flush[s].job = "retry"})
    /\ lock' = IF lock \in Slots THEN Gone ELSE lock
    /\ UNCHANGED <<burst, mainJob, taken>>

FlushProgress(s) ==
    \/ StartFlush(s) \/ ReadList(s) \/ DeleteList(s) \/ TakeLock(s) \/ LockBusy(s)
    \/ PushBack(s) \/ AddRetry(s) \/ ReleaseLock(s)
=============================================================================
