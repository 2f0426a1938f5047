-------------------------- MODULE ReplyLease_proofs --------------------------
(***************************************************************************)
(* The lock of the group is a lease, for every number of flush runs and    *)
(* every plan of faults: ReplyPath implements GroupLease, a run that answers *)
(* holds the lock or is late, and while no reply has outlived its lock the *)
(* group never gets the same text twice in a row within the time that      *)
(* OUTBOUND_CONTENT_DEDUPE_MS says.                                        *)
(***************************************************************************)
EXTENDS ReplyPath_proofs

(* The token in Redis is that of the one run which answers in time: a run   *)
(* that came too late has lost it, and nobody else has it.                  *)
LeaseOf(s) == /\ lock = s <=> Answering(s) /\ ~flush[s].late
              /\ flush[s].late => Answering(s)

LeaseInv == \A s \in Slots : LeaseOf(s)

leaseVars == <<lock, [s \in Slots |-> Punctual(s)]>>

(* What the refinement says of a step. *)
LeaseStep == LeaseInv' /\ (Lease!Next \/ UNCHANGED leaseVars)

-----------------------------------------------------------------------------
(* Runs that neither come nor go under the lock leave the lease alone.      *)
LEMMA LeaseKept ==
  ASSUME LeaseInv, lock' = lock,
         \A s \in Slots : /\ Answering(s)' = Answering(s)
                           /\ flush'[s].late = flush[s].late
  PROVE  LeaseStep
<1>1. \A s \in Slots : Punctual(s)' = Punctual(s)
  BY DEF Punctual
<1>2. UNCHANGED leaseVars
  BY <1>1 DEF leaseVars
<1>3. LeaseInv'
  BY DEF LeaseInv, LeaseOf
<1>4. QED
  BY <1>2, <1>3 DEF LeaseStep

(* A run that was not answering stays outside. *)
LEMMA StaysOutside ==
  ASSUME LeaseInv, BurstTypeOK, NEW s \in Slots,
         \A r \in Slots \ {s} : flush'[r] = flush[r],
         flush[s].at \notin UnderLock, flush'[s].at \notin UnderLock,
         flush'[s].late = flush[s].late \/ flush'[s] = NoRun, lock' = lock
  PROVE  LeaseStep
<1>1. flush[s].late = FALSE
  <2>1. flush[s].late \in BOOLEAN
    BY DEF BurstTypeOK, Flush
  <2>2. ~Answering(s)
    BY DEF Answering
  <2>3. QED
    BY <2>1, <2>2 DEF LeaseInv, LeaseOf
<1>2. flush'[s].late = flush[s].late
  <2>1. NoRun.late = FALSE
    BY DEF NoRun
  <2>2. QED
    BY <1>1, <2>1
<1>3. \A r \in Slots : Answering(r)' = Answering(r) /\ flush'[r].late = flush[r].late
  BY <1>2 DEF Answering
<1>4. QED
  BY <1>3, LeaseKept

(* A run that was answering goes on. *)
LEMMA StaysUnderLock ==
  ASSUME LeaseInv, NEW s \in Slots, \A r \in Slots \ {s} : flush'[r] = flush[r],
         flush[s].at \in UnderLock, flush'[s].at \in UnderLock,
         flush'[s].late = flush[s].late, lock' = lock
  PROVE  LeaseStep
<1>1. \A r \in Slots : Answering(r)' = Answering(r) /\ flush'[r].late = flush[r].late
  BY DEF Answering
<1>2. QED
  BY <1>1, LeaseKept

(* SET NX succeeds: the run acquires the lease. *)
LEMMA TakeLockLease ==
  ASSUME LeaseInv, BurstTypeOK, NEW s \in Slots, TakeLock(s)
  PROVE  LeaseStep
<1>1. lock = NoHolder /\ lock' = s /\ flush[s].at = "lock" /\ GoOn(s, "decide")
  BY DEF TakeLock, LockFree, At
<1>2. /\ \A r \in Slots \ {s} : flush'[r] = flush[r]
      /\ flush'[s].at = "decide" /\ flush'[s].late = flush[s].late
  BY <1>1, GoesOn DEF BurstTypeOK, UnderLock
<1>3. ~Answering(s) /\ flush[s].late = FALSE
  BY <1>1 DEF LeaseInv, LeaseOf, Answering, UnderLock, BurstTypeOK, Flush
<1>4. Answering(s)' /\ \A r \in Slots \ {s} : Answering(r)' = Answering(r)
  BY <1>2 DEF Answering, UnderLock
<1>5. LeaseInv'
  <2>1. \A r \in Slots \ {s} : LeaseOf(r)'
    BY <1>1, <1>2, <1>4, BurstAssumption DEF LeaseInv, LeaseOf
  <2>2. LeaseOf(s)'
    BY <1>1, <1>2, <1>3, <1>4 DEF LeaseOf
  <2>3. QED
    BY <2>1, <2>2 DEF LeaseInv
<1>6. Lease!Next
  <2>1. Punctual(s) = "no" /\ Punctual(s)' = "in_time"
    BY <1>2, <1>3, <1>4 DEF Punctual
  <2>2. \A r \in Slots \ {s} : Punctual(r)' = Punctual(r)
    BY <1>2, <1>4 DEF Punctual
  <2>3. [r \in Slots |-> Punctual(r)]' = [[r \in Slots |-> Punctual(r)] EXCEPT ![s] = "in_time"]
    BY <2>1, <2>2
  <2>4. Lease!Acquire(s)
    BY <1>1, <2>1, <2>3 DEF Lease!Acquire
  <2>5. QED
    BY <2>4 DEF Lease!Next
<1>7. QED
  BY <1>5, <1>6 DEF LeaseStep

(* A run at its end deletes the lock if it still is its own, or leaves it   *)
(* to the clock if the command fails.                                       *)
LEMMA ReleaseLease ==
  ASSUME LeaseInv, BurstTypeOK, NEW s \in Slots, flush[s].at = "release", EndRun(s),
         lock' = AfterRelease(s) \/ lock' = IF lock = s THEN Gone ELSE lock
  PROVE  LeaseStep
<1>1. /\ \A r \in Slots \ {s} : flush'[r] = flush[r]
      /\ flush'[s].at = "idle" /\ flush'[s].late = FALSE
  BY RunOver DEF NoRun
<1>2. Answering(s) /\ ~Answering(s)' /\ \A r \in Slots \ {s} : Answering(r)' = Answering(r)
  BY <1>1 DEF Answering, UnderLock
<1>3. (lock = s /\ lock' \in {NoHolder, Gone}) \/ (lock # s /\ lock' = lock)
  BY DEF AfterRelease
<1>4. LeaseInv'
  <2>1. \A r \in Slots \ {s} : LeaseOf(r)'
    BY <1>1, <1>2, <1>3, BurstAssumption DEF LeaseInv, LeaseOf
  <2>2. LeaseOf(s)'
    BY <1>1, <1>2, <1>3, BurstAssumption DEF LeaseOf
  <2>3. QED
    BY <2>1, <2>2 DEF LeaseInv
<1>5. Lease!Next
  <2>1. Punctual(s)' = "no" /\ Punctual(s) # "no"
    BY <1>2 DEF Punctual
  <2>2. \A r \in Slots \ {s} : Punctual(r)' = Punctual(r)
    BY <1>1, <1>2 DEF Punctual
  <2>3. [r \in Slots |-> Punctual(r)]' = [[r \in Slots |-> Punctual(r)] EXCEPT ![s] = "no"]
    BY <2>1, <2>2
  <2>4. Punctual(s) = "in_time" <=> lock = s
    BY <1>2 DEF Punctual, LeaseInv, LeaseOf
  <2>5. Lease!Finish(s)
    BY <1>3, <2>1, <2>3, <2>4 DEF Lease!Finish
  <2>6. QED
    BY <2>5 DEF Lease!Next
<1>6. QED
  BY <1>4, <1>5 DEF LeaseStep

(* The lock's time runs out under the run that holds it, or after its death. *)
LEMMA ExpiryLease ==
  ASSUME LeaseInv, BurstTypeOK, OrphanExpires \/ \E s \in Slots : SlowReply(s)
  PROVE  LeaseStep
<1>1. CASE OrphanExpires
  <2>1. lock = Gone /\ lock' = NoHolder /\ flush' = flush
    BY <1>1 DEF OrphanExpires
  <2>2. \A r \in Slots : Answering(r)' = Answering(r) /\ Punctual(r)' = Punctual(r)
    BY <2>1 DEF Answering, Punctual
  <2>3. LeaseInv'
    BY <2>1, <2>2, BurstAssumption DEF LeaseInv, LeaseOf
  <2>4. \A r \in Slots : r # lock
    BY <2>1, BurstAssumption
  <2>5. [r \in Slots |-> Punctual(r)]'
          = [r \in Slots |-> IF r = lock THEN "late" ELSE [q \in Slots |-> Punctual(q)][r]]
    BY <2>2, <2>4
  <2>6. Lease!Expire
    BY <2>1, <2>5, BurstAssumption DEF Lease!Expire
  <2>7. QED
    BY <2>3, <2>6 DEF LeaseStep, Lease!Next
<1>2. ASSUME NEW s \in Slots, SlowReply(s)
      PROVE  LeaseStep
  <2>1. /\ flush \in [Slots -> Flush] /\ flush' = [flush EXCEPT ![s].late = TRUE]
        /\ lock = s /\ lock' = NoHolder
    BY <1>2 DEF SlowReply, BurstTypeOK
  <2>2. /\ \A r \in Slots \ {s} : flush'[r] = flush[r]
        /\ flush'[s].at = flush[s].at /\ flush'[s].late = TRUE
    BY <2>1 DEF Flush
  <2>3. Answering(s) /\ \A r \in Slots : Answering(r)' = Answering(r)
    BY <2>1, <2>2 DEF LeaseInv, LeaseOf, Answering
  <2>4. LeaseInv'
    BY <2>1, <2>2, <2>3, BurstAssumption DEF LeaseInv, LeaseOf
  <2>5. Punctual(s)' = "late" /\ \A r \in Slots \ {s} : Punctual(r)' = Punctual(r)
    BY <2>2, <2>3 DEF Punctual
  <2>6. [r \in Slots |-> Punctual(r)]'
          = [r \in Slots |-> IF r = lock THEN "late" ELSE [q \in Slots |-> Punctual(q)][r]]
    BY <2>1, <2>5
  <2>7. Lease!Expire
    BY <2>1, <2>6, BurstAssumption DEF Lease!Expire
  <2>8. QED
    BY <2>4, <2>7 DEF LeaseStep, Lease!Next
<1>3. QED
  BY <1>1, <1>2

(* The process dies, and what it held is left to the clock. *)
LEMMA CrashLease ==
  ASSUME LeaseInv, BurstRestart
  PROVE  LeaseStep
<1>1. flush' = [s \in Slots |-> NoRun] /\ lock' = IF lock \in Slots THEN Gone ELSE lock
  BY DEF BurstRestart
<1>2. \A r \in Slots : flush'[r].at = "idle" /\ flush'[r].late = FALSE
  BY <1>1 DEF NoRun
<1>3. \A r \in Slots : ~Answering(r)' /\ Punctual(r)' = "no"
  BY <1>2 DEF Answering, Punctual, UnderLock
<1>4. LeaseInv'
  BY <1>1, <1>2, <1>3, BurstAssumption DEF LeaseInv, LeaseOf
<1>5. Lease!Crash
  BY <1>1, <1>3 DEF Lease!Crash
<1>6. QED
  BY <1>4, <1>5 DEF LeaseStep, Lease!Next

-----------------------------------------------------------------------------
(* Every step of the reply path is a step of the lease, or none.            *)
LEMMA FlushStepLease ==
  ASSUME LeaseInv, BurstTypeOK, NEW s \in Slots, FlushProgress(s)
  PROVE  LeaseStep
<1>1. flush \in [Slots -> Flush]
  BY DEF BurstTypeOK
<1>2. CASE StartFlush(s)
  <2>1. flush[s].at = "idle" /\ lock' = lock
    BY <1>2 DEF StartFlush, NoRun
  <2>2. QED
    BY <1>2, <2>1, RunBegins, StaysOutside DEF UnderLock
<1>3. CASE ReadList(s)
  <2>1. flush[s].at = "read" /\ lock' = lock
    BY <1>3 DEF ReadList, At
  <2>2. CASE NothingCollected
    BY <1>3, <2>1, <2>2, RunOver, StaysOutside DEF ReadList, UnderLock
  <2>3. CASE ~NothingCollected
    BY <1>3, <2>1, <2>3, RunReads, StaysOutside DEF UnderLock
  <2>4. QED
    BY <2>2, <2>3
<1>4. CASE DeleteList(s)
  <2>1. flush[s].at = "delete" /\ lock' = lock /\ GoOn(s, "lock")
    BY <1>4 DEF DeleteList, At
  <2>2. QED
    BY <1>1, <2>1, GoesOn, StaysOutside DEF BeforeLock, UnderLock
<1>5. CASE LockBusy(s)
  <2>1. flush[s].at = "lock" /\ lock' = lock /\ GoOn(s, "pushback")
    BY <1>5 DEF LockBusy, At
  <2>2. QED
    BY <1>1, <2>1, GoesOn, StaysOutside DEF BeforeLock, UnderLock
<1>6. CASE PushBack(s)
  <2>1. flush[s].at = "pushback" /\ lock' = lock
    BY <1>6 DEF PushBack, At
  <2>2. QED
    BY <1>6, <2>1, RunGivesBack, StaysOutside DEF UnderLock
<1>7. CASE AddRetry(s)
  <2>1. flush[s].at = "pushback" /\ lock' = lock /\ EndRun(s)
    BY <1>7 DEF AddRetry, At
  <2>2. QED
    BY <2>1, RunOver, StaysOutside DEF UnderLock
<1>8. CASE ReleaseLock(s)
  BY <1>8, ReleaseLease DEF ReleaseLock, At
<1>9. CASE TakeLock(s)
  BY <1>9, TakeLockLease
<1>10. QED
  BY <1>2, <1>3, <1>4, <1>5, <1>6, <1>7, <1>8, <1>9 DEF FlushProgress

(* The steps of the answer keep the lock, until the last one lets go of it. *)
LEMMA AnswerLease ==
  ASSUME LeaseInv, BurstTypeOK, ReplyTypeOK, NEW s \in Slots,
         ReplyProgress(s) \/ ReplyThrows(s)
  PROVE  LeaseStep
<1>1. flush \in [Slots -> Flush] /\ lock' = lock /\ flush[s].at \in UnderLock
  BY DEF BurstTypeOK, ReplyProgress, ReplyThrows, Decide, Generate, CreateOutbound,
         CompleteTrace, QueueReply, At, UnderLock, Working
<1>2. ASSUME NEW pc \in UnderLock, GoOn(s, pc)
      PROVE  LeaseStep
  BY <1>1, <1>2, GoesOn, StaysUnderLock
<1>3. ASSUME flush' = [flush EXCEPT ![s].at = "generate", ![s].trace = Len(traces) + 1]
      PROVE  LeaseStep
  <2>1. Len(traces) + 1 \in Nat
    BY LenProperties DEF ReplyTypeOK
  <2>2. flush'[s].at = "generate" /\ flush'[s].late = flush[s].late
    BY <1>1, <1>3, <2>1 DEF Flush
  <2>3. \A r \in Slots \ {s} : flush'[r] = flush[r]
    BY <1>1, <1>3
  <2>4. QED
    BY <1>1, <2>2, <2>3, StaysUnderLock DEF UnderLock
<1>4. ASSUME NEW b \in ReplyBodies,
             flush' = [flush EXCEPT ![s].at = "outbound", ![s].body = b]
      PROVE  LeaseStep
  <2>1. flush'[s].at = "outbound" /\ flush'[s].late = flush[s].late
    BY <1>1, <1>4 DEF Flush
  <2>2. \A r \in Slots \ {s} : flush'[r] = flush[r]
    BY <1>1, <1>4
  <2>3. QED
    BY <1>1, <2>1, <2>2, StaysUnderLock DEF UnderLock
<1>5. {"release", "complete", "queue"} \subseteq UnderLock
  BY DEF UnderLock
<1>6. CASE Decide(s)
  BY <1>2, <1>3, <1>5, <1>6 DEF Decide
<1>7. CASE Generate(s)
  BY <1>2, <1>4, <1>5, <1>7 DEF Generate
<1>8. CASE CreateOutbound(s)
  BY <1>2, <1>5, <1>8 DEF CreateOutbound, GoOn
<1>9. CASE CompleteTrace(s) \/ QueueReply(s) \/ ReplyThrows(s)
  BY <1>2, <1>5, <1>9 DEF CompleteTrace, QueueReply, ReplyThrows
<1>10. QED
  BY <1>6, <1>7, <1>8, <1>9 DEF ReplyProgress

(* Every step of the reply path is a step of the lease, or none.            *)
LEMMA NextLease ==
  ASSUME IInv, LeaseInv, [Next]_vars
  PROVE  LeaseStep
<1>1. BurstTypeOK /\ ReplyTypeOK
  BY DEF IInv, TypeOK
<1>2. ASSUME UNCHANGED <<lock, flush>>
      PROVE  LeaseStep
  BY <1>2, LeaseKept DEF Answering
<1>3. ASSUME NEW e \in Events, Reporting(e) \/ Enqueuing(e)
      PROVE  LeaseStep
  BY <1>2, <1>3 DEF Reporting, Enqueuing, burstVars
<1>4. ASSUME NEW w \in Intakes, IntakeStep(w)
      PROVE  LeaseStep
  BY <1>2, <1>4 DEF IntakeStep, burstVars
<1>5. ASSUME NEW s \in Slots, FlushStep(s)
      PROVE  LeaseStep
  BY <1>1, <1>5, FlushStepLease, AnswerLease DEF FlushStep
<1>6. CASE Expiring
  BY <1>1, <1>6, ExpiryLease DEF Expiring
<1>7. CASE Requeuing
  BY <1>2, <1>7 DEF Requeuing, RequeueStalled
<1>8. CASE SendFailing
  BY <1>2, <1>8 DEF SendFailing, SendFails, burstVars
<1>9. CASE Throwing
  <2>1. ASSUME NEW s \in Slots, FlushThrows(s)
        PROVE  LeaseStep
    <3>1. EndRun(s) /\ lock' = IF lock = s THEN Gone ELSE lock
      BY <2>1 DEF FlushThrows
    <3>2. CASE flush[s].at = "release"
      BY <1>1, <3>1, <3>2, ReleaseLease
    <3>3. CASE flush[s].at \in BeforeLock
      <4>1. flush[s].at \notin UnderLock
        BY <3>3 DEF BeforeLock, UnderLock
      <4>2. lock' = lock
        BY <3>1, <4>1 DEF LeaseInv, LeaseOf, Answering
      <4>3. QED
        BY <1>1, <3>1, <4>1, <4>2, RunOver, StaysOutside DEF UnderLock
    <3>4. QED
      BY <2>1, <3>2, <3>3 DEF FlushThrows
  <2>2. ASSUME NEW s \in Slots, ReplyThrows(s)
        PROVE  LeaseStep
    BY <1>1, <2>2, AnswerLease
  <2>3. QED
    BY <1>2, <1>9, <2>1, <2>2 DEF Throwing, burstVars
<1>10. CASE RunningOut
  <2>1. CASE ListExpires
    BY <1>2, <2>1 DEF ListExpires
  <2>2. QED
    BY <1>1, <1>10, <2>1, ExpiryLease DEF RunningOut
<1>11. CASE ServerRestart
  BY <1>11, CrashLease DEF ServerRestart
<1>12. CASE UNCHANGED vars
  BY <1>2, <1>12 DEF vars, burstVars
<1>13. CASE Stalling \/ Ageing
  <2>1. ASSUME NEW s \in Slots, FlushStalls(s)
        PROVE  LeaseStep
    BY <1>1, <2>1, FlushStallsTypes, LeaseKept DEF FlushStalls, Answering
  <2>2. QED
    BY <1>2, <1>13, <2>1 DEF Stalling, Ageing, burstVars
<1>14. QED
  BY <1>3, <1>4, <1>5, <1>6, <1>7, <1>8, <1>9, <1>10, <1>11, <1>12, <1>13 DEF Next

(* At first nobody holds the lock.                                          *)
LEMMA InitLease ==
  ASSUME Init
  PROVE  LeaseInv /\ Lease!Init
<1>1. /\ \A s \in Slots : flush[s].at = "idle" /\ flush[s].late = FALSE
      /\ lock \in {NoHolder, Gone}
  BY DEF Init, BurstInit, NoRun
<1>2. \A s \in Slots : ~Answering(s) /\ Punctual(s) = "no"
  BY <1>1 DEF Answering, Punctual, UnderLock
<1>3. LeaseInv
  BY <1>1, <1>2, BurstAssumption DEF LeaseInv, LeaseOf
<1>4. Lease!Init
  BY <1>1, <1>2 DEF Lease!Init
<1>5. QED
  BY <1>3, <1>4

(* The lease invariant holds in every reachable state.                      *)
LEMMA LeaseInductive == Spec => []LeaseInv
<1>1. Init => LeaseInv
  BY InitLease
<1>2. IInv /\ LeaseInv /\ [Next]_vars => LeaseInv'
  BY NextLease DEF LeaseStep
<1>3. QED
  BY <1>1, <1>2, Inductive, PTL DEF Spec

-----------------------------------------------------------------------------
(* A run that answers the group, and has not outlived its lock, holds it:   *)
(* retries, restarts and late releases never take it away.                  *)
THEOREM AnswersUnderLockAlways == Spec => []AnswersUnderLock
<1>1. LeaseInv => AnswersUnderLock
  BY DEF LeaseInv, LeaseOf, AnswersUnderLock
<1>2. QED
  BY <1>1, LeaseInductive, PTL

(* Whatever lists, jobs and retries stand behind it, the lock of a group is  *)
(* a lease (processGroupBurstFlush, releaseLock).                           *)
THEOREM LeaseRefined == Spec => ImplementsLease
<1>1. Init => Lease!Init
  BY InitLease
<1>2. IInv /\ LeaseInv /\ [Next]_vars => [Lease!Next]_leaseVars
  BY NextLease DEF LeaseStep
<1>3. QED
  BY <1>1, <1>2, Inductive, LeaseInductive, PTL
     DEF Spec, ImplementsLease, Lease!Spec, leaseVars

-----------------------------------------------------------------------------
(* The repeat check: what it saw is still true at the insert, as nobody      *)
(* else answers.                                                            *)

(* Without a slow reply no run is late, and the text a run is about to      *)
(* write is not that of the latest row, if that one is live, recent and not *)
(* blank.                                                                   *)
Fresh(s) == /\ ~flush[s].late
            /\ At(s, "outbound") /\ outbox # <<>> /\ InsideTheWindow
               /\ LatestReply.live /\ LatestReply.body # Blank
                 => LatestReply.body # flush[s].body

FreshInv == NobodyWasSlow => \A s \in Slots : Fresh(s)

(* What the property says of a step. *)
RepeatStep ==
    FollowsLiveReply /\ InsideTheWindow /\ NobodyWasSlow
      => LatestReply'.body # LatestReply.body

-----------------------------------------------------------------------------
(* Nothing is written, and no run comes to the statement that writes.       *)
LEMMA FreshKept ==
  ASSUME FreshInv, ReplyTypeOK, outbox' = outbox, aged' \in {aged, aged + 1},
         faults \subseteq faults',
         \A s \in Slots : /\ flush'[s].late => flush[s].late
                          /\ flush'[s].at = "outbound" =>
                               flush[s].at = "outbound" /\ flush'[s].body = flush[s].body
  PROVE  FreshInv'
<1>1. SUFFICES ASSUME NobodyWasSlow', NEW s \in Slots
               PROVE  Fresh(s)'
  BY DEF FreshInv
<1>2. NobodyWasSlow
  BY <1>1 DEF NobodyWasSlow
<1>3. Fresh(s)
  BY <1>2 DEF FreshInv
<1>4. InsideTheWindow' => InsideTheWindow
  <2>1. Len(outbox) \in Nat /\ aged \in Nat
    BY LenProperties DEF ReplyTypeOK
  <2>2. QED
    BY <2>1 DEF InsideTheWindow
<1>5. QED
  BY <1>3, <1>4 DEF Fresh, At, LatestReply

(* Nothing is written, and run s goes elsewhere.                            *)
LEMMA FreshKeptBy ==
  ASSUME FreshInv, ReplyTypeOK, UNCHANGED <<outbox, aged>>, faults \subseteq faults',
         NEW s \in Slots,
         \A r \in Slots \ {s} : flush'[r] = flush[r],
         flush'[s].late => flush[s].late, flush'[s].at # "outbound"
  PROVE  FreshInv'
<1>1. \A r \in Slots : /\ flush'[r].late => flush[r].late
                       /\ flush'[r].at = "outbound" =>
                            flush[r].at = "outbound" /\ flush'[r].body = flush[r].body
  OBVIOUS
<1>2. QED
  BY <1>1, FreshKept

(* The text passed the check: it is not that of the latest row.             *)
LEMMA GenerateFresh ==
  ASSUME FreshInv, BurstTypeOK, ReplyTypeOK, NEW s \in Slots, NEW b \in Bodies,
         ~RepeatsLatest(b), UNCHANGED <<outbox, aged, faults>>,
         flush' = [flush EXCEPT ![s].at = "outbound", ![s].body = b]
  PROVE  FreshInv'
<1>1. /\ flush'[s].late = flush[s].late /\ flush'[s].body = b
      /\ \A r \in Slots \ {s} : flush'[r] = flush[r]
  BY DEF BurstTypeOK, Flush, UnderLock
<1>2. Len(outbox) \in Nat /\ (outbox # <<>> => Len(outbox) \in 1..Len(outbox))
  BY LenProperties, EmptySeq DEF ReplyTypeOK
<1>3. ASSUME outbox # <<>>, InsideTheWindow, LatestReply.live, LatestReply.body # Blank
      PROVE  LatestReply.body # b
  <2>1. Len(outbox) \in Recent /\ Recent \in SUBSET (1..Len(outbox))
    BY <1>2, <1>3 DEF Recent, Live, LatestReply, InsideTheWindow
  <2>2. Max(Recent) \in 1..Len(outbox) /\ Max(Recent) >= Len(outbox)
    BY <1>2, <2>1, MaxOf
  <2>3. Max(Recent) = Len(outbox)
    BY <1>2, <2>2
  <2>4. QED
    BY <1>3, <2>1, <2>3 DEF RepeatsLatest, LatestReply, InsideTheWindow
<1>4. SUFFICES ASSUME NobodyWasSlow, NEW r \in Slots
               PROVE  Fresh(r)'
  BY DEF FreshInv, NobodyWasSlow
<1>5. Fresh(r)
  BY <1>4 DEF FreshInv
<1>6. LatestReply' = LatestReply /\ (InsideTheWindow' <=> InsideTheWindow)
  BY DEF LatestReply, InsideTheWindow
<1>7. CASE r = s
  BY <1>1, <1>3, <1>5, <1>6, <1>7 DEF Fresh
<1>8. CASE r # s
  BY <1>1, <1>5, <1>6, <1>8 DEF Fresh, At
<1>9. QED
  BY <1>7, <1>8

(* The text is written, and no other run that was not slow is under the     *)
(* lock to have checked its own against an older row.                       *)
LEMMA CreateFresh ==
  ASSUME FreshInv, LeaseInv, BurstTypeOK, ReplyTypeOK, NEW s \in Slots, CreateOutbound(s),
         faults' = faults
  PROVE  FreshInv' /\ RepeatStep
<1> DEFINE row == [anchor |-> Anchor(s), body |-> flush[s].body, trace |-> flush[s].trace,
                   live |-> TRUE, queued |-> FALSE]
<1>1. row.body = flush[s].body
  OBVIOUS
<1>2. flush[s].at = "outbound" /\ outbox' = Append(outbox, row) /\ GoOn(s, "complete")
  BY DEF CreateOutbound, GoOn, At
<1> HIDE DEF row
<1>3. outbox \in Seq(Outbound)
  BY DEF ReplyTypeOK
<1>4. Len(outbox) \in Nat /\ Len(outbox') = Len(outbox) + 1 /\ outbox'[Len(outbox) + 1] = row
  BY <1>2, <1>3, LenProperties
<1>5. LatestReply'.body = flush[s].body
  BY <1>1, <1>4 DEF LatestReply
<1>6. /\ flush'[s].at = "complete" /\ flush'[s].late = flush[s].late
      /\ \A r \in Slots \ {s} : flush'[r] = flush[r]
  BY <1>2, GoesOn DEF BurstTypeOK, UnderLock
<1>7. RepeatStep
  <2>1. ASSUME FollowsLiveReply, InsideTheWindow, NobodyWasSlow
        PROVE  LatestReply'.body # LatestReply.body
    <3>1. Fresh(s)
      BY <2>1 DEF FreshInv
    <3>2. QED
      BY <1>2, <1>5, <2>1, <3>1 DEF Fresh, At, FollowsLiveReply
  <2>2. QED
    BY <2>1 DEF RepeatStep
<1>8. ASSUME NobodyWasSlow, NEW r \in Slots
      PROVE  Fresh(r)'
  <2>1. Fresh(r) /\ Fresh(s)
    BY <1>8 DEF FreshInv
  <2>2. CASE r = s
    BY <1>6, <2>1, <2>2 DEF Fresh, At
  <2>3. CASE r # s
    <3>1. Answering(s) /\ ~flush[s].late /\ ~flush[r].late
      BY <1>2, <2>1 DEF Fresh, Answering, UnderLock
    <3>2. lock = s
      BY <3>1 DEF LeaseInv, LeaseOf
    <3>3. ~Answering(r)
      BY <2>3, <3>1, <3>2 DEF LeaseInv, LeaseOf
    <3>4. flush'[r] = flush[r] /\ flush[r].at # "outbound"
      BY <1>6, <2>3, <3>3 DEF Answering, UnderLock
    <3>5. QED
      BY <3>1, <3>4 DEF Fresh, At
  <2>4. QED
    BY <2>2, <2>3
<1>9. QED
  BY <1>7, <1>8 DEF FreshInv, NobodyWasSlow

(* The steps outside the answer write nothing.                              *)
LEMMA FlushStepFresh ==
  ASSUME FreshInv, BurstTypeOK, ReplyTypeOK, NEW s \in Slots,
         FlushProgress(s) \/ FlushThrows(s), UNCHANGED <<outbox, aged>>,
         faults \subseteq faults'
  PROVE  FreshInv'
<1>1. flush \in [Slots -> Flush]
  BY DEF BurstTypeOK
<1>2. ASSUME EndRun(s)
      PROVE  FreshInv'
  BY <1>2, RunOver, FreshKeptBy
<1>3. ASSUME NEW pc \in {"lock", "decide", "pushback"}, GoOn(s, pc)
      PROVE  FreshInv'
  BY <1>1, <1>3, GoesOn, FreshKeptBy DEF BeforeLock, UnderLock
<1>4. CASE StartFlush(s)
  BY <1>4, RunBegins, FreshKeptBy
<1>5. CASE ReadList(s)
  <2>1. CASE NothingCollected
    BY <1>2, <1>5, <2>1 DEF ReadList
  <2>2. CASE ~NothingCollected
    BY <1>5, <2>2, RunReads, FreshKeptBy
  <2>3. QED
    BY <2>1, <2>2
<1>6. CASE DeleteList(s) \/ TakeLock(s) \/ LockBusy(s)
  BY <1>3, <1>6 DEF DeleteList, TakeLock, LockBusy
<1>7. CASE PushBack(s)
  BY <1>7, RunGivesBack, FreshKeptBy
<1>8. CASE AddRetry(s) \/ ReleaseLock(s) \/ FlushThrows(s)
  BY <1>2, <1>8 DEF AddRetry, ReleaseLock, FlushThrows
<1>9. QED
  BY <1>4, <1>5, <1>6, <1>7, <1>8 DEF FlushProgress

(* The steps of the answer write only what is new.                          *)
LEMMA ReplyStepFresh ==
  ASSUME FreshInv, LeaseInv, BurstTypeOK, ReplyTypeOK, NEW s \in Slots,
         \/ ReplyProgress(s) /\ faults' = faults
         \/ ReplyThrows(s)
  PROVE  FreshInv' /\ RepeatStep
<1>1. flush \in [Slots -> Flush] /\ faults \subseteq faults'
  BY DEF BurstTypeOK, ReplyThrows, Fault
<1>2. aged' = aged
  BY DEF ReplyProgress, ReplyThrows, Decide, Generate, CreateOutbound, CompleteTrace,
         QueueReply
<1>3. ASSUME outbox' = outbox
      PROVE  RepeatStep
  <2>1. Len(outbox) \in Nat
    BY LenProperties DEF ReplyTypeOK
  <2>2. ~FollowsLiveReply
    BY <1>3, <2>1 DEF FollowsLiveReply
  <2>3. QED
    BY <2>2 DEF RepeatStep
<1>4. ASSUME NEW pc \in {"release", "queue"}, GoOn(s, pc), outbox' = outbox
      PROVE  FreshInv'
  BY <1>1, <1>2, <1>4, GoesOn, FreshKeptBy DEF UnderLock
<1>5. CASE Decide(s)
  <2>1. outbox' = outbox
    BY <1>5 DEF Decide
  <2>2. ASSUME flush' = [flush EXCEPT ![s].at = "generate", ![s].trace = Len(traces) + 1]
        PROVE  FreshInv'
    <3>1. /\ flush'[s].at = "generate" /\ flush'[s].late = flush[s].late
          /\ \A r \in Slots \ {s} : flush'[r] = flush[r]
      BY <1>1, <2>2 DEF Flush
    <3>2. QED
      BY <1>1, <1>2, <2>1, <3>1, FreshKeptBy
  <2>3. QED
    BY <1>3, <1>4, <1>5, <2>1, <2>2 DEF Decide
<1>6. CASE Generate(s) /\ faults' = faults
  <2>1. outbox' = outbox
    BY <1>6 DEF Generate
  <2>2. PICK b \in ReplyBodies :
          \/ GoOn(s, "release")
          \/ /\ ~RepeatsLatest(b)
             /\ flush' = [flush EXCEPT ![s].at = "outbound", ![s].body = b]
    BY <1>6 DEF Generate
  <2>3. b \in Bodies
    BY ReplyAssumption
  <2>4. FreshInv'
    BY <1>2, <1>4, <1>6, <2>1, <2>2, <2>3, GenerateFresh
  <2>5. QED
    BY <1>3, <2>1, <2>4
<1>7. CASE CreateOutbound(s) /\ faults' = faults
  BY <1>7, CreateFresh
<1>8. CASE CompleteTrace(s)
  BY <1>3, <1>4, <1>8 DEF CompleteTrace
<1>9. ASSUME GoOn(s, "release"), HandOver(s)
      PROVE  FreshInv' /\ RepeatStep
  <2>1. GoOn(s, "release") /\ outbox' = [outbox EXCEPT ![OwnOutbound(s)].queued = TRUE]
    BY <1>9 DEF HandOver
  <2>2. Len(outbox) \in Nat /\ outbox \in [1..Len(outbox) -> Outbound]
    BY LenProperties DEF ReplyTypeOK
  <2>3. Len(outbox') = Len(outbox)
    BY <2>1, OutboxSet
  <2>4. \A o \in 1..Len(outbox) : /\ outbox'[o].body = outbox[o].body
                                  /\ outbox'[o].live = outbox[o].live
    BY <2>1, <2>2 DEF Outbound
  <2>5. RepeatStep
    BY <2>2, <2>3 DEF RepeatStep, FollowsLiveReply
  <2>6. /\ \A r \in Slots \ {s} : flush'[r] = flush[r]
        /\ flush'[s].at = "release" /\ flush'[s].late = flush[s].late
    BY <1>1, <2>1, GoesOn DEF UnderLock
  <2>7. outbox' # <<>> => /\ outbox # <<>> /\ LatestReply'.body = LatestReply.body
                          /\ LatestReply'.live = LatestReply.live
    <3>1. outbox' \in Seq(Outbound) /\ outbox \in Seq(Outbound)
      BY <2>1, OutboxSet DEF ReplyTypeOK
    <3>2. outbox' # <<>> => outbox # <<>> /\ Len(outbox) \in 1..Len(outbox)
      BY <2>3, <3>1, EmptySeq
    <3>3. QED
      BY <2>3, <2>4, <3>2 DEF LatestReply
  <2>8. InsideTheWindow' <=> InsideTheWindow
    BY <1>2, <2>3 DEF InsideTheWindow
  <2>9. ASSUME NobodyWasSlow', NEW r \in Slots
        PROVE  Fresh(r)'
    <3>1. Fresh(r)
      BY <1>1, <2>9 DEF FreshInv, NobodyWasSlow
    <3>2. CASE r = s
      BY <2>6, <3>1, <3>2 DEF Fresh, At
    <3>3. CASE r # s
      BY <2>6, <2>7, <2>8, <3>1, <3>3 DEF Fresh, At
    <3>4. QED
      BY <3>2, <3>3
  <2>10. QED
    BY <2>5, <2>9 DEF FreshInv
<1>10. CASE ReplyThrows(s)
  BY <1>3, <1>4, <1>9, <1>10 DEF ReplyThrows
<1>11. QED
  BY <1>5, <1>6, <1>7, <1>8, <1>9, <1>10 DEF ReplyProgress, QueueReply

(* A send that fails leaves the texts as they are.                          *)
LEMMA SendFailsFresh ==
  ASSUME FreshInv, ReplyTypeOK, SendFailing
  PROVE  FreshInv' /\ RepeatStep
<1>1. PICK i \in 1..Len(outbox) : SendFails(i)
  BY DEF SendFailing
<1>2. /\ flush' = flush /\ faults \subseteq faults' /\ aged' = aged
      /\ outbox' = [outbox EXCEPT ![i].live = FALSE]
  BY <1>1 DEF SendFails, Fault, burstVars
<1>3. Len(outbox) \in Nat /\ outbox \in [1..Len(outbox) -> Outbound]
  BY LenProperties DEF ReplyTypeOK
<1>4. Len(outbox') = Len(outbox)
  BY <1>2, OutboxSet
<1>5. \A o \in 1..Len(outbox) : /\ outbox'[o].body = outbox[o].body
                                /\ outbox'[o].live => outbox[o].live
  BY <1>2, <1>3 DEF Outbound
<1>6. RepeatStep
  BY <1>3, <1>4 DEF RepeatStep, FollowsLiveReply
<1>7. outbox' # <<>> => /\ outbox # <<>> /\ LatestReply'.body = LatestReply.body
                        /\ LatestReply'.live => LatestReply.live
  <2>1. outbox' \in Seq(Outbound) /\ outbox \in Seq(Outbound)
    BY <1>2, OutboxSet DEF ReplyTypeOK
  <2>2. outbox' # <<>> => outbox # <<>> /\ Len(outbox) \in 1..Len(outbox)
    BY <1>4, <2>1, EmptySeq
  <2>3. QED
    BY <1>4, <1>5, <2>2 DEF LatestReply
<1>8. ASSUME NobodyWasSlow', NEW r \in Slots
      PROVE  Fresh(r)'
  <2>1. Fresh(r)
    BY <1>2, <1>8 DEF FreshInv, NobodyWasSlow
  <2>2. InsideTheWindow' <=> InsideTheWindow
    BY <1>2, <1>4 DEF InsideTheWindow
  <2>3. QED
    BY <1>2, <1>7, <2>1, <2>2 DEF Fresh, At
<1>9. QED
  BY <1>6, <1>8 DEF FreshInv

(* A step without a slow reply never writes the same text again.            *)
LEMMA NextFresh ==
  ASSUME IInv, LeaseInv, FreshInv, [Next]_vars
  PROVE  FreshInv' /\ RepeatStep
<1>1. BurstTypeOK /\ ReplyTypeOK
  BY DEF IInv, TypeOK
<1>2. ASSUME outbox' = outbox
      PROVE  RepeatStep
  <2>1. Len(outbox) \in Nat
    BY <1>1, LenProperties DEF ReplyTypeOK
  <2>2. QED
    BY <1>2, <2>1 DEF RepeatStep, FollowsLiveReply
<1>3. ASSUME UNCHANGED <<flush, outbox>>, aged' \in {aged, aged + 1}, faults \subseteq faults'
      PROVE  FreshInv' /\ RepeatStep
  BY <1>1, <1>2, <1>3, FreshKept
<1>4. ASSUME NEW e \in Events, Reporting(e) \/ Enqueuing(e)
      PROVE  FreshInv' /\ RepeatStep
  BY <1>3, <1>4 DEF Reporting, Enqueuing, burstVars, faultVars, replyVars
<1>5. ASSUME NEW w \in Intakes, IntakeStep(w)
      PROVE  FreshInv' /\ RepeatStep
  BY <1>3, <1>5 DEF IntakeStep, burstVars, faultVars, replyVars
<1>6. ASSUME NEW s \in Slots, FlushStep(s)
      PROVE  FreshInv' /\ RepeatStep
  BY <1>1, <1>2, <1>6, FlushStepFresh, ReplyStepFresh DEF FlushStep, faultVars, replyVars
<1>7. CASE Expiring \/ Requeuing
  BY <1>3, <1>7 DEF Expiring, Requeuing, OrphanExpires, RequeueStalled, faultVars, replyVars
<1>8. CASE Throwing
  <2>1. ASSUME Fault("intake_error"), UNCHANGED <<burstVars, replyVars>>
        PROVE  FreshInv' /\ RepeatStep
    BY <1>3, <2>1 DEF Fault, burstVars, replyVars
  <2>2. ASSUME NEW s \in Slots, FlushThrows(s), UNCHANGED replyVars
        PROVE  FreshInv' /\ RepeatStep
    BY <1>1, <1>2, <2>2, FlushStepFresh DEF FlushThrows, Fault, replyVars
  <2>3. QED
    BY <1>1, <1>8, <2>1, <2>2, ReplyStepFresh DEF Throwing, EnqueueThrows, IntakeThrows
<1>9. CASE RunningOut
  <2>1. CASE ListExpires
    BY <1>3, <1>9, <2>1 DEF RunningOut, ListExpires, Fault, replyVars
  <2>2. ASSUME NEW s \in Slots, SlowReply(s)
        PROVE  FreshInv' /\ RepeatStep
    <3>1. ~NobodyWasSlow' /\ outbox' = outbox
      BY <1>9, <2>2 DEF RunningOut, SlowReply, Fault, NobodyWasSlow, replyVars
    <3>2. QED
      BY <1>2, <3>1 DEF FreshInv
  <2>3. QED
    BY <1>9, <2>1, <2>2 DEF RunningOut
<1>10. CASE ServerRestart
  <2>1. /\ outbox' = outbox /\ aged' = aged /\ faults \subseteq faults'
        /\ \A s \in Slots : ~flush'[s].late /\ flush'[s].at = "idle"
    BY <1>10 DEF ServerRestart, Fault, BurstRestart, NoRun, replyVars
  <2>2. QED
    BY <1>1, <1>2, <2>1, FreshKept
<1>11. CASE UNCHANGED vars
  BY <1>3, <1>11 DEF vars, burstVars, faultVars, replyVars
<1>12. CASE Stalling
  <2>1. ASSUME NEW w \in Intakes, IntakeStalls(w), UNCHANGED <<burstVars, replyVars>>
        PROVE  FreshInv' /\ RepeatStep
    BY <1>3, <2>1 DEF IntakeStalls, Fault, burstVars, replyVars
  <2>2. ASSUME NEW s \in Slots, FlushStalls(s), UNCHANGED replyVars
        PROVE  FreshInv' /\ RepeatStep
    <3>1. /\ UNCHANGED <<outbox, aged>> /\ faults \subseteq faults'
          /\ \A r \in Slots : /\ flush'[r].at = flush[r].at
                              /\ flush'[r].late = flush[r].late
                              /\ flush'[r].body = flush[r].body
      BY <1>1, <2>2, FlushStallsTypes DEF FlushStalls, Fault, replyVars
    <3>2. QED
      BY <1>1, <1>2, <3>1, FreshKept
  <2>3. QED
    BY <1>12, <2>1, <2>2 DEF Stalling
<1>13. CASE Ageing
  BY <1>3, <1>13 DEF Ageing, WindowPasses, burstVars, faultVars
<1>14. QED
  BY <1>1, <1>4, <1>5, <1>6, <1>7, <1>8, <1>9, <1>10, <1>11, <1>12, <1>13, SendFailsFresh
     DEF Next

-----------------------------------------------------------------------------
(* While no reply has outlived its lock, the group never gets the same text *)
(* twice in a row within the window of the duplicate check, for any window  *)
(* that is not 0 and any text that is not blank                             *)
(* (buildAndQueueReplyWithTrace under the burst's lock).                    *)
THEOREM NeverTheSameTwice == Spec => NoImmediateRepeat
<1>1. Init => FreshInv
  <2>1. ASSUME Init
        PROVE  \A s \in Slots : ~flush[s].late /\ flush[s].at = "idle"
    BY <2>1 DEF Init, BurstInit, NoRun
  <2>2. QED
    BY <2>1 DEF FreshInv, Fresh, At
<1>2. IInv /\ LeaseInv /\ FreshInv /\ [Next]_vars => FreshInv'
  BY NextFresh
<1>3. IInv /\ LeaseInv /\ FreshInv /\ [Next]_vars
        => [FollowsLiveReply /\ InsideTheWindow /\ NobodyWasSlow
              => LatestReply'.body # LatestReply.body]_vars
  BY NextFresh DEF RepeatStep
<1>4. QED
  BY <1>1, <1>2, <1>3, Inductive, LeaseInductive, PTL DEF Spec, NoImmediateRepeat
==============================================================================
