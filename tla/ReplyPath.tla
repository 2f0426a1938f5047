------------------------------ MODULE ReplyPath ------------------------------
(***************************************************************************)
(* From a reported message to a queued reply: intake, burst and reply       *)
(* pipeline of one group.                                                   *)
(***************************************************************************)
EXTENDS InboundIntake, ReplyPipeline

vars == <<burstVars, faultVars, intakeVars, replyVars>>

TypeOK == BurstTypeOK /\ IntakeTypeOK /\ ReplyTypeOK

Init == BurstInit /\ IntakeInit /\ ReplyInit

-----------------------------------------------------------------------------
IntakeStep(w) ==
    \/ /\ IntakeProgress(w) \/ FindMessage(w, LiveBodies)
       /\ UNCHANGED <<burstVars, faultVars, replyVars>>
    \/ /\ AppendToBurst(w)
       /\ UNCHANGED <<retryJobs, lock, flush, taken, faultVars, replyVars>>

FlushStep(s) ==
    \/ FlushProgress(s) /\ UNCHANGED <<faultVars, intakeVars, replyVars>>
    \/ ReplyProgress(s) /\ UNCHANGED <<faultVars, intakeVars>>

Reporting(e) == Report(e) /\ UNCHANGED <<burstVars, faultVars, replyVars>>
Enqueuing(e) == Enqueue(e) /\ UNCHANGED <<burstVars, faultVars, replyVars>>

Expiring == OrphanExpires /\ UNCHANGED <<faultVars, intakeVars, replyVars>>
Requeuing == RequeueStalled /\ UNCHANGED <<faultVars, intakeVars, replyVars>>

(* The stalled-job check and a worker at work disagree about a job. *)
Stalling ==
    \/ \E w \in Intakes : IntakeStalls(w) /\ UNCHANGED <<burstVars, replyVars>>
    \/ \E s \in Slots : FlushStalls(s) /\ UNCHANGED <<intakeVars, replyVars>>

Throwing ==
    \/ \E e \in Events : EnqueueThrows(e) /\ UNCHANGED <<burstVars, replyVars>>
    \/ \E w \in Intakes : IntakeThrows(w) /\ UNCHANGED <<burstVars, replyVars>>
    \/ \E s \in Slots : FlushThrows(s) /\ UNCHANGED <<intakeVars, replyVars>>
    \/ \E s \in Slots : ReplyThrows(s) /\ UNCHANGED intakeVars

RunningOut ==
    /\ ListExpires \/ \E s \in Slots : SlowReply(s)
    /\ UNCHANGED <<intakeVars, replyVars>>

ServerRestart ==
    /\ Fault("restart")
    /\ BurstRestart
    /\ IntakeRestart
    /\ UNCHANGED replyVars

SendFailing == (\E o \in 1..Len(outbox) : SendFails(o)) /\ UNCHANGED intakeVars

Ageing == WindowPasses /\ UNCHANGED <<burstVars, faultVars, intakeVars>>

Next ==
    \/ \E e \in Events : Reporting(e) \/ Enqueuing(e)
    \/ \E w \in Intakes : IntakeStep(w)
    \/ \E s \in Slots : FlushStep(s)
    \/ Expiring \/ Requeuing \/ SendFailing \/ Ageing
    \/ Stalling \/ Throwing \/ RunningOut \/ ServerRestart

Spec == Init /\ [][Next]_vars

(* The event loop carries every request and run on, the queue hands out     *)
(* waiting jobs and finds the stalled ones, and Redis drops what ran out.   *)
(* Nothing makes a chat report a message, a reply be slow or a fault occur. *)
Fairness ==
    /\ \A e \in Events : WF_vars(Enqueuing(e))
    /\ \A w \in Intakes : WF_vars(IntakeStep(w))
    /\ \A s \in Slots : WF_vars(FlushStep(s))
    /\ WF_vars(Expiring) /\ WF_vars(Requeuing)

FairSpec == Spec /\ Fairness

-----------------------------------------------------------------------------
Answering(s) == flush[s].at \in UnderLock

(* A run that answers the group, and has not outlived its lock, still holds *)
(* it: no retry job, no restart and no release by a run that came too late  *)
(* took it away (processGroupBurstFlush, releaseLock).  So two runs answer  *)
(* a group at once only if one of them is late.                             *)
AnswersUnderLock ==
    \A s \in Slots : Answering(s) => lock = s \/ flush[s].late

(* Errors, retries and restarts of a job never store an event twice         *)
(* (persistInboundMessage finds what an earlier attempt created).  Look-up   *)
(* and insert are two statements and no unique key backs them, so a job      *)
(* that was handed out again under a run at work may cost a second row, and  *)
(* never a third.                                                            *)
OneMessagePerEvent ==
    \A e \in Events : Cardinality(Rows(e)) <= IF "stall" \in faults THEN 2 ELSE 1

NobodyWasSlow == "slow" \notin faults
LatestReply == outbox[Len(outbox)]
FollowsLiveReply == /\ Len(outbox') > Len(outbox) /\ outbox # <<>>
                    /\ LatestReply.live /\ LatestReply.body # Blank
InsideTheWindow == DedupeOn /\ Len(outbox) > aged

(* While no reply has outlived its lock, the group never gets the same text *)
(* twice in a row within OUTBOUND_CONTENT_DEDUPE_MS, if that is not 0 and   *)
(* the text not blank: the check and the insert of the reply pipeline are   *)
(* apart, and it is the lock of the burst that makes them one.              *)
NoImmediateRepeat ==
    [][FollowsLiveReply /\ InsideTheWindow /\ NobodyWasSlow
         => LatestReply'.body # LatestReply.body]_vars

(* Violated: no second reply of the same text within the window ("同群已存在  *)
(* 相同正文出站 ... 则不再创建第二条", env.ts).  The pipeline looks at the    *)
(* newest row of the window only.                                           *)
NoSecondInTheWindow ==
    [][Len(outbox') > Len(outbox)
         => \A o \in Recent : outbox[o].body # LatestReply'.body]_vars

TraceOf(o) == traces[outbox[o].trace]

HandedOver(o) ==
    /\ TraceOf(o).outbound = o
    /\ \/ TraceOf(o).status = "completed"
       \/ TraceOf(o).status = "failed" /\ "flush_error" \in faults

LeftBehind(o) == TraceOf(o).status = "failed" \/ {"restart", "outage"} \cap faults # {}

AtWorkOn(o) == \E s \in Slots : Answering(s) /\ flush[s].trace = outbox[o].trace

(* The books agree: a reply handed to the sender belongs to a trace that    *)
(* names it and reads completed, or failed if the hand-over took effect and  *)
(* threw; and a reply that was written but never handed over has a run at   *)
(* work on it or a trace that reads failed, unless the process died or the  *)
(* catch clause could not write either (buildAndQueueReplyWithTrace).       *)
OutboxAddsUp ==
    \A o \in 1..Len(outbox) :
        IF outbox[o].queued THEN HandedOver(o) ELSE AtWorkOn(o) \/ LeftBehind(o)

(* What is collected for an answer are rows, and rows stored as a user's    *)
(* text: a retried job goes by what its first attempt found out, although   *)
(* by then the robot's reply that the message echoes may have failed        *)
(* (persistInboundMessage, effectiveSemanticKind).  So the second filter, in *)
(* runBurstReplyForMessages, has nothing to remove.                         *)
Collected == burst \cup taken \cup UNION {flush[s].ids : s \in Slots}

OnlyUserTextIsCollected ==
    \A m \in Collected : m \in 1..Len(messages) /\ messages[m].kind = "user_text"

(* While no lock was left behind, no statement threw, no job was handed out  *)
(* twice, no reply was slow and no process died, no message is taken on by   *)
(* two runs: nothing but the job id of the flush keeps a second run away     *)
(* between one run's reading of the list and its deletion                   *)
(* (processGroupBurstFlush).                                                *)
Undisturbed == "left_lock" \notin plan /\ faults \subseteq {"send", "list_ttl"}
TakesOn(s) == At(s, "lock") /\ flush'[s].at = "decide"

NothingIsTakenTwice ==
    [][Undisturbed => \A s \in Slots : TakesOn(s) => flush[s].ids \cap taken = {}]_vars

(* Whoever dies or stays away, the group's lock is free again in the end.   *)
LockIsFreed == lock # NoHolder ~> lock = NoHolder

(* Every event that was accepted is processed, whatever the flush runs do   *)
(* and as long as no statement of the intake throws of itself: a race of two *)
(* messages for one sender's state row costs an attempt, never the event.   *)
(* Its job completes even if it was handed out twice, but the run that lost *)
(* the job may then write "failed" over "processed".                        *)
EveryEventEnds ==
    \A e \in Events : answer[e] = "accepted" ~>
        eventJob[e] = "completed" /\ (eventRow[e] = "processed" \/ "stall" \in faults)

(* The lock is a lease: who holds it, who answers in time and who late.     *)
Punctual(s) == IF ~Answering(s) THEN "no" ELSE IF flush[s].late THEN "late" ELSE "in_time"

Lease == INSTANCE GroupLease WITH
    Slots <- Slots, NoHolder <- NoHolder, Gone <- Gone, holder <- lock,
    answering <- [s \in Slots |-> Punctual(s)]

ImplementsLease == Lease!Spec

(* Violated: every message put into the burst is answered or decided upon   *)
(* in the end.                                                              *)
EveryMessageIsTaken == \A m \in Messages : m \in burst ~> m \in taken
=============================================================================
