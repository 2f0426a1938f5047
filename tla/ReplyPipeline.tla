--------------------------- MODULE ReplyPipeline -----------------------------
(***************************************************************************)
(* What a flush run does under the lock: decide whether to answer the last  *)
(* message of the burst, generate the answer, and write trace, outbound     *)
(* message and send job, each a statement of its own.                       *)
(***************************************************************************)
EXTENDS GroupBurst, FiniteSetsExt

CONSTANTS ReplyBodies, \* what the model, a canned rule or the fallback may say
          Blank,       \* the text of nothing but spaces
          DedupeOn     \* OUTBOUND_CONTENT_DEDUPE_MS is not 0

ASSUME ReplyAssumption == ReplyBodies \subseteq Bodies /\ DedupeOn \in BOOLEAN

VARIABLES traces, \* the reply_traces rows of the burst, by createdAt
          outbox, \* the outbound_messages rows, by createdAt
          aged    \* the first of them, older than OUTBOUND_CONTENT_DEDUPE_MS

replyVars == <<traces, outbox, aged>>

Trace == [anchor : Messages,
          status : {"pending", "completed", "skipped_no_reply", "skipped_filter", "failed"},
          outbound : Nat]

(* live: pending, pending_executor or success. *)
Outbound == [anchor : Messages, body : Bodies, trace : Nat, live : BOOLEAN,
             queued : BOOLEAN]

ReplyTypeOK ==
    traces \in Seq(Trace) /\ outbox \in Seq(Outbound) /\ aged \in 0..Len(outbox)

ReplyInit == traces = <<>> /\ outbox = <<>> /\ aged = 0

-----------------------------------------------------------------------------
Live == {o \in 1..Len(outbox) : outbox[o].live}
LiveBodies == {outbox[o].body : o \in Live}
Recent == {o \in Live : o > aged}

(* The rows come back by createdAt, and only user_text was ever pushed: the *)
(* anchor is the newest.                                                    *)
Anchor(s) == Max(flush[s].ids)

NewTrace(s, st) ==
    traces' = Append(traces, [anchor |-> Anchor(s), status |-> st, outbound |-> 0])

SetTrace(s, st) == traces' = [traces EXCEPT ![flush[s].trace].status = st]

(* runBurstReplyForMessages: the group was switched off meanwhile, or the   *)
(* decision is no, or an answer is due.                                     *)
Decide(s) ==
    /\ At(s, "decide")
    /\ \/ GoOn(s, "release") /\ UNCHANGED traces
       \/ GoOn(s, "release") /\ NewTrace(s, "skipped_no_reply")
       \/ /\ NewTrace(s, "pending")
          /\ flush' = [flush EXCEPT ![s].at = "generate", ![s].trace = Len(traces) + 1]
    /\ UNCHANGED <<burst, mainJob, retryJobs, lock, taken, outbox, aged>>

(* The reply is generated; if the newest live outbound message of the group *)
(* within OUTBOUND_CONTENT_DEDUPE_MS has the same text it is dropped; a     *)
(* blank one, which a model may well answer, is not looked at.              *)
NeverRepeats(b) == FALSE
RepeatsLatest(b) ==
    DedupeOn /\ b # Blank /\ Recent # {} /\ outbox[Max(Recent)].body = b

Generate(s) ==
    /\ At(s, "generate")
    /\ \E b \in ReplyBodies :
         \/ /\ RepeatsLatest(b)
            /\ SetTrace(s, "skipped_filter")
            /\ GoOn(s, "release")
         \/ /\ ~RepeatsLatest(b)
            /\ flush' = [flush EXCEPT ![s].at = "outbound", ![s].body = b]
            /\ UNCHANGED traces
    /\ UNCHANGED <<burst, mainJob, retryJobs, lock, taken, outbox, aged>>

CreateOutbound(s) ==
    /\ At(s, "outbound")
    /\ outbox' = Append(outbox, [anchor |-> Anchor(s), body |-> flush[s].body,
                                 trace |-> flush[s].trace, live |-> TRUE,
                                 queued |-> FALSE])
    /\ flush' = [flush EXCEPT ![s].at = "complete"]
    /\ UNCHANGED <<burst, mainJob, retryJobs, lock, taken, traces, aged>>

OwnOutbound(s) == CHOOSE o \in 1..Len(outbox) : outbox[o].trace = flush[s].trace

CompleteTrace(s) ==
    /\ At(s, "complete")
    /\ traces' = [traces EXCEPT ![flush[s].trace].status = "completed",
                                ![flush[s].trace].outbound = OwnOutbound(s)]
    /\ GoOn(s, "queue")
    /\ UNCHANGED <<burst, mainJob, retryJobs, lock, taken, outbox, aged>>

HandOver(s) == outbox' = [outbox EXCEPT ![OwnOutbound(s)].queued = TRUE]

QueueReply(s) ==
    /\ At(s, "queue")
    /\ HandOver(s)
    /\ GoOn(s, "release")
    /\ UNCHANGED <<burst, mainJob, retryJobs, lock, taken, traces, aged>>

(* The catch clause: the trace reads failed whatever was already written,   *)
(* unless that update throws as well, and the lock is released.  Adding the *)
(* job may have taken effect although it threw.                             *)
Working == {"generate", "outbound", "complete", "queue"}

CompletedAnyway == "completed"
TraceAfterThrow == "failed"

ReplyThrows(s) ==
    /\ \/ /\ flush[s].at \in Working
          /\ Fault("flush_error")
          /\ SetTrace(s, TraceAfterThrow)
       \/ /\ At(s, "decide")
          /\ Fault("flush_error")
          /\ UNCHANGED traces
       \/ /\ flush[s].at \in Working
          /\ Fault("outage")
          /\ UNCHANGED traces
    /\ UNCHANGED outbox \/ (At(s, "queue") /\ HandOver(s))
    /\ GoOn(s, "release")
    /\ UNCHANGED <<burst, mainJob, retryJobs, lock, taken, aged>>

(* The sending path fails or cancels a message. *)
SendFails(o) ==
    /\ outbox[o].live
    /\ outbox[o].queued
    /\ Fault("send")
    /\ outbox' = [outbox EXCEPT ![o].live = FALSE]
    /\ UNCHANGED <<burstVars, traces, aged>>

(* Time passes, and the oldest row leaves the window of the check above. *)
WindowPasses ==
    /\ "ageing" \in plan
    /\ aged < Len(outbox)
    /\ aged' = aged + 1
    /\ UNCHANGED <<traces, outbox>>

ReplyProgress(s) ==
    \/ Decide(s) \/ Generate(s) \/ CreateOutbound(s) \/ CompleteTrace(s) \/ QueueReply(s)
=============================================================================
