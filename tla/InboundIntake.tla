--------------------------- MODULE InboundIntake -----------------------------
(***************************************************************************)
(* From a reported chat message to the burst of its group: the two          *)
(* endpoints that accept events, the inbound-event queue and its worker.    *)
(* An event is a set of reports with one eventUid.                          *)
(***************************************************************************)
EXTENDS GroupBurst

CONSTANTS Events,      \* the eventUids ever reported
          NoEvent,
          Intakes,     \* concurrent runs of the inbound worker (concurrency: 10)
          BodyOf,      \* BodyOf[e]: its normalized text
          SenderOf,    \* SenderOf[e]: its senderId, or
          NoSender,    \* none: reports of the executor carry only a name
          NatureOf,    \* what robot flag and classifier say of e
          JobAttempts  \* attempts: 3

Kinds == {"user_text", "self_text", "system_notice", "official"}

ASSUME IntakeAssumption == /\ NoEvent \notin Events
                           /\ BodyOf \in [Events -> Bodies]
                           /\ NatureOf \in [Events -> Kinds]
                           /\ JobAttempts \in Nat \ {0}

VARIABLES answer,    \* what the last report of an event was told
          eventRow,  \* InboundEvent.status
          eventJob,  \* the job of an event
          tries,     \* its failed attempts
          messages,  \* the inbound_messages rows, by createdAt
          stateRows, \* number of conversation_states rows of each sender
          filtered,  \* the messages with a skipped_filter trace
          intake     \* the runs of the inbound worker

intakeVars == <<answer, eventRow, eventJob, tries, messages, stateRows, filtered, intake>>

(* owns: the job of the event is this run's, the queue has not given it away *)
IdleIntake == [at |-> "idle", event |-> NoEvent, owns |-> FALSE, kind |-> "user_text",
               msg |-> 0]

Intake == [at : {"idle", "find", "create", "state", "newstate", "filter", "push",
                 "unschedule", "schedule", "mark"},
           event : Events \cup {NoEvent}, owns : BOOLEAN, kind : Kinds,
           msg : 0..MaxMessages]

IntakeTypeOK ==
    /\ answer \in [Events -> {"none", "adding", "accepted", "duplicated", "error"}]
    /\ eventRow \in [Events -> {"absent", "pending", "processed", "failed"}]
    /\ eventJob \in [Events -> {"absent", "waiting", "active", "completed", "failed"}]
    /\ tries \in [Events -> 0..JobAttempts]
    /\ messages \in Seq([event : Events, kind : Kinds])
    /\ Len(messages) <= MaxMessages
    /\ stateRows \in [DOMAIN stateRows -> Nat]
    /\ filtered \subseteq Messages
    /\ intake \in [Intakes -> Intake]
    /\ \A w \in Intakes : intake[w].at \notin {"idle", "find", "create"}
                            => intake[w].msg \in 1..Len(messages)

IntakeInit ==
    /\ answer = [e \in Events |-> "none"]
    /\ eventRow = [e \in Events |-> "absent"]
    /\ eventJob = [e \in Events |-> "absent"]
    /\ tries = [e \in Events |-> 0]
    /\ messages = <<>>
    /\ stateRows = [u \in {SenderOf[e] : e \in Events} |-> 0]
    /\ filtered = {}
    /\ intake = [w \in Intakes |-> IdleIntake]

-----------------------------------------------------------------------------
(* acceptWebhookEvent, submitExecutorInboundEvent: the row, then the job.   *)
(* A later report, or the admin's replay, of an eventUid that has a row is  *)
(* answered duplicated and adds no job.                                     *)
Report(e) ==
    /\ answer[e] \in {"none", "error"}
    /\ IF eventRow[e] = "absent"
       THEN /\ eventRow' = [eventRow EXCEPT ![e] = "pending"]
            /\ answer' = [answer EXCEPT ![e] = "adding"]
       ELSE /\ answer' = [answer EXCEPT ![e] = "duplicated"]
            /\ UNCHANGED eventRow
    /\ UNCHANGED <<eventJob, tries, messages, stateRows, filtered, intake>>

Enqueue(e) ==
    /\ answer[e] = "adding"
    /\ eventJob' = [eventJob EXCEPT ![e] = "waiting"]
    /\ answer' = [answer EXCEPT ![e] = "accepted"]
    /\ UNCHANGED <<eventRow, tries, messages, stateRows, filtered, intake>>

EnqueueThrows(e) ==
    /\ answer[e] = "adding"
    /\ Fault("intake_error")
    /\ answer' = [answer EXCEPT ![e] = "error"]
    /\ UNCHANGED <<eventRow, eventJob, tries, messages, stateRows, filtered, intake>>

-----------------------------------------------------------------------------
AtStep(w, pc) == intake[w].at = pc
Step(w, pc) == intake' = [intake EXCEPT ![w].at = pc]
TheEvent(w) == intake[w].event
Rows(e) == {m \in 1..Len(messages) : messages[m].event = e}

FetchEvent(w, e) ==
    /\ intake[w] = IdleIntake
    /\ eventJob[e] = "waiting"
    /\ eventJob' = [eventJob EXCEPT ![e] = "active"]
    /\ intake' = [intake EXCEPT ![w].at = "find", ![w].event = e, ![w].owns = TRUE]
    /\ UNCHANGED <<answer, eventRow, tries, messages, stateRows, filtered>>

(* The queue takes a worker that did not renew the job's lock for dead and   *)
(* hands the job out again, while the run goes on without it.               *)
IntakeStalls(w) ==
    /\ intake[w].owns
    /\ Fault("stall")
    /\ eventJob' = [eventJob EXCEPT ![TheEvent(w)] = "waiting"]
    /\ intake' = [intake EXCEPT ![w].owns = FALSE]
    /\ UNCHANGED <<answer, eventRow, tries, messages, stateRows, filtered>>

(* A job is moved only by the run whose it is.                              *)
HandBack(w, st) ==
    eventJob' = IF intake[w].owns THEN [eventJob EXCEPT ![TheEvent(w)] = st] ELSE eventJob

(* persistInboundMessage.  A message whose text is that of a live outbound   *)
(* message (an echo), or of another message of the last INBOUND_SHORT_      *)
(* DEDUPE_SECONDS, may count as the robot's own: both checks look back for  *)
(* a while only, and either can be switched off.                            *)
SameText(e) == {m \in 1..Len(messages) : BodyOf[messages[m].event] = BodyOf[e]}

KindsOf(e, liveBodies) ==
    {NatureOf[e]} \cup
        IF BodyOf[e] \in liveBodies \/ SameText(e) # {} THEN {"self_text"} ELSE {}

NoKnownRow(e) == {}
KnownRows(e) == Rows(e)

(* effectiveSemanticKind: what was found out when the row was written.      *)
KindAnew(m) == NatureOf[messages[m].event]
KindOfRow(m) == messages[m].kind

FindMessage(w, liveBodies) ==
    /\ AtStep(w, "find")
    /\ LET e == TheEvent(w) IN
       \/ \E m \in KnownRows(e) :
             intake' = [intake EXCEPT ![w].at = "state", ![w].msg = m,
                                      ![w].kind = KindOfRow(m)]
       \/ /\ KnownRows(e) = {}
          /\ \E k \in KindsOf(e, liveBodies) :
                intake' = [intake EXCEPT ![w].at = "create", ![w].kind = k]
    /\ UNCHANGED <<answer, eventRow, eventJob, tries, messages, stateRows, filtered>>

CreateMessage(w) ==
    /\ AtStep(w, "create")
    /\ Len(messages) < MaxMessages
    /\ messages' = Append(messages, [event |-> TheEvent(w), kind |-> intake[w].kind])
    /\ intake' = [intake EXCEPT ![w].at = "state", ![w].msg = Len(messages) + 1]
    /\ UNCHANGED <<answer, eventRow, eventJob, tries, stateRows, filtered>>

(* updateConversationStateFromInbound: update, and create if no row matched *)
TouchState(w) ==
    /\ AtStep(w, "state")
    /\ Step(w, IF stateRows[SenderOf[TheEvent(w)]] > 0 THEN "filter" ELSE "newstate")
    /\ UNCHANGED <<answer, eventRow, eventJob, tries, messages, stateRows, filtered>>

(* The row is unique per group and sender, but not where the sender is null *)
UserRowTaken(w) ==
    LET u == SenderOf[TheEvent(w)] IN u # NoSender /\ stateRows[u] > 0

CreateState(w) ==
    /\ AtStep(w, "newstate")
    /\ ~UserRowTaken(w)
    /\ stateRows' = [stateRows EXCEPT ![SenderOf[TheEvent(w)]] = @ + 1]
    /\ Step(w, "filter")
    /\ UNCHANGED <<answer, eventRow, eventJob, tries, messages, filtered>>

SkipTrace(w) == filtered' = filtered \cup {intake[w].msg}

(* Groups that are off or taken over by a human end here; what is not a     *)
(* user's text, and what a staff member says, is filtered with a trace.     *)
Filter(w) ==
    /\ AtStep(w, "filter")
    /\ \/ Step(w, "mark") /\ UNCHANGED filtered
       \/ /\ intake[w].kind # "user_text"
          /\ SkipTrace(w)
          /\ Step(w, "mark")
       \/ /\ intake[w].kind = "user_text"
          /\ Step(w, "push")
          /\ UNCHANGED filtered
    /\ UNCHANGED <<answer, eventRow, eventJob, tries, messages, stateRows>>

(* appendAndScheduleGroupBurst.                                             *)
AppendToBurst(w) ==
    /\ \/ AtStep(w, "push") /\ PushId(intake[w].msg) /\ Step(w, "unschedule")
          /\ UNCHANGED mainJob
       \/ AtStep(w, "unschedule") /\ RemoveFlushJob /\ Step(w, "schedule")
          /\ UNCHANGED burst
       \/ AtStep(w, "schedule") /\ AddFlushJob /\ Step(w, "mark")
          /\ UNCHANGED burst
    /\ UNCHANGED <<answer, eventRow, eventJob, tries, messages, stateRows, filtered>>

MarkProcessed(w) ==
    /\ AtStep(w, "mark")
    /\ eventRow' = [eventRow EXCEPT ![TheEvent(w)] = "processed"]
    /\ HandBack(w, "completed")
    /\ intake' = [intake EXCEPT ![w] = IdleIntake]
    /\ UNCHANGED <<answer, tries, messages, stateRows, filtered>>

(* A statement throws: the row reads failed (unless that update throws as   *)
(* well) and the job is retried until its attempts are used up.             *)
FailedAtOnce(e) == "failed"
JobAfterThrow(e) == IF tries[e] + 1 < JobAttempts THEN "waiting" ELSE "failed"

RunThrows(w) ==
    LET e == TheEvent(w) IN
    /\ tries' = IF intake[w].owns THEN [tries EXCEPT ![e] = @ + 1] ELSE tries
    /\ HandBack(w, JobAfterThrow(e))
    /\ intake' = [intake EXCEPT ![w] = IdleIntake]
    /\ UNCHANGED <<answer, messages, stateRows, filtered>>

StateRefused(w) ==
    /\ AtStep(w, "newstate")
    /\ UserRowTaken(w)
    /\ RunThrows(w)
    /\ eventRow' = [eventRow EXCEPT ![TheEvent(w)] = "failed"]

IntakeThrows(w) ==
    /\ ~AtStep(w, "idle")
    /\ Fault("intake_error")
    /\ RunThrows(w)
    /\ \/ eventRow' = [eventRow EXCEPT ![TheEvent(w)] = "failed"]
       \/ UNCHANGED eventRow

(* The process dies with its requests and runs; the jobs it had in hand are *)
(* handed out again by the stalled-job check, not counted as an attempt.    *)
IntakeRestart ==
    /\ answer' = [e \in Events |-> IF answer[e] = "adding" THEN "error" ELSE answer[e]]
    /\ eventJob' = [e \in Events |-> IF eventJob[e] = "active" THEN "waiting"
                                     ELSE eventJob[e]]
    /\ intake' = [w \in Intakes |-> IdleIntake]
    /\ UNCHANGED <<eventRow, tries, messages, stateRows, filtered>>

IntakeProgress(w) ==
    \/ \E e \in Events : FetchEvent(w, e)
    \/ CreateMessage(w) \/ TouchState(w) \/ CreateState(w) \/ Filter(w)
    \/ MarkProcessed(w) \/ StateRefused(w)
=============================================================================
