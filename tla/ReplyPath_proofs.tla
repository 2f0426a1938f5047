--------------------------- MODULE ReplyPath_proofs ---------------------------
(***************************************************************************)
(* Type correctness of ReplyPath, for every set of events, intake runs and  *)
(* flush runs and every plan of faults.  The types lean on the book-keeping *)
(* of the jobs (a run has a job with an attempt left, no two runs share an  *)
(* event) and on what a run under the lock has already written.             *)
(***************************************************************************)
EXTENDS ReplyPath, SequenceTheorems, FiniteSetTheorems, NaturalsInduction, TLAPS

Busy(w) == ~AtStep(w, "idle")

(* A run of the intake works on an event that has a job; unless the queue   *)
(* took it away the job is the run's, and no other run's.                   *)
RunsHaveJobs ==
    \A w \in Intakes :
        /\ Busy(w) => TheEvent(w) \in Events /\ eventJob[TheEvent(w)] # "absent"
        /\ intake[w].owns => Busy(w) /\ eventJob[TheEvent(w)] = "active"

RunsAreApart ==
    \A v, w \in Intakes :
        intake[v].owns /\ intake[w].owns /\ TheEvent(v) = TheEvent(w) => v = w

(* The job comes after the row and its answer, and has attempts left while  *)
(* it may still run.                                                        *)
JobFollowsRow ==
    \A e \in Events : /\ eventRow[e] = "absent" => answer[e] # "adding"
                      /\ eventRow[e] = "absent" \/ answer[e] = "adding" => eventJob[e] = "absent"

AttemptsLeft ==
    \A e \in Events : /\ eventJob[e] = "absent" => tries[e] = 0
                      /\ eventJob[e] \in {"waiting", "active"} => tries[e] < JobAttempts

JobInv == RunsHaveJobs /\ RunsAreApart /\ JobFollowsRow /\ AttemptsLeft

Places == {"idle", "find", "create", "state", "newstate", "filter", "push", "unschedule",
           "schedule", "mark"}
Stored == Places \ {"idle", "find", "create"}

-----------------------------------------------------------------------------
(* A run of the intake that goes on to its next statement keeps types and   *)
(* jobs.                                                                    *)
LEMMA RunGoesOn ==
  ASSUME IntakeTypeOK, JobInv, NEW w \in Intakes, Busy(w),
         intake' \in [Intakes -> Intake], intake'[w].at # "idle",
         intake'[w].event = TheEvent(w), intake'[w].owns = intake[w].owns,
         intake'[w].at \in Stored => intake'[w].msg \in 1..Len(messages'),
         \A v \in Intakes \ {w} : intake'[v] = intake[v],
         UNCHANGED <<answer, eventRow, eventJob, tries>>,
         stateRows' \in [DOMAIN stateRows' -> Nat],
         messages' \in Seq([event : Events, kind : Kinds]),
         Len(messages) <= Len(messages'), Len(messages') <= MaxMessages,
         filtered' \subseteq Messages
  PROVE  IntakeTypeOK' /\ JobInv'
<1>1. IntakeTypeOK'
  <2>1. \A v \in Intakes : intake'[v].at \notin {"idle", "find", "create"}
                             => intake'[v].msg \in 1..Len(messages')
    <3>1. \A v \in Intakes : v # w /\ intake[v].at \notin {"idle", "find", "create"}
            => intake[v].msg \in 1..Len(messages')
      BY LenProperties, BurstAssumption DEF IntakeTypeOK, Intake
    <3>2. intake'[w].at \in Places
      BY DEF Intake, Places
    <3>3. QED
      BY <3>1, <3>2 DEF Stored
  <2>2. QED
    BY <2>1 DEF IntakeTypeOK
<1>2. JobInv'
  <2>1. \A v \in Intakes : /\ Busy(v)' <=> Busy(v)
                           /\ TheEvent(v)' = TheEvent(v)
                           /\ intake'[v].owns = intake[v].owns
    BY DEF Busy, AtStep, TheEvent
  <2>2. RunsHaveJobs'
    BY <2>1 DEF JobInv, RunsHaveJobs
  <2>3. RunsAreApart'
    BY <2>1 DEF JobInv, RunsAreApart
  <2>4. JobFollowsRow' /\ AttemptsLeft'
    BY DEF JobInv, JobFollowsRow, AttemptsLeft
  <2>5. QED
    BY <2>2, <2>3, <2>4 DEF JobInv
<1>3. QED
  BY <1>1, <1>2

(* A run of the intake that ends hands its job back, if it still has it, and *)
(* keeps types and jobs if an attempt is left wherever the job waits again.  *)
LEMMA RunEnds ==
  ASSUME IntakeTypeOK, JobInv, NEW w \in Intakes, Busy(w),
         NEW j \in {"waiting", "completed", "failed"},
         NEW row \in {"pending", "processed", "failed"}, NEW n \in Nat,
         intake[w].owns => n \in 0..JobAttempts /\ (j = "waiting" => n < JobAttempts),
         intake' = [intake EXCEPT ![w] = IdleIntake], HandBack(w, j),
         tries' = IF intake[w].owns THEN [tries EXCEPT ![TheEvent(w)] = n] ELSE tries,
         eventRow' = [eventRow EXCEPT ![TheEvent(w)] = row],
         UNCHANGED <<answer, messages, stateRows, filtered>>
  PROVE  IntakeTypeOK' /\ JobInv'
<1>1. TheEvent(w) \in Events
  BY DEF JobInv, RunsHaveJobs
<1>2. IdleIntake \in Intake
  BY BurstAssumption DEF IdleIntake, Intake, Kinds
<1>3. \A v \in Intakes : intake'[v] = IF v = w THEN IdleIntake ELSE intake[v]
  BY DEF IntakeTypeOK
<1>4. IntakeTypeOK'
  <2>1. intake' \in [Intakes -> Intake]
    BY <1>2 DEF IntakeTypeOK
  <2>2. \A v \in Intakes : intake'[v].at \notin {"idle", "find", "create"}
                             => intake'[v].msg \in 1..Len(messages')
    BY <1>3 DEF IntakeTypeOK, IdleIntake
  <2>3. eventJob' \in [Events -> {"absent", "waiting", "active", "completed", "failed"}]
        /\ tries' \in [Events -> 0..JobAttempts]
    BY <1>1 DEF IntakeTypeOK, HandBack
  <2>4. eventRow' \in [Events -> {"absent", "pending", "processed", "failed"}]
    BY <1>1 DEF IntakeTypeOK
  <2>5. QED
    BY <2>1, <2>2, <2>3, <2>4 DEF IntakeTypeOK
<1>5. JobInv'
  <2> DEFINE e == TheEvent(w)
  <2>1. /\ eventJob[e] # "absent" /\ answer[e] # "adding"
        /\ intake[w].owns => eventJob[e] = "active"
    BY <1>1 DEF JobInv, RunsHaveJobs, JobFollowsRow
  <2>2. \A d \in Events :
           /\ eventJob'[d] = IF d = e /\ intake[w].owns THEN j ELSE eventJob[d]
           /\ tries'[d] = IF d = e /\ intake[w].owns THEN n ELSE tries[d]
           /\ eventRow'[d] = IF d = e THEN row ELSE eventRow[d]
    BY <1>1 DEF HandBack, IntakeTypeOK
  <2>3. RunsHaveJobs' /\ RunsAreApart'
    <3>1. \A v \in Intakes \ {w} : /\ Busy(v)' = Busy(v) /\ TheEvent(v)' = TheEvent(v)
                                    /\ intake'[v].owns = intake[v].owns
      BY <1>3 DEF Busy, AtStep, TheEvent
    <3>2. ~Busy(w)' /\ ~intake'[w].owns
      BY <1>3 DEF Busy, AtStep, IdleIntake
    <3>3. RunsHaveJobs /\ RunsAreApart
      BY DEF JobInv
    <3>4. RunsAreApart'
      BY <3>1, <3>2, <3>3 DEF RunsAreApart
    <3>5. \A v \in Intakes \ {w} :
             /\ Busy(v) => TheEvent(v) \in Events /\ eventJob'[TheEvent(v)] # "absent"
             /\ intake[v].owns => Busy(v) /\ eventJob'[TheEvent(v)] = "active"
      BY <2>2, <3>3 DEF RunsHaveJobs, RunsAreApart
    <3>6. RunsHaveJobs'
      BY <3>1, <3>2, <3>5 DEF RunsHaveJobs
    <3>7. QED
      BY <3>4, <3>6
  <2>4. JobFollowsRow'
    BY <1>1, <2>1, <2>2 DEF JobInv, JobFollowsRow
  <2>5. AttemptsLeft'
    BY <1>1, <2>1, <2>2 DEF JobInv, AttemptsLeft
  <2>6. QED
    BY <2>3, <2>4, <2>5 DEF JobInv
<1>6. QED
  BY <1>4, <1>5

(* An attempt that threw, and was not the last, goes back to the queue.     *)
LEMMA RunThrowsType ==
  ASSUME IntakeTypeOK, JobInv, NEW w \in Intakes, Busy(w), RunThrows(w),
         eventRow' = [eventRow EXCEPT ![TheEvent(w)] = "failed"] \/ UNCHANGED eventRow
  PROVE  IntakeTypeOK' /\ JobInv'
<1> DEFINE e == TheEvent(w)
<1>1. e \in Events /\ eventJob[e] # "absent" /\ (intake[w].owns => eventJob[e] = "active")
  BY DEF JobInv, RunsHaveJobs
<1>2. /\ tries[e] \in 0..JobAttempts /\ eventRow[e] # "absent"
      /\ intake[w].owns => tries[e] < JobAttempts
  BY <1>1 DEF JobInv, AttemptsLeft, JobFollowsRow, IntakeTypeOK
<1>3. PICK row \in {"pending", "processed", "failed"} :
        eventRow' = [eventRow EXCEPT ![e] = row]
  <2>1. CASE UNCHANGED eventRow
    BY <1>1, <1>2, <2>1 DEF IntakeTypeOK
  <2>2. QED
    BY <2>1
<1>4. tries[e] + 1 \in Nat /\ (intake[w].owns => tries[e] + 1 \in 0..JobAttempts)
  BY <1>2, IntakeAssumption
<1>5. /\ JobAfterThrow(e) \in {"waiting", "completed", "failed"}
      /\ JobAfterThrow(e) = "waiting" => tries[e] + 1 < JobAttempts
  BY DEF JobAfterThrow
<1>6. /\ intake' = [intake EXCEPT ![w] = IdleIntake] /\ HandBack(w, JobAfterThrow(e))
      /\ tries' = IF intake[w].owns THEN [tries EXCEPT ![e] = tries[e] + 1] ELSE tries
      /\ UNCHANGED <<answer, messages, stateRows, filtered>>
  BY DEF RunThrows
<1>7. QED
  BY <1>3, <1>4, <1>5, <1>6, RunEnds

-----------------------------------------------------------------------------
(* Endpoints and queue: a report, its answer and the fetch of its job keep   *)
(* types and jobs.                                                          *)
LEMMA ReportType ==
  ASSUME IntakeTypeOK, JobInv, NEW e \in Events, Report(e) \/ Enqueue(e) \/ EnqueueThrows(e)
  PROVE  IntakeTypeOK' /\ JobInv'
<1> USE DEF JobInv, RunsHaveJobs, RunsAreApart, JobFollowsRow, AttemptsLeft, Busy, AtStep,
            TheEvent
<1>1. CASE Report(e)
  <2>1. IntakeTypeOK'
    BY <1>1 DEF Report, IntakeTypeOK
  <2>2. JobInv'
    BY <1>1 DEF Report, IntakeTypeOK
  <2>3. QED BY <2>1, <2>2
<1>2. CASE Enqueue(e)
  <2>1. IntakeTypeOK'
    BY <1>2 DEF Enqueue, IntakeTypeOK
  <2>2. JobInv'
    BY <1>2, IntakeAssumption DEF Enqueue, IntakeTypeOK
  <2>3. QED BY <2>1, <2>2
<1>3. CASE EnqueueThrows(e)
  <2>1. IntakeTypeOK'
    BY <1>3 DEF EnqueueThrows, IntakeTypeOK
  <2>2. JobInv'
    BY <1>3 DEF EnqueueThrows, IntakeTypeOK
  <2>3. QED BY <2>1, <2>2
<1>4. QED
  BY <1>1, <1>2, <1>3

(* A run takes a waiting job and begins with its event.                     *)
LEMMA FetchType ==
  ASSUME IntakeTypeOK, JobInv, NEW w \in Intakes, NEW e \in Events, FetchEvent(w, e)
  PROVE  IntakeTypeOK' /\ JobInv'
<1>1. /\ intake' \in [Intakes -> Intake]
      /\ intake'[w].at = "find" /\ intake'[w].event = e /\ intake'[w].owns
      /\ \A v \in Intakes \ {w} : intake'[v] = intake[v]
  <2>1. intake \in [Intakes -> Intake]
    BY DEF IntakeTypeOK
  <2> DEFINE run == [intake[w] EXCEPT !.at = "find", !.event = e, !.owns = TRUE]
  <2>2. run \in Intake /\ run.at = "find" /\ run.event = e /\ run.owns
    BY <2>1 DEF Intake
  <2>3. intake' = [intake EXCEPT ![w] = run]
    BY Zenon DEF FetchEvent
  <2> HIDE DEF run
  <2>4. QED
    BY <2>1, <2>2, <2>3
<1>2. IntakeTypeOK'
  <2>1. \A v \in Intakes : intake'[v].at \notin {"idle", "find", "create"}
                             => intake'[v].msg \in 1..Len(messages')
    BY <1>1 DEF IntakeTypeOK, FetchEvent
  <2>2. QED
    BY <1>1, <2>1 DEF IntakeTypeOK, FetchEvent
<1>3. JobInv'
  <2>1. eventJob[e] = "waiting" /\ eventJob' = [eventJob EXCEPT ![e] = "active"]
        /\ UNCHANGED <<answer, eventRow, tries>>
    BY DEF FetchEvent
  <2>2. \A d \in Events : eventJob'[d] = IF d = e THEN "active" ELSE eventJob[d]
    BY <2>1 DEF IntakeTypeOK
  <2>3. \A v \in Intakes :
           /\ Busy(v) => TheEvent(v) \in Events /\ eventJob[TheEvent(v)] # "absent"
           /\ intake[v].owns => /\ Busy(v) /\ TheEvent(v) # e
                               /\ eventJob[TheEvent(v)] = "active"
    BY <2>1 DEF JobInv, RunsHaveJobs
  <2>4. \A v \in Intakes \ {w} : /\ Busy(v)' = Busy(v) /\ TheEvent(v)' = TheEvent(v)
                                  /\ intake'[v].owns = intake[v].owns
    BY <1>1 DEF Busy, AtStep, TheEvent
  <2>5. TheEvent(w)' = e /\ Busy(w)'
    BY <1>1 DEF TheEvent, Busy, AtStep
  <2>6. RunsHaveJobs'
    BY <2>2, <2>3, <2>4, <2>5 DEF RunsHaveJobs
  <2>7. RunsAreApart'
    BY <2>3, <2>4, <2>5 DEF RunsAreApart, JobInv
  <2>8. JobFollowsRow' /\ AttemptsLeft'
    BY <2>1 DEF JobInv, JobFollowsRow, AttemptsLeft, IntakeTypeOK
  <2>9. QED
    BY <2>6, <2>7, <2>8 DEF JobInv
<1>4. QED
  BY <1>2, <1>3

(* A restart leaves no run, and hands every active job out again.           *)
LEMMA IntakeRestartType ==
  ASSUME IntakeTypeOK, JobInv, IntakeRestart
  PROVE  IntakeTypeOK' /\ JobInv'
<1>1. IdleIntake \in Intake /\ IdleIntake.at = "idle" /\ ~IdleIntake.owns
  BY BurstAssumption DEF IdleIntake, Intake, Kinds
<1>2. IntakeTypeOK'
  BY <1>1 DEF IntakeRestart, IntakeTypeOK
<1>3. \A w \in Intakes : intake'[w].at = "idle" /\ ~intake'[w].owns
  BY <1>1 DEF IntakeRestart
<1>4. RunsHaveJobs' /\ RunsAreApart'
  BY <1>3 DEF RunsHaveJobs, RunsAreApart, Busy, AtStep
<1>5. JobFollowsRow' /\ AttemptsLeft'
  BY DEF IntakeRestart, JobInv, JobFollowsRow, AttemptsLeft
<1>6. QED
  BY <1>2, <1>4, <1>5 DEF JobInv

(* A job that is handed out again leaves its run without it.                *)
LEMMA IntakeStallsType ==
  ASSUME IntakeTypeOK, JobInv, NEW w \in Intakes, IntakeStalls(w)
  PROVE  IntakeTypeOK' /\ JobInv'
<1> DEFINE e == TheEvent(w)
<1>1. e \in Events /\ eventJob[e] = "active" /\ intake[w].owns /\ Busy(w)
  BY DEF IntakeStalls, JobInv, RunsHaveJobs
<1>2. /\ eventJob' = [eventJob EXCEPT ![e] = "waiting"]
      /\ intake' = [intake EXCEPT ![w].owns = FALSE]
      /\ UNCHANGED <<answer, eventRow, tries, messages, stateRows, filtered>>
  BY DEF IntakeStalls
<1>3. /\ intake' \in [Intakes -> Intake]
      /\ \A v \in Intakes : /\ intake'[v].at = intake[v].at
                             /\ intake'[v].event = intake[v].event
                             /\ intake'[v].msg = intake[v].msg
  BY <1>2 DEF IntakeTypeOK, Intake
<1>4. \A v \in Intakes : intake'[v].owns => intake[v].owns /\ v # w
  <2>1. ~intake'[w].owns
    BY <1>2 DEF IntakeTypeOK, Intake
  <2>2. \A v \in Intakes \ {w} : intake'[v] = intake[v]
    BY <1>2 DEF IntakeTypeOK
  <2>3. QED
    BY <2>1, <2>2
<1>5. IntakeTypeOK'
  BY <1>1, <1>2, <1>3 DEF IntakeTypeOK
<1>6. \A d \in Events : eventJob'[d] = IF d = e THEN "waiting" ELSE eventJob[d]
  BY <1>2 DEF IntakeTypeOK
<1>7. \A v \in Intakes : /\ Busy(v)' <=> Busy(v)
                         /\ TheEvent(v)' = TheEvent(v)
  BY <1>3 DEF Busy, AtStep, TheEvent
<1>8. RunsHaveJobs'
  <2>1. RunsHaveJobs /\ RunsAreApart
    BY DEF JobInv
  <2>2. \A v \in Intakes : intake'[v].owns => TheEvent(v) # e
    BY <1>1, <1>4, <2>1 DEF RunsAreApart
  <2>3. \A v \in Intakes : Busy(v) => /\ TheEvent(v) \in Events
                                     /\ eventJob'[TheEvent(v)] # "absent"
    BY <1>6, <2>1 DEF RunsHaveJobs
  <2>4. \A v \in Intakes : intake'[v].owns => /\ Busy(v)
                                             /\ eventJob'[TheEvent(v)] = "active"
    BY <1>4, <1>6, <2>1, <2>2 DEF RunsHaveJobs
  <2>5. QED
    BY <1>7, <2>3, <2>4 DEF RunsHaveJobs
<1>9. RunsAreApart'
  <2>1. RunsAreApart
    BY DEF JobInv
  <2>2. QED
    BY <1>4, <1>7, <2>1 DEF RunsAreApart
<1>10. JobFollowsRow' /\ AttemptsLeft'
  BY <1>1, <1>2, <1>6 DEF JobFollowsRow, AttemptsLeft, JobInv
<1>11. QED
  BY <1>5, <1>8, <1>9, <1>10 DEF JobInv

-----------------------------------------------------------------------------
(* The statements of a run keep types and jobs: it looks for the message of *)
(* its event, stores it, touches the sender's state row and filters.        *)
LEMMA FindType ==
  ASSUME IntakeTypeOK, JobInv, NEW w \in Intakes, NEW texts, FindMessage(w, texts)
  PROVE  IntakeTypeOK' /\ JobInv'
<1> DEFINE e == TheEvent(w)
<1>1. Busy(w) /\ e \in Events
  BY DEF FindMessage, Busy, AtStep, JobInv, RunsHaveJobs
<1>2. KindsOf(e, texts) \subseteq Kinds
  <2>1. NatureOf[e] \in Kinds /\ "self_text" \in Kinds
    BY <1>1, IntakeAssumption DEF Kinds
  <2>2. \A k \in KindsOf(e, texts) : k \in {NatureOf[e], "self_text"}
    <3>1. CASE BodyOf[e] \in texts \/ SameText(e) # {}
      BY <3>1 DEF KindsOf
    <3>2. CASE ~(BodyOf[e] \in texts \/ SameText(e) # {})
      BY <3>2 DEF KindsOf
    <3>3. QED
      BY <3>1, <3>2
  <2>3. QED
    BY <2>1, <2>2
<1>3. \A m \in KnownRows(e) : m \in 1..Len(messages) /\ m \in 0..MaxMessages
                                /\ messages[m].kind \in Kinds
  <2>1. Len(messages) \in Nat /\ Len(messages) <= MaxMessages
        /\ \A i \in 1..Len(messages) : messages[i] \in [event : Events, kind : Kinds]
    BY LenProperties, ElementOfSeq DEF IntakeTypeOK
  <2>2. \A i \in 1..Len(messages) : messages[i].kind \in Kinds /\ i \in 0..MaxMessages
    BY <2>1, BurstAssumption
  <2>3. \A m \in KnownRows(e) : m \in 1..Len(messages)
    BY DEF KnownRows, Rows
  <2>4. QED
    BY <2>2, <2>3
<1>4. /\ intake' \in [Intakes -> Intake] /\ intake'[w].at # "idle"
      /\ intake'[w].event = e /\ intake'[w].owns = intake[w].owns
      /\ intake'[w].at \in Stored => intake'[w].msg \in 1..Len(messages)
      /\ \A v \in Intakes \ {w} : intake'[v] = intake[v]
  <2>1. CASE \E m \in KnownRows(e) :
               intake' = [intake EXCEPT ![w].at = "state", ![w].msg = m,
                                        ![w].kind = messages[m].kind]
    <3>1. PICK m \in KnownRows(e) :
            intake' = [intake EXCEPT ![w].at = "state", ![w].msg = m,
                                     ![w].kind = messages[m].kind]
      BY <2>1
    <3>2. m \in 0..MaxMessages /\ m \in 1..Len(messages) /\ messages[m].kind \in Kinds
      BY <1>3
    <3> DEFINE k == messages[m].kind
    <3> HIDE DEF k
    <3>3. intake' = [intake EXCEPT ![w].at = "state", ![w].msg = m, ![w].kind = k]
      BY <3>1 DEF k
    <3>4. k \in Kinds
      BY <3>2 DEF k
    <3>5. intake' \in [Intakes -> Intake]
      <4>1. intake \in [Intakes -> Intake]
        BY DEF IntakeTypeOK
      <4>2. [intake[w] EXCEPT !.at = "state", !.msg = m, !.kind = k] \in Intake
        BY <3>2, <3>4, <4>1 DEF Intake
      <4>3. intake' = [intake EXCEPT ![w] = [intake[w] EXCEPT !.at = "state", !.msg = m,
                                                              !.kind = k]]
        BY <3>3, Zenon
      <4>4. QED
        BY <4>1, <4>2, <4>3
    <3>6. /\ intake'[w].at = "state" /\ intake'[w].event = e /\ intake'[w].msg = m
          /\ intake'[w].owns = intake[w].owns
      BY <3>2, <3>3, <3>4 DEF IntakeTypeOK, Intake, TheEvent
    <3>7. \A v \in Intakes \ {w} : intake'[v] = intake[v]
      BY <3>3 DEF IntakeTypeOK
    <3>8. QED
      BY <3>2, <3>5, <3>6, <3>7
  <2>2. CASE \E k \in KindsOf(e, texts) :
               intake' = [intake EXCEPT ![w].at = "create", ![w].kind = k]
    <3>1. PICK k \in Kinds : intake' = [intake EXCEPT ![w].at = "create", ![w].kind = k]
      BY <1>2, <2>2
    <3> DEFINE run == [intake[w] EXCEPT !.at = "create", !.kind = k]
    <3>2. intake \in [Intakes -> Intake]
      BY DEF IntakeTypeOK
    <3>3. /\ run \in Intake /\ run.at = "create" /\ run.event = intake[w].event
          /\ run.owns = intake[w].owns
      BY <3>2 DEF Intake
    <3>4. intake' = [intake EXCEPT ![w] = run]
      BY <3>1, Zenon
    <3> HIDE DEF run
    <3>5. intake' \in [Intakes -> Intake]
      BY <3>2, <3>3, <3>4
    <3>6. /\ intake'[w].at = "create" /\ intake'[w].event = e
          /\ intake'[w].owns = intake[w].owns
      BY <3>2, <3>3, <3>4 DEF TheEvent
    <3>7. \A v \in Intakes \ {w} : intake'[v] = intake[v]
      BY <3>2, <3>4
    <3>8. QED
      BY <3>5, <3>6, <3>7 DEF Stored
  <2>3. QED
    BY <2>1, <2>2 DEF FindMessage, KindOfRow
<1>5. UNCHANGED <<answer, eventRow, eventJob, tries, messages, stateRows, filtered>>
  BY DEF FindMessage
<1>6. /\ messages' \in Seq([event : Events, kind : Kinds])
      /\ Len(messages) <= Len(messages') /\ Len(messages') <= MaxMessages
      /\ stateRows' \in [DOMAIN stateRows' -> Nat] /\ filtered' \subseteq Messages
  BY <1>5, LenProperties DEF IntakeTypeOK
<1>7. QED
  BY <1>1, <1>4, <1>5, <1>6, RunGoesOn

(* A row is added: the run, which found none, stores its own event.         *)
LEMMA CreateType ==
  ASSUME IntakeTypeOK, JobInv, NEW w \in Intakes, CreateMessage(w)
  PROVE  IntakeTypeOK' /\ JobInv'
<1> DEFINE row == [event |-> TheEvent(w), kind |-> intake[w].kind]
<1>1. Busy(w) /\ TheEvent(w) \in Events
  BY DEF CreateMessage, Busy, AtStep, JobInv, RunsHaveJobs
<1>2. row \in [event : Events, kind : Kinds]
  BY <1>1 DEF IntakeTypeOK, Intake
<1>3. messages' = Append(messages, row)
  BY DEF CreateMessage
<1> HIDE DEF row
<1>4. messages' \in Seq([event : Events, kind : Kinds]) /\ Len(messages') = Len(messages) + 1
  BY <1>2, <1>3, AppendProperties DEF IntakeTypeOK
<1>5. Len(messages) \in Nat /\ Len(messages) < MaxMessages
  BY LenProperties DEF CreateMessage, IntakeTypeOK
<1>6. /\ intake' \in [Intakes -> Intake] /\ intake'[w].at # "idle"
      /\ intake'[w].event = TheEvent(w) /\ intake'[w].owns = intake[w].owns
      /\ intake'[w].at \in Stored => intake'[w].msg \in 1..Len(messages')
      /\ \A v \in Intakes \ {w} : intake'[v] = intake[v]
  <2>1. Len(messages) + 1 \in 0..MaxMessages /\ Len(messages) + 1 \in 1..Len(messages')
    BY <1>4, <1>5, BurstAssumption
  <2>2. intake' = [intake EXCEPT ![w].at = "state", ![w].msg = Len(messages) + 1]
    BY DEF CreateMessage
  <2>3. QED
    BY <2>1, <2>2 DEF IntakeTypeOK, Intake, TheEvent
<1>7. UNCHANGED <<answer, eventRow, eventJob, tries, stateRows, filtered>>
  BY DEF CreateMessage
<1>8. /\ Len(messages) <= Len(messages') /\ Len(messages') <= MaxMessages
      /\ stateRows' \in [DOMAIN stateRows' -> Nat] /\ filtered' \subseteq Messages
  BY <1>4, <1>5, <1>7, BurstAssumption DEF IntakeTypeOK
<1>9. QED
  BY <1>1, <1>4, <1>6, <1>7, <1>8, RunGoesOn

(* A run that only moves on to another statement after the message is there. *)
LEMMA StepType ==
  ASSUME IntakeTypeOK, JobInv, NEW w \in Intakes, intake[w].at \in Stored,
         NEW pc \in Stored, Step(w, pc),
         UNCHANGED <<answer, eventRow, eventJob, tries, messages>>,
         stateRows' \in [DOMAIN stateRows' -> Nat], filtered' \subseteq Messages
  PROVE  IntakeTypeOK' /\ JobInv'
<1>1. Busy(w)
  BY DEF Busy, AtStep, Stored
<1>2. /\ intake' \in [Intakes -> Intake] /\ intake'[w].at # "idle"
      /\ intake'[w].event = TheEvent(w) /\ intake'[w].msg = intake[w].msg
      /\ intake'[w].owns = intake[w].owns
      /\ \A v \in Intakes \ {w} : intake'[v] = intake[v]
  <2> DEFINE run == [intake[w] EXCEPT !.at = pc]
  <2>1. intake \in [Intakes -> Intake]
    BY DEF IntakeTypeOK
  <2>2. /\ run \in Intake /\ run.at # "idle" /\ run.event = intake[w].event
        /\ run.msg = intake[w].msg /\ run.owns = intake[w].owns
    BY <2>1 DEF Intake, Stored, Places
  <2>3. intake' = [intake EXCEPT ![w] = run]
    BY Zenon DEF Step
  <2> HIDE DEF run
  <2>4. QED
    BY <2>1, <2>2, <2>3 DEF TheEvent
<1>3. intake[w].msg \in 1..Len(messages')
  BY DEF IntakeTypeOK, Stored, Places
<1>4. /\ messages' \in Seq([event : Events, kind : Kinds])
      /\ Len(messages) <= Len(messages') /\ Len(messages') <= MaxMessages
  BY LenProperties DEF IntakeTypeOK
<1>5. QED
  BY <1>1, <1>2, <1>3, <1>4, RunGoesOn

(* Touching the state row moves the run on, or fails the attempt.           *)
LEMMA TouchType ==
  ASSUME IntakeTypeOK, JobInv, NEW w \in Intakes, TouchState(w) \/ CreateState(w)
  PROVE  IntakeTypeOK' /\ JobInv'
<1>1. intake[w].at \in Stored
  BY DEF TouchState, CreateState, AtStep, Stored, Places
<1>2. CASE TouchState(w)
  <2>1. PICK pc \in {"filter", "newstate"} : Step(w, pc)
    BY <1>2 DEF TouchState
  <2>2. pc \in Stored
    BY DEF Stored, Places
  <2>3. /\ UNCHANGED <<answer, eventRow, eventJob, tries, messages>>
        /\ stateRows' \in [DOMAIN stateRows' -> Nat] /\ filtered' \subseteq Messages
    BY <1>2 DEF TouchState, IntakeTypeOK
  <2>4. QED
    BY <1>1, <2>1, <2>2, <2>3, StepType
<1>3. CASE CreateState(w)
  <2>1. Step(w, "filter") /\ "filter" \in Stored
    BY <1>3 DEF CreateState, Stored, Places
  <2>2. UNCHANGED <<answer, eventRow, eventJob, tries, messages>>
    BY <1>3 DEF CreateState
  <2>3. stateRows' \in [DOMAIN stateRows' -> Nat]
    <3> DEFINE u == SenderOf[TheEvent(w)]
    <3>1. stateRows' = [stateRows EXCEPT ![u] = stateRows[u] + 1]
      BY <1>3 DEF CreateState
    <3>2. stateRows \in [DOMAIN stateRows -> Nat]
      BY DEF IntakeTypeOK
    <3> HIDE DEF u
    <3>3. u \in DOMAIN stateRows => stateRows[u] + 1 \in Nat
      BY <3>2
    <3>4. QED
      BY <3>1, <3>2, <3>3
  <2>4. filtered' \subseteq Messages
    BY <1>3 DEF CreateState, IntakeTypeOK
  <2>5. QED
    BY <1>1, <2>1, <2>2, <2>3, <2>4, StepType
<1>4. QED
  BY <1>2, <1>3

(* Filtering ends the run, or lets the message go on to the burst.          *)
LEMMA FilterType ==
  ASSUME IntakeTypeOK, JobInv, NEW w \in Intakes, Filter(w)
  PROVE  IntakeTypeOK' /\ JobInv'
<1>1. intake[w].at \in Stored
  BY DEF Filter, AtStep, Stored, Places
<1>2. PICK pc \in {"mark", "push"} : Step(w, pc)
  BY DEF Filter
<1>3. pc \in Stored
  BY DEF Stored, Places
<1>4. intake[w].msg \in 1..Len(messages)
  BY <1>1 DEF IntakeTypeOK, Stored
<1>5. intake[w].msg \in Messages
  BY <1>4, LenProperties, BurstAssumption DEF IntakeTypeOK, Messages
<1>6. filtered' \subseteq Messages
  BY <1>5 DEF Filter, SkipTrace, IntakeTypeOK
<1>7. UNCHANGED <<answer, eventRow, eventJob, tries, messages, stateRows>>
  BY DEF Filter
<1>8. stateRows' \in [DOMAIN stateRows' -> Nat]
  BY <1>7 DEF IntakeTypeOK
<1>9. QED
  BY <1>1, <1>2, <1>3, <1>6, <1>7, <1>8, StepType

(* A run that is through hands its job back as completed, and one that the  *)
(* state row refuses or a fault stops hands it back to be retried.          *)
LEMMA LeaveType ==
  ASSUME IntakeTypeOK, JobInv, NEW w \in Intakes,
         MarkProcessed(w) \/ StateRefused(w) \/ IntakeThrows(w)
  PROVE  IntakeTypeOK' /\ JobInv'
<1>1. Busy(w)
  BY DEF MarkProcessed, StateRefused, IntakeThrows, Busy, AtStep
<1>2. CASE MarkProcessed(w)
  <2>1. TheEvent(w) \in Events
    BY <1>1 DEF JobInv, RunsHaveJobs
  <2>2. tries[TheEvent(w)] \in 0..JobAttempts
    BY <2>1 DEF IntakeTypeOK
  <2>3. tries' = IF intake[w].owns THEN [tries EXCEPT ![TheEvent(w)] = tries[TheEvent(w)]]
                                  ELSE tries
    BY <1>2 DEF MarkProcessed, IntakeTypeOK
  <2>4. /\ intake' = [intake EXCEPT ![w] = IdleIntake] /\ HandBack(w, "completed")
        /\ eventRow' = [eventRow EXCEPT ![TheEvent(w)] = "processed"]
        /\ UNCHANGED <<answer, messages, stateRows, filtered>>
    BY <1>2 DEF MarkProcessed
  <2>5. tries[TheEvent(w)] \in Nat
    BY <2>2, IntakeAssumption
  <2>6. QED
    BY <1>1, <2>2, <2>3, <2>4, <2>5, RunEnds
<1>3. CASE StateRefused(w) \/ IntakeThrows(w)
  BY <1>1, <1>3, RunThrowsType DEF StateRefused, IntakeThrows
<1>4. QED
  BY <1>2, <1>3

-----------------------------------------------------------------------------
(* What a step of a flush run leaves of the other runs and of the types.    *)
MainJobs == {"absent", "delayed", "active", "finished"}

(* A step that changes run s alone keeps the types if run s keeps its own.  *)
LEMMA RunTypes ==
  ASSUME BurstTypeOK, NEW s \in Slots,
         flush' \in [Slots -> Flush], \A r \in Slots \ {s} : flush'[r] = flush[r],
         flush'[s].at \in UnderLock \cup {"delete", "lock"} => flush'[s].ids # {},
         burst' \subseteq Messages, mainJob' \in MainJobs, retryJobs' \in Nat,
         lock' \in Slots \cup {NoHolder, Gone}, taken' \subseteq Messages,
         plan' = plan, faults' \subseteq plan
  PROVE  BurstTypeOK'
BY DEF BurstTypeOK, MainJobs

(* A run that only moves on. *)
LEMMA GoesOn ==
  ASSUME flush \in [Slots -> Flush], NEW s \in Slots,
         NEW pc \in {"idle"} \cup BeforeLock \cup UnderLock, GoOn(s, pc)
  PROVE  /\ flush' \in [Slots -> Flush]
         /\ \A r \in Slots \ {s} : flush'[r] = flush[r]
         /\ flush'[s].at = pc /\ flush'[s].ids = flush[s].ids
         /\ flush'[s].job = flush[s].job /\ flush'[s].late = flush[s].late
         /\ flush'[s].trace = flush[s].trace /\ flush'[s].body = flush[s].body
BY DEF GoOn, Flush, BeforeLock, UnderLock

(* A run that ends gives its slot back.                                     *)
LEMMA RunOver ==
  ASSUME BurstTypeOK, NEW s \in Slots, EndRun(s)
  PROVE  /\ flush' \in [Slots -> Flush]
         /\ \A r \in Slots \ {s} : flush'[r] = flush[r]
         /\ flush'[s] = NoRun /\ flush'[s].at = "idle" /\ ~flush'[s].late
         /\ mainJob' \in MainJobs
<1>1. NoRun \in Flush
  BY DEF NoRun, Flush, Messages
<1>2. flush' = [flush EXCEPT ![s] = NoRun] /\ flush \in [Slots -> Flush]
  BY DEF EndRun, BurstTypeOK
<1>3. mainJob' \in MainJobs
  BY DEF EndRun, BurstTypeOK, MainJobs
<1>4. NoRun.at = "idle" /\ ~NoRun.late
  BY DEF NoRun
<1>5. QED
  BY <1>1, <1>2, <1>3, <1>4

(* The run that begins. *)
LEMMA RunBegins ==
  ASSUME BurstTypeOK, NEW s \in Slots, StartFlush(s)
  PROVE  /\ flush' \in [Slots -> Flush]
         /\ \A r \in Slots \ {s} : flush'[r] = flush[r]
         /\ flush'[s].at = "read" /\ flush'[s].late = flush[s].late
         /\ flush'[s].trace = flush[s].trace /\ flush'[s].job \in {"main", "retry"}
         /\ mainJob' \in MainJobs /\ retryJobs' \in Nat
<1>1. flush \in [Slots -> Flush]
  BY DEF BurstTypeOK
<1>2. PICK j \in {"main", "retry"} :
        flush' = [flush EXCEPT ![s].at = "read", ![s].job = j]
  BY DEF StartFlush
<1>3. /\ flush' \in [Slots -> Flush]
      /\ flush'[s].at = "read" /\ flush'[s].late = flush[s].late
      /\ flush'[s].trace = flush[s].trace /\ flush'[s].job \in {"main", "retry"}
  BY <1>1, <1>2 DEF Flush, BeforeLock
<1>4. \A r \in Slots \ {s} : flush'[r] = flush[r]
  BY <1>1, <1>2
<1>5. mainJob' \in MainJobs /\ retryJobs' \in Nat
  BY DEF StartFlush, BurstTypeOK, MainJobs
<1>6. QED
  BY <1>3, <1>4, <1>5

(* Reading the list: the run ends, or it has messages in hand. *)
LEMMA RunReads ==
  ASSUME BurstTypeOK, NEW s \in Slots, ReadList(s), ~NothingCollected
  PROVE  /\ flush' \in [Slots -> Flush]
         /\ \A r \in Slots \ {s} : flush'[r] = flush[r]
         /\ flush'[s].at = "delete" /\ flush'[s].late = flush[s].late
         /\ flush'[s].trace = flush[s].trace
         /\ flush'[s].ids = burst /\ burst # {}
<1>1. flush' = [flush EXCEPT ![s].at = "delete", ![s].ids = burst] /\ burst # {}
  BY DEF ReadList, NothingCollected
<1>2. flush \in [Slots -> Flush] /\ burst \in SUBSET Messages
  BY DEF BurstTypeOK
<1>3. QED
  BY <1>1, <1>2 DEF Flush, BeforeLock

(* One message goes back into the list. *)
LEMMA RunGivesBack ==
  ASSUME BurstTypeOK, NEW s \in Slots, PushBack(s)
  PROVE  /\ flush' \in [Slots -> Flush]
         /\ \A r \in Slots \ {s} : flush'[r] = flush[r]
         /\ flush'[s].at = "pushback" /\ flush'[s].late = flush[s].late
         /\ flush'[s].trace = flush[s].trace
         /\ burst' \subseteq Messages
<1>1. PICK m \in flush[s].ids :
        burst' = burst \cup {m} /\ flush' = [flush EXCEPT ![s].ids = flush[s].ids \ {m}]
  BY DEF PushBack
<1>2. flush \in [Slots -> Flush] /\ burst \subseteq Messages
      /\ flush[s].ids \in SUBSET Messages
  BY DEF BurstTypeOK, Flush
<1>3. flush[s].at = "pushback"
  BY DEF PushBack, At
<1> DEFINE rest == flush[s].ids \ {m}
<1>4. rest \in SUBSET Messages /\ flush' = [flush EXCEPT ![s].ids = rest]
  BY <1>1, <1>2
<1> HIDE DEF rest
<1>5. QED
  BY <1>1, <1>2, <1>3, <1>4 DEF Flush

-----------------------------------------------------------------------------
(* Every step of a flush run before the lock, at the lock and after the     *)
(* answer keeps the types of the burst.                                     *)
LEMMA FlushType ==
  ASSUME BurstTypeOK, NEW s \in Slots, FlushProgress(s), UNCHANGED faultVars
  PROVE  BurstTypeOK'
<1>1. /\ flush \in [Slots -> Flush] /\ burst \subseteq Messages /\ mainJob \in MainJobs
      /\ retryJobs \in Nat /\ lock \in Slots \cup {NoHolder, Gone}
      /\ taken \subseteq Messages /\ faults \subseteq plan
      /\ flush[s].ids \subseteq Messages
  BY DEF BurstTypeOK, MainJobs, Flush
<1>2. plan' = plan /\ faults' \subseteq plan
  BY <1>1 DEF faultVars
<1>3. CASE StartFlush(s)
  <2>1. burst' = burst /\ lock' = lock /\ taken' = taken
    BY <1>3 DEF StartFlush
  <2>2. QED
    BY <1>1, <1>2, <1>3, <2>1, RunBegins, RunTypes DEF UnderLock
<1>4. CASE ReadList(s) /\ NothingCollected
  <2>1. EndRun(s) /\ burst' = burst /\ retryJobs' = retryJobs /\ lock' = lock /\ taken' = taken
    BY <1>4 DEF ReadList
  <2>2. QED
    BY <1>1, <1>2, <2>1, RunOver, RunTypes DEF UnderLock
<1>5. CASE ReadList(s) /\ ~NothingCollected
  <2>1. UNCHANGED <<mainJob, burst, retryJobs, lock, taken>>
    BY <1>5 DEF ReadList
  <2>2. QED
    BY <1>1, <1>2, <1>5, <2>1, RunReads, RunTypes
<1>6. CASE DeleteList(s)
  <2>1. /\ burst' = {} /\ UNCHANGED <<mainJob, retryJobs, lock, taken>>
        /\ GoOn(s, "lock") /\ flush[s].at = "delete"
    BY <1>6 DEF DeleteList, At
  <2>2. flush[s].ids # {}
    BY <2>1 DEF BurstTypeOK
  <2>3. QED
    BY <1>1, <1>2, <2>1, <2>2, GoesOn, RunTypes DEF BeforeLock
<1>7. CASE TakeLock(s)
  <2>1. /\ lock' = s /\ taken' = taken \cup flush[s].ids /\ GoOn(s, "decide")
        /\ UNCHANGED <<burst, mainJob, retryJobs>> /\ flush[s].at = "lock"
    BY <1>7 DEF TakeLock, At
  <2>2. flush[s].ids # {}
    BY <2>1 DEF BurstTypeOK
  <2>3. QED
    BY <1>1, <1>2, <2>1, <2>2, GoesOn, RunTypes DEF UnderLock
<1>8. CASE LockBusy(s)
  <2>1. UNCHANGED <<burst, mainJob, retryJobs, lock, taken>> /\ GoOn(s, "pushback")
    BY <1>8 DEF LockBusy
  <2>2. QED
    BY <1>1, <1>2, <2>1, GoesOn, RunTypes DEF BeforeLock, UnderLock
<1>9. CASE PushBack(s)
  <2>1. UNCHANGED <<mainJob, retryJobs, lock, taken>>
    BY <1>9 DEF PushBack
  <2>2. QED
    BY <1>1, <1>2, <1>9, <2>1, RunGivesBack, RunTypes DEF UnderLock
<1>10. CASE AddRetry(s)
  <2>1. EndRun(s) /\ UNCHANGED <<burst, lock, taken>> /\ retryJobs' \in Nat
    BY <1>1, <1>10 DEF AddRetry
  <2>2. QED
    BY <1>1, <1>2, <2>1, RunOver, RunTypes DEF UnderLock
<1>11. CASE ReleaseLock(s)
  <2>1. EndRun(s) /\ UNCHANGED <<burst, retryJobs, taken>> /\ lock' = AfterRelease(s)
    BY <1>11 DEF ReleaseLock
  <2>2. lock' \in Slots \cup {NoHolder, Gone}
    BY <1>1, <2>1 DEF AfterRelease
  <2>3. QED
    BY <1>1, <1>2, <2>1, <2>2, RunOver, RunTypes DEF UnderLock
<1>12. QED
  BY <1>3, <1>4, <1>5, <1>6, <1>7, <1>8, <1>9, <1>10, <1>11 DEF FlushProgress

-----------------------------------------------------------------------------
(* A nonempty set of positions of a sequence has a maximum.                 *)
LEMMA MaxOf ==
  ASSUME NEW N \in Nat, NEW S \in SUBSET (1..N), S # {}
  PROVE  Max(S) \in S /\ \A y \in S : Max(S) >= y
<1> DEFINE gap == {N - y : y \in S}
<1>1. gap \subseteq Nat /\ gap # {}
  <2>1. \A y \in S : y \in 1..N
    OBVIOUS
  <2>2. \A y \in S : N - y \in Nat
    BY <2>1
  <2>3. gap \subseteq Nat
    BY <2>2
  <2>4. gap # {}
    BY Zenon
  <2>5. QED
    BY <2>3, <2>4
<1> HIDE DEF gap
<1>2. PICK g \in gap : \A h \in gap : <<h, g>> \notin OpToRel(<, Nat)
  BY <1>1, WFMin, NatLessThanWellFounded, Zenon
<1>3. \A h \in gap : ~(h < g)
  BY <1>1, <1>2, Zenon DEF OpToRel
<1>4. PICK x \in S : g = N - x
  BY DEF gap
<1>5. \A y \in S : x >= y
  BY <1>3, <1>4 DEF gap
<1>6. QED
  BY <1>5 DEF Max

-----------------------------------------------------------------------------
(* What a run has under the lock: a body to write, and after that a row of  *)
(* the outbox with its trace.                                               *)
HasReply(s) ==
    /\ At(s, "outbound") => flush[s].body \in Bodies
    /\ flush[s].at \in {"complete", "queue"} =>
          \E o \in 1..Len(outbox) : outbox[o].trace = flush[s].trace

HaveReplies == \A s \in Slots : HasReply(s)

(* Rows of traces and outbox keep their types when one is added or changed. *)
LEMMA TraceAdded ==
  ASSUME BurstTypeOK, ReplyTypeOK, NEW s \in Slots, flush[s].at \in UnderLock,
         NEW st \in {"pending", "skipped_no_reply"}, NewTrace(s, st)
  PROVE  traces' \in Seq(Trace) /\ Len(traces') = Len(traces) + 1
<1>1. flush[s].ids \in SUBSET (1..MaxMessages) /\ flush[s].ids # {}
  BY DEF BurstTypeOK, Flush, Messages
<1>2. Anchor(s) \in Messages
  BY <1>1, MaxOf, BurstAssumption DEF Anchor, Messages
<1>3. [anchor |-> Anchor(s), status |-> st, outbound |-> 0] \in Trace
  BY <1>2 DEF Trace
<1>4. QED
  BY <1>3, AppendProperties DEF NewTrace, ReplyTypeOK

(* A row of traces changed in its state and its row.                        *)
LEMMA TraceSet ==
  ASSUME ReplyTypeOK, NEW i, NEW st \in {"completed", "skipped_filter", "failed"},
         NEW o \in Nat,
         \/ traces' = [traces EXCEPT ![i].status = st]
         \/ traces' = [traces EXCEPT ![i].status = st, ![i].outbound = o]
  PROVE  traces' \in Seq(Trace) /\ Len(traces') = Len(traces)
<1>1. PICK n \in Nat : traces \in [1..n -> Trace]
  BY DEF ReplyTypeOK
<1>2. CASE i \in 1..n
  <2>1. traces' \in [1..n -> Trace]
    <3>1. CASE traces' = [traces EXCEPT ![i].status = st]
      BY <1>1, <1>2, <3>1 DEF Trace
    <3>2. CASE traces' = [traces EXCEPT ![i].status = st, ![i].outbound = o]
      BY <1>1, <1>2, <3>2 DEF Trace
    <3>3. QED
      BY <3>1, <3>2
  <2>2. QED
    BY <1>1, <2>1
<1>3. CASE i \notin 1..n
  <2>1. traces' = traces
    BY <1>1, <1>3
  <2>2. QED
    BY <2>1 DEF ReplyTypeOK
<1>4. QED
  BY <1>2, <1>3

(* A row of the outbox changed in its state.                                *)
LEMMA OutboxSet ==
  ASSUME ReplyTypeOK, NEW i, NEW b \in BOOLEAN,
         outbox' = [outbox EXCEPT ![i].queued = b] \/ outbox' = [outbox EXCEPT ![i].live = b]
  PROVE  /\ outbox' \in Seq(Outbound) /\ Len(outbox') = Len(outbox)
         /\ \A o \in 1..Len(outbox) : outbox'[o].trace = outbox[o].trace
<1>1. PICK n \in Nat : outbox \in [1..n -> Outbound]
  BY DEF ReplyTypeOK
<1>2. CASE i \in 1..n
  <2>1. outbox' \in [1..n -> Outbound] /\ \A o \in 1..n : outbox'[o].trace = outbox[o].trace
    <3>1. CASE outbox' = [outbox EXCEPT ![i].queued = b]
      BY <1>1, <1>2, <3>1 DEF Outbound
    <3>2. CASE outbox' = [outbox EXCEPT ![i].live = b]
      BY <1>1, <1>2, <3>2 DEF Outbound
    <3>3. QED
      BY <3>1, <3>2
  <2>2. QED
    BY <1>1, <2>1
<1>3. CASE i \notin 1..n
  <2>1. outbox' = outbox
    BY <1>1, <1>3
  <2>2. QED
    BY <2>1 DEF ReplyTypeOK
<1>4. QED
  BY <1>2, <1>3

(* The others keep what they have while rows are only added and changed in  *)
(* their other columns.                                                     *)
LEMMA RepliesKept ==
  ASSUME HaveReplies, NEW s \in Slots, \A r \in Slots \ {s} : flush'[r] = flush[r],
         Len(outbox) \in Nat, Len(outbox') \in Nat, Len(outbox) <= Len(outbox'),
         \A o \in 1..Len(outbox) : outbox'[o].trace = outbox[o].trace,
         flush'[s].at = "outbound" => flush'[s].body \in Bodies,
         flush'[s].at \in {"complete", "queue"} =>
           \E o \in 1..Len(outbox') : outbox'[o].trace = flush'[s].trace
  PROVE  HaveReplies'
<1>1. ASSUME NEW r \in Slots \ {s}
      PROVE  HasReply(r)'
  <2>1. flush'[r] = flush[r] /\ HasReply(r)
    BY <1>1 DEF HaveReplies
  <2>2. \A o \in 1..Len(outbox) : o \in 1..Len(outbox')
    OBVIOUS
  <2>3. QED
    BY <2>1, <2>2 DEF HasReply, At
<1>2. HasReply(s)'
  BY DEF HasReply, At
<1>3. QED
  BY <1>1, <1>2 DEF HaveReplies

(* While the outbox stays as it is, a run that goes elsewhere needs no reply. *)
LEMMA NoReplyNeeded ==
  ASSUME ReplyTypeOK, HaveReplies, NEW s \in Slots,
         \A r \in Slots \ {s} : flush'[r] = flush[r],
         outbox' = outbox, flush'[s].at \notin {"outbound", "complete", "queue"}
  PROVE  HaveReplies'
<1>1. Len(outbox) \in Nat
  BY LenProperties DEF ReplyTypeOK
<1>2. QED
  BY <1>1, RepliesKept

(* Every step of a flush run under the lock keeps the types and gives the   *)
(* run what its next statement needs.                                       *)
LEMMA ReplyType ==
  ASSUME BurstTypeOK, ReplyTypeOK, HaveReplies, NEW s \in Slots,
         ReplyProgress(s) \/ ReplyThrows(s), plan' = plan, faults' \subseteq plan
  PROVE  BurstTypeOK' /\ ReplyTypeOK' /\ HaveReplies'
<1>1. /\ flush \in [Slots -> Flush] /\ burst \subseteq Messages /\ mainJob \in MainJobs
      /\ retryJobs \in Nat /\ lock \in Slots \cup {NoHolder, Gone}
      /\ taken \subseteq Messages
  BY DEF BurstTypeOK, MainJobs
<1>2. /\ flush[s].at \in UnderLock /\ flush[s].ids # {}
      /\ UNCHANGED <<burst, mainJob, retryJobs, lock, taken>>
  BY DEF ReplyProgress, ReplyThrows, Decide, Generate, CreateOutbound, CompleteTrace,
         QueueReply, At, UnderLock, Working, BurstTypeOK
<1>3. Len(outbox) \in Nat /\ Len(traces) \in Nat
  BY LenProperties DEF ReplyTypeOK
<1>4. ASSUME traces' \in Seq(Trace), outbox' \in Seq(Outbound), Len(outbox) <= Len(outbox')
       PROVE  ReplyTypeOK'
  <2>1. aged' = aged
    BY DEF ReplyProgress, ReplyThrows, Decide, Generate, CreateOutbound, CompleteTrace,
           QueueReply
  <2>2. Len(outbox') \in Nat
    BY <1>4, LenProperties
  <2>3. QED
    BY <1>3, <1>4, <2>1, <2>2 DEF ReplyTypeOK
<1>5. ASSUME flush' \in [Slots -> Flush], \A r \in Slots \ {s} : flush'[r] = flush[r],
             flush'[s].ids = flush[s].ids
      PROVE  BurstTypeOK'
  BY <1>1, <1>2, <1>5, RunTypes
<1>6. ASSUME NEW pc \in {"idle"} \cup BeforeLock \cup UnderLock, GoOn(s, pc),
             pc \notin {"outbound", "complete", "queue"}, outbox' = outbox
      PROVE  /\ BurstTypeOK' /\ HaveReplies' /\ outbox' \in Seq(Outbound)
             /\ Len(outbox) <= Len(outbox')
  <2>1. BurstTypeOK'
    BY <1>1, <1>5, <1>6, GoesOn
  <2>2. HaveReplies'
    BY <1>1, <1>6, GoesOn, NoReplyNeeded
  <2>3. outbox' \in Seq(Outbound) /\ Len(outbox) <= Len(outbox')
    BY <1>3, <1>6 DEF ReplyTypeOK
  <2>4. QED
    BY <2>1, <2>2, <2>3
<1>7. "release" \in {"idle"} \cup BeforeLock \cup UnderLock
  BY DEF UnderLock
<1>8. CASE Decide(s)
  <2>1. outbox' = outbox
    BY <1>8 DEF Decide
  <2>2. CASE GoOn(s, "release") /\ UNCHANGED traces
    BY <1>4, <1>6, <1>7, <2>1, <2>2 DEF ReplyTypeOK
  <2>3. CASE GoOn(s, "release") /\ NewTrace(s, "skipped_no_reply")
    <3>1. traces' \in Seq(Trace)
      BY <1>2, <2>3, TraceAdded
    <3>2. QED
      BY <1>4, <1>6, <1>7, <2>1, <2>3, <3>1
  <2>4. CASE /\ NewTrace(s, "pending")
             /\ flush' = [flush EXCEPT ![s].at = "generate", ![s].trace = Len(traces) + 1]
    <3>1. traces' \in Seq(Trace)
      BY <1>2, <2>4, TraceAdded
    <3>2. Len(traces) + 1 \in Nat
      BY <1>3
    <3>3. /\ flush' \in [Slots -> Flush] /\ flush'[s].ids = flush[s].ids
          /\ flush'[s].at = "generate"
      BY <1>1, <2>4, <3>2 DEF Flush, UnderLock
    <3>4. \A r \in Slots \ {s} : flush'[r] = flush[r]
      BY <1>1, <2>4
    <3>5. HaveReplies'
      BY <2>1, <3>3, <3>4, NoReplyNeeded
    <3>6. QED
      BY <1>3, <1>4, <1>5, <2>1, <3>1, <3>3, <3>4, <3>5 DEF ReplyTypeOK
  <2>5. QED
    BY <1>8, <2>2, <2>3, <2>4 DEF Decide
<1>9. CASE Generate(s)
  <2>1. outbox' = outbox
    BY <1>9 DEF Generate
  <2>2. PICK b \in ReplyBodies :
          \/ SetTrace(s, "skipped_filter") /\ GoOn(s, "release")
          \/ /\ flush' = [flush EXCEPT ![s].at = "outbound", ![s].body = b]
             /\ UNCHANGED traces
    BY <1>9 DEF Generate
  <2>3. CASE SetTrace(s, "skipped_filter") /\ GoOn(s, "release")
    <3>1. traces' \in Seq(Trace)
      BY <2>3, TraceSet DEF SetTrace
    <3>2. QED
      BY <1>4, <1>6, <1>7, <2>1, <2>3, <3>1
  <2>4. CASE /\ flush' = [flush EXCEPT ![s].at = "outbound", ![s].body = b]
             /\ UNCHANGED traces
    <3>1. b \in Bodies
      BY ReplyAssumption
    <3>2. /\ flush' \in [Slots -> Flush] /\ flush'[s].ids = flush[s].ids
          /\ flush'[s].at = "outbound" /\ flush'[s].body = b
      BY <1>1, <2>4, <3>1 DEF Flush, UnderLock
    <3>3. \A r \in Slots \ {s} : flush'[r] = flush[r]
      BY <1>1, <2>4
    <3>4. HaveReplies'
      BY <1>3, <2>1, <3>1, <3>2, <3>3, RepliesKept
    <3>5. QED
      BY <1>3, <1>4, <1>5, <2>1, <2>4, <3>2, <3>3, <3>4 DEF ReplyTypeOK
  <2>5. QED
    BY <2>2, <2>3, <2>4
<1>10. CASE CreateOutbound(s)
  <2> DEFINE row == [anchor |-> Anchor(s), body |-> flush[s].body, trace |-> flush[s].trace,
                     live |-> TRUE, queued |-> FALSE]
  <2>1. flush[s].ids \in SUBSET (1..MaxMessages)
    BY <1>1 DEF Flush, Messages
  <2>2. Anchor(s) \in Messages
    BY <1>2, <2>1, MaxOf, BurstAssumption DEF Anchor, Messages
  <2>3. flush[s].body \in Bodies /\ flush[s].trace \in Nat
    BY <1>1, <1>10 DEF CreateOutbound, HaveReplies, HasReply, Flush
  <2>4. row \in Outbound /\ row.trace = flush[s].trace
    BY <2>2, <2>3 DEF Outbound
  <2>5. /\ outbox' = Append(outbox, row) /\ UNCHANGED traces
        /\ GoOn(s, "complete")
    BY <1>10 DEF CreateOutbound, GoOn
  <2> HIDE DEF row
  <2>6. /\ outbox' \in Seq(Outbound) /\ Len(outbox') = Len(outbox) + 1
        /\ \A o \in 1..Len(outbox) : outbox'[o] = outbox[o]
        /\ outbox'[Len(outbox) + 1] = row
    BY <2>4, <2>5, AppendProperties DEF ReplyTypeOK
  <2>7. /\ flush' \in [Slots -> Flush] /\ \A r \in Slots \ {s} : flush'[r] = flush[r]
        /\ flush'[s].at = "complete" /\ flush'[s].ids = flush[s].ids
        /\ flush'[s].trace = flush[s].trace
    BY <1>1, <2>5, GoesOn DEF UnderLock
  <2>8. \E o \in 1..Len(outbox') : outbox'[o].trace = flush'[s].trace
    BY <1>3, <2>4, <2>6, <2>7
  <2>9. HaveReplies'
    BY <1>3, <2>6, <2>7, <2>8, RepliesKept
  <2>10. QED
    BY <1>3, <1>4, <1>5, <2>5, <2>6, <2>7, <2>9 DEF ReplyTypeOK
<1>11. ASSUME At(s, "complete") \/ At(s, "queue")
       PROVE  OwnOutbound(s) \in 1..Len(outbox) /\ outbox[OwnOutbound(s)].trace = flush[s].trace
  <2>1. \E o \in 1..Len(outbox) : outbox[o].trace = flush[s].trace
    BY <1>11 DEF HaveReplies, HasReply, At
  <2>2. QED
    BY <2>1 DEF OwnOutbound
<1>12. CASE CompleteTrace(s)
  <2>1. GoOn(s, "queue") /\ outbox' = outbox
    BY <1>12 DEF CompleteTrace
  <2>2. OwnOutbound(s) \in 1..Len(outbox) /\ outbox[OwnOutbound(s)].trace = flush[s].trace
    BY <1>11, <1>12 DEF CompleteTrace
  <2>3. traces' \in Seq(Trace)
    <3>1. OwnOutbound(s) \in Nat
      BY <1>3, <2>2
    <3>2. traces' = [traces EXCEPT ![flush[s].trace].status = "completed",
                                   ![flush[s].trace].outbound = OwnOutbound(s)]
      BY <1>12 DEF CompleteTrace
    <3>3. QED
      BY <3>1, <3>2, TraceSet
  <2>4. /\ flush' \in [Slots -> Flush] /\ \A r \in Slots \ {s} : flush'[r] = flush[r]
        /\ flush'[s].at = "queue" /\ flush'[s].ids = flush[s].ids
        /\ flush'[s].trace = flush[s].trace
    BY <1>1, <2>1, GoesOn DEF UnderLock
  <2>5. HaveReplies'
    BY <1>3, <2>1, <2>2, <2>4, RepliesKept
  <2>6. QED
    BY <1>3, <1>4, <1>5, <2>1, <2>3, <2>4, <2>5 DEF ReplyTypeOK
<1>13. ASSUME At(s, "queue"), HandOver(s), GoOn(s, "release"), traces' \in Seq(Trace)
       PROVE  BurstTypeOK' /\ ReplyTypeOK' /\ HaveReplies'
  <2>1. /\ outbox' \in Seq(Outbound) /\ Len(outbox') = Len(outbox)
        /\ \A o \in 1..Len(outbox) : outbox'[o].trace = outbox[o].trace
    BY <1>13, OutboxSet DEF HandOver
  <2>2. /\ flush' \in [Slots -> Flush] /\ \A r \in Slots \ {s} : flush'[r] = flush[r]
        /\ flush'[s].at = "release" /\ flush'[s].ids = flush[s].ids
    BY <1>1, <1>7, <1>13, GoesOn
  <2>3. HaveReplies'
    BY <1>3, <2>1, <2>2, RepliesKept
  <2>4. QED
    BY <1>3, <1>4, <1>5, <1>13, <2>1, <2>2, <2>3
<1>14. CASE QueueReply(s)
  BY <1>13, <1>14 DEF QueueReply, ReplyTypeOK
<1>15. CASE ReplyThrows(s)
  <2>1. GoOn(s, "release")
    BY <1>15 DEF ReplyThrows
  <2>2. traces' \in Seq(Trace)
    <3>1. CASE UNCHANGED traces
      BY <3>1 DEF ReplyTypeOK
    <3>2. CASE SetTrace(s, "failed")
      BY <3>2, TraceSet DEF SetTrace
    <3>3. QED
      BY <1>15, <3>1, <3>2 DEF ReplyThrows, TraceAfterThrow
  <2>3. CASE UNCHANGED outbox
    BY <1>4, <1>6, <1>7, <2>1, <2>2, <2>3
  <2>4. CASE At(s, "queue") /\ HandOver(s)
    BY <1>13, <2>1, <2>2, <2>4
  <2>5. QED
    BY <1>15, <2>3, <2>4 DEF ReplyThrows
<1>16. QED
  BY <1>8, <1>9, <1>10, <1>12, <1>14, <1>15 DEF ReplyProgress

-----------------------------------------------------------------------------
(* Faults, expiries and restarts keep the types of the burst.               *)
LEMMA FaultTypes ==
  ASSUME BurstTypeOK, NEW kind, Fault(kind)
  PROVE  plan' = plan /\ faults' \subseteq plan
BY DEF Fault, BurstTypeOK

(* The lock expires, or a delay runs out.                                   *)
LEMMA ClockTypes ==
  ASSUME BurstTypeOK, OrphanExpires \/ RequeueStalled, UNCHANGED faultVars
  PROVE  BurstTypeOK' /\ flush' = flush
BY DEF BurstTypeOK, OrphanExpires, RequeueStalled, faultVars

(* A lock runs out under a run that is still answering.                     *)
LEMMA RunningOutTypes ==
  ASSUME BurstTypeOK, ListExpires \/ \E s \in Slots : SlowReply(s)
  PROVE  /\ BurstTypeOK'
         /\ \A s \in Slots : /\ flush'[s].at = flush[s].at /\ flush'[s].body = flush[s].body
                             /\ flush'[s].trace = flush[s].trace
<1>1. CASE ListExpires
  BY <1>1, FaultTypes DEF ListExpires, BurstTypeOK
<1>2. ASSUME NEW s \in Slots, SlowReply(s)
      PROVE  /\ BurstTypeOK'
             /\ \A r \in Slots : /\ flush'[r].at = flush[r].at /\ flush'[r].body = flush[r].body
                                 /\ flush'[r].trace = flush[r].trace
  <2>1. /\ flush \in [Slots -> Flush] /\ flush' = [flush EXCEPT ![s].late = TRUE]
        /\ UNCHANGED <<burst, mainJob, retryJobs, taken>> /\ lock' = NoHolder
    BY <1>2 DEF SlowReply, BurstTypeOK
  <2>2. plan' = plan /\ faults' \subseteq plan
    BY <1>2, FaultTypes DEF SlowReply
  <2>3. /\ flush' \in [Slots -> Flush] /\ \A r \in Slots \ {s} : flush'[r] = flush[r]
        /\ flush'[s].at = flush[s].at /\ flush'[s].ids = flush[s].ids
        /\ flush'[s].trace = flush[s].trace /\ flush'[s].body = flush[s].body
    BY <2>1 DEF Flush
  <2>4. BurstTypeOK'
    BY <2>1, <2>2, <2>3, RunTypes DEF BurstTypeOK, MainJobs
  <2>5. QED
    BY <2>3, <2>4
<1>3. QED
  BY <1>1, <1>2

(* A flush run that loses its job goes on as it was.                        *)
LEMMA FlushStallsTypes ==
  ASSUME BurstTypeOK, NEW s \in Slots, FlushStalls(s)
  PROVE  /\ BurstTypeOK' /\ flush' \in [Slots -> Flush]
         /\ \A r \in Slots : /\ flush'[r].at = flush[r].at /\ flush'[r].ids = flush[r].ids
                             /\ flush'[r].late = flush[r].late /\ flush'[r].body = flush[r].body
                             /\ flush'[r].trace = flush[r].trace
<1>1. /\ flush \in [Slots -> Flush] /\ flush' = [flush EXCEPT ![s].job = "none"]
      /\ UNCHANGED <<burst, lock, taken>>
  BY DEF FlushStalls, BurstTypeOK
<1>2. plan' = plan /\ faults' \subseteq plan
  BY FaultTypes DEF FlushStalls
<1>3. mainJob' \in MainJobs /\ retryJobs' \in Nat
  BY DEF FlushStalls, BurstTypeOK, MainJobs
<1>4. /\ flush' \in [Slots -> Flush]
      /\ \A r \in Slots : /\ flush'[r].at = flush[r].at /\ flush'[r].ids = flush[r].ids
                          /\ flush'[r].late = flush[r].late /\ flush'[r].body = flush[r].body
                          /\ flush'[r].trace = flush[r].trace
  BY <1>1 DEF Flush
<1>5. BurstTypeOK'
  BY <1>1, <1>2, <1>3, <1>4 DEF BurstTypeOK, MainJobs
<1>6. QED
  BY <1>4, <1>5

(* A fault stops a flush run: its job waits again, or is given up.          *)
LEMMA FlushThrowsTypes ==
  ASSUME BurstTypeOK, NEW s \in Slots, FlushThrows(s)
  PROVE  /\ BurstTypeOK' /\ flush'[s].at = "idle"
         /\ \A r \in Slots \ {s} : flush'[r] = flush[r]
<1>1. /\ EndRun(s) /\ UNCHANGED <<burst, retryJobs, taken>>
      /\ lock' \in Slots \cup {NoHolder, Gone}
  BY DEF FlushThrows, BurstTypeOK
<1>2. plan' = plan /\ faults' \subseteq plan
  BY FaultTypes DEF FlushThrows
<1>3. QED
  BY <1>1, <1>2, RunOver, RunTypes DEF BurstTypeOK, UnderLock

(* A restart ends the flush runs and hands their jobs out again.            *)
LEMMA BurstRestartTypes ==
  ASSUME BurstTypeOK, BurstRestart, plan' = plan, faults' \subseteq plan
  PROVE  BurstTypeOK' /\ \A s \in Slots : flush'[s].at = "idle"
<1>1. NoRun \in Flush /\ NoRun.at = "idle"
  BY DEF NoRun, Flush, Messages
<1>2. Cardinality({s \in Slots : flush[s].job = "retry"}) \in Nat
  BY BurstAssumption, FS_Subset, FS_CardinalityType
<1>3. retryJobs' \in Nat
  BY <1>2 DEF BurstRestart, BurstTypeOK
<1>4. flush' = [s \in Slots |-> NoRun]
  BY DEF BurstRestart
<1>5. flush' \in [Slots -> Flush] /\ \A s \in Slots : flush'[s].at = "idle"
  BY <1>1, <1>4
<1>6. /\ UNCHANGED <<burst, mainJob, taken>>
      /\ lock' \in Slots \cup {NoHolder, Gone}
  BY DEF BurstRestart, BurstTypeOK
<1>7. QED
  BY <1>3, <1>5, <1>6 DEF BurstTypeOK, UnderLock

-----------------------------------------------------------------------------
(* The inductive invariant. *)
IInv == TypeOK /\ JobInv /\ HaveReplies

(* A step of the intake touches neither the burst nor the replies.          *)
LEMMA RestKept ==
  ASSUME BurstTypeOK, ReplyTypeOK, HaveReplies, UNCHANGED <<burstVars, faultVars, replyVars>>
  PROVE  BurstTypeOK' /\ ReplyTypeOK' /\ HaveReplies'
BY DEF BurstTypeOK, ReplyTypeOK, HaveReplies, HasReply, At, burstVars, faultVars, replyVars

(* A step of the burst touches neither the rows nor the intake.             *)
LEMMA IntakeKept ==
  ASSUME IntakeTypeOK, JobInv, UNCHANGED intakeVars
  PROVE  IntakeTypeOK' /\ JobInv'
BY DEF IntakeTypeOK, JobInv, RunsHaveJobs, RunsAreApart, JobFollowsRow, AttemptsLeft, Busy,
       AtStep, TheEvent, intakeVars

(* A message goes to its burst, and its run ends.                           *)
LEMMA AppendType ==
  ASSUME IInv, NEW w \in Intakes, AppendToBurst(w),
         UNCHANGED <<retryJobs, lock, flush, taken, faultVars, replyVars>>
  PROVE  IInv'
<1>1. BurstTypeOK /\ IntakeTypeOK /\ ReplyTypeOK /\ JobInv /\ HaveReplies
  BY DEF IInv, TypeOK
<1>2. intake[w].at \in Stored
  BY DEF AppendToBurst, AtStep, Stored, Places
<1>3. intake[w].msg \in Messages
  <2>1. intake[w].msg \in 1..Len(messages)
    BY <1>1, <1>2 DEF IntakeTypeOK, Stored
  <2>2. QED
    BY <1>1, <2>1, LenProperties, BurstAssumption DEF IntakeTypeOK, Messages
<1>4. PICK pc \in {"unschedule", "schedule", "mark"} : Step(w, pc)
  BY DEF AppendToBurst
<1>5. IntakeTypeOK' /\ JobInv'
  <2>1. pc \in Stored
    BY DEF Stored, Places
  <2>2. UNCHANGED <<answer, eventRow, eventJob, tries, messages, stateRows, filtered>>
    BY DEF AppendToBurst
  <2>3. stateRows' \in [DOMAIN stateRows' -> Nat] /\ filtered' \subseteq Messages
    BY <1>1, <2>2 DEF IntakeTypeOK
  <2>4. QED
    BY <1>1, <1>2, <1>4, <2>1, <2>2, <2>3, StepType
<1>6. burst' \subseteq Messages /\ mainJob' \in MainJobs
  BY <1>1, <1>3 DEF AppendToBurst, PushId, RemoveFlushJob, AddFlushJob, BurstTypeOK, MainJobs
<1>7. BurstTypeOK' /\ ReplyTypeOK' /\ HaveReplies'
  BY <1>1, <1>6 DEF BurstTypeOK, ReplyTypeOK, HaveReplies, HasReply, At, faultVars, replyVars,
                    MainJobs
<1>8. QED
  BY <1>5, <1>7 DEF IInv, TypeOK

(* Every step of an intake run keeps the types.                             *)
LEMMA IntakeStepType ==
  ASSUME IInv, NEW w \in Intakes, IntakeStep(w)
  PROVE  IInv'
<1>1. BurstTypeOK /\ IntakeTypeOK /\ ReplyTypeOK /\ JobInv /\ HaveReplies
  BY DEF IInv, TypeOK
<1>2. CASE AppendToBurst(w) /\ UNCHANGED <<retryJobs, lock, flush, taken, faultVars, replyVars>>
  BY <1>2, AppendType
<1>3. CASE /\ IntakeProgress(w) \/ FindMessage(w, LiveBodies)
           /\ UNCHANGED <<burstVars, faultVars, replyVars>>
  <2>1. IntakeTypeOK' /\ JobInv'
    <3>1. CASE FindMessage(w, LiveBodies)
      BY <1>1, <3>1, FindType
    <3>2. CASE IntakeProgress(w)
      BY <1>1, <3>2, FetchType, CreateType, TouchType, FilterType, LeaveType DEF IntakeProgress
    <3>3. QED
      BY <1>3, <3>1, <3>2
  <2>2. QED
    BY <1>1, <1>3, <2>1, RestKept DEF IInv, TypeOK
<1>4. QED
  BY <1>2, <1>3 DEF IntakeStep

(* Every step of a flush run outside the answer keeps the types.            *)
LEMMA FlushStepType ==
  ASSUME IInv, NEW s \in Slots, FlushStep(s)
  PROVE  IInv'
<1>1. BurstTypeOK /\ IntakeTypeOK /\ ReplyTypeOK /\ JobInv /\ HaveReplies
  BY DEF IInv, TypeOK
<1>2. UNCHANGED intakeVars /\ UNCHANGED faultVars
  BY DEF FlushStep
<1>3. CASE FlushProgress(s) /\ UNCHANGED replyVars
  <2>1. BurstTypeOK'
    BY <1>1, <1>2, <1>3, FlushType
  <2>2. outbox' = outbox /\ ReplyTypeOK'
    BY <1>1, <1>3 DEF ReplyTypeOK, replyVars
  <2>3. /\ \A r \in Slots \ {s} : flush'[r] = flush[r]
        /\ flush'[s].at \notin {"outbound", "complete", "queue"}
    <3>1. flush \in [Slots -> Flush]
      BY <1>1 DEF BurstTypeOK
    <3>2. CASE StartFlush(s)
      BY <1>1, <3>2, RunBegins
    <3>3. CASE ReadList(s)
      BY <1>1, <3>3, RunReads, RunOver DEF ReadList
    <3>4. CASE DeleteList(s)
      BY <3>1, <3>4, GoesOn DEF DeleteList, BeforeLock
    <3>5. CASE TakeLock(s)
      BY <3>1, <3>5, GoesOn DEF TakeLock, UnderLock
    <3>6. CASE LockBusy(s)
      BY <3>1, <3>6, GoesOn DEF LockBusy, BeforeLock
    <3>7. CASE PushBack(s)
      BY <1>1, <3>7, RunGivesBack
    <3>8. CASE AddRetry(s) \/ ReleaseLock(s)
      BY <1>1, <3>8, RunOver DEF AddRetry, ReleaseLock
    <3>9. QED
      BY <1>3, <3>2, <3>3, <3>4, <3>5, <3>6, <3>7, <3>8 DEF FlushProgress
  <2>4. HaveReplies'
    BY <1>1, <2>2, <2>3, NoReplyNeeded
  <2>5. QED
    BY <1>1, <1>2, <2>1, <2>2, <2>4, IntakeKept DEF IInv, TypeOK
<1>4. CASE ReplyProgress(s)
  <2>1. plan' = plan /\ faults' \subseteq plan
    BY <1>1, <1>2 DEF faultVars, BurstTypeOK
  <2>2. QED
    BY <1>1, <1>2, <1>4, <2>1, ReplyType, IntakeKept DEF IInv, TypeOK
<1>5. QED
  BY <1>3, <1>4 DEF FlushStep

(* A fault that stops a run keeps the types.                                *)
LEMMA ThrowingType ==
  ASSUME IInv, Throwing
  PROVE  IInv'
<1>1. BurstTypeOK /\ IntakeTypeOK /\ ReplyTypeOK /\ JobInv /\ HaveReplies
  BY DEF IInv, TypeOK
<1>2. ASSUME Fault("intake_error"), UNCHANGED <<burstVars, replyVars>>
      PROVE  BurstTypeOK' /\ ReplyTypeOK' /\ HaveReplies'
  <2>1. plan' = plan /\ faults' \subseteq plan
    BY <1>1, <1>2, FaultTypes
  <2>2. QED
    BY <1>1, <1>2, <2>1 DEF BurstTypeOK, ReplyTypeOK, HaveReplies, HasReply, At, burstVars,
                            replyVars
<1>3. ASSUME NEW e \in Events, EnqueueThrows(e), UNCHANGED <<burstVars, replyVars>>
      PROVE  IInv'
  BY <1>1, <1>2, <1>3, ReportType DEF EnqueueThrows, IInv, TypeOK
<1>4. ASSUME NEW w \in Intakes, IntakeThrows(w), UNCHANGED <<burstVars, replyVars>>
      PROVE  IInv'
  BY <1>1, <1>2, <1>4, LeaveType DEF IntakeThrows, IInv, TypeOK
<1>5. ASSUME NEW s \in Slots, FlushThrows(s), UNCHANGED <<intakeVars, replyVars>>
      PROVE  IInv'
  <2>1. outbox' = outbox /\ ReplyTypeOK'
    BY <1>1, <1>5 DEF ReplyTypeOK, replyVars
  <2>2. BurstTypeOK' /\ HaveReplies'
    BY <1>1, <1>5, <2>1, FlushThrowsTypes, NoReplyNeeded
  <2>3. QED
    BY <1>1, <1>5, <2>1, <2>2, IntakeKept DEF IInv, TypeOK
<1>6. ASSUME NEW s \in Slots, ReplyThrows(s), UNCHANGED intakeVars
      PROVE  IInv'
  <2>1. plan' = plan /\ faults' \subseteq plan
    BY <1>1, <1>6, FaultTypes DEF ReplyThrows
  <2>2. QED
    BY <1>1, <1>6, <2>1, ReplyType, IntakeKept DEF IInv, TypeOK
<1>7. QED
  BY <1>3, <1>4, <1>5, <1>6 DEF Throwing

(* A lock that runs out, a restart and a failed send keep the types.        *)
LEMMA OutageType ==
  ASSUME IInv, RunningOut \/ ServerRestart \/ SendFailing
  PROVE  IInv'
<1>1. BurstTypeOK /\ IntakeTypeOK /\ ReplyTypeOK /\ JobInv /\ HaveReplies
  BY DEF IInv, TypeOK
<1>2. CASE RunningOut
  <2>1. UNCHANGED replyVars /\ UNCHANGED intakeVars
    BY <1>2 DEF RunningOut
  <2>2. /\ BurstTypeOK'
        /\ \A s \in Slots : /\ flush'[s].at = flush[s].at /\ flush'[s].body = flush[s].body
                            /\ flush'[s].trace = flush[s].trace
    BY <1>1, <1>2, RunningOutTypes DEF RunningOut
  <2>3. ReplyTypeOK' /\ HaveReplies'
    BY <1>1, <2>1, <2>2 DEF ReplyTypeOK, HaveReplies, HasReply, At, replyVars
  <2>4. QED
    BY <1>1, <2>1, <2>2, <2>3, IntakeKept DEF IInv, TypeOK
<1>3. CASE ServerRestart
  <2>1. plan' = plan /\ faults' \subseteq plan
    BY <1>1, <1>3, FaultTypes DEF ServerRestart
  <2>2. BurstTypeOK' /\ \A s \in Slots : flush'[s].at = "idle"
    BY <1>1, <1>3, <2>1, BurstRestartTypes DEF ServerRestart
  <2>3. ReplyTypeOK' /\ HaveReplies'
    BY <1>1, <1>3, <2>2 DEF ServerRestart, ReplyTypeOK, HaveReplies, HasReply, At, replyVars
  <2>4. QED
    BY <1>1, <1>3, <2>2, <2>3, IntakeRestartType DEF ServerRestart, IInv, TypeOK
<1>4. CASE SendFailing
  <2>1. PICK o \in 1..Len(outbox) : SendFails(o)
    BY <1>4 DEF SendFailing
  <2>2. /\ UNCHANGED burstVars /\ UNCHANGED intakeVars
        /\ traces' = traces /\ aged' = aged
    BY <1>4, <2>1 DEF SendFailing, SendFails
  <2>3. plan' = plan /\ faults' \subseteq plan
    BY <1>1, <2>1, FaultTypes DEF SendFails
  <2>4. /\ outbox' \in Seq(Outbound) /\ Len(outbox') = Len(outbox)
        /\ \A i \in 1..Len(outbox) : outbox'[i].trace = outbox[i].trace
    BY <1>1, <2>1, OutboxSet DEF SendFails
  <2>5. HaveReplies'
    BY <1>1, <2>2, <2>4 DEF HaveReplies, HasReply, At, burstVars
  <2>6. BurstTypeOK'
    BY <1>1, <2>2, <2>3 DEF BurstTypeOK, burstVars
  <2>7. QED
    BY <1>1, <2>2, <2>4, <2>5, <2>6, IntakeKept DEF IInv, TypeOK, ReplyTypeOK
<1>5. QED
  BY <1>2, <1>3, <1>4

(* A job handed out again under its run, and a window that passes, keep the  *)
(* types.                                                                    *)
LEMMA StallingType ==
  ASSUME IInv, Stalling \/ Ageing
  PROVE  IInv'
<1>1. BurstTypeOK /\ IntakeTypeOK /\ ReplyTypeOK /\ JobInv /\ HaveReplies
  BY DEF IInv, TypeOK
<1>2. ASSUME NEW w \in Intakes, IntakeStalls(w), UNCHANGED <<burstVars, replyVars>>
      PROVE  IInv'
  <2>1. plan' = plan /\ faults' \subseteq plan
    BY <1>1, <1>2, FaultTypes DEF IntakeStalls
  <2>2. BurstTypeOK' /\ ReplyTypeOK' /\ HaveReplies'
    BY <1>1, <1>2, <2>1 DEF BurstTypeOK, ReplyTypeOK, HaveReplies, HasReply, At, burstVars,
                            replyVars
  <2>3. QED
    BY <1>1, <1>2, <2>2, IntakeStallsType DEF IInv, TypeOK
<1>3. ASSUME NEW s \in Slots, FlushStalls(s), UNCHANGED <<intakeVars, replyVars>>
      PROVE  IInv'
  <2>1. /\ BurstTypeOK'
        /\ \A r \in Slots : /\ flush'[r].at = flush[r].at /\ flush'[r].body = flush[r].body
                            /\ flush'[r].trace = flush[r].trace
    BY <1>1, <1>3, FlushStallsTypes
  <2>2. ReplyTypeOK' /\ HaveReplies'
    BY <1>1, <1>3, <2>1 DEF ReplyTypeOK, HaveReplies, HasReply, At, replyVars
  <2>3. QED
    BY <1>1, <1>3, <2>1, <2>2, IntakeKept DEF IInv, TypeOK
<1>4. CASE Ageing
  <2>1. /\ UNCHANGED <<burstVars, faultVars>> /\ UNCHANGED intakeVars
        /\ traces' = traces /\ outbox' = outbox /\ aged < Len(outbox) /\ aged' = aged + 1
    BY <1>4 DEF Ageing, WindowPasses
  <2>2. ReplyTypeOK'
    BY <1>1, <2>1, LenProperties DEF ReplyTypeOK
  <2>3. BurstTypeOK' /\ HaveReplies'
    BY <1>1, <2>1 DEF BurstTypeOK, HaveReplies, HasReply, At, burstVars, faultVars
  <2>4. QED
    BY <1>1, <2>1, <2>2, <2>3, IntakeKept DEF IInv, TypeOK
<1>5. QED
  BY <1>2, <1>3, <1>4 DEF Stalling

(* Every reachable state satisfies the invariant. *)
LEMMA Inductive == Spec => []IInv
<1>1. Init => IInv
  <2> SUFFICES ASSUME Init PROVE IInv
    OBVIOUS
  <2>1. NoRun \in Flush /\ NoRun.at = "idle"
    BY DEF NoRun, Flush, Messages
  <2>2. IdleIntake \in Intake /\ IdleIntake.at = "idle" /\ ~IdleIntake.owns
    BY BurstAssumption DEF IdleIntake, Intake, Kinds
  <2>3. BurstTypeOK
    BY <2>1 DEF Init, BurstInit, BurstTypeOK, UnderLock
  <2>4. IntakeTypeOK
    BY <2>2, BurstAssumption, IntakeAssumption, EmptySeq DEF Init, IntakeInit, IntakeTypeOK
  <2>5. JobInv
    BY <2>2, IntakeAssumption DEF Init, IntakeInit, JobInv, RunsHaveJobs, RunsAreApart,
                                  JobFollowsRow, AttemptsLeft, Busy, AtStep
  <2>6. ReplyTypeOK
    BY EmptySeq DEF Init, ReplyInit, ReplyTypeOK
  <2>7. HaveReplies
    BY <2>1 DEF Init, BurstInit, HaveReplies, HasReply, At
  <2>8. QED
    BY <2>3, <2>4, <2>5, <2>6, <2>7 DEF IInv, TypeOK
<1>2. IInv /\ [Next]_vars => IInv'
  <2> SUFFICES ASSUME IInv, [Next]_vars PROVE IInv'
    OBVIOUS
  <2>1. BurstTypeOK /\ IntakeTypeOK /\ ReplyTypeOK /\ JobInv /\ HaveReplies
    BY DEF IInv, TypeOK
  <2>2. ASSUME NEW e \in Events, Reporting(e) \/ Enqueuing(e)
        PROVE  IInv'
    BY <2>1, <2>2, ReportType, RestKept DEF Reporting, Enqueuing, IInv, TypeOK
  <2>3. CASE Expiring \/ Requeuing
    <3>1. UNCHANGED intakeVars /\ UNCHANGED replyVars
      BY <2>3 DEF Expiring, Requeuing
    <3>2. BurstTypeOK' /\ flush' = flush
      BY <2>1, <2>3, ClockTypes DEF Expiring, Requeuing
    <3>3. ReplyTypeOK' /\ HaveReplies'
      BY <2>1, <3>1, <3>2 DEF ReplyTypeOK, HaveReplies, HasReply, At, replyVars
    <3>4. QED
      BY <2>1, <3>1, <3>2, <3>3, IntakeKept DEF IInv, TypeOK
  <2>4. CASE UNCHANGED vars
    BY <2>1, <2>4, RestKept, IntakeKept DEF vars, IInv, TypeOK
  <2>5. QED
    BY <2>2, <2>3, <2>4, IntakeStepType, FlushStepType, ThrowingType, OutageType,
       StallingType DEF Next
<1>3. QED
  BY <1>1, <1>2, PTL DEF Spec

(* Reports, runs, rows and jobs of the whole reply path keep their types.   *)
THEOREM TypeCorrect == Spec => []TypeOK
<1>1. IInv => TypeOK
  BY DEF IInv
<1>2. QED
  BY <1>1, Inductive, PTL
===============================================================================
