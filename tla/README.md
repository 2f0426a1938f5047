# Verification of wework-ai-assistant

TLA+ models of this repository (a Node server with Postgres, Redis and BullMQ,
and an Android app that drives the WeCom client through accessibility), the TLC
configurations that check them and the proofs TLAPS checks.

- `tlc -config X.cfg M` checks module `M`; every `.cfg` says which properties.
- `tlapm M.tla` checks the proofs of `*_proofs.tla`.

## 1. The system

A chat message travels through the whole repository:

    Android capture -> inbound-events API -> inbound worker -> group burst
       -> reply pipeline -> outbound queue -> send worker -> executor task
       -> task loop on a device -> WeCom UI -> result API

Around that path stand the services it asks: reply decision, runtime
configuration, group policies, knowledge base and device registry.

| Component (code) | State it keeps | Operations | What makes it correct |
|---|---|---|---|
| Executor task API (`modules/executor`) | `executor_tasks`, attempts, `outbound_messages.sendStatus` | pull, ack, result, admin cancel, admin test task, inbound-events | a task is granted once, settled once and final; a message reads success only if it was sent |
| Send worker (`workers/send-message.worker.ts`) | BullMQ jobs; creates tasks, moves `sendStatus` | precheck, cancel, insert task, mark | once a job is done its message has its task or was cancelled; every job ends |
| Android task loop (`ExecutorForegroundService.kt`, `ApiClient.kt`) | nothing across iterations | pull, ack, execute, report; heartbeat | it sends only what was granted to it, and at most once |
| UI automation (`SendTextTaskExecutor.kt`, `ChatNavigator.kt`, `SendVerifyHelper.kt`) | the screen of WeCom | open the chat, fill, press, verify | success is reported only behind a press |
| Inbound intake (`workers/inbound-event.worker.ts`, `webhook`, `messages`, `conversations`) | `inbound_events`, `inbound_messages`, `conversation_states` | accept, deduplicate, persist, filter, append to burst | an event is stored once while its job has one run, and processed in the end |
| Group burst (`modules/reply/group-reply-burst.service.ts`) | a Redis list, a lock and a delayed job per group | append, flush, defer, release | one reply at a time per group; the lock is never stuck |
| Reply pipeline (`modules/reply/reply-pipeline.service.ts`) | `reply_traces`, `outbound_messages` | generate, deduplicate, create, queue | trace and message agree; no immediate repetition |
| Reply decision (`modules/rules`, `intent`, `groups`) | none | intercept, score, compare, delay | what the bonuses and penalties add up to is what was meant |
| Runtime configuration (`modules/config`, admin routes) | one row, cached nowhere | effective values, form load and save | no mask becomes a key, an untouched form changes nothing |
| Reply generation (same pipeline, `group-reply-policy`, `knowledge`) | reads only | gate, policy, retrieval, model, precheck | a silenced group stays silent, a policy saved in part stays in force, the prompt gets the best |
| Knowledge base (`modules/knowledge`) | documents and chunks | chunk, reindex, edit, delete, retrieve | chunks are the document cut up, and a reindex leaves all of them |
| Devices, robots, scheduler (`modules/devices`, `robots`, `scheduler`) | registrations, heartbeats, online status | register, heartbeat, refresh timer | shown online exactly if heard |
| Android capture (`accessibility`, `MessageUploader.kt`, `MessageDedup.kt`, `ExecutorRuntime.kt`) | hashes seen, quiet windows, pending bubble | capture, suppress, upload | not modelled, see section 6 |

Where they meet: the server's handlers, the workers and the admin share only
Postgres and Redis; devices talk to the server by HTTP with timeouts and no
retry; jobs are handed out by BullMQ at least once.

What is hard: every handler is a sequence of awaits, Postgres runs READ
COMMITTED and nothing locks a row between a read and the update that relies on
it; jobs are retried and may run twice; a device may crash, restart, run several
loops or give up on a request that the server still carries out.
`PROJECT.json` lists the hazards line by line.

## 2. Modules

Three compositions, each with its MC modules, `.cfg` files and proofs.

| Module | Models | Of |
|---|---|---|
| `TaskStore` | the rows the sending path shares, the unique index, the statements several components use | `schema.prisma`, `executor.provider.ts` |
| `ExecutorApi` | pull, ack, result, admin cancel and test task, one action per statement or transaction | `executor.service.ts`, `executor.routes.ts` |
| `DeviceLoop` | the task loops of the devices, client timeouts, crashes of the app | `ExecutorForegroundService.kt`, `ApiClient.kt`, `SendTextTaskExecutor.kt` |
| `SendWorker` | the outbound queue and the worker's statements | `send-message.worker.ts`, the end of `reply-pipeline.service.ts`, BullMQ as used there |
| **`SendPath`** | their composition, server restarts, the properties | |
| `TaskLifecycle` | abstract: the documented life cycle of a task | `server/README.md` |
| `SendPathRaces` | `SendPath` with a record of which handlers of a task met between read and write | `executor.service.ts` |
| `GroupBurst` | list, flush job, retry jobs, lock and flush runs of a group, command by command; the fault plans | `group-reply-burst.service.ts`, `group-reply-burst.worker.ts`, Redis and BullMQ as used there |
| `InboundIntake` | both endpoints, the inbound queue and the worker's statements (extends `GroupBurst`) | `webhook.service.ts`, `executor.service.ts`, `inbound-event.worker.ts`, `messages.service.ts`, `conversations.service.ts` |
| `ReplyPipeline` | what a flush run writes under the lock (extends `GroupBurst`) | `reply-pipeline.service.ts`, `group-reply-burst.service.ts` |
| **`ReplyPath`** | intake, burst and pipeline together, restarts, faults, fairness, the properties | |
| `GroupLease` | abstract: what the lock promises to the runs that answer | |
| `ReplyDecision` | `evaluateReplyDecision` over a growing conversation | `reply-decision.engine.ts`, `canned-rule.engine.ts`, `intent.service.ts` |
| `RuntimeConfig` | effective values, the settings form of several administrators | `runtime-config.service.ts`, `admin-v1.routes.ts` |
| `ReplyGeneration` | one reply run, read by read, while group, policy and settings are edited (extends `RuntimeConfig`) | `reply-pipeline.service.ts`, `group-reply-policy.service.ts`, `knowledge-chunk.service.ts`, precheck of `send-message.worker.ts` |
| `KnowledgeBase` | splitting, reindexing, editing and deleting | `knowledge-chunk.service.ts`, `admin-v1.routes.ts` |
| `DeviceRegistry` | registrations, heartbeats, the refresh timer over time | `devices.service.ts`, `robots.service.ts`, `scheduler.service.ts` |
| **`BackOffice`** | the services, one area per behaviour | |
| `MCSendPath`, `MCSendPathRaces`, `MCReplyPath`, `MCBackOffice` + `.cfg` | instances for TLC | |
| `SendPath_proofs`, `SendPathGrants_proofs` | proofs about `SendPath` and `SendPathRaces` | |
| `ReplyPath_proofs`, `ReplyLease_proofs`, `ReplyBooks_proofs` | proofs about `ReplyPath` | |
| `DeviceRegistry_proofs`, `KnowledgeBase_proofs`, `BackOffice_proofs` | proofs about `BackOffice`: the registry, the knowledge base, and the other services | |

The two paths are checked apart. They meet in the `outbound_messages` rows: the
reply path ends with `QueueReply`, the sending path begins with a queued
message, and `SendFails` is what the reply path sees of its outcome. Composed,
the states would multiply; the one other place where a path reads the other's
rows, the counts in the send worker's precheck, is a free choice.

### The sending path against the code

- `status, owner, link, attempts` are the columns of `ExecutorTask` and its
  attempts; `sendStatus` is `OutboundMessage.sendStatus`. Task ids are numbers
  in order of `createdAt`, which is the order of `pullExecutorTask` (nothing in
  the repository sets a priority other than 0).
- `req[r]` is a request in flight: `at` is the last statement its handler has
  executed, `open` says whether the client still waits. `AckRead/AckCommit/
  AckAnswer` are `ackExecutorTask`; a transaction is one step from its first
  row lock to its commit, but a read in it (170-175) is a step of its own,
  since nothing is locked by it. `ResultRead/ResultAttempt/ResultFresh/
  ResultCommit` are `reportExecutorTaskResult`, `CancelRead/CancelTask/
  CancelOutbound` are `cancelExecutorTaskAdmin`.
- `loop[l]` is one coroutine of `taskLoop`; `pressed[t]` is a history variable,
  the number of times the send button was pressed for task `t`. `Pull` is a
  read and needs no request of its own: what matters is that other loops may
  act between it and `Ack`.
- `job[o]` is the BullMQ job of message `o`, `run[w]` a run of the processor.
  A run survives the loss of its job's lock, as in BullMQ: it goes on, but it
  can no longer move the job.
- `Execute` covers the whole of `SendTextTaskExecutor.run`: with or without a
  press, success or failure, success only behind a press. (The executor
  ignores the result of the click itself: a press is the attempt to click.) An
  exception that escapes from it is caught by `taskLoop`, which goes on without a
  report: the task stays running, whether it was pressed or not, and nobody will
  settle it (`exec_error`).
- `met` and `acksMet` of `SendPathRaces` are history: the tasks of which two
  handlers, or two acks, were ever between their read and their write at the same
  time. They restrict no step.

Left out of these modules: trace timestamps, audit logs, `markRobotReplied`
(they are read by nothing modelled here; an error in them is `post_ack` or
`JobError`), the robot and registration filter of pull (one robot, all devices
registered), and the branch of `processSendOutboundJob` for a robot that does
not exist: `OutboundMessage` refers to its robot without an `onDelete`, so a
robot with messages cannot be deleted, and the branch is never reached.

### The reply path against the code

- One group: every key and job id of the burst carries the group's id.
- `burst` is the Redis list as a set: a flush run removes duplicates and sorts
  the rows by `createdAt`, so neither order nor repetition within the list is
  ever seen. Message ids are numbers in order of `createdAt`.
- `mainJob` is the one job `burst-flush:<group>`. A finished job is kept by
  BullMQ until it is removed, and adding a job whose id exists does nothing:
  `RemoveFlushJob` and `AddFlushJob` say so, and `RemoveFlushJob` fails quietly
  on an active job, as the code's catch does. `retryJobs` counts the jobs that
  a run adds when it found the lock busy.
- `flush[s]` is a run of `processGroupBurstFlush`: `at` is the command it issues
  next, `ids` what it read, `trace` and `body` its local variables. `late` is set
  when the lock's TTL of 240 s ran out under it.
- A run whose job the queue gave away (`FlushStalls`, `IntakeStalls`) goes on
  without it: `job` reads `none`, `owns` is false, and what it ends with moves no
  job (`EndRun`, `HandBack`).
- `eventRow, eventJob, tries` are an event's row, its job and the attempts used.
  `answer` is what the last report of the event was told; a second report, and
  the admin's replay, is answered `duplicated` and adds no job.
- `intake[w]` is a run of the inbound worker, `messages` the rows it creates.
  What classification says of an event is `NatureOf`; what follows from other
  rows (echo of a live reply, short-window duplicate) is `KindsOf`.
- `traces` and `outbox` are `reply_traces` and `outbound_messages`; a statement
  of `buildAndQueueReplyWithTrace` is an action. The duplicate check
  (`RepeatsLatest`) looks at the newest live row of the last
  `OUTBOUND_CONTENT_DEDUPE_MS`, which may be 0 (`DedupeOn`), and lets a blank text
  through. `aged` counts the rows that have left that window: rows leave it in the
  order they were written (`WindowPasses`). The statement that adds the send job may
  take effect and throw all the same, and the update in the catch clause may throw
  as well (`ReplyThrows`). What the decision says and which
  text comes out are free choices here; `ReplyDecision` and `ReplyGeneration`
  model how they come about.
- `taken`, `faults` are history variables.

### The services against the code

- A text in `ReplyDecision` is the set of cues found in it (a keyword of an
  intent, a question form, a blocked keyword). The score, in the code's own
  numbers, is computed from the conversation's rows with their times and
  senders. The seven bonuses and penalties and the threshold are what the trigger
  rule says, and the defaults of the code for those it leaves out (`Weight`,
  `Threshold`). `Speak` adds a message of a member or the robot, `Evaluate`
  rules over the anchor, which need not be the newest message. What the code filters and counts in arrays is a set of
  places in the conversation here (`Recent`, `People`, `DualChat`).
- `RuntimeConfig.Effective` is the fallback chain of each field, row, then
  environment, then default (`FallbackOf`); `forms[a]` is what administrator `a` was shown and
  typed, `SaveForm` is the PUT handler with its treatment of masks and blanks. Keys
  are sequences of characters, because `maskSecret` and the patterns of
  `normalizeAdminApiKeyInput` look into them (`MaskOf`, `MeansKeep`, `Trim`); every
  other text is opaque.
- `ReplyGeneration.run` walks through gate, decision, generation and precheck,
  reading the group's row once at the start and the policy row three times, while
  `PostPolicy`, `DeletePolicy` and `PatchGroup` change them; without a policy row
  gate and generation fall back to the switch in the group object read at the start
  (`EffectivePolicy(run.group, policy)`), and the precheck reads the group afresh.
  Similarities are integers (thousandths). Retrieval fetches at most `FetchLimit`
  chunks (2000 in the code), in no order, before it scores any (`Fetched`). `TopOf` is what a sort and a slice leave of the candidates: as
  many as there is room for, none of them below one left out, equal ones in any
  order; the order within the prompt is not modelled. The model's answer is a form
  with a set of keys.
- `KnowledgeBase` has a content as the sequence of the lengths of its paragraphs. A
  text is its length and the pieces of paragraphs it is joined from; the separator
  of two characters counts in the length. `Split` goes through the paragraphs as the
  code does, gathering, joining and slicing long ones (`TakeParagraph`).
  `chunks` maps the ids of the rows to the rows; an id means nothing but the row.
  `alone` and `intact` in a request are history: whether another request has been
  at its document, or has cleared it since.
- `DeviceRegistry.now` counts units of 30 s; the timer is on time, and a refresh
  is assumed to end, well or not, before the next one.

### Faults

`SendPath`: `Faults` names what the environment may do: `timeout` (OkHttp gives up; the
handler goes on), `drop` (a request its client gave up on never arrives),
`crash` (the app dies, loops start afresh), `exec_error` (an exception escapes from
the executor and the loop goes on), `post_ack` (an error after the ack's commit), `job_error` (a statement of a run throws), `stall` (a running job's
lock expires), `restart` (API and workers die; transactions roll back).

`ReplyPath`: a behaviour chooses a fault plan at the start, a set of faults each
of which may strike once, at any moment: `intake_error` and `flush_error` (a
statement throws), `outage` (a statement throws and so does the one of the catch
clause), `stall` (the stalled-job check takes a worker at work for dead and its job
is handed out again, while the run goes on), `slow` (a reply outlives the lock's TTL), `restart` (the
process dies; jobs are handed out again by the stalled-job check), `list_ttl`
(the list expires), `send` (a queued reply is reported failed or cancelled),
`left_lock` (the process before left its lock). With `ageing` in the plan replies
grow out of the duplicate check's window. No plan of the runs has both `stall` and
`restart`: BullMQ gives up a job that stalls twice (`maxStalledCount` 1), which the
model does not count.

`DeviceRegistry`: a refresh may fail at any of its statements, and the server
may restart with its timer. `KnowledgeBase`: a reindex may stop after any
statement.

## 3. Runs

All constants are bounds. Sending path: `MaxTasks` task rows, `MaxTestTasks` of
them from the admin, `JobAttempts` (3 in the code), `MaxStalls` (1, BullMQ's
default). Reply path: `MaxMessages`, `Slots` (runs of the flush worker, 8 in the
code), `Intakes` (10), `ReplyBodies`, `FaultPlans`. Services: `MaxChat`,
`AnchorLag`, `RecentLimit` (20 in the code), `TopK` (8), `FetchLimit` (2000), `MaxLen`
(480, the length of a chunk), `MaxChunks`, `MaxTime`. The systems may stop (nothing left to do), so deadlock is not checked.

| Run | Instance | Shows |
|---|---|---|
| `overlap` | `SendPathRaces`, 1 task, 2 devices, 2 requests at once, all faults of API and devices | `TypeOK`; `SuccessWasPressed`; `RunningHasOpenAttempt`; `PressesAreRecorded`; `SendersWereGranted`; `PressedOncePerLoop`; `GrantedOnceUnlessAcksMeet`; `LifecycleUnlessHandlersMeet` |
| `serial` | 1 task, 2 loops on a device, one request at a time, 2 worker slots, 3 attempts, all faults, fairness | `ImplementsLifecycle` (refinement of `TaskLifecycle`), `PressedAtMostOnce`; `CompletedIsHandled`; `EveryJobEnds` |
| `liveness` | 1 task, 2 devices, 2 requests, no faults, fairness | `EveryTaskEnds` |
| `double_ack` | 1 task, 2 devices, no faults | two overlapping acks both commit (violation of `GrantedOnce`) |
| `stale_cancel` | 1 task, 1 loop, admin | a stale cancel overwrites a result (violation of `SettledTaskStays`) |
| `late_mark` | 1 task, 1 loop | a settled message goes back to `pending_executor` (violation of `SettledOutboundStays`) |
| `retry_cancels` | 1 task, job errors | a run throws after its insert, and the next one cancels the message whose task is alive (violation of `BlockedHasNoTask`) |
| `reply` | 2 events of one sender, 1 intake run, 2 flush runs, 3 message rows, eight plans of up to two faults | `TypeOK`; `AnswersUnderLock`; `OneMessagePerEvent`; `OutboxAddsUp`; `OnlyUserTextIsCollected`; `NoImmediateRepeat`, `NothingIsTakenTwice`; `ImplementsLease` (refinement of `GroupLease`) |
| `reply_ends` | 2 events, 2 intake runs, 1 flush run, 3 message rows; a flush run may throw, or a job is handed out again under its run; fairness | `LockIsFreed`; `EveryEventEnds`; `OneMessagePerEvent` (two rows at most after a stall) |
| `lost_wakeup` | no fault at all, fairness | a message pushed while a flush run is active is never taken (violation of `EveryMessageIsTaken`) |
| `same_again` | 3 events, two texts to answer with, no fault at all | texts A, B, A within the window of the duplicate check (violation of `NoSecondInTheWindow`) |
| `services` | `BackOffice`, each area from its initial states, symmetry over senders, administrators, requests and robots | `TypeOK`; `OnlyQuestionsAreAnswered`, `OvertalkSilences`; `MaskIsNeverStored`, `UntouchedFormKeepsConfig`; `SilencedGroupStaysSilent`, `PolicySaveIsLocal`, `PromptHoldsTheBest`; `ReindexLosesNothing`, `CutsNothingOff`; `SilenceIsNoticed`, `HeardRobotIsOnline` |

Why the bounds are enough, sending path: interference on a task needs two
requests on that task (two acks, an ack and a result, a cancel and a result), so
one row and two requests show every pair of handlers, before and after each other
as often as they like; more rows add nothing to it because no statement touches two
tasks. Two runs of one job, in `serial`, meet at every pair of its statements; a
second insert is refused by the unique index, whose row is then there. What a second
task row could add, a loop that takes the answer for one task as that for another, no
run has: `SendersWereGrantedHolds` excludes it for any number of tasks.

Reply path: interference on the lock needs two runs, one of which may be a retry
of the other's leftovers; a third run finds the lock busy or free as the second
does. Two events of one sender make the race for the state row, the echo (one
event's text is one the robot says) and the push during a run. Two runs of one
event, the one that lost its job and the one that got it, and a third message row
are what the stall in `reply_ends` needs (its second event is of an official account,
which keeps the flush runs few): a third row of an event would take a third run
between its look-up and the insert. A lock left
behind sends the first run into the retry path before the second fault of the
plan strikes; that one, and each fault of a plan of its own, may strike at
every moment. A third message
row is room for a row that should not be there. The theorems hold for all sizes.

Services: five messages, with `RecentLimit` at 4, put a message out of the window
the decision reads; the cue sets are chosen so that every bonus and penalty
applies in some conversation, under the seeded weights and under a rule that
answers leads outright, makes silence count against and the robot shut up. A chat of
five with four read back and an anchor that is one late make the windows of the
decision meet. Keys of one and of ten characters take both branches of `maskSecret`,
a typed placeholder and a blank before a key take the patterns. One chunk more than
`FetchLimit` leaves each one out in turn. Scores
below, between and above the limits of retrieval with three chunks fetched and two places
show both ways of choosing. `MaxLen` 4 with a separator of 2 makes paragraphs that
share a chunk, fill several and just miss one, the three ways to cut for
`CutsNothingOff`; two requests on one document show every pair of statements that
may meet there. Six units of time hold two
refresh intervals and one heartbeat window.

What holds and what does not. Sending: with one request in flight at a time the
API keeps its documented life cycle and no message is pressed twice, whatever is
lost or crashes. With two in flight neither holds, because ack, cancel and result
update by id what they checked in an earlier statement. That is the only way: of a
task none of whose handlers met between read and write, both hold under every fault
and any number of requests (`overlap`, and proved). What survives even of the others is what
the rest of `overlap` says. Whatever a job goes through, once it is completed its message has its
task or was cancelled. Replying: the lock is a lease, and the books agree
through errors, retries and restarts, short of what nobody could write down; an
event is stored once, or twice if its job was handed out under a run at work; until
something goes wrong no message is taken on by two runs; but the wake-up of a burst can be lost without any fault,
since the list is read and deleted in two commands and the group's flush job
cannot be added again while it runs, and the duplicate check sees one row of its
window. The violation runs show each of these in a
handful of steps.

Met on the way, and true of the models though no document promises otherwise:

- A decision with delay 0 counts as no reply. What the model says in `should_reply`
  is not looked at, and a blank text it returns is queued as a message.
- A rule may weigh the score as it likes: with a lead bonus above the threshold
  statements are answered, with an overtalk penalty of 0 the robot goes on talking.
  `OnlyQuestionsAreAnswered` and `OvertalkSilences` say under which weights it does
  not, and the seeded ones are among them.
- Two reasons to stay silent do not add up to one. A group whose policy row silences
  it, and which is switched off before that row is deleted, may get a reply generated
  when the row disappears before the gate: the switch counts as the run read it.
- In the decision, the first intent of the dictionary that matches wins, so a
  complaint put as a question reads `faq_question` and the risk interception by
  intent does not see it. Messages marked as the robot's own by the short-window
  check count for the overtalk penalty.
- Group and policy are read at several moments: a takeover after the decision's
  read does not stop that reply; the send worker's precheck sees the group's own
  switch but not the policy. The first save of a policy turns replies on for a
  group whose own switch is off.
- An empty ark_bot key falls back to the environment's `LLM_API_KEY`, never to the
  LLM key stored in the row; saving the form writes the environment's values into
  the row; of two forms open at once the later save overwrites the earlier.
- An edited document is retrieved with its old chunks until it is reindexed; two
  reindexes at once leave chunks twice. Of more than 2000 chunks the best may not be
  among those fetched.

Fairness. `liveness`, `serial`: weak fairness of each handler, each worker run, each
loop, and of the stalled-job check for a job nobody runs. The event loop finishes
what it starts, BullMQ hands out waiting jobs and finds those of dead workers, and
`taskLoop` is an endless loop. Nothing obliges the admin to act or the pipeline to add
a job.
`EveryTaskEnds` is stated without faults: a lost result, or an exception in the
executor, leaves its task running for ever, since no result is sent twice and nothing
requeues or expires a running task. `EveryJobEnds` holds under errors, stalls and
restarts, whose number the attempts and `MaxStalls` bound, and says that what ended
has ended for good. `EveryEventEnds` asks for a processed event only without a stall:
if the queue handed the job out under its run, the run that lost it may fail on the
state row the other has written, and its catch clause writes "failed" over "processed". `reply_ends`, `lost_wakeup`: weak fairness of adding an accepted event's
job, of each intake run and each flush run (the event loop and BullMQ again),
of Redis dropping an orphaned lock, and of the stalled-job check. Nothing obliges
a chat to report, a reply to be slow or a fault to strike.

## 4. Proofs

Thirty theorems, for every value of the constants, from the named
assumptions of the modules alone. Sending path: `StoreAssumption`,
`ApiAssumption`, `WorkerAssumption`, `LoopAssumption`; reply path:
`BurstAssumption`, `IntakeAssumption`, `ReplyAssumption`. `ApiAssumption` and
`LoopAssumption` ask for finitely many requests in flight and loops, which a
process has, and `BurstAssumption` for finitely many flush runs, which the
worker's `concurrency` bounds; `ReplyAssumption` says that the duplicate check is
on or off. `PressedAtMostOnceByOneLoop` assumes a single task loop, and no other
theorem assumes more than these.

The services' assumptions say what the columns and the forms may hold.
`DecisionAssumption`: policies and rules are rows of their tables, thresholds and
weights numbers or missing. `ConfigAssumption`: the environment has an entry,
perhaps blank, for every name looked up; key texts are sequences of characters, and
the mark for a missing value is not one. It and `FormAssumption` say besides that
"no row" and "no form" are neither row nor form. What a key may be is not
restricted: that no mask passes for one is proved. `GenerationAssumption`: a posted
policy has values its columns take; there are finitely many snippets; `TopK` and
`FetchLimit` are positive; a configuration row the generation starts with holds no
mask, which is what `MaskIsNeverStoredHolds` shows of the rows the handlers
write. `KnowledgeAssumption`: a paragraph is not empty and the marks for
documents are not documents or contents. `RegistryAssumption`: times are numbers
and "no robot" is not a robot. All are evaluated by TLC on the runs.

Sending path:

- `SendPath_proofs`, `TypeCorrect`: `[]TypeOK`, component by component.
- `CompletedIsHandledHolds`: a run past its insert has its task, its own or the one
  that made the insert fail (`RunsPastInsertHaveTask`), and tasks are never removed
  (`RunsStep`). A job completes with its message cancelled or behind the insert, and
  a message that no run got a task for stays cancelled afterwards, because only a
  run past the insert overwrites it (`JobsStep`).
- `RunningHasOpenAttemptHolds`: with the types it is inductive; each step leaves a
  running task alone or grants it (`AttemptStep`).
- `SuccessWasPressedHolds`: success travels from the press to the loop, to its
  request, to the task and to the message. `LoopsAreHonest` and
  `RequestsAreHonest` are the two stations in between, `HonestStep` says that
  each takes it from the one before, and `AbsentIsUnlinked` and
  `OneTaskPerOutbound` (the unique index, kept by every step: `RowsStepUnique`) tie
  the message to its task.
- `SendPathGrants_proofs`, `SendersWereGrantedHolds`: a loop that waits has an open
  request of its own (`WaitersOwn`), no two loops the same (`WaitersApart`), and a
  request that carries a grant has its attempt row (`GrantsAreRecorded`); so what a
  loop takes for its answer is its answer.
- `PressesAreRecordedHolds`: the bound is not inductive, because a grant is counted
  before the press it allows. `Covered` counts presses, grants under way (`Grants`)
  and loops about to press (`AboutToPress`) against the attempts; a step writes a
  grant with its attempt, hands it to one loop, or uses it up (`AccountStep`).
- `GrantedOnceUnlessAcksMeetHolds`, `LifecycleUnlessHandlersMeetHolds`: what the
  violation runs `double_ack` and `stale_cancel` refute, for every task that they do
  not happen to. A handler enters the gap between its read and its write only by a
  read, so that what it read holds (`EntersGap`), and whoever writes a task from a
  gap while another is in a gap about it puts the task in `met` (`WriterMeets`,
  `MeetingsAreKept`). Hence outside `met` reads are fresh when they are used
  (`ReadsAreFresh`), and a fresh write is a step of `TaskLifecycle`: `AckCommit` a
  `Grant`, `ResultCommit` a `Settle`, `CancelTask` a `Cancel` (`FreshWriteFits`); an
  insert is a `Create`, and nothing else touches a task. Of two acks alone,
  `GrantsAreSingle` counts the attempts: none while one is about to commit, one at
  most afterwards. Any number of requests, and nothing is asked of the workers.
- `PressedOncePerLoopHolds`: what still holds of presses when acks overlap. A task
  that was taken once is never pending again, so whoever may still press it read it
  pending before: loops that have pulled it, and requests of those loops that have
  read it (`MayPress`). Before the first ack nobody has pressed (`UntakenIsUntried`),
  so there is room for one press of each loop (`RoomToPress`); afterwards nobody
  joins (`NobodyJoins`) and who presses leaves (`PressLeaves`).
- `PressedAtMostOnceByOneLoop`: the case of one loop. `GrantedOnce` may fail even
  then, when an ack the loop gave up on commits late, but nothing is pressed twice.

Reply path:

- `ReplyPath_proofs`, `TypeCorrect`: `[]TypeOK` is not inductive. That a retried
  job has an attempt left, and that a run past the insert has its row, needs
  `JobInv`: a run works on an event that has a job, and a run that has not lost it
  (`owns`) has that event's active job (`RunsHaveJobs`), no two runs the same
  (`RunsAreApart`); job and attempts agree (`AttemptsLeft`), and the job
  follows the row (`JobFollowsRow`). `HaveReplies` gives a run at `complete` or
  `queue` the outbound row it is about to name. The other two modules build on
  `Inductive`.
- `ReplyLease_proofs`: the invariant says that the token in the lock is that of the
  one run that answers in time, and that only an answering run is late.
  `AnswersUnderLockAlways` is a part of it; `LeaseRefined` maps each step: `TakeLock`
  to `Acquire`, the end of a run to `Finish`, both expiries to `Expire`, a restart
  to `Crash`, everything else to a stutter.
- `NeverTheSameTwice`: while no reply was slow, a run between the
  check and the insert holds the lock, so nobody else writes in between, and the
  text it checked against is still that of the latest row, or that row has left the
  window since (`Fresh`): time only takes rows out of it. Blank texts are let
  through by the check and left out by the property.
- `ReplyBooks_proofs`, `EventsAreStoredOnce`: rows of an event and runs about to
  create one are claims on it (`Claims`). A run joins them only by looking up and
  finding no row. Who may be at work on an event is the run that owns its job and,
  once a job was handed out again under its run, the one run that lost it
  (`OwnersInv`); so there are two claims at most after a stall and one otherwise
  (`Few`), and the rows are among them.
- `BooksAgree`: each run owns its trace and each row its own
  (`RunsHaveTraces`, `RowsHaveTraces`), and a row's state follows the program
  counter of its run (`RowsFollowRuns`). A row whose run is over without having
  handed it over is left behind: with a failed trace, or by a process that died, or
  by a catch clause that could not write either (`LeftBehind`). It never changes
  again (`StaysBehind`).
- `OnlyUserTextIsCollectedHolds`: a run past the look-up goes by the kind its row was
  stored with (`HoldsRow`), whether it created the row or found that of an earlier
  attempt; rows are never changed (`RowsGrow`), and only the push after the filter
  adds to what the list, the runs and their past hold (`WhatIsCollected`). The second
  filter in `runBurstReplyForMessages` therefore drops nothing, and its anchor is the
  last of all messages the run holds, as `Anchor` has it.
- `NothingIsTakenTwiceHolds`: while nothing has gone wrong, every run of the intake
  owns its job (`WasUndisturbed`) and one flush run is at work at
  a time (`OneFlush`), since the flush job's id keeps a second one away and the lock is
  never busy; so what a run has read, what lies in the list beside it and what was
  taken before have at most the list in common that the run is about to delete
  (`TakenApart`). That a message comes into the list once is the intake's part: what
  was collected is done with (`CollectedIsDone`). The condition is needed: a run that
  throws after its push is retried and pushes again, and a retry job that a busy lock
  left behind does not carry the flush job's id.

Services. A service touches nothing of another's, so each has an invariant of its
own, inductive under the steps of its area and kept by the steps of the others;
TLC has checked each of the five on the instance of `services` restricted to its
area, before it was proved.

- `DeviceRegistry_proofs`, `SilenceIsNoticedHolds`, `HeardRobotIsOnlineHolds`: the
  two properties speak of the last refresh that went through, but a robot is
  written while the next one is under way. `RegistryInv` therefore says of both,
  the last and the one at work, which robots it is done with: an online one it is
  done with was heard (`OnlineWasHeard`), one whose device counts is online
  (`HeardIsOnline`), and the look-up that is about to be written agrees
  (`FoundWasHeard`, `HeardIsFound`). When a refresh goes through it is done with
  all. Time, heartbeats and moves only go forward (`StepIsProgress`), so nothing
  heard is unheard and no device counts that did not before.
- `KnowledgeBase_proofs`, `ReindexLosesNothingHolds`: true half way as well. A request
  that nobody cleared behind its back has a row for every text it has written so far, and if it is
  alone no other (`TextsAreThere`); `AloneAtIt` keeps a second one away from a
  request that counts as alone, `RequestsInOrder` bounds what it has written. What
  the texts are does not matter to this proof: it never expands `Split`.
- `CutsNothingOffHolds`: a sequence of texts is a cut of a content up to a paragraph
  and a place in it (`IsCut`) when its pieces, read in order, go through the content
  up to there without gap or overlap and no text is empty or longer than the limit.
  `CutSoFar` says that of the state after each paragraph; each of the three ways to
  take a paragraph keeps it (`ParagraphIsCut`, with `SlicesAreCut` for the hard
  split). The library's induction rules take an operator, so the induction is over a
  set of numbers, by well-foundedness (`NaturalsAreReached`); with it `CuttingSolves`
  shows that the recursive function `Cutting` does what its body says.
- `BackOffice_proofs`, `OnlyQuestionsAreAnsweredHolds`, `OvertalkSilencesHolds`: a
  decision to reply was reached by the score of a message in the conversation as
  it stands, because a new message ends it (`RepliesAreScored`). `ScoreBounds` adds
  up for any weights: the bonuses for intents exclude one another, since a text has
  one intent, so without a question the score is at most the largest of them and
  what silence may add, and with the overtalk penalty at most what the best text
  earns less that penalty. The conditions of the two properties say that these
  bounds stay below the threshold.
- `MaskIsNeverStoredHolds`: the mask of a key of any length, and that mask with
  blanks around it trimmed, is matched by the patterns (`MaskMeansKeep`), because it
  is stars all through or begins with four (`StarsAreStars`, `FourStarsMeanKeep`).
  So a key is stored as it was or as typed (`KeyIsKeptOrTyped`), and what is typed
  and stored is none of the masks.
- `UntouchedFormKeepsConfigHolds`: an untouched form
  that nobody overtook has no key typed in, and what it shows stands for what is in
  force once it is saved (`UntouchedFormsAreTrue`): a shown fallback that is saved
  becomes the value itself, a blank one falls back as before. The environment may
  be anything.
- `SilencedGroupStaysSilentHolds`: `silenced` holds the reasons that have silenced
  the group since the run began, and only shrinks (`SilenceIsKept`). Each alone
  stops the run: a disabled group at the gate, a silencing policy row there as well,
  and a switch that has been off without such a row was off in the group the run
  read at the start (`GateHoldsTheMuted`). At the precheck the group's own switch is
  read again (`SwitchSilences`).
- `PromptHoldsTheBestHolds`: `TopHoldsTheBest` is the heart. Of a pool that holds
  all chunks with a score of n or more, either all of those are picked, or one is
  left out and then everything picked scores n or more and the places are full.
  `PicksHoldTheBest` finds such a pool in both ways of choosing.
- `PolicySaveIsLocalHolds`: from the types; what is saved is a policy again
  (`SavedIsPolicy`).
- `TypeOKHolds`: the five invariants and the area, which never changes.
- `MinIsLeast` gives a set of numbers its least one, from the well-foundedness of
  the natural numbers; with it `SelectInSeq` finds the first rule, fallback or
  intent, and `Min` counts the places in the prompt.

TLC checks each of these properties on the runs above as well.

Only model-checked: liveness (`EveryTaskEnds`, `EveryJobEnds`, `LockIsFreed`,
`EveryEventEnds`), which TLAPS does not reach, and what `serial` checks of one request
at a time, of which the theorems say more (`LifecycleUnlessHandlersMeet`,
`GrantedOnceUnlessAcksMeet`). The properties of the violation runs are false in
general; the theorems say where the life cycle and `GrantedOnce` hold, and nothing of
`SettledOutboundStays`, `BlockedHasNoTask`, `EveryMessageIsTaken` and
`NoSecondInTheWindow`.

## 5. What could follow

- Robots and several groups in the sending path: pull's filter by robot and
  registration, and the hourly cap with jobs that pass the check together.
- The capture side, if its parsing is ever separated from the accessibility tree.

## 6. Not modelled

- Android capture, screen parsing and navigation (`WeworkAccessibilityService.kt`,
  `ChatPageDetector.kt`, `MessageListParser.kt`, `ChatNavigator.kt`): searches over
  the accessibility tree of another app, whose states the repository does not
  define. The server sees reports that come, come twice or never come, which
  `Report` allows; the sending path sees pressed or not, success or failure.
- In the sending path: trace timestamps, audit rows, `markRobotReplied` (read by
  nothing modelled), pull's filter by robot and registration, the precheck's
  counts (a free choice), and the branch for a robot that does not exist (the
  message's reference to its robot has no `onDelete`, so such a robot cannot be
  deleted and the branch is unreachable).
- In the reply path: the upserts of robot and group, audit rows, latency data, the
  wait for the model beyond `slow`; a second stall of one job (BullMQ fails the job
  then); blank replies in the runs (the theorems cover them); in the echo check, the
  look-back, the blank sender and its switch: a text the robot says that is live counts as its
  own; and the revival of a failed message by the late mark that `late_mark` shows, so
  a failed reply stays failed.
- In the services: `defaultStyleHint` (read by the effective configuration, sent by
  no form), prompt texts, the reply preview, embedding vectors, knowledge
  collections and enabled switches, trimming of form fields, login and sessions,
  lists, test calls and plain CRUD, the hourly and daily audit jobs,
  `Device.status` (read by nothing), the WorkTool client (not on the path).
- The Android configuration screens and local counters: no protocol behind them.
