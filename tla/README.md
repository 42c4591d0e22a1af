# Verification of JobStatusManager

TLA+ models of the service in `src/src/jobs_status_manager`, the TLC instances that
check them, and TLAPS proofs of what they check but liveness. Paths below are relative to that package.

## 1. The system

One process (a Starlette service over one SQLite database in WAL mode) reads the user's
mail folder, has an LLM analyse job mails, converses with one user over QQ, changes the
status of job applications after the user has confirmed each change, and keeps a
searchable knowledge base. An operator works beside it with a CLI process.

Concurrency is between *sequential* actors that meet only in the database:

| actor | code | reads and writes |
|---|---|---|
| imap-poller thread | `mail_poller.poll_once` | `mail_accounts`, `mails`, first `outbox_events` |
| outbox-publisher thread | `event_pipeline.publish_once` and its consumers | `outbox_events`, `processed_events`, `job_mail_analyses`, `notifications`, `pending_actions` |
| notification-dispatcher thread | `notifications.dispatch_once` | `notifications`, `notification_attempts` |
| notification-recovery thread | `notifications.recover_stale` | `notifications` |
| conversation-agent thread | `lifecycle._agent_cycle` | `agent_runs`, `sessions`, `pending_actions`, `applications`, `job_events` |
| knowledge-index thread | `lifecycle._knowledge_cycle` | `knowledge_documents`, Chroma |
| QQ ingress, one thread per delivery | `StarletteEventTransport`, `receive_botpy_event`, `agent/webhook._persist_event`, `agent/uploads` | `conversation_messages`, `qq_inbound_identities`, `agent_runs`, `sessions`, `user_files`, the upload directory |
| service process | `lifecycle.lifespan` | the resources it owns, the tasks above |
| operator (another process) | `task_operations.retry_task`, `rebuild-chroma` | rows in FAILED |

Every thread repeats its cycle after 60 seconds; RuntimeError, ValueError and
SQLAlchemyError end one cycle only (`lifecycle.py:394-412`), anything else ends the
process. `_startup_recovery` (`lifecycle.py:373-382`) runs before the loops.

**Atomicity.** A `with transaction(...)` block is the unit. The SQLite driver opens a
transaction at the first write only, so *reads at the start of a block are outside it*.
The models make the read and the write two steps wherever another actor may change the
row in between (the operator's retries, the recovery thread), and one step where no other
actor leaves the state that was read, with the reason beside the action. Calls of a
provider (LLM, QQ, IMAP, embeddings, Chroma) are always outside transactions and are
steps of their own; a crash may fall between any two steps.

### Components, what makes them correct, and what is hard

* **Confirmed status writes** (`application_core`). A proposal is frozen, resolved by the
  user, claimed, executed, and retried. Correct: no write without confirmation, at most
  one effect per action, the history replays to the current status, bounded retries,
  nothing confirmed is forgotten. Hard: three places execute actions (confirmation,
  recovery, startup), executions can be judged stale while they run, and the operator
  writes from another process.
* **Conversation session** (`agent`). Runs queue for one session; a run may suspend for a
  confirmation and is resumed by another run, the command. Correct: one main run at a
  time, served in order, answered once, ended in the end. Hard: each of a dozen
  transactions of one run may be the last before a crash, and six recovery scans put the
  pieces together again.
* **Tool loop** (`agent/turn_runtime`, `tool_runtime`, `continuation_state`,
  `write_preflight`, `write_proposals`). The LLM asks for batches of calls, which are
  stored, carried out, or proposed to the user, until it answers. Correct: a call is
  proposed once, a batch with a malformed write does nothing, and the LLM is told of every
  call what became of it. Hard: the loop is left in the middle of a batch by every
  proposal and by every death, and rebuilt from rows written in a dozen transactions.
* **Mail pipeline** (`mail_poller`, `_qq_imap_gateway`, `event_pipeline`,
  `event_consumers`, `mail_service`). Correct: no mail is skipped or stored twice, and
  each leads to one message. Hard: UIDs are reused and renumbered, the cursor is saved
  after the batch, and events are delivered at least once.
* **Notifications**. Correct: a true attempt history, no repetition after an ambiguous
  outcome, every notification ends. Hard: two threads and a process on the same rows while
  a push is in flight.
* **Knowledge index**. Correct: what is searchable has its vectors, what is removed is
  cleaned. Hard: no transaction spans SQLite and Chroma.
* **QQ ingress and uploads** (`infrastructure/qq_botpy`, `agent/botpy_ingestion`,
  `agent/webhook`, `agent/uploads`). Correct: only what is stored is acknowledged, a
  message is stored once and with its file, and no file is left behind. Hard: the provider
  delivers again while an earlier delivery still downloads, and the two meet at the unique
  indexes, as do the first two messages of the user.
* **Lifecycle** (`application/lifecycle`, `LifespanBotpyRuntime`, the adapter factory).
  Correct: whatever fails, while starting, serving or closing, workers leave before
  anything they use is closed, and everything is closed. Hard: cancellation does not
  reach a thread, closes raise, and requests go on while a failed group drains.
* **Operator commands, adapters, database operations, identity, settings**: see
  `PROJECT.json` (`components`) for the reason each of them is not or only partly modelled.

`PROJECT.json` lists every hazard at its line with the properties aimed at it.

## 2. Modules

| module | models | built on |
|---|---|---|
| `ConfirmedWrites` | what the confirmation protocol promises: decided once, written at most once, exactly the frozen values | |
| `PendingActions` | the protocol that implements it | refines `ConfirmedWrites` |
| `PendingActionsProofs` | the theorems | extends `PendingActions`, `TLAPS` |
| `AgentSession` | session, runs, suspension, commands, delivery, recovery | the outcome of `PendingActions` as one step |
| `AgentSessionProofs` | the theorems | extends `AgentSession`, `TLAPS` |
| `ToolLoop` | one run with all its tool calls, proposals, commands and restarts | |
| `ToolLoopProofs` | the theorems | extends `ToolLoop`, `TLAPS` |
| `Notifications` | dispatch, recovery thread, operator | |
| `NotificationsProofs` | the theorems | extends `Notifications`, `TLAPS` |
| `MailPoll` | folder, cursor, batch, ingestion | |
| `Outbox` | events, consumers, analysis, routing | |
| `MailOutcomes` | what the pipeline promises: stored once, judged once, one message | |
| `MailPipeline` | both threads, joined by the transaction of `ingest_mail` | extends `MailPoll`, `Outbox`; refines `MailOutcomes` |
| `MailPipelineProofs` | the theorems, of `MailPoll` and `Outbox` too | extends `MailPipeline`, `TLAPS` |
| `KnowledgeIndex` | documents, vectors, worker, rebuild | |
| `KnowledgeIndexProofs` | the theorems | extends `KnowledgeIndex`, `TLAPS` |
| `ServiceLifecycle` | construction, task group, readiness, shutdown of one process | |
| `QQIngress` | deliveries of events, identities, files | |
| `Service` | both in one process that dies and is restarted | extends `ServiceLifecycle`, `QQIngress` |
| `ServiceProofs` | the theorems | extends `Service`, `TLAPS` |
| `MC*` | the instances TLC checks | |

An operator that stands just before a definition and bears a telling name
(`RecoverableForEver` before `Recoverable`) is the mutant of `PROJECT.json`: the bug the
property must catch. It is used nowhere else.

### PendingActions

Rows of `pending_actions` are functions of the action (`state`, `attemptCount`, and the
three times as saturating timers in units of five minutes). `application`, `latestEvent`
and `jobEvents` are the facts, `outbox` counts event rows. `agent` is the thread: the
phase of its cycle, its list, the claim it holds. One action per transaction:
`Propose`, `Resolve`/`Expire`/`ConfirmAgain` (`service.py`), `RecoverMark`,
`RecoverSelect` (`action_recovery.py`), `Claim`, `Execute`, `RecordFailure` and their
refusals and faults (`execution.py`), `OperatorRead`/`OperatorWrite`. Claim, execution and
resolution are one step each because only the operator writes these rows concurrently, and
it writes rows it has read as FAILED. `ExecuteFails` is any error of the execution's
transaction, the unique index on `job_events.pending_action_id` among them.
`docs/architecture.md:2288-2296` lists the transitions without FAILED to CONFIRMED, which
the operator's retry makes.

### AgentSession

`state`, `message`, `attempt`, `final`, `delivery`, `wait` are columns of `agent_runs`,
`activeRun` is `sessions.active_run_id`, `action` the run's PendingAction. `agent.stage`
walks through `_agent_cycle` (recover runs, recover actions, resume, reconcile, prompts,
runs) and `agent.stack` holds the frames of `process_run`: a command processes the run it
resumes before it answers. Abstractions: timeouts and expiry are choices when they are
asked for; one proposal per run, of a status write; an answer's `delivery_state` is not
kept, nothing reads it; the branch of `_agent_cycle` that claims a queued run is there and
never enabled, because the queued row is itself one of the live runs the query excludes.
`load_context` may find that the
stored rows of a run cannot be gone on from (`runtime_support.py:158-181`): `LoadFails` ends
the run, gives the session back and promotes nobody (`AllowBrokenLoads`). Ingress is one step: it updates the session
row first (`webhook.py:133-134`), so that its question "is a run active" is asked under
the write lock; `promote_next_run` runs after a flush, under the lock too.

### ToolLoop

`AgentSession` has many runs with one write each; `ToolLoop` has one run with all its
calls, so that it can ask what the LLM is told. `calls` and `result` are `tool_calls` and
`tool_results` by sequence, `action`, `linked` the PendingAction of a call and its columns
`agent_run_id` and `tool_call_id`, `context` the `RunContext` in memory, which a crash
loses and `Load` rebuilds: `InSequence` is the order of the rows by sequence, said by what
the order is and not by how it is computed, so that it can be reasoned about. `agent.pc` is the place in `process_run`: `BeginAttempt`,
`Load`, then `_resume_pending_tools` (`RecoverMalformed`, `ExecuteTool` and `StoreResult`,
`ProposeStatus`, `ProposeKnowledge` and `LinkKnowledge`, `ProposeUnknown`), a turn with the
LLM (`Think...`), and the delivery of answer or prompt. `agent.stage` is the stage of
`_agent_cycle` as in `AgentSession`, here with every action of the run in every list. A
status proposal is one transaction; a knowledge proposal is two, and the prompt of it is
in no row (the event of the proposal makes a notification that asks as well, which is not
modelled). `ProposeUnknown` is the removal of a document that does not exist: `LookupError`
is not among the exceptions a worker survives, so the service stops (`STOPPED`) until it is
started again (`StartAgain`). `Accepted` is what `openai_compatible_llm._continuation_messages`
asks of a continuation; a response may repeat an id (`RepeatIds`), which the adapter refuses
within one response only. Arguments are abstracted to the kind of the call.

### ServiceLifecycle, QQIngress, Service

`phase` is the place of the coroutine `lifespan`, `resource` what it owns, `child` its
tasks. A worker's task is `waiting` (in its sleep) or in a `cycle`: the thread of a cycle
runs to its end whatever is cancelled meanwhile (`anyio.to_thread.run_sync` is not
abandoned), which is why `ChildLeaves` asks for `waiting` and `EndGroup` for tasks that are
gone. A call of the provider that is under way when the group is cancelled is answered to
its thread as an ambiguous outcome (`qq_botpy._execute`), which is one of the outcomes
`Notifications` and `AgentSession` have. `ready` is the product readiness that `/health` reports.

`ClosingOrder` is the order of the closes, `next` the place in it, `CloseNext` one close,
which may raise; the first error is the one that is kept. Which exception is raised matters:
`LifespanBotpyRuntime.close` and `_cleanup_lifecycle_resources` go on after any, the adapter
factory after OSError, RuntimeError and ValueError only (`Raisable`). After another one the
remaining adapters are skipped (`factory.py:89`) or, in a construction, not closed at all and
referred to by nothing (`ConstructionLeaks`, state `lost`); `escapes` remembers where that
happened. `UseDatabase` is a transaction outside the group: on an engine that was disposed of it
opens a connection again (`reopened`).

A delivery (`delivery[d]`) walks through `handle_request`: `CheckIdentity` is
`_has_identity`, `Download`, `Rename`, `RefuseUpload` and `UploadFails` the attachment,
`ReadRows` and `Commit` the two halves of `_persist_event`'s transaction, `Recheck` what is
asked after an IntegrityError, `Acknowledge` the answer with op 12. What an event is decides
some of its fate: a `BADFILE` is refused on every delivery, for its metadata, URL, type, size or
content, while the network, the disk and the lock of the database fail now and then
(`UploadFails`, `CommitFails`); a message before the bootstrap of the user is refused with 403
(`user`); and a second message with the same file of the provider (`FileId`, `FileTaken`)
violates the unique key of `user_files`, which `Recheck` cannot take for a duplicate: 503 on
every delivery.

`disk` counts the files in the upload directory. A download adds one; only `RemoveFile`, the
`finally` clauses, takes one away. `kept` are the files with a row, `Holding` the deliveries that
have one in hand, so that a path that forgets the removal leaves a file nobody answers for. The
removal itself (`unlink`) is taken to succeed; a failing one would raise out of the `finally`.

`Service` puts both into one process: requests are served by uvicorn, not by the task group, so
that they go on while a failed group drains and after it (`Admitting`, `Handle`), an orderly stop
waits for them (`Stop`), and a crash ends them where they are. `Bootstrap` is the operator's process.

### Notifications

`Claim` takes all due rows and increments their attempts in one transaction, `Push` and
`Finish` follow per row. `RecoveryScans`/`RecoveryWrites` and
`OperatorReads`/`OperatorWrites` are split as explained under Atomicity. `results` is the
table of attempts. The production gateway never raises (`qq_botpy._execute`), but
`dispatch_once` handles exceptions and lets others escape: both are modelled.

### MailPoll, Outbox, MailPipeline

The folder is the environment: `MailArrives`, `MailDeleted`, `Renumber` (a new
UIDVALIDITY). The poller is `PollResets` or `PollFetches`, then one `IngestMail` per
envelope, then `SaveCursor`. The two searches of a poll are one look at the folder. A mail
may be damaged (`form`): one that cannot be parsed fails the poll of its batch, whose error is
recorded while the cursor stays (`PollFails`, `qq_imap_mime.py:111`), and one with an unknown
charset raises a LookupError that no loop survives, so that the service ends (`PollEscapes`,
`qq_imap_mime.py:59`) until it is started again (`StartAgain`). Any other failing poll changes
counters only. `Found` is the meaning of `n:*` in RFC 3501: the
range always includes the last mail. `Outbox` delivers the events of its batch in any
order (the code's order is one of them), each with its consumer's transaction, the LLM
call between two, and the bookkeeping in a transaction of its own. `IngestMail` joins the
two: the row and its first event are one transaction.

### KnowledgeIndex

`worker.pc` walks through `_knowledge_cycle` and, with the service stopped as
`docs/operations.md:97` demands, through `rebuild_index`. Failing calls of Chroma may have
had their effect. Adding and removing are single steps of another thread. The write of
READY after a removal that falls between its read and its write is not modelled apart: a
removed document in READY is found by the cleanup as one in INDEXING is.

## 3. What is checked

All bounds are constants of the modules. Nine runs pass.

| run | instance | shows |
|---|---|---|
| `pending_actions` | 2 actions on 1 application, 2 attempts, 1 requeue, 1 fault, 1 crash | facts, outbox, refinement, settlement |
| `agent_session` | 3 messages, 2 confirmations, repeated ones too, expiry, timeouts, broken loads, 1 crash, 2 delivery attempts | one question holds the session, answers are not repeated, questions are started in the order of their arrival |
| `agent_refusals` | 2 messages, 1 command that confirms or refuses, 2 executions, timeouts, broken loads, 1 crash, 2 delivery attempts | what reopens a run that has ended, resumption after either decision, the end of every run |
| `tool_loop` | 3 calls in batches of up to 2 of every kind, 2 commands, 2 delivery attempts, 1 crash, timeouts, repeated ids | one proposal per call, nothing around a malformed write, a complete and true continuation, the end of the run |
| `notifications` | 2 rows, 2 attempts, 1 requeue, 1 fault | history, duplicates, termination |
| `mail_pipeline` | 2 mails, each possibly damaged, batches of 1, 1 deletion or renumbering, 2 attempts, 1 requeue, 1 crash | from the folder to the message; refinement |
| `knowledge_index` | 2 documents, 2 attempts, 1 requeue, 1 rebuild, 1 crash | index and facts agree, every document settles |
| `service` | 1 worker, 2 concurrent deliveries, 5 events (two messages with one file, a text, a bad file, one ignored), 2 faults | acknowledgement, files, shutdown |
| `messages_arrive` | no worker, 2 concurrent deliveries, the first 3 of these events, 2 faults | arrival |

Why these bounds are enough: each hazard needs two rows at most (a row and the one
waiting behind it, two contradictory actions on one application, a mail inside and one
outside the batch, two deliveries of one event or of the first two events of a user); one
crash, requeue or fault each falls at every point of every interleaving; two attempts
distinguish "retry" from "given up"; one UIDVALIDITY change is the only way keys differ for
the same mail. Two faults in `service` let a death follow a failure, or a second death. In
`tool_loop` three calls are a batch of two and another one, so that a run resumes, asks
again and suspends again. Workers of `service` do not influence each other except through
the cancellation of the group, so one stands for all; the theorem has any number. `messages_arrive` has none: a worker can only
end the service, which its property sets apart. What
would need two crashes in a row is not excluded by the other runs, except where a theorem
covers it (section 5). The rows of `notifications` do not share provider outcomes because
rows do not influence each other's outcome (`MCAnswers`), and only one mail has job
vocabulary (`MCJobMails`): the other shows the path without an LLM.

The limits of attempts are parts of the type invariants: `TypeOK` of `Notifications`,
`KnowledgeIndex` and `MailPipeline` bounds each counter by the automatic attempts and
what recoveries, requeues and rebuilds add to them.

Three runs expect a violation. Each states a sentence of the documentation, a docstring or
a test report, and TLC finds the behaviour of the code that breaks it (`findings`):

* `session_stranded` (`agent/runtime.py:270`): a run failed by timeout leaves the session
  to nobody; the question behind it never starts.
* `write_overtaken` (`agent/write_recovery.py:117`): a run with two writes is resumed from
  the second confirmation, still undecided, because the first write is decided.
* `history_ingested` (`_qq_imap_gateway.py:149`): after a baseline the newest old mail is
  fetched as new.

More disagreements are visible in the modules. No run is spent on them: the passing
properties name them, as exceptions or as the only causes of what they exclude.

* Refusing twice, or a refusal redone after a crash, reopens a run that has ended, beside the one
  that may hold the session by then (`agent/write_runtime.py:235`; `docs/architecture.md:2378`,
  `OneMainRun`). `ReopenedByRefusalOnly` says that nothing else reopens a run.
* A mail with an unknown charset ends the service at every poll, however often the service is
  started again, and holds up every later mail of the folder (`qq_imap_mime.py:59`;
  `docs/imap-llm-adapter-implementation.md:366`). `MailIsSettled` has this as an exception
  (`Stopped`), and the documented one of a mail that cannot be parsed (`Blocks`).
* Some removed documents keep their vectors (`knowledge/index.py:187-191`;
  `docs/phase-5-verification.md:80-81`): a document whose last allowed attempt succeeded, or
  that a recovery or a rebuild has put back to PENDING over existing vectors, is never selected
  by the cleanup once it is removed. `RemovedIsCleaned` speaks of `Cleanable` documents. The
  others keep their vectors until a rebuild; retrieval never returns them, since it asks SQLite
  first.
* After an exception the adapter factory does not catch, chromadb's or sqlite3's own errors among
  them, clients stay open when `lifespan` has ended (`factory.py:177`, `89`;
  `docs/deployment.md:128`): `Excused` in `EverythingClosed`.
* A message with a file that an earlier one has brought is answered 503 on every delivery
  (`knowledge/models.py:15`): `FileTaken` in `MessagesArrive`.
* A retry by the operator reads FAILED and writes CONFIRMED over a row that has completed
  since (`action_recovery.py:104`; `docs/operations.md:64` says a retry only requeues a
  failed record). The unique index keeps the effect single, which `OneEffectPerAction` checks in
  the very same model.
* A crash between a status proposal of the agent and its prompt leaves the user unasked
  (`agent/write_recovery.py:35`; `docs/phase-4-verification.md:70-71`): the prompt is
  stored as PENDING, which the retry of prompts does not select, and the proposal's event fails
  (`event_consumers.py:147`). For a knowledge proposal nothing is lost in the end: its prompt is
  in no row (`write_proposals.py:150`) and the retry finds no text (`write_recovery.py:65`), but
  the event's consumer asks with a notification of its own (`event_consumers.py:185-208`).
* The recovery of stale sends overwrites SENT by RETRY_WAIT when the outcome was recorded
  between its read and its write (`notifications.py:87`): the message is sent again.

The passing runs state what holds *in spite of* these: `NoMailSkipped` and `StoredOnce`
set apart the mails a baseline has put into the past; `DuplicatesAccounted` counts the
recoveries; `agent_session` allows confirmations, repeated and late ones (`RepeatCommands`,
`AllowExpiry`), and `agent_refusals` refusals, because a refusal that meets a run that has ended
breaks what the former checks; `RunsFinish` is checked without expiry, after which a run waits
for ever. `ReopenedByRefusalOnly` says what the reopening of a finished run is always due to.
`MailIsSettled` sets apart the mail that a damaged one holds up, and demands that the operator
sees it. `MessagesArrive` sets apart the message whose file another one has brought.
`EverythingClosed` sets apart the adapters behind an exception that is not caught, and no other.
`RunSettles` of `ToolLoop` and `MessagesArrive` of `Service` set apart the service that has stopped: after a failure of a worker the process goes on answering
without `lifespan` until somebody ends it. A run whose confirmation expired, or whose action
failed for good, waits for ever (`write_recovery.py:117`): it is listed as a hazard.

`CHECK_DEADLOCK FALSE` stands where the system may come to rest (the mail of the bounded
environment is processed, every document settled).

## 4. Fairness

The loops are `while True` around a call that returns, so weak fairness of the whole
thread (`AgentStep`, `DispatcherStep`, `PollerStep`, ...) is what the code justifies; which
branch a call takes is never fair. Clocks advance: weak fairness of retry times and of the
ageing of abandoned leases. In `PendingActions` one `Tick` moves all timers and is disabled
between the two halves of a scan, hence `SF_vars(Tick)`. In `Service` every task of the
event loop is weakly fair by itself (startup, shutdown, the leaving of a child, the end of
a cycle, whose provider calls all have timeouts, and each delivery, which has a deadline),
and redelivery of an event that is to be stored is strongly fair: the provider does not
give up a message that is not acknowledged, and the service admits requests again and
again. A new cycle, a failure, a death and the supervisor's restart of a *stopped* service
are not fair; the start of a process that is down is. Neither is the operator's bootstrap:
`MessagesArrive` speaks of messages delivered when the user exists. In `MailPipeline` the restart
of a service that a mail has ended is not fair either: `MailIsSettled` sets the ended service
apart. In `ToolLoop` the thread is weakly
fair and the user is not. Operators, users, crashes and the
success of a provider are not fair: the liveness properties allow FAILED, which the
operator sees.

## 5. What is proved

Every theorem is about `Spec` for every value of the constants, from the module's named
assumptions alone (`ConstantsAssumption`, `SessionAssumption`, `ToolLoopAssumption`,
`NotificationsAssumption`, `MailPollAssumption`, `OutboxAssumption`, `PipelineAssumption`,
`KnowledgeAssumption`, `LifecycleAssumption`, `IngressAssumption`), which say that bounds are
numbers and that environments have the right types; the hypotheses four theorems about
`AgentSession` have besides are explained there. Each proof has an inductive invariant, whose parts are
named, one lemma or step per action and under it one step per part the action can disturb.

`PendingActionsProofs`:

* `TypeCorrect`: `Spec => []TypeOK`;
* `FactsInvariant`: `Spec => []FactsInv`, the inductive invariant;
* `HistoryReplaysAlways`, `OneEffectAlways`, `OutboxMatchesAlways`: its parts the run checks;
* `Refinement`: `Spec => Promise!Spec`, the protocol implements `ConfirmedWrites`.

`HistoryReplays` is not inductive by itself: nothing in it stops an action from being
executed twice, or unconfirmed. `FactsInv` adds that each `job_events` row belongs to one
action (`OneEffectPerAction`), that it carries the frozen arguments of an action in a
confirmed state (`EffectsAreConfirmed`), that the outbox counts match state and facts
(`OutboxMatchesFacts`, which forbids a second resolution), and that the operator only holds
rows that were confirmed (`OperatorHoldsConfirmed`): a stale FAILED can be written back,
but only over a row the user has confirmed. The refinement maps a state to the decision it
implies and the `job_events` table to the history: `Resolve` and `Expire` decide, `Execute`
with a change writes, every other step stutters; the guard `~Written(a)` of the abstract
write is `OneEffectPerAction`'s unique index, and the open decision of `Decide` follows from
the `PENDING` guard.

`NotificationsProofs` (`TypeCorrect`, `HistoryIsTrueAlways`, `DuplicatesAccountedAlways`):

* `BasicInv` adds to the types that rows some actor has read as stale or FAILED have been
  attempted, and stay so whatever the other actors write (`ActorsInv`); that a row waiting
  for a retry has an attempt left, or a recovery or requeue that accounts for one more
  (`AttemptsInv`); and that the last attempt of a claimed row is STARTED until `Finish`
  (`HistoryInv`): there is one dispatcher, so a held row is not claimed again even when
  the recovery has put it back to RETRY_WAIT.
* `DuplicatesAccounted` counts messages; the invariant also counts the messages to come.
  `Accounted`: what has reached the user, plus one if a push of the row is due, plus one if
  the row waits to be claimed, is at most one plus the recoveries, the requeues and the
  attempts that raised. Every action moves a unit between these terms: `Claim` from
  waiting to due, `Push` from due to reached, `Finish` of a retryable outcome from due to
  waiting, and of one that raised from the new cause to waiting.

`KnowledgeIndexProofs` (`TypeCorrect`, `ReadyIsIndexedAlways`): `READY => vectors` needs to
know what the worker holds. `WorkerInv` says that a document whose vectors are being
deleted is REMOVED, that one about to be marked READY has its vectors, and that all active
documents are PENDING before a rebuild deletes the vectors; `AttemptsInv` that an active
PENDING document has an attempt left, or one a rebuild has added.

`ServiceProofs` (`TypeCorrect`, `AckedIsStoredAlways`, `UploadsAccountedAlways`,
`WorkersLeaveFirstAlways`, `EverythingClosedAlways`), for any number of workers, deliveries,
events and faults and any kinds and files of the events:

* `LifecycleInv` ties tasks and resources to the phase of `lifespan`: a cycle runs only between
  the start of the group and its end, and something is closed only after it. Its part
  `ClosingInv` speaks of every position the closing has passed: what stands there is not open,
  unless an exception recorded in `escapes` excuses it, and only a construction loses anything.
  `EverythingClosed` is this at the end of `ClosingOrder`; the step of an uncaught exception,
  which jumps over adapters, is the case that needs the excuse. `ServingInv` adds that
  deliveries are at work outside the serving phase only after a failure, so that nothing opens
  the database again after an orderly stop.
* `DeliveryOK` says what event and what file a delivery has at each step: one is held at `READ`,
  `COMMIT` and `RECHECK` exactly if the event has a file, and none when an acknowledgement is
  sent. `CrashesInv` is the balance: `Unaccounted`, the files on the disk less those of rows
  and those held, is at least zero and at most `MaxDeliveries` for each death. Every step is
  shown to leave the balance alone (a download adds a file and a holder, a commit turns a
  holder into a row, a removal takes away both) but the death, which turns holders into files
  nobody answers for. The numbers are cardinalities, so the proof rests on the finiteness of
  `Deliveries` and of `kept`.

`AgentSessionProofs`, for any number of messages, commands and deaths:

* `TypeCorrect`, `StartedInOrderAlways`, and the action properties `ResumedAfterDecisionAlways`
  and `ReopenedByRefusalOnlyAlways` hold of `Spec`.
* `ActiveRunHoldsSessionUnless`, `AnswerReachesOnceUnless` and `TerminalIsFinalUnless` (no step
  leaves an end) hold of
  `Spec /\ [][RefusedInTime]_vars`: of the behaviours in which `finalize_rejected_action`
  meets runs that wait for the decision only. The code does not ask for the run's state there
  (`write_runtime.py:235`), and a repeated refusal sets a run that has ended RUNNING again. The theorems say that this is the *only* way these
  properties fail: no timeout, expiry, death, repeated confirmation or recovery scan breaks them.
* `OneMainRunConfirming`: where the user's commands are confirmations, as in the instance of
  `agent_session`, the hypothesis holds by itself and the three properties, with `OneMainRun`,
  are unconditional.

`StartedInOrder` needs to know how many messages have arrived, and that a queued run was
never attempted and has proposed nothing (`RunsInv`). `ResumedAfterDecision` needs the
thread: each stage of a cycle works on a list it has selected a while ago, and a frame of
`process_run` goes on with what it knew when it was pushed. `StageInv` says that what is
still in a list is still in the state it was selected for, `StackInv` that the frame on top
has the run in a state its place expects, is not in the list any more, and that below a
question's frame there is only that of the command it is processed for, still unanswered.
`RunsInv` adds that a run with an undecided action waits. `ReachedInv` counts answers one
step early: beyond the deaths, an answer is counted only once its run has ended, or while
its outcome is on the way into the row.

`ToolLoopProofs` (`TypeCorrect`, `ProposedOnceAlways`, `NothingAroundMalformedAlways`,
`ContinuationCompleteAlways`, `ResultIsTrueAlways`), for any limit of calls, any set of
responses and any number of commands and deaths. The invariant's core is that the calls that
have a result are the first ones, up to some `k` (`CallsInv`), and that the context in memory
is the calls split at that `k` (`ContextInv`): whatever `Load` rebuilds after a death is what
was there before it, so a call is proposed or carried out when it is the first without a
result, and never again. `BatchInv` says of every batch with a malformed call that none of its
calls was carried out or proposed and that all of them have a result or none, since it is
answered in one transaction; batches are numbered upwards, so that the pending calls of a
batch are its last. That `Load` finds the split needs arithmetic about increasing
enumerations of an interval (`IncreasingIsIdentity`), proved from well-foundedness.
`AgentInv` says what the stages and a command in progress have selected, which
`ResultIsTrue` needs: a result is written for an action that is still what it was.

`MailPipelineProofs` (`TypeCorrect`, `NoMailSkippedAlways`, `StoredOnceAlways`,
`OneNoticePerMailAlways`, `EffectsAreDurableAlways`, `Refinement`), for any number of mails, changes of the
folder, requeues and deaths and any size of a batch:

* of the poller: UIDs follow the order of arrival (`FolderInv`); neither the cursor nor the
  one about to be saved is ahead of the folder in its present numbering (`PollerInv`); a key
  `<<validity, uid>>`, of a row or of the batch, tells its mail, and is the mail's present
  one as long as its numbering lasts (`KeyInv`); a mail known by a key of an earlier
  numbering becomes history before a cursor of the new one exists (`OnceInv`, without which
  renumbering could store it twice); and what the next cursor will pass is stored, history or
  still in the batch (`SkipInv`).
* of the publisher: what is in the cycle's batch is pending and an event being marked
  published has its marker (`PublisherInv`); each event of a mail exists if and only if the
  one before it is processed with the effect that leads to it, and the notices are counted
  by the markers (`ChainInv`), so that a mail has the notice of its analysis or that of its
  proposal.
* The two halves are joined by one conjunct: a row is stored if and only if its first event
  exists.
* `Refinement` (`Spec => Outcome!Spec`) maps the rows to what has been made of a mail
  (`Judgement`), the third event to the proposal and the notices to messages. Storing, judging,
  proposing and telling are one step each of the pipeline (`IngestMail`; `ClassifyNonJob` or
  `PersistAnalysis`; `RouteAnalysis` with an update; `RouteAnalysis` with news or
  `AskForConfirmation`), everything else stutters, the failures of the LLM included. That a
  judgement is open when it is made follows from `ChainInv` and from `DismissedInv`: a mail is
  dismissed only with its marker, and only job mails are analyzed. `docs/architecture.md:2260`
  allows a mail to be analyzed again; the code has no way to, which is what is proved.

`OneNoticePerMail` is checked as a part of `ImplementsMailOutcomes`.

Only model-checked: liveness (fairness and ENABLED are beyond the prover): `ConfirmedIsSettled`,
`RunsFinish`, `DecidedRunsResume`, `RunSettles`, `NotificationsEnd`, `MailIsSettled`,
`ActiveIsSettled`, `RemovedIsCleaned`, `MessagesArrive`. Every invariant and action property of
the passing runs is a theorem, two of them under `RefusedInTime`. The inductive invariants
were checked by TLC on small instances before they were proved. No module uses a RECURSIVE
operator.

## 6. Plan

Done: all components of section 2, with runs; all their invariants and action properties, with
proofs; the refinements of `ConfirmedWrites` and `MailOutcomes`.

Next: abstract specifications of the other components, and that they are implemented (one
session served in order, over `AgentSession`; what a call of a run becomes, over `ToolLoop`;
a notification's attempts, over `Notifications`).

## 7. Not modelled

* Text: wording of messages, the session's summary and active objects, prompts, the
  arguments and serialized results of tools. The models keep what decides the control flow.
* Pure functions of one call: parsing and chunking of documents, the mail parser, the
  command router, the encoding of the cursor, redaction and settings. They have no state
  and are covered by unit tests; the modules take their results as choices.
* Reads: tools that query, retrieval, health reports, listings of the CLI. Retrieval runs
  in the thread that also removes documents and asks SQLite before it returns a hit.
* The signature and the freshness of a request, the URL challenge, and the bytes, deadlines
  and redirects of a download: a delivery of `QQIngress` is a request with a valid signature, and
  a download succeeds, fails, or is refused for what the file is. A file sent inside the event
  is stored without a `.part` file, with the same outcomes. `receive_webhook`, the path without
  a QQ runtime, is not reached while one serves, and answers nothing but errors after it.
* Events of the outbox that are not about mails. That of a status proposal of the agent fails
  three times (`event_consumers.py:147`) and nothing depends on its state; that of a knowledge
  proposal becomes one notification (`event_consumers.py:185-208`), which goes the way of all
  notifications.
* Backup, restore check, integrity check and migrations: calls of SQLite and Alembic.
* HTTP and SDK details of the clients; their outcomes are choices of the modules that
  call them.
