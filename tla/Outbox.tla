-------------------------------- MODULE Outbox --------------------------------
(***************************************************************************)
(* The transactional outbox of the mail pipeline: publication of events,   *)
(* the idempotent consumers that analyze a mail and route the analysis to  *)
(* a notification or a proposal, retries, and the operator's requeue       *)
(* (event_pipeline.py, event_consumers.py, mail_service.py).               *)
(*                                                                         *)
(* One thread, outbox-publisher, delivers the events of a batch one after  *)
(* the other; each `with transaction` block and the call of the LLM is a   *)
(* step.  Events without a consumer are published at once and are left     *)
(* out.  An exception that publish_once does not catch ends its cycle, and *)
(* is here the same as the death of the process.  next_attempt_at is the   *)
(* Boolean "lies in the future".                                           *)
(*                                                                         *)
(* MailPipeline composes this module with MailPoll.                        *)
(***************************************************************************)
EXTENDS Integers

CONSTANTS
    MailIds,           \* rows the mails table may hold
    JobMails,          \* those with job vocabulary (classify_mail)
    MaxEventAttempts,  \* MAX_OUTBOX_ATTEMPTS
    MaxRequeues        \* bound: operator retries per event

ASSUME OutboxAssumption ==
    /\ JobMails \subseteq MailIds
    /\ MaxEventAttempts \in Nat \ {0}
    /\ MaxRequeues \in Nat

EventTypes == {"MAIL_RECEIVED", "JOB_MAIL_ANALYZED", "PENDING_ACTION_CREATED"}
Events == EventTypes \X MailIds
Received(m) == <<"MAIL_RECEIVED", m>>
Analyzed(m) == <<"JOB_MAIL_ANALYZED", m>>
Created(m) == <<"PENDING_ACTION_CREATED", m>>

\* What the LLM says: an analysis with or without a status suggestion, a
\* failure to be retried (a validation error included), a terminal LLMError.
Suggestions == {"UPDATE", "INFORM"}
Answers == Suggestions \cup {"RETRYABLE", "TERMINAL"}

VARIABLES
    status,      \* outbox_events.status ("NONE": no row)
    attempt,     \* outbox_events.attempt_count
    wait,        \* next_attempt_at lies in the future
    processed,   \* events with a row in processed_events
    mailState,   \* mails.processing_state ("NONE": no row)
    suggestion,  \* the job_mail_analyses row of the mail ("NONE": no row)
    notices,     \* notifications created from the event
    requeued,    \* operator retries of the event
    publisher    \* control state of the outbox-publisher thread

eventVars == <<status, attempt, wait, processed, requeued>>
outboxVars == <<eventVars, mailState, suggestion, notices, publisher>>

NoEvent == <<"NONE", "NONE">>
PublisherIdle == [pc |-> "idle", batch |-> {}, event |-> NoEvent, answer |-> "NONE"]

OutboxInit ==
    /\ status = [e \in Events |-> "NONE"]
    /\ attempt = [e \in Events |-> 0]
    /\ wait = [e \in Events |-> FALSE]
    /\ processed = {}
    /\ mailState = [m \in MailIds |-> "NONE"]
    /\ suggestion = [m \in MailIds |-> "NONE"]
    /\ notices = [e \in Events |-> 0]
    /\ requeued = [e \in Events |-> 0]
    /\ publisher = PublisherIdle

\* The outbox half of ingest_mail.
MailReceived(m) ==
    /\ mailState' = [mailState EXCEPT ![m] = "PENDING"]
    /\ status' = [status EXCEPT ![Received(m)] = "PENDING"]
    /\ UNCHANGED <<attempt, wait, processed, requeued, suggestion, notices, publisher>>

-----------------------------------------------------------------------------
(* publish_once: the batch, and how a delivery ends.                       *)

DueFirst == {e \in Events : status[e] = "PENDING" /\ attempt[e] = 0}
DueEvents == {e \in Events : status[e] = "PENDING" /\ ~wait[e]}

SelectBatch ==
    /\ publisher.pc = "idle"
    /\ DueEvents # {}
    /\ publisher' = [PublisherIdle EXCEPT !.pc = "deliver", !.batch = DueEvents]
    /\ UNCHANGED <<eventVars, mailState, suggestion, notices>>

DeliveringMarked(type, m) ==
    /\ publisher.pc = "deliver"
    /\ <<type, m>> \in publisher.batch
Delivering(type, m) ==
    /\ publisher.pc = "deliver"
    /\ <<type, m>> \in publisher.batch
    /\ <<type, m>> \notin processed

Then(pc, e, answer) == publisher' = [publisher EXCEPT !.pc = pc, !.event = e, !.answer = answer]
Delivered(e) == Then("publish", e, "NONE")

\* A consumer that finds its marker returns, and the event is published.
DeliverAgain(e) ==
    /\ publisher.pc = "deliver"
    /\ e \in publisher.batch \cap processed
    /\ Delivered(e)
    /\ UNCHANGED <<eventVars, mailState, suggestion, notices>>

NextEvent ==
    LET rest == publisher.batch \ {publisher.event} IN
    publisher' = IF rest = {} THEN PublisherIdle
                   ELSE [PublisherIdle EXCEPT !.pc = "deliver", !.batch = rest]

MarkPublished ==
    /\ publisher.pc = "publish"
    /\ status' = [status EXCEPT ![publisher.event] = "PUBLISHED"]
    /\ attempt' = [attempt EXCEPT ![publisher.event] = @ + 1]
    /\ wait' = [wait EXCEPT ![publisher.event] = FALSE]
    /\ NextEvent
    /\ UNCHANGED <<processed, requeued, mailState, suggestion, notices>>

GivesUpLate(e) == publisher.answer = "TERMINAL" \/ attempt[e] + 1 > MaxEventAttempts
GivesUp(e) == publisher.answer = "TERMINAL" \/ attempt[e] + 1 >= MaxEventAttempts

MarkFailed ==
    LET e == publisher.event IN
    /\ publisher.pc = "fail"
    /\ status' = [status EXCEPT ![e] = IF GivesUp(e) THEN "FAILED" ELSE "PENDING"]
    /\ attempt' = [attempt EXCEPT ![e] = @ + 1]
    /\ wait' = [wait EXCEPT ![e] = ~GivesUp(e)]
    /\ NextEvent
    /\ UNCHANGED <<processed, requeued, mailState, suggestion, notices>>

-----------------------------------------------------------------------------
(* consume_mail_received and analyze_mail.                                 *)

ClassifyNonJob(m) ==
    /\ Delivering("MAIL_RECEIVED", m)
    /\ m \notin JobMails
    /\ mailState' = [mailState EXCEPT ![m] = "NON_JOB"]
    /\ processed' = processed \cup {Received(m)}
    /\ Delivered(Received(m))
    /\ UNCHANGED <<status, attempt, wait, requeued, suggestion, notices>>

CallLLM(m, answer) ==
    /\ Delivering("MAIL_RECEIVED", m)
    /\ m \in JobMails
    /\ Then(IF answer \in Suggestions THEN "persist" ELSE "analysisFails", Received(m), answer)
    /\ UNCHANGED <<eventVars, mailState, suggestion, notices>>

\* persist_analysis and its event; the mail the publisher works on.
Subject == publisher.event[2]

StoreWithoutEvent(m) ==
    /\ suggestion' = [suggestion EXCEPT ![m] = publisher.answer]
    /\ UNCHANGED status
StoreAnalysis(m) ==
    /\ suggestion' = [suggestion EXCEPT ![m] = publisher.answer]
    /\ status' = [status EXCEPT ![Analyzed(m)] =
                    IF suggestion[m] = "NONE" THEN "PENDING" ELSE @]

PersistAnalysis ==
    /\ publisher.pc = "persist"
    /\ StoreAnalysis(Subject)
    /\ mailState' = [mailState EXCEPT ![Subject] = "SUCCEEDED"]
    /\ processed' = processed \cup {publisher.event}
    /\ Delivered(publisher.event)
    /\ UNCHANGED <<attempt, wait, requeued, notices>>

MarkAnalysisFailure ==
    /\ publisher.pc = "analysisFails"
    /\ mailState' = [mailState EXCEPT ![Subject] =
                       IF publisher.answer = "TERMINAL" THEN "FAILED" ELSE "RETRY_WAIT"]
    /\ publisher' = [publisher EXCEPT !.pc = "fail"]
    /\ UNCHANGED <<eventVars, suggestion, notices>>

-----------------------------------------------------------------------------
(* consume_job_analyzed and consume_action_created.                        *)

Route(m) ==
    IF suggestion[m] = "UPDATE"
      THEN /\ status' = [status EXCEPT ![Created(m)] = "PENDING"]
           /\ UNCHANGED notices
      ELSE /\ notices' = [notices EXCEPT ![Analyzed(m)] = @ + 1]
           /\ UNCHANGED status

RouteAnalysis(m) ==
    /\ Delivering("JOB_MAIL_ANALYZED", m)
    /\ Route(m)
    /\ processed' = processed \cup {Analyzed(m)}
    /\ Delivered(Analyzed(m))
    /\ UNCHANGED <<attempt, wait, requeued, mailState, suggestion>>

AskForConfirmation(m) ==
    /\ Delivering("PENDING_ACTION_CREATED", m)
    /\ notices' = [notices EXCEPT ![Created(m)] = @ + 1]
    /\ processed' = processed \cup {Created(m)}
    /\ Delivered(Created(m))
    /\ UNCHANGED <<status, attempt, wait, requeued, mailState, suggestion>>

-----------------------------------------------------------------------------
(* The operator and the clock.                                             *)

\* Only the operator leaves FAILED: its read and its write are one step.
RetryOutboxEvent(e) ==
    /\ status[e] = "FAILED"
    /\ requeued[e] < MaxRequeues
    /\ status' = [status EXCEPT ![e] = "PENDING"]
    /\ wait' = [wait EXCEPT ![e] = FALSE]
    /\ requeued' = [requeued EXCEPT ![e] = @ + 1]
    /\ UNCHANGED <<attempt, processed, mailState, suggestion, notices, publisher>>

EventRetryTimeComes(e) ==
    /\ wait[e]
    /\ wait' = [wait EXCEPT ![e] = FALSE]
    /\ UNCHANGED <<status, attempt, processed, requeued, mailState,
                   suggestion, notices, publisher>>

PublisherStep ==
    \/ SelectBatch \/ MarkPublished \/ MarkFailed
    \/ PersistAnalysis \/ MarkAnalysisFailure
    \/ \E e \in Events : DeliverAgain(e)
    \/ \E m \in MailIds :
         \/ ClassifyNonJob(m) \/ RouteAnalysis(m) \/ AskForConfirmation(m)
         \/ \E answer \in Answers : CallLLM(m, answer)

OperatorStep == \E e \in Events : RetryOutboxEvent(e)

\* The mail is settled: no job mail, or the user hears of it, or one of its
\* events has failed for the operator to see.
Settled(m) ==
    \/ mailState[m] = "NON_JOB"
    \/ notices[Analyzed(m)] + notices[Created(m)] > 0
    \/ \E type \in EventTypes : status[<<type, m>>] = "FAILED"

-----------------------------------------------------------------------------
OutboxTypeOK ==
    /\ status \in [Events -> {"NONE", "PENDING", "PUBLISHED", "FAILED"}]
    /\ attempt \in [Events -> Nat]
    /\ \A e \in Events : attempt[e] <= MaxEventAttempts + requeued[e]
    /\ wait \in [Events -> BOOLEAN]
    /\ processed \subseteq Events
    /\ mailState \in [MailIds -> {"NONE", "PENDING", "NON_JOB", "SUCCEEDED",
                                  "RETRY_WAIT", "FAILED"}]
    /\ suggestion \in [MailIds -> Suggestions \cup {"NONE"}]
    /\ {notices, requeued} \subseteq [Events -> Nat]
    /\ publisher.pc \in {"idle", "deliver", "publish", "fail", "persist", "analysisFails"}
    /\ publisher.batch \subseteq Events
    /\ publisher.pc \notin {"idle", "deliver"} => publisher.event \in publisher.batch

-----------------------------------------------------------------------------
(* Properties.                                                             *)

\* However often its events are delivered, a mail leads to one message to the
\* user: an ordinary notice or a request for confirmation, never both
\* (event_consumers.py:71-118, 151-190; architecture.md:2485).  The run of
\* MailPipeline checks it as a part of ImplementsMailOutcomes.
OneNoticePerMail ==
    \A m \in MailIds : notices[Analyzed(m)] + notices[Created(m)] <= 1

\* An event counts as processed or published only with what it leads to: the
\* next event, or the message (mail_service.py:161-212).
EffectsAreDurable ==
    \A m \in MailIds :
        /\ Received(m) \in processed =>
             mailState[m] = "NON_JOB" \/ status[Analyzed(m)] # "NONE"
        /\ Analyzed(m) \in processed =>
             notices[Analyzed(m)] = 1 \/ status[Created(m)] # "NONE"
        /\ Created(m) \in processed => notices[Created(m)] = 1
        /\ \A type \in EventTypes : status[<<type, m>>] = "PUBLISHED" => <<type, m>> \in processed
=============================================================================
