---------------------------- MODULE MailPipeline ----------------------------
(***************************************************************************)
(* From the IMAP folder to the message for the user: the poller of         *)
(* MailPoll and the publisher of Outbox are two threads of one process,    *)
(* which meet in ingest_mail, the transaction that stores a mail together  *)
(* with its first event.                                                   *)
(***************************************************************************)
EXTENDS MailPoll, Outbox

CONSTANT MaxCrashes   \* bound: process restarts and exceptions that end a cycle

ASSUME PipelineAssumption == MailIds = Keys /\ MaxCrashes \in Nat

VARIABLE crashes

vars == <<pollVars, outboxVars, crashes>>

Init == PollInit /\ OutboxInit /\ crashes = 0

\* ingest_mail: a mail that is already stored is left alone.
IngestMail ==
    /\ Ingested
    /\ IF Stored(Current.key) THEN UNCHANGED outboxVars ELSE MailReceived(Current.key)
    /\ UNCHANGED crashes

PollerStep ==
    \/ IngestMail
    \/ PollStep /\ UNCHANGED <<outboxVars, crashes>>
\* When the service ends, the publisher finishes its cycle and starts no other.
Stopped == poller.pc = "stopped"
OutboxStep ==
    /\ Stopped => publisher.pc # "idle"
    /\ PublisherStep
    /\ UNCHANGED <<pollVars, crashes>>

\* Somebody starts the service again.
StartAgain ==
    /\ Stopped
    /\ poller' = PollIdle
    /\ publisher' = PublisherIdle
    /\ UNCHANGED <<folderVars, cursor, mails, lastError, history, eventVars, mailState,
                   suggestion, notices, crashes>>

RetryTimeComes ==
    /\ \E e \in Events : EventRetryTimeComes(e)
    /\ UNCHANGED <<pollVars, crashes>>

\* The process dies, or an exception ends the cycle of one thread.
Crash ==
    /\ crashes < MaxCrashes
    /\ crashes' = crashes + 1
    /\ poller' \in {poller, PollIdle}
    /\ publisher' \in {publisher, PublisherIdle}
    /\ UNCHANGED <<folderVars, cursor, mails, lastError, history, eventVars, mailState,
                   suggestion, notices>>

Next ==
    \/ PollerStep \/ OutboxStep \/ StartAgain \/ Crash
    \/ FolderStep /\ UNCHANGED <<outboxVars, crashes>>
    \/ OperatorStep /\ UNCHANGED <<pollVars, crashes>>
    \/ RetryTimeComes

Spec == Init /\ [][Next]_vars

\* The two worker loops run for ever, and retry times come.
FairSpec ==
    /\ Spec
    /\ WF_vars(PollerStep) /\ WF_vars(OutboxStep) /\ WF_vars(RetryTimeComes)

\* The types of both halves, and the transaction they share: every stored
\* mail has its first event, and no other mail has one.
TypeOK ==
    /\ PollTypeOK
    /\ OutboxTypeOK
    /\ crashes \in 0 .. MaxCrashes
    /\ \A key \in Keys : Stored(key) <=> status[Received(key)] # "NONE"

\* Mail d is damaged, the cursor has not passed it, and it is fetched before
\* mail m or with it.
Blocks(d, m) ==
    /\ {d, m} \subseteq InFolder
    /\ form[d] # "FINE"
    /\ uidOf[d] > cursor.uid
    /\ \/ uidOf[d] <= uidOf[m]
       \/ Cardinality({l \in InFolder : uidOf[m] <= uidOf[l] /\ uidOf[l] <= uidOf[d]}) <= BatchSize

\* From end to end: a mail that arrives in the folder and stays there is
\* settled, unless a baseline made it history, across crashes of both threads,
\* failures of the LLM and renumbering (mail_poller.py:46-91,
\* event_pipeline.py:44-83).  Only a damaged mail that lies in its way holds it
\* up, for as long as it lies there, and then the operator sees the error of
\* the poll (mail_poller.py:57-64) or that the service has ended.
MailIsSettled ==
    \A m \in Letters :
        m \in InFolder ~>
            \/ m \notin InFolder \/ m \in history
            \/ \E row \in RowsOf(m) : Settled(row.key)
            \/ lastError /\ \E d \in Letters : Blocks(d, m)
            \/ Stopped

-----------------------------------------------------------------------------
(* The pipeline implements MailOutcomes.                                   *)

\* What the rows say has been made of a mail.
Judgement(m) ==
    IF mailState[m] = "NON_JOB" THEN "NON_JOB"
    ELSE IF suggestion[m] # "NONE" THEN suggestion[m] ELSE "OPEN"

Outcome == INSTANCE MailOutcomes WITH
    judgement <- [m \in Keys |-> Judgement(m)],
    proposals <- {m \in Keys : status[Created(m)] # "NONE"},
    messages <- [m \in Keys |-> notices[Analyzed(m)] + notices[Created(m)]]

\* Whatever is fetched, delivered, asked of the LLM or requeued again, a mail is
\* stored, judged, proposed and told once and in this order, and a judgement is
\* not revised (mail_service.py, event_consumers.py).
ImplementsMailOutcomes == Outcome!Spec
=============================================================================
