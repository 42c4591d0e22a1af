---------------------------- MODULE Notifications ----------------------------
(***************************************************************************)
(* Durable outbound notifications: creation, the dispatcher's claim, push  *)
(* and record of the outcome, the recovery of stale sends, and the         *)
(* operator's retry (notifications.py; the workers of lifecycle.py).       *)
(*                                                                         *)
(* Three actors share the table: the notification-dispatcher thread, which *)
(* claims a batch in one transaction and pushes it outside any, the        *)
(* notification-recovery thread, and an operator process.  The driver      *)
(* opens a SQLite transaction only at the first write, so a scan for stale *)
(* rows, and the operator's look at a row, are a step of their own, before *)
(* the step that writes.  The claim and the record of an outcome are one   *)
(* step each: no other actor's write between their read and their write    *)
(* changes what they store.  The recovery at startup is a first scan of    *)
(* the recovery thread.                                                    *)
(*                                                                         *)
(* next_retry_at is the Boolean "lies in the future", last_attempt_at the  *)
(* Boolean "is stale_after ago".                                           *)
(***************************************************************************)
EXTENDS Integers, Sequences, FiniteSets

CONSTANTS
    Notes,         \* rows of the notifications table
    Answers,       \* environment: outcomes the provider may give, by row
    MaxAttempts,   \* max_attempts of dispatch_once
    MaxRequeues,   \* bound: operator retries
    MaxFaults      \* bound: crashes, escaping exceptions and slow batches

States == {"NONE", "PENDING", "SENDING", "RETRY_WAIT", "SENT", "FAILED"}

\* Success, ProviderErrorKind (DEFINITE is treated as PERMANENT), and the
\* exceptions dispatch_once catches.
Outcomes == {"SENT", "RETRYABLE", "PERMANENT", "AMBIGUOUS", "RAISED"}

\* The outcomes after which the user may have the message.
Reaching == {"SENT", "AMBIGUOUS", "RAISED"}
NoNote == "none"

ASSUME NotificationsAssumption ==
    /\ Answers \in [Notes -> SUBSET Outcomes]
    /\ MaxAttempts \in Nat \ {0}
    /\ MaxRequeues \in Nat
    /\ MaxFaults \in Nat

VARIABLES
    state,       \* notifications.state
    attempt,     \* notifications.attempt_count
    wait,        \* next_retry_at lies in the future
    aged,        \* last_attempt_at is at least stale_after ago
    results,     \* notification_attempts.result, by attempt_no
    dispatcher,  \* control state of the dispatcher thread
    scan,        \* rows the recovery thread has read as stale, not yet written
    operator,    \* rows the operator has read as FAILED, not yet written
    answer,      \* what the provider answered in the last attempt
    reached,     \* messages that (may have) reached the user
    recovered,   \* writes of the stale recovery
    requeued,    \* writes of the operator
    faults

rowVars == <<state, attempt, wait, aged, results>>
observed == <<answer, reached, recovered, requeued>>
vars == <<rowVars, dispatcher, scan, operator, observed, faults>>

Idle == [pc |-> "idle", stale |-> {}, batch |-> {}, current |-> NoNote, outcome |-> "NONE"]

\* The claimed notifications whose outcome is not recorded.
Held == dispatcher.batch

Init ==
    /\ state = [n \in Notes |-> "NONE"]
    /\ attempt = [n \in Notes |-> 0]
    /\ wait = [n \in Notes |-> FALSE]
    /\ aged = [n \in Notes |-> FALSE]
    /\ results = [n \in Notes |-> <<>>]
    /\ dispatcher = Idle
    /\ scan = {}
    /\ operator = {}
    /\ answer = [n \in Notes |-> "NONE"]
    /\ reached = [n \in Notes |-> 0]
    /\ recovered = [n \in Notes |-> 0]
    /\ requeued = [n \in Notes |-> 0]
    /\ faults = 0

\* An event handler stores a notification.
Create(n) ==
    /\ state[n] = "NONE"
    /\ state' = [state EXCEPT ![n] = "PENDING"]
    /\ UNCHANGED <<attempt, wait, aged, results, dispatcher, scan, operator,
                   observed, faults>>

-----------------------------------------------------------------------------
(* recover_stale: the scan, and the write.                                 *)

StaleBelowLimit == {n \in Notes : state[n] = "SENDING" /\ aged[n] /\ attempt[n] < MaxAttempts}
Stale == {n \in Notes : state[n] = "SENDING" /\ aged[n]}

RecoverAndReset(rows) ==
    /\ state' = [n \in Notes |-> IF n \in rows THEN "RETRY_WAIT" ELSE state[n]]
    /\ attempt' = [n \in Notes |-> IF n \in rows THEN 0 ELSE attempt[n]]
    /\ wait' = [n \in Notes |-> wait[n] /\ n \notin rows]
    /\ recovered' = [n \in Notes |-> recovered[n] + IF n \in rows THEN 1 ELSE 0]
    /\ UNCHANGED results
Recover(rows) ==
    /\ state' = [n \in Notes |-> IF n \in rows THEN "RETRY_WAIT" ELSE state[n]]
    /\ wait' = [n \in Notes |-> wait[n] /\ n \notin rows]
    /\ recovered' = [n \in Notes |-> recovered[n] + IF n \in rows THEN 1 ELSE 0]
    /\ UNCHANGED <<attempt, results>>

RecoveryScans ==
    /\ scan = {}
    /\ scan' = Stale
    /\ UNCHANGED <<rowVars, dispatcher, operator, observed, faults>>

RecoveryWrites ==
    /\ scan # {}
    /\ Recover(scan)
    /\ scan' = {}
    /\ UNCHANGED <<aged, dispatcher, operator, answer, reached, requeued, faults>>

-----------------------------------------------------------------------------
(* dispatch_once.                                                          *)

DispatchScans ==
    /\ dispatcher.pc = "idle"
    /\ dispatcher' = [dispatcher EXCEPT !.pc = "recover", !.stale = Stale]
    /\ UNCHANGED <<rowVars, scan, operator, observed, faults>>

DispatchRecovers ==
    /\ dispatcher.pc = "recover"
    /\ Recover(dispatcher.stale)
    /\ dispatcher' = [Idle EXCEPT !.pc = "claim"]
    /\ UNCHANGED <<aged, scan, operator, answer, reached, requeued, faults>>

Eligible == {n \in Notes : \/ state[n] = "PENDING"
                           \/ state[n] = "RETRY_WAIT" /\ ~wait[n]}

Claim ==
    /\ dispatcher.pc = "claim"
    /\ state' = [n \in Notes |-> IF n \in Eligible THEN "SENDING" ELSE state[n]]
    /\ attempt' = [n \in Notes |-> attempt[n] + IF n \in Eligible THEN 1 ELSE 0]
    /\ aged' = [n \in Notes |-> aged[n] /\ n \notin Eligible]
    /\ results' = [n \in Notes |->
                     IF n \in Eligible THEN Append(results[n], "STARTED") ELSE results[n]]
    /\ answer' = [n \in Notes |-> IF n \in Eligible THEN "NONE" ELSE answer[n]]
    /\ dispatcher' = IF Eligible = {} THEN Idle
                       ELSE [Idle EXCEPT !.pc = "push", !.batch = Eligible]
    /\ UNCHANGED <<wait, scan, operator, reached, recovered, requeued, faults>>

Push(n, outcome) ==
    /\ dispatcher.pc = "push"
    /\ n \in dispatcher.batch
    /\ outcome \in Answers[n]
    /\ answer' = [answer EXCEPT ![n] = outcome]
    /\ reached' = [reached EXCEPT ![n] = IF outcome \in Reaching THEN @ + 1 ELSE @]
    /\ dispatcher' = [dispatcher EXCEPT !.pc = "finish", !.current = n, !.outcome = outcome]
    /\ UNCHANGED <<rowVars, scan, operator, recovered, requeued, faults>>

RetriesAmbiguous(n, outcome) ==
    outcome \in {"RETRYABLE", "RAISED", "AMBIGUOUS"} /\ attempt[n] < MaxAttempts
Retries(n, outcome) == outcome \in {"RETRYABLE", "RAISED"} /\ attempt[n] < MaxAttempts

\* _finish_attempt finds the attempt by the row's attempt_count, and does not
\* look at the row's state.
FinishFirst(n, outcome) ==
    /\ results' = [results EXCEPT ![n][1] = outcome]
    /\ state' = [state EXCEPT ![n] = IF outcome = "SENT" THEN "SENT"
                                     ELSE IF Retries(n, outcome) THEN "RETRY_WAIT"
                                     ELSE "FAILED"]
    /\ wait' = [wait EXCEPT ![n] = Retries(n, outcome)]
FinishAttempt(n, outcome) ==
    /\ results' = [results EXCEPT ![n][attempt[n]] = outcome]
    /\ state' = [state EXCEPT ![n] = IF outcome = "SENT" THEN "SENT"
                                     ELSE IF Retries(n, outcome) THEN "RETRY_WAIT"
                                     ELSE "FAILED"]
    /\ wait' = [wait EXCEPT ![n] = Retries(n, outcome)]

Finish ==
    /\ dispatcher.pc = "finish"
    /\ FinishAttempt(dispatcher.current, dispatcher.outcome)
    /\ dispatcher' =
         LET rest == dispatcher.batch \ {dispatcher.current} IN
         IF rest = {} THEN Idle ELSE [Idle EXCEPT !.pc = "push", !.batch = rest]
    /\ UNCHANGED <<attempt, aged, scan, operator, observed, faults>>

-----------------------------------------------------------------------------
(* retry_failed_notification, by an operator.                              *)

OperatorReads(n) ==
    /\ state[n] = "FAILED"
    /\ n \notin operator
    /\ requeued[n] < MaxRequeues
    /\ operator' = operator \cup {n}
    /\ UNCHANGED <<rowVars, dispatcher, scan, observed, faults>>

OperatorWrites(n) ==
    /\ n \in operator
    /\ state' = [state EXCEPT ![n] = "RETRY_WAIT"]
    /\ wait' = [wait EXCEPT ![n] = FALSE]
    /\ requeued' = [requeued EXCEPT ![n] = @ + 1]
    /\ operator' = operator \ {n}
    /\ UNCHANGED <<attempt, aged, results, dispatcher, scan, answer, reached,
                   recovered, faults>>

-----------------------------------------------------------------------------
(* The environment: clocks and faults.                                     *)

RetryTimeComes(n) ==
    /\ wait[n]
    /\ wait' = [wait EXCEPT ![n] = FALSE]
    /\ UNCHANGED <<state, attempt, aged, results, dispatcher, scan, operator,
                   observed, faults>>

Ages(n) ==
    /\ state[n] = "SENDING"
    /\ ~aged[n]
    /\ aged' = [aged EXCEPT ![n] = TRUE]
    /\ UNCHANGED <<state, attempt, wait, results, dispatcher, scan, operator, observed>>

AbandonedAges(n) == n \notin Held /\ Ages(n) /\ UNCHANGED faults

Fault == faults < MaxFaults /\ faults' = faults + 1

\* The batch takes longer than stale_after.
HeldAges(n) == n \in Held /\ Ages(n) /\ Fault

\* push raises what dispatch_once does not catch: the rest of the batch is
\* dropped, SENDING.
PushEscapes(n) ==
    /\ Fault
    /\ dispatcher.pc = "push"
    /\ n \in dispatcher.batch
    /\ reached' = [reached EXCEPT ![n] = @ + 1]
    /\ dispatcher' = Idle
    /\ UNCHANGED <<rowVars, scan, operator, answer, recovered, requeued>>

Crash ==
    /\ Fault
    /\ dispatcher' = Idle
    /\ scan' = {}
    /\ UNCHANGED <<rowVars, operator, observed>>

-----------------------------------------------------------------------------
DispatcherStep ==
    \/ DispatchScans \/ DispatchRecovers \/ Claim \/ Finish
    \/ \E n \in Notes, outcome \in Outcomes : Push(n, outcome)

RecoveryStep == RecoveryScans \/ RecoveryWrites

Next ==
    \/ DispatcherStep \/ RecoveryStep \/ Crash
    \/ \E n \in Notes :
         \/ Create(n) \/ OperatorReads(n) \/ OperatorWrites(n)
         \/ RetryTimeComes(n) \/ AbandonedAges(n) \/ HeldAges(n) \/ PushEscapes(n)

Spec == Init /\ [][Next]_vars

\* The two worker loops run for ever, and time passes.
FairSpec ==
    /\ Spec
    /\ WF_vars(DispatcherStep) /\ WF_vars(RecoveryStep)
    /\ \A n \in Notes : WF_vars(RetryTimeComes(n)) /\ WF_vars(AbandonedAges(n))

-----------------------------------------------------------------------------
TypeOK ==
    /\ state \in [Notes -> States]
    /\ attempt \in [Notes -> Nat]
    /\ \A n \in Notes : attempt[n] <= MaxAttempts + recovered[n] + requeued[n]
    /\ \A n \in Notes : attempt[n] = 0 <=> state[n] \in {"NONE", "PENDING"}
    /\ {wait, aged} \subseteq [Notes -> BOOLEAN]
    /\ results \in [Notes -> Seq(Outcomes \cup {"STARTED"})]
    /\ answer \in [Notes -> Outcomes \cup {"NONE"}]
    /\ dispatcher.pc \in {"idle", "recover", "claim", "push", "finish"}
    /\ dispatcher.stale \subseteq Notes
    /\ dispatcher.batch \subseteq Notes
    /\ dispatcher.pc = "finish" =>
         dispatcher.current \in dispatcher.batch /\ dispatcher.outcome \in Outcomes
    /\ scan \subseteq Notes /\ operator \subseteq Notes
    /\ {reached, recovered, requeued} \subseteq [Notes -> Nat]
    /\ faults \in 0 .. MaxFaults

-----------------------------------------------------------------------------
(* Properties.                                                             *)

\* The table of attempts is the true history: one row for each claim, the last
\* with what the provider answered or still STARTED, and the last of a SENT
\* notification has sent it (notifications.py:113-128, 179-202).
HistoryIsTrue ==
    \A n \in Notes :
        /\ Len(results[n]) = attempt[n]
        /\ attempt[n] > 0 => results[n][attempt[n]] \in {"STARTED", answer[n]}
        /\ state[n] = "SENT" => results[n][attempt[n]] = "SENT"

\* A message that reached the user, or may have, is pushed again only after a
\* recovery of a stale send, an operator's retry, or an attempt in which push
\* raised: never because its outcome was ambiguous (operations.md:75, 82).
DuplicatesAccounted ==
    \A n \in Notes :
        reached[n] <= 1 + recovered[n] + requeued[n]
                        + Cardinality({k \in 1 .. attempt[n] : results[n][k] = "RAISED"})

\* Every notification is sent in the end, or given up, across crashes, slow
\* batches and escaping exceptions (architecture.md:2497).
NotificationsEnd ==
    \A n \in Notes : state[n] = "PENDING" ~> state[n] \in {"SENT", "FAILED"}
=============================================================================
