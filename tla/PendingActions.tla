--------------------------- MODULE PendingActions ---------------------------
(***************************************************************************)
(* Confirmation-gated writes of application statuses: a PendingAction is   *)
(* proposed, resolved by the user, claimed, executed, retried and          *)
(* recovered (application_core/{proposals,service,execution,               *)
(* action_recovery}.py).                                                   *)
(*                                                                         *)
(* Every `with transaction(database)` block is one step.  Three actors     *)
(* share the tables: the conversation-agent worker (one thread, which runs *)
(* the recovery scan and then the user's confirmation commands), the       *)
(* proposers, and an operator process whose `retry pending_action` command *)
(* reads a row and writes it back.  The driver opens a SQLite transaction  *)
(* only at the first UPDATE, so that last read and its write are two steps.*)
(*                                                                         *)
(* Time is kept as three saturating timers per row, in units of five       *)
(* minutes: expires_at, execution_started_at and next_retry_at relative to *)
(* the clock.                                                              *)
(*                                                                         *)
(* Operators named after a definition with a suffix, just before it, are   *)
(* its mutants: the bug each property is there to catch.                   *)
(***************************************************************************)
EXTENDS Integers, Sequences, FiniteSets

CONSTANTS
    Actions,        \* proposals: one per (source_type, source_id, fingerprint)
    Apps,           \* applications, by normalised business key
    Statuses,       \* application statuses (interview round folded in)
    NoStatus,       \* the application has no row yet
    TargetApp,      \* [Actions -> Apps]: frozen resolved_arguments
    TargetStatus,   \* [Actions -> Statuses]: frozen resolved_arguments
    MaxAttempts,    \* MAX_PENDING_ACTION_ATTEMPTS
    RetryDelay,     \* RETRY_DELAY
    StaleAfter,     \* stale_after of the recovery scan
    Ttl,            \* DEFAULT_EXPIRY_DAYS
    MaxRequeues,    \* bound: operator retries
    MaxFaults,      \* bound: transient database errors outside an execution
    MaxCrashes      \* bound: process restarts

ASSUME ConstantsAssumption ==
    /\ NoStatus \notin Statuses
    /\ TargetApp \in [Actions -> Apps]
    /\ TargetStatus \in [Actions -> Statuses]
    /\ MaxAttempts \in Nat \ {0}
    /\ RetryDelay \in Nat
    /\ StaleAfter \in Nat
    /\ Ttl \in Nat
    /\ MaxRequeues \in Nat
    /\ MaxFaults \in Nat
    /\ MaxCrashes \in Nat

States == {"NONE", "PENDING", "CONFIRMED", "EXECUTING", "COMPLETED",
           "REJECTED", "FAILED", "EXPIRED"}
Resolutions == {"CONFIRM", "REJECT"}
EventTypes == {"CREATED", "CONFIRM", "REJECT", "CHANGED"}
Phases == {"startup", "recover", "resume", "confirm"}
AgentPcs == {"idle", "marked", "working", "claimed", "failing"}

VARIABLES
    state,          \* pending_actions.state ("NONE": no row)
    attemptCount,   \* pending_actions.attempt_count
    expiresIn,      \* time left until expires_at
    runningFor,     \* time since execution_started_at (while EXECUTING)
    dueIn,          \* time left until next_retry_at (0: due, or NULL)
    application,    \* applications.current_status
    latestEvent,    \* applications.latest_job_event_id (row number, 0: NULL)
    jobEvents,      \* the job_events table, in insertion order
    outbox,         \* rows of outbox_events per action and type
    agent,          \* control state of the conversation-agent thread
    operatorRead,   \* rows the operator has read as FAILED, not yet written
    requeues,       \* operator retries that wrote, per action
    faults,
    crashes

rowVars == <<state, attemptCount, expiresIn, runningFor, dueIn>>
factVars == <<application, latestEvent, jobEvents>>
vars == <<rowVars, factVars, outbox, agent, operatorRead, requeues, faults, crashes>>

JobWithoutPrevious(a, previous) ==
    [action |-> a, app |-> TargetApp[a], previous |-> NoStatus,
     current |-> TargetStatus[a]]

Job(a, previous) ==
    [action |-> a, app |-> TargetApp[a], previous |-> previous,
     current |-> TargetStatus[a]]

Emit(a, type) == outbox' = [outbox EXCEPT ![a][type] = @ + 1]

\* The agent thread: the list it works through, the actions that returned a
\* result so far, and the action it holds a claim on (at most one).
Idle(phase) ==
    [pc |-> "idle", phase |-> phase, todo |-> {}, results |-> {}, held |-> {}]
Working(phase, todo) ==
    [pc |-> "working", phase |-> phase, todo |-> todo, results |-> {}, held |-> {}]

Init ==
    /\ state = [a \in Actions |-> "NONE"]
    /\ attemptCount = [a \in Actions |-> 0]
    /\ expiresIn = [a \in Actions |-> 0]
    /\ runningFor = [a \in Actions |-> 0]
    /\ dueIn = [a \in Actions |-> 0]
    /\ application = [p \in Apps |-> NoStatus]
    /\ latestEvent = [p \in Apps |-> 0]
    /\ jobEvents = <<>>
    /\ outbox = [a \in Actions |-> [t \in EventTypes |-> 0]]
    /\ agent = Idle("startup")
    /\ operatorRead = {}
    /\ requeues = [a \in Actions |-> 0]
    /\ faults = 0
    /\ crashes = 0

-----------------------------------------------------------------------------
(* Proposals.  A proposal with the key of an existing row returns that row.*)

Propose(a) ==
    /\ state[a] = "NONE"
    /\ state' = [state EXCEPT ![a] = "PENDING"]
    /\ expiresIn' = [expiresIn EXCEPT ![a] = Ttl]
    /\ Emit(a, "CREATED")
    /\ UNCHANGED <<attemptCount, runningFor, dueIn, factVars, agent,
                   operatorRead, requeues, faults, crashes>>

-----------------------------------------------------------------------------
(* The user's commands, handled by the agent thread between scans.         *)

AwaitingConfirmation == {a \in Actions : state[a] = "PENDING" /\ expiresIn[a] > 0}

\* The action a command addresses: by its code, or without one when exactly
\* one unexpired action waits.
Addressed(a, withCode) ==
    IF withCode THEN state[a] # "NONE" ELSE AwaitingConfirmation = {a}

ReadyForCommand == agent.pc = "idle" /\ agent.phase = "recover"

ResolveAgain(a, resolution, withCode) ==
    /\ ReadyForCommand
    /\ Addressed(a, withCode)
    /\ state[a] \in {"PENDING", "CONFIRMED"}
    /\ state' = [state EXCEPT ![a] =
                   IF resolution = "CONFIRM" THEN "CONFIRMED" ELSE "REJECTED"]
    /\ Emit(a, resolution)
    /\ agent' = IF resolution = "CONFIRM" THEN Working("confirm", {a}) ELSE agent
    /\ UNCHANGED <<attemptCount, expiresIn, runningFor, dueIn, factVars,
                   operatorRead, requeues, faults, crashes>>

\* resume_confirmed_action executes the action the command resolved.
Resolve(a, resolution, withCode) ==
    /\ ReadyForCommand
    /\ Addressed(a, withCode)
    /\ state[a] = "PENDING"
    /\ expiresIn[a] > 0
    /\ state' = [state EXCEPT ![a] =
                   IF resolution = "CONFIRM" THEN "CONFIRMED" ELSE "REJECTED"]
    /\ Emit(a, resolution)
    /\ agent' = IF resolution = "CONFIRM" THEN Working("confirm", {a}) ELSE agent
    /\ UNCHANGED <<attemptCount, expiresIn, runningFor, dueIn, factVars,
                   operatorRead, requeues, faults, crashes>>

\* Expiry is only noticed by a command that addresses the expired action.
Expire(a) ==
    /\ ReadyForCommand
    /\ Addressed(a, TRUE)
    /\ state[a] = "PENDING"
    /\ expiresIn[a] = 0
    /\ state' = [state EXCEPT ![a] = "EXPIRED"]
    /\ UNCHANGED <<attemptCount, expiresIn, runningFor, dueIn, factVars, outbox,
                   agent, operatorRead, requeues, faults, crashes>>

\* A repeated confirmation of an action that is still CONFIRMED executes it;
\* any other command on a resolved action changes nothing.
ConfirmAgain(a) ==
    /\ ReadyForCommand
    /\ Addressed(a, TRUE)
    /\ state[a] = "CONFIRMED"
    /\ agent' = Working("confirm", {a})
    /\ UNCHANGED <<rowVars, factVars, outbox, operatorRead, requeues, faults, crashes>>

-----------------------------------------------------------------------------
(* The recovery scan: first fail stale executions, then select what is due.*)

NeverStale(a) == FALSE
Stale(a) == state[a] = "EXECUTING" /\ runningFor[a] > StaleAfter

RecoverMark ==
    /\ agent.pc = "idle"
    /\ state' = [a \in Actions |-> IF Stale(a) THEN "FAILED" ELSE state[a]]
    /\ dueIn' = [a \in Actions |-> IF Stale(a) THEN RetryDelay ELSE dueIn[a]]
    /\ runningFor' = [a \in Actions |-> IF Stale(a) THEN 0 ELSE runningFor[a]]
    /\ agent' = [agent EXCEPT !.pc = "marked"]
    /\ UNCHANGED <<attemptCount, expiresIn, factVars, outbox, operatorRead,
                   requeues, faults, crashes>>

Recoverable ==
    {a \in Actions : \/ state[a] = "CONFIRMED"
                     \/ /\ state[a] = "FAILED"
                        /\ attemptCount[a] < MaxAttempts
                        /\ dueIn[a] = 0}

RecoverSelect ==
    /\ agent.pc = "marked"
    /\ agent' = Working(agent.phase, Recoverable)
    /\ UNCHANGED <<rowVars, factVars, outbox, operatorRead, requeues, faults, crashes>>

\* After the scan the live cycle resumes every action the scan returned a
\* result for; the scan at startup does not.
FinishList ==
    /\ agent.pc = "working"
    /\ agent.todo = {}
    /\ agent' = IF agent.phase = "recover" /\ agent.results # {}
                  THEN Working("resume", agent.results)
                  ELSE Idle("recover")
    /\ UNCHANGED <<rowVars, factVars, outbox, operatorRead, requeues, faults, crashes>>

-----------------------------------------------------------------------------
(* execute_status_update(a): claim, execute, and record a failure.         *)

\* The call returned a result, or raised: the scan goes on with the next
\* candidate, the resume and confirm paths abandon their cycle.
Returned(a) ==
    [agent EXCEPT !.pc = "working", !.todo = @ \ {a}, !.held = {},
                  !.results = @ \cup {a}]
Raised(a) ==
    IF agent.phase \in {"startup", "recover"}
      THEN [agent EXCEPT !.pc = "working", !.todo = @ \ {a}, !.held = {}]
      ELSE Idle("recover")

Claim(a) ==
    /\ agent.pc = "working"
    /\ a \in agent.todo
    /\ state[a] \in {"FAILED", "CONFIRMED"}
    /\ state' = [state EXCEPT ![a] = "EXECUTING"]
    /\ attemptCount' = [attemptCount EXCEPT ![a] = @ + 1]
    /\ runningFor' = [runningFor EXCEPT ![a] = 0]
    /\ dueIn' = [dueIn EXCEPT ![a] = 0]
    /\ agent' = [agent EXCEPT !.pc = "claimed", !.held = {a}]
    /\ UNCHANGED <<expiresIn, factVars, outbox, operatorRead, requeues, faults, crashes>>

\* "already completed" and "action is not ready for execution".
ClaimRefused(a) ==
    /\ agent.pc = "working"
    /\ a \in agent.todo
    /\ state[a] \notin {"FAILED", "CONFIRMED"}
    /\ agent' = Returned(a)
    /\ UNCHANGED <<rowVars, factVars, outbox, operatorRead, requeues, faults, crashes>>

ClaimFault(a) ==
    /\ agent.pc = "working"
    /\ a \in agent.todo
    /\ faults < MaxFaults
    /\ faults' = faults + 1
    /\ agent' = Raised(a)
    /\ UNCHANGED <<rowVars, factVars, outbox, operatorRead, requeues, crashes>>

Changes(a) == application[TargetApp[a]] # TargetStatus[a]

\* UNIQUE (pending_action_id) of job_events.
NeverRecorded(a) == FALSE
AlreadyRecorded(a) == \E i \in DOMAIN jobEvents : jobEvents[i].action = a

Execute(a) ==
    /\ agent.pc = "claimed"
    /\ a \in agent.held
    /\ state[a] = "EXECUTING"
    /\ Changes(a) => ~AlreadyRecorded(a)
    /\ state' = [state EXCEPT ![a] = "COMPLETED"]
    /\ IF Changes(a)
         THEN /\ application' = [application EXCEPT ![TargetApp[a]] = TargetStatus[a]]
              /\ jobEvents' = Append(jobEvents, Job(a, application[TargetApp[a]]))
              /\ latestEvent' = [latestEvent EXCEPT ![TargetApp[a]] = Len(jobEvents) + 1]
              /\ Emit(a, "CHANGED")
         ELSE UNCHANGED <<factVars, outbox>>
    /\ runningFor' = [runningFor EXCEPT ![a] = 0]
    /\ agent' = Returned(a)
    /\ UNCHANGED <<attemptCount, expiresIn, dueIn, operatorRead, requeues, faults, crashes>>

\* The row is no longer EXECUTING: "action is not ready for execution".
ExecuteRefused(a) ==
    /\ agent.pc = "claimed"
    /\ a \in agent.held
    /\ state[a] # "EXECUTING"
    /\ agent' = Returned(a)
    /\ UNCHANGED <<rowVars, factVars, outbox, operatorRead, requeues, faults, crashes>>

\* The transaction rolls back: the unique constraint or any database error.
ExecuteFails(a) ==
    /\ agent.pc = "claimed"
    /\ a \in agent.held
    /\ state[a] = "EXECUTING"
    /\ agent' = [agent EXCEPT !.pc = "failing"]
    /\ UNCHANGED <<rowVars, factVars, outbox, operatorRead, requeues, faults, crashes>>

RecordFailureBackoff(a) ==
    /\ agent.pc = "failing"
    /\ a \in agent.held
    /\ state[a] = "EXECUTING"
    /\ state' = [state EXCEPT ![a] = "FAILED"]
    /\ dueIn' = [dueIn EXCEPT ![a] = RetryDelay * attemptCount[a]]
    /\ runningFor' = [runningFor EXCEPT ![a] = 0]
    /\ agent' = Raised(a)
    /\ UNCHANGED <<attemptCount, expiresIn, factVars, outbox, operatorRead,
                   requeues, faults, crashes>>

RecordFailure(a) ==
    /\ agent.pc = "failing"
    /\ a \in agent.held
    /\ IF state[a] = "EXECUTING"
         THEN /\ state' = [state EXCEPT ![a] = "FAILED"]
              /\ dueIn' = [dueIn EXCEPT ![a] =
                             IF attemptCount[a] < MaxAttempts THEN RetryDelay ELSE 0]
              /\ runningFor' = [runningFor EXCEPT ![a] = 0]
         ELSE UNCHANGED <<state, dueIn, runningFor>>
    /\ agent' = Raised(a)
    /\ UNCHANGED <<attemptCount, expiresIn, factVars, outbox, operatorRead,
                   requeues, faults, crashes>>

\* Recording the failure fails itself and leaves the row EXECUTING.
RecordFault(a) ==
    /\ agent.pc = "failing"
    /\ a \in agent.held
    /\ faults < MaxFaults
    /\ faults' = faults + 1
    /\ agent' = Raised(a)
    /\ UNCHANGED <<rowVars, factVars, outbox, operatorRead, requeues, crashes>>

-----------------------------------------------------------------------------
(* `retry pending_action <id>`: the read and the write of one transaction. *)

OperatorReadAny(a) ==
    /\ state[a] \in {"FAILED", "EXPIRED"}
    /\ requeues[a] < MaxRequeues
    /\ operatorRead = {}
    /\ operatorRead' = {a}
    /\ UNCHANGED <<rowVars, factVars, outbox, agent, requeues, faults, crashes>>

OperatorRead(a) ==
    /\ state[a] = "FAILED"
    /\ requeues[a] < MaxRequeues
    /\ operatorRead = {}
    /\ operatorRead' = {a}
    /\ UNCHANGED <<rowVars, factVars, outbox, agent, requeues, faults, crashes>>

OperatorWrite(a) ==
    /\ a \in operatorRead
    /\ state' = [state EXCEPT ![a] = "CONFIRMED"]
    /\ dueIn' = [dueIn EXCEPT ![a] = 0]
    /\ runningFor' = [runningFor EXCEPT ![a] = 0]
    /\ requeues' = [requeues EXCEPT ![a] = @ + 1]
    /\ operatorRead' = {}
    /\ UNCHANGED <<attemptCount, expiresIn, factVars, outbox, agent, faults, crashes>>

-----------------------------------------------------------------------------
(* The environment.                                                        *)

Less(n) == IF n > 0 THEN n - 1 ELSE 0

\* The two halves of one scan use the same `now`.
Tick ==
    /\ agent.pc # "marked"
    /\ expiresIn' = [a \in Actions |-> Less(expiresIn[a])]
    /\ dueIn' = [a \in Actions |-> Less(dueIn[a])]
    /\ runningFor' = [a \in Actions |->
                        IF state[a] = "EXECUTING" /\ runningFor[a] <= StaleAfter
                          THEN runningFor[a] + 1 ELSE runningFor[a]]
    /\ UNCHANGED <<state, attemptCount, factVars, outbox, agent, operatorRead,
                   requeues, faults, crashes>>

\* The service process dies and starts again; the operator is a process of its own.
Crash ==
    /\ crashes < MaxCrashes
    /\ crashes' = crashes + 1
    /\ agent' = Idle("startup")
    /\ UNCHANGED <<rowVars, factVars, outbox, operatorRead, requeues, faults>>

-----------------------------------------------------------------------------
UserStep ==
    \E a \in Actions :
        \/ \E resolution \in Resolutions, withCode \in BOOLEAN :
             Resolve(a, resolution, withCode)
        \/ Expire(a)
        \/ ConfirmAgain(a)

ExecutionStep ==
    \E a \in Actions :
        \/ Claim(a) \/ ClaimRefused(a) \/ ClaimFault(a)
        \/ Execute(a) \/ ExecuteRefused(a) \/ ExecuteFails(a)
        \/ RecordFailure(a) \/ RecordFault(a)

\* Everything the agent thread does on its own.
AgentStep == RecoverMark \/ RecoverSelect \/ FinishList \/ ExecutionStep

Next ==
    \/ \E a \in Actions : Propose(a)
    \/ UserStep
    \/ AgentStep
    \/ \E a \in Actions : OperatorRead(a) \/ OperatorWrite(a)
    \/ Tick
    \/ Crash

Spec == Init /\ [][Next]_vars

\* The worker loop runs for ever and time passes.
FairSpec == Spec /\ WF_vars(AgentStep) /\ SF_vars(Tick)

-----------------------------------------------------------------------------
AgentType ==
    [pc : AgentPcs, phase : Phases, todo : SUBSET Actions,
     results : SUBSET Actions, held : SUBSET Actions]

JobEventType ==
    [action : Actions, app : Apps, previous : Statuses \cup {NoStatus},
     current : Statuses]

RowsOK ==
    /\ state \in [Actions -> States]
    /\ attemptCount \in [Actions -> Nat]
    /\ expiresIn \in [Actions -> 0 .. Ttl]
    /\ runningFor \in [Actions -> 0 .. StaleAfter + 1]
    /\ dueIn \in [Actions -> 0 .. RetryDelay]

FactsOK ==
    /\ application \in [Apps -> Statuses \cup {NoStatus}]
    /\ latestEvent \in [Apps -> Nat]
    /\ jobEvents \in Seq(JobEventType)

OutboxOK == outbox \in [Actions -> [EventTypes -> Nat]]

CountersOK ==
    /\ operatorRead \in SUBSET Actions
    /\ requeues \in [Actions -> Nat]
    /\ faults \in 0 .. MaxFaults
    /\ crashes \in 0 .. MaxCrashes

TypeOK ==
    /\ RowsOK
    /\ FactsOK
    /\ OutboxOK
    /\ agent \in AgentType
    /\ CountersOK

-----------------------------------------------------------------------------
(* Properties.                                                             *)

RowsOf(p) == {i \in DOMAIN jobEvents : jobEvents[i].app = p}

FirstOf(i) == \A j \in RowsOf(jobEvents[i].app) : i <= j
Follows(i, j) ==
    /\ i < j
    /\ jobEvents[i].app = jobEvents[j].app
    /\ \A k \in RowsOf(jobEvents[i].app) : k <= i \/ j <= k

PointsAtLast(p) ==
    IF latestEvent[p] = 0
      THEN RowsOf(p) = {} /\ application[p] = NoStatus
      ELSE /\ latestEvent[p] \in RowsOf(p)
           /\ \A i \in RowsOf(p) : i <= latestEvent[p]
           /\ application[p] = jobEvents[latestEvent[p]].current

Chains(i) ==
    /\ jobEvents[i].previous # jobEvents[i].current
    /\ FirstOf(i) => jobEvents[i].previous = NoStatus
    /\ \A j \in DOMAIN jobEvents :
         Follows(i, j) => jobEvents[j].previous = jobEvents[i].current

\* The job_events rows of one application replay to its current status, and
\* latest_job_event_id points at the last of them, whatever the order in
\* which several actions on it were confirmed, failed, retried and executed
\* (execution.py, _execute_claimed_status_update).
HistoryReplays ==
    /\ \A p \in Apps : PointsAtLast(p)
    /\ \A i \in DOMAIN jobEvents : Chains(i)

\* One action has at most one effect, even when an operator requeues it from
\* a stale read and it is executed again (architecture.md 48.7, rule 3).
OneEffectPerAction ==
    \A i, j \in DOMAIN jobEvents :
        jobEvents[i].action = jobEvents[j].action => i = j

\* Every effect is the frozen arguments of an action the user confirmed and
\* never refused, with exactly one CHANGED event beside it: the facts and the
\* outbox commit together (execution.py:229-252, service.py:116-128).
ConfirmedStates == {"CONFIRMED", "EXECUTING", "COMPLETED", "FAILED"}

OutboxMatchesFacts ==
    \A a \in Actions :
        /\ outbox[a]["CREATED"] = IF state[a] = "NONE" THEN 0 ELSE 1
        /\ outbox[a]["CONFIRM"] = IF state[a] \in ConfirmedStates THEN 1 ELSE 0
        /\ outbox[a]["REJECT"] = IF state[a] = "REJECTED" THEN 1 ELSE 0
        /\ outbox[a]["CHANGED"] = IF AlreadyRecorded(a) THEN 1 ELSE 0

EffectsAreConfirmed ==
    \A i \in DOMAIN jobEvents :
        LET job == jobEvents[i] IN
        /\ state[job.action] \in ConfirmedStates
        /\ job.app = TargetApp[job.action]
        /\ job.current = TargetStatus[job.action]

\* A confirmed action is eventually completed or has used up its attempts,
\* across faults, crashes and restarts.
Settled(a) ==
    \/ state[a] = "COMPLETED"
    \/ state[a] = "FAILED" /\ attemptCount[a] >= MaxAttempts

ConfirmedIsSettled ==
    \A a \in Actions : state[a] \in {"CONFIRMED", "EXECUTING", "FAILED"} ~> Settled(a)

\* The protocol implements ConfirmedWrites.
Decision(a) ==
    IF state[a] \in ConfirmedStates THEN "confirmed"
    ELSE IF state[a] \in {"REJECTED", "EXPIRED"} THEN "refused" ELSE "open"

Promise == INSTANCE ConfirmedWrites WITH
    decision <- [a \in Actions |-> Decision(a)], history <- jobEvents

ImplementsConfirmedWrites == Promise!Spec
=============================================================================
