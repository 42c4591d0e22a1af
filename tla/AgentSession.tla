---------------------------- MODULE AgentSession ----------------------------
(***************************************************************************)
(* The main conversation session: the agent runs of the user's messages,   *)
(* which of them holds the session, suspension for a confirmation, the     *)
(* confirmation commands, delivery of answers and prompts, and recovery    *)
(* (agent/{webhook,runtime,delivery,turn_runtime,write_proposals,          *)
(* write_runtime,write_recovery}.py and _agent_cycle of lifecycle.py).     *)
(*                                                                         *)
(* Two actors: the ingress, which stores one message and its run in one    *)
(* transaction, and the conversation-agent thread, whose cycle is a        *)
(* sequence of stages.  Processing a run is a frame on the thread's call   *)
(* stack, because a confirmation command processes the run it resumes      *)
(* before it answers.  Every transaction and every provider call is a      *)
(* step, so that the process can die between any two of them.              *)
(*                                                                         *)
(* Runs are numbered in creation order.  A run proposes at most one status *)
(* update; its execution is the protocol of PendingActions, of which only  *)
(* the outcome is kept here.  A retry time is a Boolean, "lies in the      *)
(* future", that time resets; whether a run is older than max_run_seconds, *)
(* or a confirmation has expired, is any choice at the moment it is asked. *)
(* delivery_state is kept for prompts: nothing reads an answer's.          *)
(***************************************************************************)
EXTENDS Integers, Sequences, FiniteSets

CONSTANTS
    MaxRuns,               \* bound: user messages
    MaxCommands,           \* bound: messages that are commands
    MaxCrashes,            \* bound: process restarts
    Resolutions,           \* bound: the commands users send
    MaxDeliveryAttempts,   \* agent_max_delivery_attempts
    MaxExecutions,         \* MAX_PENDING_ACTION_ATTEMPTS
    AllowTimeouts,         \* environment: runs may exceed max_run_seconds
    AllowExpiry,           \* environment: confirmations may expire
    AllowBrokenLoads,      \* environment: stored runs may be unusable
    RepeatCommands         \* environment: users repeat a command

ASSUME SessionAssumption ==
    /\ MaxRuns \in Nat \ {0}
    /\ MaxCommands \in Nat
    /\ MaxCrashes \in Nat
    /\ Resolutions \subseteq {"CONFIRM", "REJECT"}
    /\ MaxDeliveryAttempts \in Nat \ {0}
    /\ MaxExecutions \in Nat \ {0}
    /\ {AllowTimeouts, AllowExpiry, AllowBrokenLoads, RepeatCommands} \subseteq BOOLEAN

Runs == 1 .. MaxRuns
None == 0

RunStates == {"NONE", "QUEUED", "RUNNING", "DELIVERY_PENDING",
              "WAITING_USER_CONFIRMATION", "COMPLETED", "FAILED"}
ActionStates == {"NONE", "PENDING", "CONFIRMED", "COMPLETED", "REJECTED",
                 "FAILED", "EXPIRED"}
DeliveryStates == {"NULL", "PENDING", "SENT", "RETRY_WAIT", "FAILED",
                   "PERMANENT", "AMBIGUOUS"}

\* What the gateway reports; "UNCLASSIFIED" is an exception it raises.
Outcomes == {"SENT", "RETRYABLE", "PERMANENT", "AMBIGUOUS", "UNCLASSIFIED"}

\* A message is a question for the agent or a command; a command without a
\* code has target None and addresses the only action that waits.
Question == [target |-> None, resolution |-> "NONE"]
Commands == [target : Runs \cup {None}, resolution : Resolutions]

VARIABLES
    state,       \* agent_runs.state
    message,     \* the user message of the run
    attempt,     \* agent_runs.attempt_count
    final,       \* agent_runs.final_message_id is set
    delivery,    \* agent_runs.delivery_state, as the prompts leave it
    wait,        \* next_retry_at lies in the future
    activeRun,   \* sessions.active_run_id
    action,      \* state of the run's PendingAction
    executions,  \* failed executions of it
    actionWait,  \* next_retry_at of it lies in the future
    agent,       \* control state of the conversation-agent thread
    reached,     \* answers of the run that (may have) reached the user
    crashes

runVars == <<state, message, attempt, final, delivery, wait, activeRun>>
actionVars == <<action, executions, actionWait>>
vars == <<runVars, actionVars, agent, reached, crashes>>

IsCommand(r) == message[r] # Question
Live == {"RUNNING", "QUEUED", "DELIVERY_PENDING", "WAITING_USER_CONFIRMATION"}
Terminal == {"COMPLETED", "FAILED"}
Holding == Live \ {"QUEUED"}
Arrived == {r \in Runs : state[r] # "NONE"}
Waiting(r) == state[r] = "WAITING_USER_CONFIRMATION"
Oldest(S) == CHOOSE r \in S : \A s \in S : r <= s

Frame(r, pc) == [run |-> r, pc |-> pc, outcome |-> "NONE"]
Cycle == [stage |-> "runs", starting |-> FALSE, todo |-> {}, results |-> {}, stack |-> <<>>]
Startup == [Cycle EXCEPT !.starting = TRUE]

Top == agent.stack[1]
At(pc) == agent.stack # <<>> /\ Top.pc = pc
Goto(pc) == [agent EXCEPT !.stack = <<[Top EXCEPT !.pc = pc]>> \o Tail(@)]
Return == [agent EXCEPT !.stack = Tail(@)]
Between(stage) == agent.stack = <<>> /\ agent.stage = stage

Init ==
    /\ state = [r \in Runs |-> "NONE"]
    /\ message = [r \in Runs |-> Question]
    /\ attempt = [r \in Runs |-> 0]
    /\ final = [r \in Runs |-> FALSE]
    /\ delivery = [r \in Runs |-> "NULL"]
    /\ wait = [r \in Runs |-> FALSE]
    /\ activeRun = None
    /\ action = [r \in Runs |-> "NONE"]
    /\ executions = [r \in Runs |-> 0]
    /\ actionWait = [r \in Runs |-> FALSE]
    /\ agent = Startup
    /\ reached = [r \in Runs |-> 0]
    /\ crashes = 0

-----------------------------------------------------------------------------
(* Ingress: one message, its run and the session row in one transaction.   *)

Sendable(m) ==
    /\ m.target # None => action[m.target] # "NONE"
    /\ RepeatCommands \/ m.target = None
         \/ \A c \in Runs : IsCommand(c) => message[c].target \notin {None, m.target}
    /\ Cardinality({c \in Runs : IsCommand(c)}) < MaxCommands

Ingest(m) ==
    LET r == Cardinality(Arrived) + 1
        isActive == \E s \in Runs : state[s] \in Live
        starts == m # Question \/ ~isActive
    IN
    /\ r \in Runs
    /\ m # Question => Sendable(m)
    /\ message' = [message EXCEPT ![r] = m]
    /\ state' = [state EXCEPT ![r] = IF starts THEN "RUNNING" ELSE "QUEUED"]
    /\ attempt' = [attempt EXCEPT ![r] = IF starts THEN 1 ELSE 0]
    /\ activeRun' = IF m = Question /\ ~isActive THEN r ELSE activeRun
    /\ UNCHANGED <<final, delivery, wait, actionVars, agent, reached, crashes>>

-----------------------------------------------------------------------------
(* The end of an ordinary run: its new state, and promote_next_run.        *)

Queued == {r \in Runs : state[r] = "QUEUED"}
Newest(S) == CHOOSE r \in S : \A s \in S : r >= s

ReleaseNewest(r, outcome) ==
    LET next == IF Queued = {} THEN None ELSE Newest(Queued) IN
    /\ state' = [s \in Runs |-> IF s = r THEN outcome
                                ELSE IF s = next THEN "RUNNING" ELSE state[s]]
    /\ attempt' = [s \in Runs |-> IF s = next THEN attempt[s] + 1 ELSE attempt[s]]
    /\ activeRun' = next
ReleaseWithoutClaim(r, outcome) ==
    LET next == IF Queued = {} THEN None ELSE Oldest(Queued) IN
    /\ state' = [s \in Runs |-> IF s = r THEN outcome
                                ELSE IF s = next THEN "RUNNING" ELSE state[s]]
    /\ attempt' = [s \in Runs |-> IF s = next THEN attempt[s] + 1 ELSE attempt[s]]
    /\ activeRun' = None
Release(r, outcome) ==
    LET next == IF Queued = {} THEN None ELSE Oldest(Queued) IN
    /\ state' = [s \in Runs |-> IF s = r THEN outcome
                                ELSE IF s = next THEN "RUNNING" ELSE state[s]]
    /\ attempt' = [s \in Runs |-> IF s = next THEN attempt[s] + 1 ELSE attempt[s]]
    /\ activeRun' = next

-----------------------------------------------------------------------------
(* The stages of one cycle, while no run is being processed.               *)

TimedOutAny == IF AllowTimeouts THEN Arrived \ Queued ELSE {}
\* The runs that recover_runs fails if they started max_run_seconds ago.
TimedOut == IF AllowTimeouts THEN {r \in Runs : state[r] = "RUNNING"} ELSE {}

Recoverable ==
    {r \in Runs : \/ action[r] = "CONFIRMED"
                  \/ action[r] = "FAILED" /\ executions[r] < MaxExecutions /\ ~actionWait[r]}

\* recover_runs, and the selection of recover_pending_actions.  The session
\* row is not touched and no queued run is promoted.
RecoverRuns(old) ==
    /\ Between("runs")
    /\ old \subseteq TimedOut
    /\ state' = [r \in Runs |-> IF r \in old THEN "FAILED" ELSE state[r]]
    /\ wait' = [r \in Runs |-> wait[r] /\ r \notin old]
    /\ agent' = [agent EXCEPT !.stage = "actions", !.todo = Recoverable]
    /\ UNCHANGED <<message, attempt, final, delivery, activeRun,
                   actionVars, reached, crashes>>

\* recover_pending_actions skips an action whose execution raises.
ExecuteRecovered(r) ==
    /\ Between("actions")
    /\ r \in agent.todo
    /\ \/ /\ action' = [action EXCEPT ![r] = "COMPLETED"]
          /\ agent' = [agent EXCEPT !.todo = @ \ {r}, !.results = @ \cup {r}]
          /\ UNCHANGED <<executions, actionWait>>
       \/ /\ action' = [action EXCEPT ![r] = "FAILED"]
          /\ executions' = [executions EXCEPT ![r] = @ + 1]
          /\ actionWait' = [actionWait EXCEPT ![r] = TRUE]
          /\ agent' = [agent EXCEPT !.todo = @ \ {r}]
    /\ UNCHANGED <<runVars, reached, crashes>>

\* The startup scan drops its results; the cycle resumes them.
EndActions ==
    /\ Between("actions")
    /\ agent.todo = {}
    /\ agent' = IF agent.starting
                  THEN Cycle
                  ELSE [agent EXCEPT !.stage = "resume", !.todo = agent.results]
    /\ UNCHANGED <<runVars, actionVars, reached, crashes>>

Call(r, pc) == [agent EXCEPT !.todo = @ \ {r}, !.stack = <<Frame(r, pc)>>]

ResumeNext(r) ==
    /\ Between("resume")
    /\ r \in agent.todo
    /\ agent' = Call(r, "execute")
    /\ UNCHANGED <<runVars, actionVars, reached, crashes>>

ReconcilableCompleted == {r \in Runs : Waiting(r) /\ action[r] = "COMPLETED"}
Reconcilable == {r \in Runs : Waiting(r) /\ action[r] \in {"COMPLETED", "REJECTED"}}

EndResume ==
    /\ Between("resume")
    /\ agent.todo = {}
    /\ agent' = [agent EXCEPT !.stage = "reconcile", !.todo = Reconcilable]
    /\ UNCHANGED <<runVars, actionVars, reached, crashes>>

\* reconcile_terminal_actions; one session has one waiting run, so resuming
\* all of them before processing any is resuming each and processing it.
ReconcileNext(r) ==
    /\ Between("reconcile")
    /\ r \in agent.todo
    /\ agent' = Call(r, IF action[r] = "COMPLETED" THEN "execute" ELSE "finalize")
    /\ UNCHANGED <<runVars, actionVars, reached, crashes>>

Unprompted ==
    {r \in Runs : /\ Waiting(r)
                  /\ delivery[r] \in {"NULL", "FAILED", "RETRY_WAIT"}
                  /\ ~wait[r]
                  /\ attempt[r] < MaxDeliveryAttempts}

\* retry_confirmation_prompts counts the attempts in the scan's transaction.
SelectPrompts ==
    /\ Between("reconcile")
    /\ agent.todo = {}
    /\ attempt' = [r \in Runs |-> IF r \in Unprompted THEN attempt[r] + 1 ELSE attempt[r]]
    /\ agent' = [agent EXCEPT !.stage = "prompts", !.todo = Unprompted]
    /\ UNCHANGED <<state, message, final, delivery, wait, activeRun,
                   actionVars, reached, crashes>>

PromptNext(r) ==
    /\ Between("prompts")
    /\ r \in agent.todo
    /\ agent' = Call(r, "prompt")
    /\ UNCHANGED <<runVars, actionVars, reached, crashes>>

DueRunning == {r \in Runs : state[r] = "RUNNING"}
Due == {r \in Runs : \/ state[r] = "RUNNING"
                     \/ state[r] = "DELIVERY_PENDING" /\ ~wait[r]}

\* The claim of a queued run asks that no run of its session is live; a
\* queued run is live itself.
Claimable == {r \in Queued : \A s \in Runs : state[s] \notin Live}

\* The last stage: the next cycle follows once the chosen run is processed.
PickRun ==
    /\ Between("prompts")
    /\ agent.todo = {}
    /\ IF Due = {} /\ Claimable # {}
         THEN /\ state' = [state EXCEPT ![Oldest(Claimable)] = "RUNNING"]
              /\ attempt' = [attempt EXCEPT ![Oldest(Claimable)] = @ + 1]
         ELSE UNCHANGED <<state, attempt>>
    /\ agent' = IF Due \cup Claimable = {}
                  THEN Cycle
                  ELSE [Cycle EXCEPT !.stack =
                          <<Frame(Oldest(IF Due # {} THEN Due ELSE Claimable), "begin")>>]
    /\ UNCHANGED <<message, final, delivery, wait, activeRun, actionVars,
                   reached, crashes>>

-----------------------------------------------------------------------------
(* process_run: claim the attempt and load the run.  Every run the thread    *)
(* takes up is due when it is begun, so the early returns for a run that is  *)
(* not (runtime_support.py:101-105, runtime.py:137-138) are not actions: a   *)
(* run that took one would be a deadlock here.                               *)

NeverExhausted(r) == FALSE
Exhausted(r) == attempt[r] >= MaxDeliveryAttempts

\* Where the loaded run goes on: its stored answer, its command, or the LLM.
LoadedAt(r) ==
    IF state[r] = "DELIVERY_PENDING" /\ final[r] THEN "answer"
    ELSE IF IsCommand(r) THEN "resolve" ELSE "think"

BeginRunning ==
    /\ At("begin")
    /\ state[Top.run] = "RUNNING"
    /\ agent' = Goto(LoadedAt(Top.run))
    /\ UNCHANGED <<runVars, actionVars, reached, crashes>>

BeginAttempt ==
    LET r == Top.run IN
    /\ At("begin")
    /\ state[r] = "DELIVERY_PENDING"
    /\ ~wait[r]
    /\ ~Exhausted(r)
    /\ attempt' = [attempt EXCEPT ![r] = @ + 1]
    /\ agent' = Goto(LoadedAt(r))
    /\ UNCHANGED <<state, message, final, delivery, wait, activeRun,
                   actionVars, reached, crashes>>

\* load_context cannot use what is stored: tool calls the run cannot go on
\* from, a failed tool among them, or a reply target stored in part (which
\* fails the first load of a run already).  A stored answer is loaded without
\* the tool calls.  The run fails and gives the session back, but nothing is
\* promoted, and process_run returns.
LoadFails ==
    LET r == Top.run IN
    /\ AllowBrokenLoads
    /\ At("begin")
    /\ \/ state[r] = "RUNNING" /\ UNCHANGED attempt
       \/ /\ state[r] = "DELIVERY_PENDING"
          /\ ~wait[r] /\ ~Exhausted(r) /\ ~final[r]
          /\ attempt' = [attempt EXCEPT ![r] = @ + 1]
    /\ state' = [state EXCEPT ![r] = "FAILED"]
    /\ activeRun' = IF activeRun = r THEN None ELSE activeRun
    /\ agent' = Return
    /\ UNCHANGED <<message, final, delivery, wait, actionVars, reached, crashes>>

\* The attempts are used up: the run fails, and only the run that holds the
\* session releases it.
BeginExhausted ==
    LET r == Top.run IN
    /\ At("begin")
    /\ state[r] = "DELIVERY_PENDING"
    /\ ~wait[r]
    /\ Exhausted(r)
    /\ IF activeRun = r
         THEN Release(r, "FAILED")
         ELSE /\ state' = [state EXCEPT ![r] = "FAILED"]
              /\ UNCHANGED <<attempt, activeRun>>
    /\ agent' = Return
    /\ UNCHANGED <<message, final, delivery, wait, actionVars, reached, crashes>>

-----------------------------------------------------------------------------
(* run_turns: what the LLM and the tools come to.                          *)

ThinkAnswer ==
    /\ At("think")
    /\ agent' = Goto("answer")
    /\ UNCHANGED <<runVars, actionVars, reached, crashes>>

\* propose_status_write: the proposal, the suspension of the run and the
\* prompt as its message, in one transaction.
ThinkPropose ==
    LET r == Top.run IN
    /\ At("think")
    /\ action[r] = "NONE"
    /\ action' = [action EXCEPT ![r] = "PENDING"]
    /\ state' = [state EXCEPT ![r] = "WAITING_USER_CONFIRMATION"]
    /\ delivery' = [delivery EXCEPT ![r] = "PENDING"]
    /\ final' = [final EXCEPT ![r] = TRUE]
    /\ agent' = Goto("prompt")
    /\ UNCHANGED <<message, attempt, wait, activeRun, executions,
                   actionWait, reached, crashes>>

\* _schedule_run_retry.
ThinkRetry ==
    LET r == Top.run IN
    /\ At("think")
    /\ state' = [state EXCEPT ![r] = "DELIVERY_PENDING"]
    /\ wait' = [wait EXCEPT ![r] = TRUE]
    /\ agent' = Return
    /\ UNCHANGED <<message, attempt, final, delivery, activeRun,
                   actionVars, reached, crashes>>

\* complete_run without an answer.
ThinkFail ==
    LET r == Top.run IN
    /\ At("think")
    /\ Release(r, "FAILED")
    /\ agent' = Return
    /\ UNCHANGED <<message, final, delivery, wait, actionVars, reached, crashes>>

-----------------------------------------------------------------------------
(* Delivering an answer: persist it, push it, record the outcome.          *)

PersistAnswer ==
    LET r == Top.run IN
    /\ At("answer")
    /\ IF final[r] THEN UNCHANGED <<state, final>>
         ELSE /\ final' = [final EXCEPT ![r] = TRUE]
              /\ state' = [state EXCEPT ![r] = "DELIVERY_PENDING"]
    /\ agent' = Goto("push")
    /\ UNCHANGED <<message, attempt, delivery, wait, activeRun,
                   actionVars, reached, crashes>>

Pushed(outcome, pc) ==
    [agent EXCEPT !.stack = <<[Top EXCEPT !.pc = pc, !.outcome = outcome]>> \o Tail(@)]

PushAnswer(outcome) ==
    /\ At("push")
    /\ outcome # "UNCLASSIFIED"
    /\ reached' = [reached EXCEPT ![Top.run] =
                     IF outcome \in {"SENT", "AMBIGUOUS"} THEN @ + 1 ELSE @]
    /\ agent' = Pushed(outcome, "record")
    /\ UNCHANGED <<runVars, actionVars, crashes>>

RetryAmbiguous(r) ==
    Top.outcome \in {"RETRYABLE", "AMBIGUOUS"} /\ attempt[r] < MaxDeliveryAttempts
Retry(r) == Top.outcome = "RETRYABLE" /\ attempt[r] < MaxDeliveryAttempts

\* Both records schedule a retry in the same way.
RecordRetry ==
    LET r == Top.run IN
    /\ At("record")
    /\ Retry(r)
    /\ state' = [state EXCEPT ![r] = "DELIVERY_PENDING"]
    /\ wait' = [wait EXCEPT ![r] = TRUE]
    /\ agent' = Return
    /\ UNCHANGED <<message, attempt, final, delivery, activeRun, actionVars,
                   reached, crashes>>

\* record_delivery releases the session whatever the outcome.
RecordDelivery ==
    LET r == Top.run IN
    /\ At("record")
    /\ ~IsCommand(r)
    /\ ~Retry(r)
    /\ Release(r, IF Top.outcome = "SENT" THEN "COMPLETED" ELSE "FAILED")
    /\ wait' = [wait EXCEPT ![r] = FALSE]
    /\ agent' = Return
    /\ UNCHANGED <<message, final, delivery, actionVars, reached, crashes>>

\* record_command_delivery neither releases the session nor promotes.
RecordCommandDelivery ==
    LET r == Top.run IN
    /\ At("record")
    /\ IsCommand(r)
    /\ ~Retry(r)
    /\ state' = [state EXCEPT ![r] =
                   IF Top.outcome = "SENT" THEN "COMPLETED" ELSE "FAILED"]
    /\ wait' = [wait EXCEPT ![r] = FALSE]
    /\ agent' = Return
    /\ UNCHANGED <<message, attempt, final, delivery, activeRun, actionVars,
                   reached, crashes>>

-----------------------------------------------------------------------------
(* The confirmation prompt, at the proposal and in the retry stage.        *)

PushPrompt(outcome) ==
    /\ At("prompt")
    \* The retry stage records an exception as ambiguous.
    /\ agent.stage = "prompts" => outcome # "UNCLASSIFIED"
    /\ agent' = Pushed(outcome, "recordPrompt")
    /\ UNCHANGED <<runVars, actionVars, reached, crashes>>

\* record_confirmation_delivery.
RecordPrompt ==
    LET r == Top.run IN
    /\ At("recordPrompt")
    /\ delivery' = [delivery EXCEPT ![r] =
                      IF Retry(r) THEN "RETRY_WAIT"
                      ELSE IF Top.outcome \in {"SENT", "AMBIGUOUS", "PERMANENT"}
                        THEN Top.outcome ELSE "FAILED"]
    /\ wait' = [wait EXCEPT ![r] = Retry(r)]
    /\ agent' = Return
    /\ UNCHANGED <<state, message, attempt, final, activeRun,
                   actionVars, reached, crashes>>

-----------------------------------------------------------------------------
(* Confirmation commands, and resuming the run they decide about.          *)

Pending == {r \in Runs : action[r] = "PENDING"}
MayExpire == IF AllowExpiry THEN SUBSET Pending ELSE {{}}

\* The action a command addresses, None when it cannot be identified.
Addressed(c, expired) ==
    IF message[c].target # None THEN message[c].target
    ELSE IF Cardinality(Pending \ expired) = 1
           THEN CHOOSE r \in Runs : r \in Pending \ expired
           ELSE None

Resolution(c, r, expired) ==
    IF action[r] # "PENDING" THEN action[r]
    ELSE IF r \in expired THEN "EXPIRED"
    ELSE IF message[c].resolution = "CONFIRM" THEN "CONFIRMED" ELSE "REJECTED"

ResolveUnknown(expired) ==
    /\ At("resolve")
    /\ Addressed(Top.run, expired) = None
    /\ agent' = Goto("answer")
    /\ UNCHANGED <<runVars, actionVars, reached, crashes>>

\* _resolve_action; a decision is carried out, a repeated one carried out again.
Resolve(expired) ==
    LET c == Top.run
        r == Addressed(c, expired)
        result == Resolution(c, r, expired)
        called ==
            IF message[c].resolution = "CONFIRM" /\ result = "CONFIRMED"
              THEN <<Frame(r, "execute")>>
            ELSE IF message[c].resolution = "REJECT" /\ result = "REJECTED"
              THEN <<Frame(r, "finalize")>>
            ELSE <<>>
    IN
    /\ At("resolve")
    /\ r # None
    /\ action' = [action EXCEPT ![r] = result]
    /\ agent' = [agent EXCEPT !.stack =
                   called \o <<[Top EXCEPT !.pc = "answer"]>> \o Tail(@)]
    /\ UNCHANGED <<runVars, executions, actionWait, reached, crashes>>

\* execute_status_update on behalf of a resumed run: it succeeds, or finds
\* nothing to do.
Execute ==
    LET r == Top.run IN
    /\ At("execute")
    /\ action' = [action EXCEPT ![r] =
                    IF @ \in {"CONFIRMED", "FAILED"} THEN "COMPLETED" ELSE @]
    /\ agent' = Goto("resume")
    /\ UNCHANGED <<runVars, executions, actionWait, reached, crashes>>

ExecuteFailsSilently ==
    LET r == Top.run IN
    /\ At("execute")
    /\ action[r] \in {"CONFIRMED", "FAILED"}
    /\ action' = [action EXCEPT ![r] = "FAILED"]
    /\ executions' = [executions EXCEPT ![r] = @ + 1]
    /\ actionWait' = [actionWait EXCEPT ![r] = TRUE]
    /\ agent' = Goto("resume")
    /\ UNCHANGED <<runVars, reached, crashes>>

\* It raises: the exception ends the cycle, with everything on the stack.
ExecuteFails ==
    LET r == Top.run IN
    /\ At("execute")
    /\ action[r] \in {"CONFIRMED", "FAILED"}
    /\ action' = [action EXCEPT ![r] = "FAILED"]
    /\ executions' = [executions EXCEPT ![r] = @ + 1]
    /\ actionWait' = [actionWait EXCEPT ![r] = TRUE]
    /\ agent' = Cycle
    /\ UNCHANGED <<runVars, reached, crashes>>

\* The last transaction of resume_confirmed_action.
ResumeRun ==
    LET r == Top.run IN
    /\ At("resume")
    /\ IF Waiting(r)
         THEN /\ state' = [state EXCEPT ![r] = "RUNNING"]
              /\ final' = [final EXCEPT ![r] = FALSE]
         ELSE UNCHANGED <<state, final>>
    /\ agent' = Goto("begin")
    /\ UNCHANGED <<message, attempt, delivery, wait, activeRun,
                   actionVars, reached, crashes>>

\* finalize_rejected_action does not look at the state of the run.
FinalizeRejected ==
    LET r == Top.run IN
    /\ At("finalize")
    /\ state' = [state EXCEPT ![r] = "RUNNING"]
    /\ final' = [final EXCEPT ![r] = FALSE]
    /\ agent' = Goto("begin")
    /\ UNCHANGED <<message, attempt, delivery, wait, activeRun,
                   actionVars, reached, crashes>>

-----------------------------------------------------------------------------
(* The environment: clocks, and the death of the process.                  *)

RetryTimeComes(r) ==
    /\ wait[r]
    /\ wait' = [wait EXCEPT ![r] = FALSE]
    /\ UNCHANGED <<state, message, attempt, final, delivery, activeRun,
                   actionVars, agent, reached, crashes>>

ActionRetryTimeComes(r) ==
    /\ actionWait[r]
    /\ actionWait' = [actionWait EXCEPT ![r] = FALSE]
    /\ UNCHANGED <<runVars, action, executions, agent, reached, crashes>>

Crash ==
    /\ crashes < MaxCrashes
    /\ crashes' = crashes + 1
    /\ agent' = Startup
    /\ UNCHANGED <<runVars, actionVars, reached>>

-----------------------------------------------------------------------------
StageStep ==
    \/ \E old \in SUBSET Runs : RecoverRuns(old)
    \/ EndActions \/ EndResume \/ SelectPrompts \/ PickRun
    \/ \E r \in Runs :
         ExecuteRecovered(r) \/ ResumeNext(r) \/ ReconcileNext(r) \/ PromptNext(r)

RunStep ==
    \/ BeginRunning \/ BeginAttempt \/ LoadFails \/ BeginExhausted
    \/ ThinkAnswer \/ ThinkPropose \/ ThinkRetry \/ ThinkFail
    \/ PersistAnswer \/ RecordRetry \/ RecordDelivery \/ RecordCommandDelivery
    \/ RecordPrompt
    \/ \E outcome \in Outcomes : PushAnswer(outcome) \/ PushPrompt(outcome)
    \/ \E expired \in MayExpire : ResolveUnknown(expired) \/ Resolve(expired)
    \/ Execute \/ ExecuteFails \/ ResumeRun \/ FinalizeRejected

AgentStep == StageStep \/ RunStep

Next ==
    \/ \E m \in Commands \cup {Question} : Ingest(m)
    \/ AgentStep
    \/ \E r \in Runs : RetryTimeComes(r) \/ ActionRetryTimeComes(r)
    \/ Crash

Spec == Init /\ [][Next]_vars

\* The worker loop runs for ever, and retry times come.
FairSpec ==
    /\ Spec
    /\ WF_vars(AgentStep)
    /\ \A r \in Runs : WF_vars(RetryTimeComes(r)) /\ WF_vars(ActionRetryTimeComes(r))

-----------------------------------------------------------------------------
FrameType ==
    [run : Runs,
     pc : {"begin", "think", "answer", "push", "record", "prompt",
           "recordPrompt", "resolve", "execute", "resume", "finalize"},
     outcome : Outcomes \cup {"NONE"}]

TypeOK ==
    /\ state \in [Runs -> RunStates]
    /\ message \in [Runs -> Commands \cup {Question}]
    /\ attempt \in [Runs -> 0 .. MaxDeliveryAttempts]
    /\ delivery \in [Runs -> DeliveryStates]
    /\ {final, wait, actionWait} \subseteq [Runs -> BOOLEAN]
    /\ activeRun \in Runs \cup {None}
    /\ action \in [Runs -> ActionStates]
    /\ executions \in [Runs -> 0 .. MaxExecutions]
    /\ agent.stage \in {"runs", "actions", "resume", "reconcile", "prompts"}
    /\ agent.starting \in BOOLEAN
    /\ agent.todo \subseteq Runs /\ agent.results \subseteq Runs
    /\ agent.stack \in Seq(FrameType) /\ Len(agent.stack) <= 2
    /\ reached \in [Runs -> Nat]
    /\ crashes \in 0 .. MaxCrashes

-----------------------------------------------------------------------------
(* Properties.                                                             *)

\* The question that holds the session is the one active_run_id names, so
\* there is never a second one (architecture.md:2378), whatever recovery,
\* promotion and arrival did (webhook.py:183-218, delivery.py:35-52).
ActiveRunHoldsSession ==
    \A r \in Runs : state[r] \in Holding /\ ~IsCommand(r) => activeRun = r

\* Questions are started in the order of their arrival: none overtakes a
\* queued one (delivery.py:37-44, webhook.py:203-207).
StartedInOrder ==
    \A r, s \in Runs :
        /\ state[r] = "QUEUED"
        /\ r < s
        /\ ~IsCommand(s)
        => state[s] \in {"NONE", "QUEUED"}

\* A run that completed or failed is not touched again by recovery, timeouts,
\* redelivery, reconciliation or a confirmation.  Only the refusal of its own
\* action, carried out once more, reopens it (write_runtime.py:233-235), and
\* then as a run to be worked on.
ReopenedByRefusalOnly ==
    [][\A r \in Runs :
         state[r] \in Terminal /\ state'[r] # state[r] =>
           /\ At("finalize") /\ Top.run = r /\ action[r] = "REJECTED"
           /\ state'[r] = "RUNNING"]_vars

\* An answer that reached the user, or may have, is sent again only if the
\* process died before it recorded the outcome (delivery.py:91-116).
AnswerReachesOnce == \A r \in Runs : reached[r] <= 1 + crashes

\* The run goes on, and the LLM is told of the outcome, only after the facts
\* were changed or the user refused (write_runtime.py:101-157, 193-236).
ResumedAfterDecision ==
    [][\A r \in Runs :
         Waiting(r) /\ ~Waiting(r)' => action[r] \in {"COMPLETED", "REJECTED"}]_vars

\* A run that is being worked on comes to an end or to a confirmation, across
\* failures of the LLM and the provider and across restarts.
RunsFinish ==
    \A r \in Runs :
        state[r] \in {"RUNNING", "DELIVERY_PENDING"} ~> state[r] \in Terminal \/ Waiting(r)

\* A suspended run whose action was carried out or refused is resumed, also
\* when the process died between the two (write_recovery.py:109-149).
DecidedRunsResume ==
    \A r \in Runs :
        Waiting(r) /\ action[r] \in {"COMPLETED", "REJECTED"} ~> ~Waiting(r)

-----------------------------------------------------------------------------
(* Statements of the documentation that the code does not keep.            *)

\* runtime.py:259, recover_runs: "Fail stale RUNNING rows so a restart cannot
\* strand a session."
QueuedRunsStart == \A r \in Runs : state[r] = "QUEUED" ~> state[r] # "QUEUED"

\* architecture.md:2378: one session executes one main run at a time.  A refusal
\* that is repeated after its run has ended breaks it (write_runtime.py:235).
OneMainRun ==
    \A r, s \in Runs :
        /\ state[r] \in Holding /\ ~IsCommand(r)
        /\ state[s] \in Holding /\ ~IsCommand(s)
        => r = s
=============================================================================
