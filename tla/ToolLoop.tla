------------------------------ MODULE ToolLoop ------------------------------
(***************************************************************************)
(* One agent run and its tool calls: the turns with the LLM, the batches   *)
(* of calls it asks for, their durable results, the proposals of the       *)
(* writes, and what a restart rebuilds from the rows (agent/turn_runtime,  *)
(* tool_runtime, continuation_state, runtime_support, write_preflight,     *)
(* write_proposals, write_runtime, write_recovery, runtime; _agent_cycle   *)
(* of lifecycle.py; the conversation half of openai_compatible_llm.py).    *)
(*                                                                         *)
(* AgentSession has many runs with one write each and no calls; here one   *)
(* run has all its calls.  The agent thread is the only actor that works   *)
(* on them; every transaction, tool and provider call of it is a step, and *)
(* the process can die between any two.  The user's confirmation commands  *)
(* are runs of the same session, of which one at a time is kept.           *)
(*                                                                         *)
(* A call is a kind of tool, its batch and its provider id; arguments and  *)
(* result texts are abstracted to what decides the control flow.  What     *)
(* finishing a run does to the session is in AgentSession, how a confirmed *)
(* action is executed in PendingActions.                                   *)
(***************************************************************************)
EXTENDS Integers, Sequences, FiniteSets, SequencesExt

CONSTANTS
    MaxToolCalls,          \* agent_max_tool_calls
    Responses,             \* bound: the batches of tools the LLM asks for
    RepeatIds,             \* environment: a later response may repeat an id
    MaxDeliveryAttempts,   \* agent_max_delivery_attempts
    AllowTimeouts,         \* environment: runs may exceed max_run_seconds
    MaxCommands,           \* bound: confirmation commands
    MaxCrashes             \* bound: process deaths

\* READ stands for every tool that is executed at once; a MALFORMED call is a
\* write whose arguments the preflight refuses; an UNKNOWN one removes a
\* document that the user does not have.
Tools == {"READ", "STATUS", "KNOWLEDGE", "UNKNOWN", "MALFORMED"}

ASSUME ToolLoopAssumption ==
    /\ MaxToolCalls \in Nat
    /\ Responses \subseteq Seq(Tools) \ {<<>>}
    /\ MaxDeliveryAttempts \in Nat \ {0}
    /\ MaxCommands \in Nat /\ MaxCrashes \in Nat
    /\ {RepeatIds, AllowTimeouts} \subseteq BOOLEAN

Slots == 1 .. MaxToolCalls
None == 0

RunStates == {"RUNNING", "DELIVERY_PENDING", "WAITING_USER_CONFIRMATION",
              "COMPLETED", "FAILED"}
Terminal == {"COMPLETED", "FAILED"}
Results == {"NONE", "OK", "ERROR", "PROPOSED", "COMPLETED", "REJECTED",
            "CLARIFICATION_REQUIRED", "PENDING_BATCH_CANCELLED"}
ActionStates == {"NONE", "PENDING", "CONFIRMED", "FAILED", "COMPLETED", "REJECTED"}

\* What comes of handing a text to the provider; FINAL is a permanent or an
\* ambiguous error, UNCLASSIFIED an exception.
Outcomes == {"SENT", "RETRYABLE", "FINAL", "UNCLASSIFIED"}

VARIABLES
    state,      \* agent_runs.state
    attempt,    \* agent_runs.attempt_count
    wait,       \* next_retry_at lies in the future
    final,      \* the message final_message_id names
    delivery,   \* agent_runs.delivery_state, as the prompts leave it
    calls,      \* tool_calls of the run by sequence
    result,     \* tool_results, by the sequence of the call
    action,     \* state of the call's PendingAction
    linked,     \* the action names its run and its call
    agent,      \* control state of the agent thread
    context,    \* RunContext: the results it holds, the calls left to do
    command,    \* the confirmation command whose run is RUNNING
    commands,   \* commands sent so far
    executed,   \* executions of the call's tool
    proposed,   \* proposals created for the call
    crashes

runVars == <<state, attempt, wait, final, delivery>>
callVars == <<calls, result>>
actionVars == <<action, linked, proposed>>
userVars == <<command, commands>>
vars == <<runVars, callVars, actionVars, agent, context, userVars, executed, crashes>>

Waiting == state = "WAITING_USER_CONFIRMATION"
Persisted == 1 .. Len(calls)
NoCommand == [target |-> None, resolution |-> "NONE"]
NoContext == [results |-> <<>>, pending |-> <<>>]

\* The thread: the stage of its cycle, the place in process_run (IDLE when no
\* run is processed), the outcome it carries, what the stage has left to do,
\* and how often the run is to be processed again.
Cycle == [stage |-> "recover", starting |-> FALSE, pc |-> "IDLE", outcome |-> "NONE",
          todo |-> {}, results |-> {}, rounds |-> 0]
Startup == [Cycle EXCEPT !.starting = TRUE]
At(pc) == agent.pc = pc
Between(stage) == agent.pc = "IDLE" /\ agent.stage = stage
Goto(pc) == [agent EXCEPT !.pc = pc, !.outcome = "NONE"]
Carry(pc, outcome) == [agent EXCEPT !.pc = pc, !.outcome = outcome]
Return == Goto("IDLE")
Stage(stage, todo) == [Cycle EXCEPT !.stage = stage, !.todo = todo]

Init ==
    /\ state = "RUNNING" /\ attempt = 1 /\ wait = FALSE
    /\ final = "NONE" /\ delivery = "NULL"
    /\ calls = <<>>
    /\ result = [i \in Slots |-> "NONE"]
    /\ action = [i \in Slots |-> "NONE"]
    /\ linked = [i \in Slots |-> FALSE]
    /\ agent = Cycle
    /\ context = NoContext
    /\ command = NoCommand /\ commands = 0
    /\ executed = [i \in Slots |-> 0]
    /\ proposed = [i \in Slots |-> 0]
    /\ crashes = 0

-----------------------------------------------------------------------------
(* Resuming the run after a decision about one of its writes.              *)

\* The last transaction of resume_confirmed_action: an action that does not
\* name its run yet resumes nothing.
Resume(i) ==
    /\ result' = IF linked[i] THEN [result EXCEPT ![i] = "COMPLETED"] ELSE result
    /\ state' = IF linked[i] /\ Waiting THEN "RUNNING" ELSE state
    /\ final' = IF linked[i] /\ Waiting THEN "NONE" ELSE final

\* finalize_rejected_action does not ask for the state of the run.
FinalizeRejected(i) ==
    /\ result' = IF linked[i] THEN [result EXCEPT ![i] = "REJECTED"] ELSE result
    /\ state' = IF linked[i] THEN "RUNNING" ELSE state
    /\ final' = IF linked[i] THEN "NONE" ELSE final

-----------------------------------------------------------------------------
(* The stages of a cycle.                                                  *)

StatusActions(s) == {i \in Persisted : calls[i].tool = "STATUS" /\ action[i] = s}

\* recover_runs fails the runs that started too long ago, a command's as well;
\* then recover_pending_actions selects: a failed action may be due or not.
RecoverRuns(old, due) ==
    /\ Between("recover")
    /\ old \subseteq (IF AllowTimeouts THEN {"RUN", "COMMAND"} ELSE {})
    /\ due \subseteq StatusActions("FAILED")
    /\ IF "RUN" \in old /\ state = "RUNNING"
         THEN state' = "FAILED" /\ wait' = FALSE
         ELSE UNCHANGED <<state, wait>>
    /\ command' = IF "COMMAND" \in old THEN NoCommand ELSE command
    /\ agent' = [agent EXCEPT !.stage = "actions",
                              !.todo = StatusActions("CONFIRMED") \cup due]
    /\ UNCHANGED <<attempt, final, delivery, callVars, actionVars, context,
                   commands, executed, crashes>>

ExecuteRecovered(i) ==
    /\ Between("actions")
    /\ i \in agent.todo
    /\ \/ /\ action' = [action EXCEPT ![i] = "COMPLETED"]
          /\ agent' = [agent EXCEPT !.todo = @ \ {i}, !.results = @ \cup {i}]
       \/ /\ action' = [action EXCEPT ![i] = "FAILED"]
          /\ agent' = [agent EXCEPT !.todo = @ \ {i}]
    /\ UNCHANGED <<runVars, callVars, linked, proposed, context, userVars,
                   executed, crashes>>

\* The startup scan drops its results; the cycle resumes them.
EndActions ==
    /\ Between("actions")
    /\ agent.todo = {}
    /\ agent' = IF agent.starting THEN Cycle ELSE Stage("resume", agent.results)
    /\ UNCHANGED <<runVars, callVars, actionVars, context, userVars, executed, crashes>>

\* resume_confirmed_run: the execution finds the action COMPLETED.
ResumeRecovered(i) ==
    /\ Between("resume")
    /\ i \in agent.todo
    /\ Resume(i)
    /\ agent' = [agent EXCEPT !.todo = @ \ {i}, !.pc = IF linked[i] THEN "BEGIN" ELSE @]
    /\ UNCHANGED <<attempt, wait, delivery, calls, actionVars, context,
                   userVars, executed, crashes>>

\* reconcile_terminal_actions selects by the state of the action and of the
\* run, whichever action the run waits for.
EndResume ==
    /\ Between("resume")
    /\ agent.todo = {}
    /\ agent' = Stage("reconcile",
                      {i \in Persisted : /\ action[i] \in {"COMPLETED", "REJECTED"}
                                         /\ linked[i] /\ Waiting})
    /\ UNCHANGED <<runVars, callVars, actionVars, context, userVars, executed, crashes>>

Reconcile(i) ==
    /\ Between("reconcile")
    /\ i \in agent.todo
    /\ IF action[i] = "COMPLETED" THEN Resume(i) ELSE FinalizeRejected(i)
    /\ agent' = [agent EXCEPT !.todo = @ \ {i}, !.rounds = @ + 1]
    /\ UNCHANGED <<attempt, wait, delivery, calls, actionVars, context,
                   userVars, executed, crashes>>

\* The run is processed once for every action that was reconciled.
ProcessReconciled ==
    /\ Between("reconcile")
    /\ agent.todo = {}
    /\ agent.rounds > 0
    /\ agent' = [agent EXCEPT !.rounds = @ - 1, !.pc = "BEGIN"]
    /\ UNCHANGED <<runVars, callVars, actionVars, context, userVars, executed, crashes>>

\* retry_confirmation_prompts counts the attempt, and skips a run that has no
\* stored prompt.
RetryPrompt ==
    LET due == /\ Waiting /\ ~wait
               /\ delivery \in {"NULL", "FAILED", "RETRY_WAIT"}
               /\ attempt < MaxDeliveryAttempts
    IN
    /\ Between("reconcile")
    /\ agent.todo = {}
    /\ agent.rounds = 0
    /\ attempt' = IF due THEN attempt + 1 ELSE attempt
    /\ agent' = [Stage("prompts", {}) EXCEPT
                   !.pc = IF due /\ final # "NONE" THEN "PROMPT" ELSE @]
    /\ UNCHANGED <<state, wait, final, delivery, callVars, actionVars, context,
                   userVars, executed, crashes>>

DueRunning == state = "RUNNING"
Due == state = "RUNNING" \/ (state = "DELIVERY_PENDING" /\ ~wait)

\* The run is older than any command; without either the cycle starts again.
PickRun ==
    /\ Between("prompts")
    /\ agent' = IF Due THEN [Cycle EXCEPT !.pc = "BEGIN"]
                ELSE IF command # NoCommand
                  THEN [Stage("command", {}) EXCEPT !.pc = "RESOLVE"]
                  ELSE Cycle
    /\ UNCHANGED <<runVars, callVars, actionVars, context, userVars, executed, crashes>>

-----------------------------------------------------------------------------
(* process_run: claim the attempt and load the run.                        *)

BeginAttempt ==
    /\ At("BEGIN")
    /\ state = "DELIVERY_PENDING"
    /\ ~wait
    /\ IF attempt < MaxDeliveryAttempts
         THEN attempt' = attempt + 1 /\ agent' = Goto("LOAD") /\ UNCHANGED state
         ELSE state' = "FAILED" /\ agent' = Return /\ UNCHANGED attempt
    /\ UNCHANGED <<wait, final, delivery, callVars, actionVars, context,
                   userVars, executed, crashes>>

\* A run that is RUNNING needs no attempt; one that waits, for a retry or for
\* the user, or has ended, is left alone.
BeginOther ==
    /\ At("BEGIN")
    /\ state # "DELIVERY_PENDING" \/ wait
    /\ agent' = IF state = "RUNNING" THEN Goto("LOAD") ELSE Return
    /\ UNCHANGED <<runVars, callVars, actionVars, context, userVars, executed, crashes>>

DistinctIds == \A i, j \in Persisted : calls[i].id = calls[j].id => i = j

\* ORDER BY sequence: the calls of a set, in the order of their sequence.
InSequence(S) ==
    CHOOSE s \in [1 .. Cardinality(S) -> S] : \A j, k \in DOMAIN s : j < k => s[j] < s[k]
Executed == InSequence({i \in Persisted : result[i] = "OK"})
Answered == InSequence({i \in Persisted : result[i] # "NONE"})
Unanswered == InSequence({i \in Persisted : result[i] = "NONE"})

\* The stored answer is delivered again; a run with an unusable continuation
\* fails; otherwise the calls without a result are left to do.
Load ==
    LET usable == DistinctIds /\ \A i \in Persisted : result[i] # "ERROR" IN
    /\ At("LOAD")
    /\ IF state = "DELIVERY_PENDING" /\ final # "NONE"
         THEN /\ context' = NoContext /\ agent' = Goto("ANSWER")
              /\ UNCHANGED state
         ELSE IF usable
         THEN /\ context' = [results |-> Answered, pending |-> Unanswered]
              /\ agent' = Goto("TOOLS")
              /\ UNCHANGED state
         ELSE /\ state' = "FAILED" /\ agent' = Return
              /\ UNCHANGED context
    /\ UNCHANGED <<attempt, wait, final, delivery, callVars, actionVars,
                   userVars, executed, crashes>>

-----------------------------------------------------------------------------
(* _resume_pending_tools: every pending call in turn.                      *)

Pending == context.pending
NextCall == Head(Pending)
HasTool(tool) == At("TOOLS") /\ Pending # <<>> /\ calls[NextCall].tool = tool
IsMalformed(i) == calls[i].tool = "MALFORMED"
MalformedNext == {i \in ToSet(Pending) : IsMalformed(i) /\ i = NextCall}
Malformed == {i \in ToSet(Pending) : IsMalformed(i)}

NoPendingTools ==
    /\ At("TOOLS")
    /\ Pending = <<>>
    /\ agent' = Goto("THINK")
    /\ UNCHANGED <<runVars, callVars, actionVars, context, userVars, executed, crashes>>

\* The preflight looks at all pending calls before any of them is carried
\* out: results for all of them and the clarification in one transaction.
RecoverMalformed ==
    /\ At("TOOLS")
    /\ Malformed # {}
    /\ result' = [i \in Slots |->
                    IF i \notin ToSet(Pending) \/ result[i] # "NONE" THEN result[i]
                    ELSE IF i = Min(Malformed) THEN "CLARIFICATION_REQUIRED"
                    ELSE "PENDING_BATCH_CANCELLED"]
    /\ state' = "DELIVERY_PENDING"
    /\ final' = IF final = "NONE" THEN "CLARIFICATION" ELSE final
    /\ delivery' = "NULL"
    /\ wait' = FALSE
    /\ agent' = Goto("ANSWER")
    /\ UNCHANGED <<attempt, calls, actionVars, context, userVars, executed, crashes>>

\* execute_tool runs the tool outside transactions ...
ExecuteTool(outcome) ==
    /\ HasTool("READ")
    /\ Malformed = {}
    /\ executed' = [executed EXCEPT ![NextCall] = @ + 1]
    /\ agent' = Carry("STORE", outcome)
    /\ UNCHANGED <<runVars, callVars, actionVars, context, userVars, crashes>>

\* ... and stores what came of it.
StoreResult ==
    /\ At("STORE")
    /\ result' = [result EXCEPT ![NextCall] = agent.outcome]
    /\ IF agent.outcome = "OK"
         THEN /\ context' = [results |-> Append(context.results, NextCall),
                             pending |-> Tail(Pending)]
              /\ agent' = Goto("TOOLS")
         ELSE /\ agent' = Goto("FAIL")
              /\ UNCHANGED context
    /\ UNCHANGED <<runVars, calls, actionVars, userVars, executed, crashes>>

ProposalAnew(i) ==
    /\ action' = [action EXCEPT ![i] = "PENDING"]
    /\ proposed' = [proposed EXCEPT ![i] = @ + 1]

\* A proposal is found again by its call.
Proposal(i) ==
    /\ action' = IF action[i] = "NONE" THEN [action EXCEPT ![i] = "PENDING"] ELSE action
    /\ proposed' = IF action[i] = "NONE" THEN [proposed EXCEPT ![i] = @ + 1] ELSE proposed

Suspend(i) ==
    /\ linked' = [linked EXCEPT ![i] = TRUE]
    /\ result' = IF result[i] = "NONE" THEN [result EXCEPT ![i] = "PROPOSED"] ELSE result
    /\ state' = "WAITING_USER_CONFIRMATION"
    /\ delivery' = "PENDING"
    /\ agent' = Goto("PROMPT")

\* propose_status_write: proposal, suspension, prompt and result together.
ProposeStatus ==
    /\ HasTool("STATUS")
    /\ Malformed = {}
    /\ Proposal(NextCall)
    /\ Suspend(NextCall)
    /\ final' = IF final = "NONE" THEN "PROMPT" ELSE final
    /\ UNCHANGED <<attempt, wait, calls, context, userVars, executed, crashes>>

\* propose_knowledge_write: propose_add, which puts the proposal into a
\* transaction of its own, ...
ProposeKnowledge ==
    /\ HasTool("KNOWLEDGE")
    /\ Malformed = {}
    /\ Proposal(NextCall)
    /\ agent' = Goto("LINK")
    /\ UNCHANGED <<runVars, callVars, linked, context, userVars, executed, crashes>>

\* ... then the suspension, without a message for the prompt.
LinkKnowledge ==
    /\ At("LINK")
    /\ Suspend(NextCall)
    /\ UNCHANGED <<attempt, wait, final, calls, action, proposed, context, userVars,
                   executed, crashes>>

\* propose_remove raises LookupError, which _worker_loop does not survive: the
\* worker takes the task group of the service with it.
ProposeUnknown ==
    /\ HasTool("UNKNOWN")
    /\ Malformed = {}
    /\ agent' = Goto("STOPPED")
    /\ UNCHANGED <<runVars, callVars, actionVars, context, userVars, executed, crashes>>

-----------------------------------------------------------------------------
(* The turns with the LLM.                                                 *)

\* _continuation_messages: one result per call, every provider id once.
Accepted ==
    /\ DistinctIds
    /\ IsInjective(context.results)
    /\ ToSet(context.results) = Persisted

ThinkAnswer ==
    /\ At("THINK")
    /\ Accepted
    /\ agent' = Goto("ANSWER")
    /\ UNCHANGED <<runVars, callVars, actionVars, context, userVars, executed, crashes>>

Requested(tools, repeat) ==
    LET batch == IF calls = <<>> THEN 1 ELSE Last(calls).batch + 1 IN
    [k \in 1 .. Len(tools) |->
        [tool |-> tools[k], batch |-> batch,
         id |-> IF repeat /\ k = 1 THEN 1 ELSE Len(calls) + k]]

ResponseWithinLimit(tools) == Len(tools) <= MaxToolCalls
WithinLimit(tools) == Len(calls) + Len(tools) <= MaxToolCalls

\* persist_tool_calls stores the whole batch before any of it is executed.
ThinkCalls(tools, repeat) ==
    /\ At("THINK")
    /\ Accepted
    /\ WithinLimit(tools)
    /\ repeat => RepeatIds /\ calls # <<>>
    /\ calls' = calls \o Requested(tools, repeat)
    /\ context' = [context EXCEPT !.pending =
                     [k \in 1 .. Len(tools) |-> Len(calls) + k]]
    /\ agent' = Goto("TOOLS")
    /\ UNCHANGED <<runVars, result, actionVars, userVars, executed, crashes>>

\* A retryable LLM error: _schedule_run_retry.
ThinkRetry ==
    /\ At("THINK")
    /\ Accepted
    /\ state' = "DELIVERY_PENDING"
    /\ wait' = TRUE
    /\ agent' = Return
    /\ UNCHANGED <<attempt, final, delivery, callVars, actionVars, context,
                   userVars, executed, crashes>>

\* The time or the calls are used up, the request is refused, the response
\* breaks the contract, or the continuation does.
ThinkFail ==
    /\ At("THINK")
    /\ agent' = Goto("FAIL")
    /\ UNCHANGED <<runVars, callVars, actionVars, context, userVars, executed, crashes>>

\* complete_run without an answer.
FailRun ==
    /\ At("FAIL")
    /\ state' = "FAILED"
    /\ delivery' = "NULL"
    /\ agent' = Return
    /\ UNCHANGED <<attempt, wait, final, callVars, actionVars, context, userVars,
                   executed, crashes>>

-----------------------------------------------------------------------------
(* Delivering the answer or the clarification, and the prompts.            *)

PersistAnswer ==
    /\ At("ANSWER")
    /\ IF final = "NONE" THEN final' = "ANSWER" /\ state' = "DELIVERY_PENDING"
                         ELSE UNCHANGED <<final, state>>
    /\ agent' = Goto("PUSH")
    /\ UNCHANGED <<attempt, wait, delivery, callVars, actionVars, context,
                   userVars, executed, crashes>>

\* record_delivery takes every exception for an ambiguous outcome, and so does
\* retry_confirmation_prompts.
Push(outcome) ==
    /\ At("PUSH") \/ At("PROMPT")
    /\ outcome = "UNCLASSIFIED" => At("PROMPT") /\ agent.stage # "prompts"
    /\ agent' = Carry(IF At("PUSH") THEN "RECORD" ELSE "PROMPTED", outcome)
    /\ UNCHANGED <<runVars, callVars, actionVars, context, userVars, executed, crashes>>

Retryable == agent.outcome = "RETRYABLE" /\ attempt < MaxDeliveryAttempts

RecordDelivery ==
    /\ At("RECORD")
    /\ state' = IF Retryable THEN "DELIVERY_PENDING"
                ELSE IF agent.outcome = "SENT" THEN "COMPLETED" ELSE "FAILED"
    /\ wait' = Retryable
    /\ agent' = Return
    /\ UNCHANGED <<attempt, final, delivery, callVars, actionVars, context,
                   userVars, executed, crashes>>

\* record_confirmation_delivery.
RecordPrompt ==
    /\ At("PROMPTED")
    /\ delivery' = IF Retryable THEN "RETRY_WAIT"
                   ELSE IF agent.outcome \in {"SENT", "FINAL"} THEN agent.outcome
                   ELSE "FAILED"
    /\ wait' = Retryable
    /\ agent' = Return
    /\ UNCHANGED <<state, attempt, final, callVars, actionVars, context,
                   userVars, executed, crashes>>

-----------------------------------------------------------------------------
(* The user's commands, each a run of its own that the thread processes.   *)

SendCommand(i, resolution) ==
    /\ ~At("STOPPED")
    /\ command = NoCommand
    /\ commands < MaxCommands
    /\ action[i] # "NONE"
    /\ command' = [target |-> i, resolution |-> resolution]
    /\ commands' = commands + 1
    /\ UNCHANGED <<runVars, callVars, actionVars, agent, context, executed, crashes>>

\* _resolve_action: a command about a decided action changes nothing, but a
\* repeated decision is carried out again.
ResolveCommand ==
    LET i == command.target
        decided == IF action[i] # "PENDING" THEN action[i]
                   ELSE IF command.resolution = "CONFIRM" THEN "CONFIRMED" ELSE "REJECTED"
        next == IF command.resolution = "CONFIRM" /\ decided = "CONFIRMED" THEN "EXECUTE"
                ELSE IF command.resolution = "REJECT" /\ decided = "REJECTED" THEN "FINALIZE"
                ELSE "IDLE"
    IN
    /\ At("RESOLVE")
    /\ action' = [action EXCEPT ![i] = decided]
    /\ agent' = Goto(next)
    /\ UNCHANGED <<runVars, callVars, linked, proposed, context, userVars,
                   executed, crashes>>

ExecuteConfirmed ==
    /\ At("EXECUTE")
    /\ action' = [action EXCEPT ![command.target] = "COMPLETED"]
    /\ agent' = Goto("RESUME")
    /\ UNCHANGED <<runVars, callVars, linked, proposed, context, userVars,
                   executed, crashes>>

ExecutionSwallowed ==
    /\ At("EXECUTE")
    /\ action' = [action EXCEPT ![command.target] = "FAILED"]
    /\ agent' = Goto("RESUME")
    /\ UNCHANGED <<runVars, callVars, linked, proposed, context, userVars,
                   executed, crashes>>

\* The execution raises and ends the cycle: a status update is FAILED, an
\* execute_add rolls back and leaves the action CONFIRMED.
ExecutionRaises ==
    /\ At("EXECUTE")
    /\ action' = [action EXCEPT ![command.target] =
                    IF calls[command.target].tool = "STATUS" THEN "FAILED" ELSE @]
    /\ agent' = Cycle
    /\ UNCHANGED <<runVars, callVars, linked, proposed, context, userVars,
                   executed, crashes>>

ResumeRun ==
    LET i == command.target IN
    /\ At("RESUME") \/ At("FINALIZE")
    /\ IF At("RESUME") THEN Resume(i) ELSE FinalizeRejected(i)
    /\ agent' = Goto(IF linked[i] THEN "BEGIN" ELSE "IDLE")
    /\ UNCHANGED <<attempt, wait, delivery, calls, actionVars, context,
                   userVars, executed, crashes>>

\* The command is answered; how that answer is delivered is in AgentSession.
CommandAnswered ==
    /\ Between("command")
    /\ command' = NoCommand
    /\ agent' = Cycle
    /\ UNCHANGED <<runVars, callVars, actionVars, context, commands, executed, crashes>>

-----------------------------------------------------------------------------
(* The environment: clocks, the death of the process and its supervisor.   *)

RetryTimeComes ==
    /\ wait
    /\ wait' = FALSE
    /\ UNCHANGED <<state, attempt, final, delivery, callVars, actionVars, agent,
                   context, userVars, executed, crashes>>

Crash ==
    /\ ~At("STOPPED")
    /\ crashes < MaxCrashes
    /\ crashes' = crashes + 1
    /\ agent' = Startup
    /\ context' = NoContext
    /\ UNCHANGED <<runVars, callVars, actionVars, userVars, executed>>

\* Somebody starts a stopped service again.
StartAgain ==
    /\ At("STOPPED")
    /\ agent' = Startup
    /\ context' = NoContext
    /\ UNCHANGED <<runVars, callVars, actionVars, userVars, executed, crashes>>

-----------------------------------------------------------------------------
StageStep ==
    \/ \E old \in SUBSET {"RUN", "COMMAND"}, due \in SUBSET Slots : RecoverRuns(old, due)
    \/ \E i \in Slots : ExecuteRecovered(i) \/ ResumeRecovered(i) \/ Reconcile(i)
    \/ EndActions \/ EndResume \/ ProcessReconciled \/ RetryPrompt \/ PickRun

RunStep ==
    \/ BeginAttempt \/ BeginOther \/ Load
    \/ NoPendingTools \/ RecoverMalformed
    \/ \E outcome \in {"OK", "ERROR"} : ExecuteTool(outcome)
    \/ StoreResult
    \/ ProposeStatus \/ ProposeKnowledge \/ LinkKnowledge \/ ProposeUnknown
    \/ \E tools \in Responses, repeat \in BOOLEAN : ThinkCalls(tools, repeat)
    \/ ThinkAnswer \/ ThinkRetry \/ ThinkFail \/ FailRun
    \/ PersistAnswer \/ RecordDelivery \/ RecordPrompt
    \/ \E outcome \in Outcomes : Push(outcome)

CommandStep ==
    ResolveCommand \/ ExecuteConfirmed \/ ExecutionRaises \/ ResumeRun \/ CommandAnswered

AgentStep == StageStep \/ RunStep \/ CommandStep

Next ==
    \/ AgentStep
    \/ \E i \in Slots, resolution \in {"CONFIRM", "REJECT"} : SendCommand(i, resolution)
    \/ RetryTimeComes \/ Crash \/ StartAgain

Spec == Init /\ [][Next]_vars

\* The worker loop runs until the service stops, and retry times come.
FairSpec == Spec /\ WF_vars(AgentStep) /\ WF_vars(RetryTimeComes)

-----------------------------------------------------------------------------
CallType == [tool : Tools, batch : Nat \ {0}, id : Nat \ {0}]

TypeOK ==
    /\ state \in RunStates
    /\ attempt \in 0 .. MaxDeliveryAttempts
    /\ final \in {"NONE", "PROMPT", "CLARIFICATION", "ANSWER"}
    /\ delivery \in {"NULL", "PENDING", "SENT", "RETRY_WAIT", "FAILED", "FINAL"}
    /\ wait \in BOOLEAN
    /\ calls \in Seq(CallType) /\ Len(calls) <= MaxToolCalls
    /\ result \in [Slots -> Results]
    /\ action \in [Slots -> ActionStates]
    /\ linked \in [Slots -> BOOLEAN]
    /\ agent.stage \in {"recover", "actions", "resume", "reconcile", "prompts", "command"}
    /\ agent.pc \in {"IDLE", "BEGIN", "LOAD", "TOOLS", "STORE", "LINK", "THINK", "FAIL",
                     "ANSWER", "PUSH", "RECORD", "PROMPT", "PROMPTED", "RESOLVE",
                     "EXECUTE", "RESUME", "FINALIZE", "STOPPED"}
    /\ {context.results, context.pending} \subseteq Seq(Slots)
    /\ command.target \in Slots \cup {None}
    /\ {executed, proposed} \subseteq [Slots -> Nat]
    /\ commands \in 0 .. MaxCommands /\ crashes \in 0 .. MaxCrashes

-----------------------------------------------------------------------------
(* Properties.                                                             *)

\* A write call has one proposal, although the process may die between the
\* proposal and the suspension (phase-4-verification.md:22-23).
ProposedOnce == \A i \in Slots : proposed[i] <= 1

\* Nothing of a batch with a malformed write is carried out: no tool runs and
\* nothing is proposed, before the malformed call or after it.
NothingAroundMalformed ==
    \A i, j \in Persisted :
        /\ calls[i].tool = "MALFORMED"
        /\ calls[i].batch = calls[j].batch
        => executed[j] = 0 /\ action[j] = "NONE"

\* The LLM is told of every call, in the order of the calls, whether the
\* results come from this process, from an earlier one or from a decision.
ContinuationComplete ==
    At("THINK") => context.results = [i \in Persisted |-> i]

\* What the LLM is told of a write is what became of it: the facts changed, the
\* user refused, or a proposal of this run waits.
ResultIsTrue ==
    \A i \in Slots :
        /\ result[i] \in {"COMPLETED", "REJECTED"} => action[i] = result[i]
        /\ result[i] = "PROPOSED" => action[i] # "NONE" /\ linked[i]

\* The run comes to an end or to a confirmation, unless the service stops.
RunSettles ==
    state \in {"RUNNING", "DELIVERY_PENDING"} ~> state \in Terminal \/ Waiting \/ At("STOPPED")

-----------------------------------------------------------------------------
(* A statement of the documentation that the code does not keep.           *)

\* phase-4-verification.md:26: a run leaves the confirmation it waits for when
\* its action is decided.
WaitsForEveryWrite ==
    [][Waiting /\ ~Waiting' => \A i \in Slots : linked[i] => action[i] # "PENDING"]_vars
=============================================================================
