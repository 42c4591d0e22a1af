--------------------------- MODULE ToolLoopProofs ---------------------------
(***************************************************************************)
(* The theorems about ToolLoop: type correctness, and what holds of the    *)
(* calls of a run, their results and proposals however deaths, timeouts,   *)
(* recoveries and the user's commands interleave, for every limit, every   *)
(* set of batches the LLM may ask for, and any number of commands and      *)
(* deaths.                                                                 *)
(***************************************************************************)
EXTENDS ToolLoop, FiniteSetTheorems, WellFoundedInduction, TLAPS

-----------------------------------------------------------------------------
(* The inductive invariant.                                                *)

Stages == {"recover", "actions", "resume", "reconcile", "prompts", "command"}
Places == {"IDLE", "BEGIN", "LOAD", "TOOLS", "STORE", "LINK", "THINK", "FAIL", "ANSWER", "PUSH",
           "RECORD", "PROMPT", "PROMPTED", "RESOLVE", "EXECUTE", "RESUME", "FINALIZE", "STOPPED"}

\* The run's row, and the counters.
RunInv ==
    /\ state \in RunStates
    /\ attempt \in 0 .. MaxDeliveryAttempts
    /\ wait \in BOOLEAN
    /\ final \in {"NONE", "PROMPT", "CLARIFICATION", "ANSWER"}
    /\ delivery \in {"NULL", "PENDING", "SENT", "RETRY_WAIT", "FAILED", "FINAL"}
    /\ commands \in 0 .. MaxCommands
    /\ crashes \in 0 .. MaxCrashes

\* The calls that have a result are the first ones.
AnsweredTo(k) == \A i \in Slots : result[i] # "NONE" <=> i <= k

\* Each batch is numbered above the ones before it, and what is not a call yet
\* has left no trace.
CallsInv ==
    /\ calls \in Seq(CallType) /\ Len(calls) <= MaxToolCalls
    /\ \A i, j \in Persisted : i <= j => calls[i].batch <= calls[j].batch
    /\ result \in [Slots -> Results]
    /\ \E k \in 0 .. Len(calls) : AnsweredTo(k)
    /\ executed \in [Slots -> Nat]
    /\ \A i \in Slots \ Persisted : executed[i] = 0 /\ action[i] = "NONE"

\* An action has been proposed once; it is linked together with a result, and a
\* decision is told after it has taken effect.
ActionInv ==
    /\ action \in [Slots -> ActionStates]
    /\ linked \in [Slots -> BOOLEAN]
    /\ proposed = [i \in Slots |-> IF action[i] = "NONE" THEN 0 ELSE 1]
    /\ \A i \in Slots : linked[i] => result[i] # "NONE" /\ action[i] # "NONE"
    /\ ResultIsTrue

\* A batch with a malformed call is answered as a whole, without an effect.
BatchInv ==
    \A i, j \in Persisted :
        /\ calls[i].tool = "MALFORMED"
        /\ calls[i].batch = calls[j].batch
        => /\ executed[j] = 0 /\ action[j] = "NONE"
           /\ result[i] = "NONE" <=> result[j] = "NONE"

\* While the run is worked on, the context holds the answered calls and the
\* others in their order; what is carried out has no malformed call beside it.
ContextInv ==
    /\ context \in [results : Seq(Slots), pending : Seq(Slots)]
    /\ agent.pc \in {"TOOLS", "STORE", "LINK", "THINK"} =>
         \E k \in 0 .. Len(calls) :
            /\ AnsweredTo(k)
            /\ context.results = [i \in 1 .. k |-> i]
            /\ Pending = [i \in 1 .. (Len(calls) - k) |-> k + i]
    /\ At("THINK") => Pending = <<>>
    /\ At("STORE") \/ At("LINK") => Pending # <<>> /\ Malformed = {}
    /\ At("STORE") => agent.outcome \in {"OK", "ERROR"}
    /\ At("LINK") => action[NextCall] # "NONE"

\* What each stage has left to do is in the state the stage has selected, and a
\* command in progress is about an action.
AgentInv ==
    /\ agent \in [stage : Stages, starting : BOOLEAN, pc : Places,
                  outcome : Outcomes \cup {"NONE", "OK", "ERROR"},
                  todo : SUBSET Slots, results : SUBSET Slots, rounds : Nat]
    /\ agent.stage = "recover" => agent.results = {}
    /\ agent.stage = "actions" =>
         /\ \A i \in agent.todo : action[i] \in {"CONFIRMED", "FAILED"}
         /\ \A i \in agent.results : action[i] = "COMPLETED"
    /\ agent.stage = "resume" => \A i \in agent.todo : action[i] = "COMPLETED"
    /\ agent.stage = "reconcile" => \A i \in agent.todo : action[i] \in {"COMPLETED", "REJECTED"}
    /\ agent.pc \in {"RESOLVE", "EXECUTE", "RESUME", "FINALIZE"} => agent.stage = "command"
    /\ command \in [target : Slots \cup {None}, resolution : {"NONE", "CONFIRM", "REJECT"}]
    /\ command # NoCommand => command.target \in Slots /\ action[command.target] # "NONE"
    /\ agent.stage = "command" => command # NoCommand
    /\ At("EXECUTE") => action[command.target] = "CONFIRMED"
    /\ At("RESUME") => action[command.target] = "COMPLETED"
    /\ At("FINALIZE") => action[command.target] = "REJECTED"

Inv == RunInv /\ CallsInv /\ ActionInv /\ BatchInv /\ ContextInv /\ AgentInv

-----------------------------------------------------------------------------
(* Calls in the order of their sequence.                                   *)

LEMMA ConstantFacts ==
  /\ MaxToolCalls \in Nat /\ Responses \subseteq Seq(Tools) \ {<<>>}
  /\ MaxDeliveryAttempts \in Nat \ {0} /\ MaxCommands \in Nat /\ MaxCrashes \in Nat
BY ToolLoopAssumption

LEMMA LeastNat ==
  ASSUME NEW T \in SUBSET Nat, T # {}
  PROVE  \E x \in T : \A y \in T : x <= y
<1> DEFINE R == {ss \in Nat \X Nat : ss[1] < ss[2]}
<1>1. IsWellFoundedOn(R, Nat)
  BY NatLessThanWellFounded DEF OpToRel
<1>2. PICK x \in T : \A y \in T : ~(<<y, x>> \in R)
  <2> HIDE DEF R
  <2> QED
    BY <1>1, WFMin
<1>3. ASSUME NEW y \in T PROVE x <= y
  <2>1. x \in Nat /\ y \in Nat /\ ~(<<y, x>> \in R)
    BY <1>2
  <2> QED
    BY <2>1
<1> QED
  BY <1>3

\* An increasing enumeration of an interval leaves no gap.
LEMMA IncreasingIsIdentity ==
  ASSUME NEW a \in Nat, NEW n \in Nat, NEW s \in [1 .. n -> (a + 1) .. (a + n)],
         \A j, k \in 1 .. n : j < k => s[j] < s[k]
  PROVE  \A j \in 1 .. n : s[j] = a + j
<1> DEFINE Low == {j \in 1 .. n : s[j] < a + j}
           High == {h \in 0 .. n : h < n /\ s[n - h] > a + (n - h)}
<1>1. Low = {}
  <2> SUFFICES ASSUME Low # {} PROVE FALSE
    OBVIOUS
  <2>1. PICK j \in Low : \A k \in Low : j <= k
    <3>1. Low \in SUBSET Nat
      OBVIOUS
    <3> HIDE DEF Low
    <3> QED
      BY <3>1, LeastNat
  <2>2. j \in 1 .. n /\ s[j] \in Nat /\ s[j] < a + j /\ s[j] >= a + 1
    OBVIOUS
  <2>3. j - 1 \in 1 .. n /\ j - 1 \notin Low
    BY <2>1, <2>2
  <2>4. s[j - 1] < s[j] /\ s[j - 1] \in Nat /\ ~(s[j - 1] < a + (j - 1))
    BY <2>2, <2>3
  <2> QED
    BY <2>2, <2>4
<1>2. High = {}
  <2> SUFFICES ASSUME High # {} PROVE FALSE
    OBVIOUS
  <2>1. PICK h \in High : \A k \in High : h <= k
    <3>1. High \in SUBSET Nat
      OBVIOUS
    <3> HIDE DEF High
    <3> QED
      BY <3>1, LeastNat
  <2>2. h \in 0 .. n /\ h < n /\ s[n - h] \in Nat /\ s[n - h] > a + (n - h)
        /\ s[n - h] <= a + n /\ n - h \in 1 .. n
    OBVIOUS
  <2>3. h # 0
    BY <2>2
  <2>4. h - 1 \in 0 .. n /\ h - 1 < n /\ n - (h - 1) \in 1 .. n /\ ~(h <= h - 1)
    BY <2>2, <2>3
  <2>5. h - 1 \notin High
    <3> HIDE DEF High
    <3> QED
      BY <2>1, <2>4
  <2>6. s[n - h] < s[n - (h - 1)] /\ s[n - (h - 1)] \in Nat
        /\ ~(s[n - (h - 1)] > a + (n - (h - 1)))
    BY <2>2, <2>4, <2>5
  <2> QED
    BY <2>2, <2>6
<1>3. ASSUME NEW j \in 1 .. n PROVE s[j] = a + j
  <2>1. ~(s[j] < a + j)
    BY <1>1
  <2>2. ~(s[j] > a + j)
    <3>1. n - j \in 0 .. n /\ n - j < n /\ n - (n - j) = j
      OBVIOUS
    <3> QED
      BY <1>2, <3>1
  <2>3. PICK v \in Int : v = s[j]
    OBVIOUS
  <2> QED
    BY <2>1, <2>2, <2>3
<1> QED
  BY <1>3

LEMMA IntervalInSequence ==
  ASSUME NEW a \in Nat, NEW n \in Nat
  PROVE  InSequence((a + 1) .. (a + n)) = [j \in 1 .. n |-> a + j]
<1> DEFINE S == (a + 1) .. (a + n)
           id == [j \in 1 .. n |-> a + j]
           Increasing(s) == \A j, k \in DOMAIN s : j < k => s[j] < s[k]
<1>1. Cardinality(S) = n
  BY FS_Interval
<1>2. id \in [1 .. n -> S] /\ Increasing(id)
  OBVIOUS
<1>3. PICK s : s = InSequence(S)
  OBVIOUS
<1>4. s \in [1 .. n -> S] /\ Increasing(s)
  <2> HIDE DEF S, id
  <2>1. s = CHOOSE t \in [1 .. n -> S] : Increasing(t)
    BY <1>1, <1>3 DEF InSequence
  <2> QED
    BY <1>2, <2>1
<1>5. \A j \in 1 .. n : s[j] = a + j
  BY <1>4, IncreasingIsIdentity
<1>6. s = id
  BY <1>4, <1>5
<1> QED
  BY <1>3, <1>6

\* What is pending, when the first k of n calls are answered.
LEMMA PendingFacts ==
  ASSUME NEW n \in Nat, NEW k \in 0 .. n, Pending = [i \in 1 .. (n - k) |-> k + i]
  PROVE  /\ Pending \in Seq(Nat) /\ Len(Pending) = n - k
         /\ Pending # <<>> <=> k < n
         /\ ToSet(Pending) = (k + 1) .. n
         /\ k < n => NextCall = k + 1
         /\ k < n => Tail(Pending) = [i \in 1 .. (n - (k + 1)) |-> (k + 1) + i]
<1>1. Pending \in Seq(Nat) /\ Len(Pending) = n - k
  OBVIOUS
<1>2. Pending # <<>> <=> k < n
  BY <1>1
<1>3. ToSet(Pending) = (k + 1) .. n
  <2>1. ASSUME NEW i \in (k + 1) .. n PROVE i \in ToSet(Pending)
    <3>1. i - k \in 1 .. (n - k) /\ Pending[i - k] = i
      OBVIOUS
    <3> QED
      BY <3>1 DEF ToSet
  <2> QED
    BY <2>1 DEF ToSet
<1>4. k < n => NextCall = k + 1
  BY DEF NextCall
<1>5. k < n => Tail(Pending) = [i \in 1 .. (n - (k + 1)) |-> (k + 1) + i]
  BY <1>1
<1> QED
  BY <1>1, <1>2, <1>3, <1>4, <1>5

-----------------------------------------------------------------------------
(* Steps that leave the calls alone.                                       *)

LEMMA InitInv == Init => Inv
<1> SUFFICES ASSUME Init PROVE Inv
  OBVIOUS
<1>1. RunInv
  <2>1. attempt \in 0 .. MaxDeliveryAttempts /\ commands \in 0 .. MaxCommands
        /\ crashes \in 0 .. MaxCrashes
    BY ConstantFacts DEF Init
  <2>2. wait \in BOOLEAN
    BY DEF Init
  <2>3. /\ state \in RunStates /\ final \in {"NONE", "PROMPT", "CLARIFICATION", "ANSWER"}
        /\ delivery \in {"NULL", "PENDING", "SENT", "RETRY_WAIT", "FAILED", "FINAL"}
    BY DEF Init, RunStates
  <2> QED
    BY <2>1, <2>2, <2>3 DEF RunInv
<1>2. Persisted = {} /\ Len(calls) = 0
  BY DEF Init, Persisted
<1>3. CallsInv
  <2>1. AnsweredTo(0)
    BY DEF Init, AnsweredTo, Slots
  <2> QED
    BY <1>2, <2>1, ConstantFacts DEF Init, CallsInv, Results
<1>4. ActionInv
  BY DEF Init, ActionInv, ActionStates, ResultIsTrue
<1>5. BatchInv
  BY <1>2 DEF BatchInv
<1>6. ContextInv
  BY DEF Init, ContextInv, NoContext, Cycle, At
<1>7. AgentInv
  BY DEF Init, AgentInv, Cycle, NoCommand, At, Stages, Places, None
<1> QED
  BY <1>1, <1>3, <1>4, <1>5, <1>6, <1>7 DEF Inv

RowVars == <<calls, result, action, linked, proposed, executed>>

LEMMA RowsStay ==
  ASSUME Inv, UNCHANGED RowVars
  PROVE  CallsInv' /\ ActionInv' /\ BatchInv'
<1> USE DEF Inv, RowVars
<1>1. CallsInv'
  BY DEF CallsInv, AnsweredTo, Persisted
<1>2. ActionInv'
  BY DEF ActionInv, ResultIsTrue
<1>3. BatchInv'
  BY DEF BatchInv, Persisted
<1> QED
  BY <1>1, <1>2, <1>3

AtWork == {"TOOLS", "STORE", "LINK", "THINK"}
AtCommand == {"RESOLVE", "EXECUTE", "RESUME", "FINALIZE"}
AllOutcomes == Outcomes \cup {"NONE", "OK", "ERROR"}

LEMMA ContextIdle ==
  ASSUME context' \in [results : Seq(Slots), pending : Seq(Slots)], agent'.pc \notin AtWork
  PROVE  ContextInv'
BY DEF ContextInv, AtWork, At

\* The thread moves on, and the run's row may change.
LEMMA AgentMoves ==
  ASSUME Inv, RunInv', AgentInv', agent'.pc \notin AtWork, UNCHANGED RowVars,
         context' \in {context, NoContext}
  PROVE  Inv'
<1>1. context' \in [results : Seq(Slots), pending : Seq(Slots)]
  <2>1. CASE context' = context
    BY <2>1 DEF Inv, ContextInv
  <2>2. CASE context' = NoContext
    BY <2>2 DEF NoContext
  <2> QED
    BY <2>1, <2>2
<1> QED
  BY <1>1, RowsStay, ContextIdle DEF Inv

\* A place of process_run does not disturb what the stage has left to do.
LEMMA AgentGoes ==
  ASSUME AgentInv, NEW pc \in Places \ AtCommand, NEW outcome \in AllOutcomes,
         agent' = [agent EXCEPT !.pc = pc, !.outcome = outcome],
         UNCHANGED command,
         \A i \in Slots : action[i] # "NONE" => action'[i] = action[i]
  PROVE  AgentInv'
<1>1. /\ agent'.stage = agent.stage /\ agent'.todo = agent.todo /\ agent'.results = agent.results
      /\ agent'.pc = pc
      /\ agent' \in [stage : Stages, starting : BOOLEAN, pc : Places,
                     outcome : Outcomes \cup {"NONE", "OK", "ERROR"},
                     todo : SUBSET Slots, results : SUBSET Slots, rounds : Nat]
  BY DEF AgentInv, AllOutcomes
<1>2. agent.todo \subseteq Slots /\ agent.results \subseteq Slots
  BY DEF AgentInv
<1> QED
  BY <1>1, <1>2 DEF AgentInv, AtCommand, At

LEMMA QuietInv ==
  ASSUME Inv, RunInv', UNCHANGED <<RowVars, context, command>>,
         NEW pc \in Places \ (AtWork \cup AtCommand), NEW outcome \in AllOutcomes,
         agent' = [agent EXCEPT !.pc = pc, !.outcome = outcome]
  PROVE  Inv'
<1>1. AgentInv'
  BY AgentGoes DEF Inv, RowVars
<1>2. agent'.pc = pc
  BY DEF Inv, AgentInv
<1> QED
  BY <1>1, <1>2, AgentMoves

LEMMA PlaceNames ==
  /\ {"IDLE", "BEGIN", "LOAD", "FAIL", "ANSWER", "PUSH", "RECORD", "PROMPT", "PROMPTED", "STOPPED"}
       \subseteq Places \ (AtWork \cup AtCommand)
  /\ "NONE" \in AllOutcomes /\ "OK" \in AllOutcomes /\ "ERROR" \in AllOutcomes
  /\ Outcomes \subseteq AllOutcomes
BY DEF Places, AtWork, AtCommand, AllOutcomes

LEMMA BeginAttemptInv == Inv /\ BeginAttempt => Inv'
<1> SUFFICES ASSUME Inv, BeginAttempt PROVE Inv'
  OBVIOUS
<1>1. RunInv'
  BY ConstantFacts DEF Inv, RunInv, BeginAttempt, RunStates, userVars
<1>2. UNCHANGED <<RowVars, context, command>>
  BY DEF BeginAttempt, RowVars, callVars, actionVars, userVars
<1>3. PICK pc \in {"LOAD", "IDLE"} : agent' = [agent EXCEPT !.pc = pc, !.outcome = "NONE"]
  BY DEF BeginAttempt, Goto, Return
<1> QED
  BY <1>1, <1>2, <1>3, PlaceNames, QuietInv

LEMMA BeginOtherInv == Inv /\ BeginOther => Inv'
<1> SUFFICES ASSUME Inv, BeginOther PROVE Inv'
  OBVIOUS
<1>1. RunInv'
  BY DEF Inv, RunInv, BeginOther, runVars, userVars
<1>2. UNCHANGED <<RowVars, context, command>>
  BY DEF BeginOther, RowVars, callVars, actionVars, userVars
<1>3. PICK pc \in {"LOAD", "IDLE"} : agent' = [agent EXCEPT !.pc = pc, !.outcome = "NONE"]
  BY DEF BeginOther, Goto, Return
<1> QED
  BY <1>1, <1>2, <1>3, PlaceNames, QuietInv

\* The steps of process_run that touch no call.
LEMMA QuietSteps ==
  ASSUME Inv, ProposeUnknown \/ ThinkAnswer \/ ThinkRetry \/ ThinkFail \/ FailRun \/ PersistAnswer
  PROVE  Inv'
<1>1. RunInv'
  BY DEF Inv, RunInv, RunStates, ProposeUnknown, ThinkAnswer, ThinkRetry, ThinkFail, FailRun,
     PersistAnswer, runVars, userVars
<1>2. UNCHANGED <<RowVars, context, command>>
  BY DEF ProposeUnknown, ThinkAnswer, ThinkRetry, ThinkFail, FailRun, PersistAnswer, RowVars,
     callVars, actionVars, userVars
<1>3. PICK pc \in {"STOPPED", "ANSWER", "IDLE", "FAIL", "PUSH"} :
             agent' = [agent EXCEPT !.pc = pc, !.outcome = "NONE"]
  BY DEF ProposeUnknown, ThinkAnswer, ThinkRetry, ThinkFail, FailRun, PersistAnswer, Goto, Return
<1> QED
  BY <1>1, <1>2, <1>3, PlaceNames, QuietInv

LEMMA PushInv ==
  ASSUME Inv, NEW outcome \in Outcomes, Push(outcome)
  PROVE  Inv'
<1>1. RunInv'
  BY DEF Inv, RunInv, Push, runVars, userVars
<1>2. UNCHANGED <<RowVars, context, command>>
  BY DEF Push, RowVars, callVars, actionVars, userVars
<1>3. PICK pc \in {"RECORD", "PROMPTED"} : agent' = [agent EXCEPT !.pc = pc, !.outcome = outcome]
  BY DEF Push, Carry
<1> QED
  BY <1>1, <1>2, <1>3, PlaceNames, QuietInv

LEMMA RecordInv ==
  ASSUME Inv, RecordDelivery \/ RecordPrompt
  PROVE  Inv'
<1>1. RunInv'
  <2>1. CASE RecordDelivery
    BY <2>1 DEF Inv, RunInv, RunStates, RecordDelivery, Retryable, userVars
  <2>2. CASE RecordPrompt
    BY <2>2 DEF Inv, RunInv, RecordPrompt, Retryable, userVars
  <2> QED
    BY <2>1, <2>2
<1>2. UNCHANGED <<RowVars, context, command>>
  BY DEF RecordDelivery, RecordPrompt, RowVars, callVars, actionVars, userVars
<1>3. agent' = [agent EXCEPT !.pc = "IDLE", !.outcome = "NONE"]
  BY DEF RecordDelivery, RecordPrompt, Return, Goto
<1> QED
  BY <1>1, <1>2, <1>3, PlaceNames, QuietInv

-----------------------------------------------------------------------------
(* The stages of a cycle, and the commands.                                *)

\* The result of a call tells the decision about its action.
LEMMA DecisionTold ==
  ASSUME Inv, NEW i \in Slots, UNCHANGED <<calls, action, linked, proposed, executed>>,
         \/ UNCHANGED result
         \/ /\ linked[i] /\ action[i] \in {"COMPLETED", "REJECTED"}
            /\ result' = [result EXCEPT ![i] = action[i]]
  PROVE  CallsInv' /\ ActionInv' /\ BatchInv'
<1>1. CASE UNCHANGED result
  BY <1>1, RowsStay DEF RowVars
<1>2. CASE /\ linked[i] /\ action[i] \in {"COMPLETED", "REJECTED"}
           /\ result' = [result EXCEPT ![i] = action[i]]
  <2> USE DEF Inv
  <2>1. /\ result[i] # "NONE" /\ result' \in [Slots -> Results]
        /\ \A j \in Slots : result'[j] = "NONE" <=> result[j] = "NONE"
    BY <1>2 DEF ActionInv, CallsInv, Results
  <2>2. CallsInv'
    <3>1. ASSUME NEW k \in 0 .. Len(calls), AnsweredTo(k) PROVE AnsweredTo(k)'
      BY <2>1, <3>1 DEF AnsweredTo
    <3> QED
      BY <2>1, <3>1 DEF CallsInv, Persisted
  <2>3. ResultIsTrue'
    BY <1>2 DEF ActionInv, ResultIsTrue, CallsInv
  <2>4. ActionInv'
    BY <2>1, <2>3 DEF ActionInv
  <2>5. BatchInv'
    <3>1. Persisted \subseteq Slots /\ Persisted' = Persisted
      BY ConstantFacts DEF CallsInv, Persisted, Slots
    <3> QED
      BY <2>1, <3>1 DEF BatchInv
  <2> QED
    BY <2>2, <2>4, <2>5
<1> QED
  BY <1>1, <1>2

LEMMA ResumeTells ==
  ASSUME Inv, NEW i \in Slots, UNCHANGED <<calls, action, linked, proposed, executed>>,
         \/ Resume(i) /\ action[i] = "COMPLETED"
         \/ FinalizeRejected(i) /\ action[i] = "REJECTED"
  PROVE  /\ CallsInv' /\ ActionInv' /\ BatchInv'
         /\ state' \in RunStates /\ final' \in {final, "NONE"}
<1>1. CASE Resume(i) /\ action[i] = "COMPLETED"
  <2>1. \/ UNCHANGED result
        \/ linked[i] /\ result' = [result EXCEPT ![i] = action[i]]
    BY <1>1 DEF Resume
  <2>2. state' \in RunStates /\ final' \in {final, "NONE"}
    BY <1>1 DEF Resume, Inv, RunInv, RunStates
  <2> QED
    BY <1>1, <2>1, <2>2, DecisionTold
<1>2. CASE FinalizeRejected(i) /\ action[i] = "REJECTED"
  <2>1. \/ UNCHANGED result
        \/ linked[i] /\ result' = [result EXCEPT ![i] = action[i]]
    BY <1>2 DEF FinalizeRejected
  <2>2. state' \in RunStates /\ final' \in {final, "NONE"}
    BY <1>2 DEF FinalizeRejected, Inv, RunInv, RunStates
  <2> QED
    BY <1>2, <2>1, <2>2, DecisionTold
<1> QED
  BY <1>1, <1>2

\* An action that is not settled yet changes its state.
LEMMA ActionDecided ==
  ASSUME Inv, NEW i \in Slots, NEW s \in ActionStates \ {"NONE"},
         action[i] # "NONE", s # action[i] => action[i] \notin {"COMPLETED", "REJECTED"},
         action' = [action EXCEPT ![i] = s],
         UNCHANGED <<calls, result, linked, proposed, executed>>
  PROVE  CallsInv' /\ ActionInv' /\ BatchInv'
<1> USE DEF Inv
<1>1. /\ action' \in [Slots -> ActionStates]
      /\ \A j \in Slots : action'[j] = "NONE" <=> action[j] = "NONE"
  BY DEF ActionInv
<1>2. Persisted \subseteq Slots /\ Persisted' = Persisted
  BY ConstantFacts DEF CallsInv, Persisted, Slots
<1>3. CallsInv'
  BY <1>1, <1>2 DEF CallsInv, AnsweredTo
<1>4. ResultIsTrue'
  BY <1>1 DEF ActionInv, ResultIsTrue
<1>5. proposed' = [j \in Slots |-> IF action'[j] = "NONE" THEN 0 ELSE 1]
  BY <1>1 DEF ActionInv
<1>6. ActionInv'
  BY <1>1, <1>4, <1>5 DEF ActionInv
<1>7. BatchInv'
  BY <1>1, <1>2 DEF BatchInv
<1> QED
  BY <1>3, <1>6, <1>7

AgentType ==
    [stage : Stages, starting : BOOLEAN, pc : Places,
     outcome : Outcomes \cup {"NONE", "OK", "ERROR"},
     todo : SUBSET Slots, results : SUBSET Slots, rounds : Nat]

LEMMA CycleFacts ==
  /\ Cycle \in AgentType /\ Cycle.stage = "recover" /\ Cycle.pc = "IDLE" /\ Cycle.results = {}
  /\ Startup \in AgentType /\ Startup.stage = "recover" /\ Startup.pc = "IDLE"
  /\ Startup.results = {}
BY DEF Cycle, Startup, AgentType, Stages, Places

\* A thread at the start of a cycle has nothing to do.
LEMMA AgentRestarts ==
  ASSUME Inv, agent' \in {Cycle, Startup, [Cycle EXCEPT !.pc = "BEGIN"]},
         command' \in {command, NoCommand}, UNCHANGED action
  PROVE  AgentInv' /\ agent'.pc \notin AtWork
<1>1. /\ agent' \in AgentType /\ agent'.stage = "recover" /\ agent'.results = {}
      /\ agent'.pc \in {"IDLE", "BEGIN"}
  <2>1. CASE agent' = [Cycle EXCEPT !.pc = "BEGIN"]
    BY <2>1 DEF Cycle, AgentType, Stages, Places
  <2> QED
    BY <2>1, CycleFacts
<1>2. /\ command' \in [target : Slots \cup {None}, resolution : {"NONE", "CONFIRM", "REJECT"}]
      /\ command' # NoCommand => command' = command
  BY DEF NoCommand, Inv, AgentInv
<1> QED
  BY <1>1, <1>2 DEF AgentInv, AgentType, Inv, At, AtWork

LEMMA RecoverRunsInv ==
  ASSUME Inv, NEW old \in SUBSET {"RUN", "COMMAND"}, NEW due \in SUBSET Slots, RecoverRuns(old, due)
  PROVE  Inv'
<1> DEFINE selected == StatusActions("CONFIRMED") \cup due
<1>1. /\ agent.stage = "recover" /\ agent.pc = "IDLE" /\ agent.results = {}
      /\ agent' = [agent EXCEPT !.stage = "actions", !.todo = selected]
      /\ due \subseteq StatusActions("FAILED")
      /\ UNCHANGED RowVars /\ UNCHANGED context
  BY DEF RecoverRuns, Between, Inv, AgentInv, RowVars, callVars, actionVars
<1>2. selected \subseteq Slots /\ \A i \in selected : action[i] \in {"CONFIRMED", "FAILED"}
  BY <1>1, ConstantFacts DEF StatusActions, Inv, CallsInv, Persisted, Slots
<1>3. RunInv'
  BY DEF Inv, RunInv, RunStates, RecoverRuns
<1>4. /\ command' \in [target : Slots \cup {None}, resolution : {"NONE", "CONFIRM", "REJECT"}]
      /\ command' # NoCommand => command' = command
  BY DEF RecoverRuns, NoCommand, Inv, AgentInv
<1>5. /\ agent'.stage = "actions" /\ agent'.pc = "IDLE" /\ agent'.results = {}
      /\ agent'.todo = selected
      /\ agent' \in AgentType
  BY <1>1, <1>2 DEF Inv, AgentInv, AgentType, Stages
<1> HIDE DEF selected
<1>6. AgentInv'
  BY <1>1, <1>2, <1>4, <1>5 DEF AgentInv, Inv, AgentType, At, RowVars
<1> QED
  BY <1>1, <1>3, <1>5, <1>6, AgentMoves DEF AtWork

LEMMA ExecuteRecoveredInv ==
  ASSUME Inv, NEW i \in Slots, ExecuteRecovered(i)
  PROVE  Inv'
<1>1. PICK s \in {"COMPLETED", "FAILED"} : action' = [action EXCEPT ![i] = s]
      /\ agent' = [agent EXCEPT !.todo = agent.todo \ {i},
                     !.results = IF s = "COMPLETED" THEN agent.results \cup {i} ELSE agent.results]
  <2>1. CASE /\ action' = [action EXCEPT ![i] = "COMPLETED"]
             /\ agent' = [agent EXCEPT !.todo = @ \ {i}, !.results = @ \cup {i}]
    BY <2>1
  <2>2. CASE /\ action' = [action EXCEPT ![i] = "FAILED"]
             /\ agent' = [agent EXCEPT !.todo = @ \ {i}]
    <3>1. agent' = [agent EXCEPT !.todo = agent.todo \ {i}, !.results = agent.results]
      BY <2>2 DEF Inv, AgentInv
    <3> QED
      BY <2>2, <3>1
  <2> QED
    BY <2>1, <2>2 DEF ExecuteRecovered
<1>2. /\ agent.stage = "actions" /\ agent.pc = "IDLE" /\ i \in agent.todo
      /\ action[i] \in {"CONFIRMED", "FAILED"}
      /\ UNCHANGED <<calls, result, linked, proposed, executed, context, runVars, userVars, crashes>>
  BY DEF ExecuteRecovered, Between, Inv, AgentInv, callVars
<1>3. CallsInv' /\ ActionInv' /\ BatchInv'
  BY <1>1, <1>2, ActionDecided DEF ActionStates
<1>4. /\ agent' \in AgentType /\ agent'.stage = "actions" /\ agent'.pc = "IDLE"
      /\ agent'.todo = agent.todo \ {i}
      /\ agent'.results = IF s = "COMPLETED" THEN agent.results \cup {i} ELSE agent.results
  BY <1>1, <1>2 DEF Inv, AgentInv, AgentType
<1>5. AgentInv'
  <2>1. \A j \in Slots : action'[j] = IF j = i THEN s ELSE action[j]
    BY <1>1 DEF Inv, ActionInv
  <2>2. \A j \in agent'.todo : action'[j] \in {"CONFIRMED", "FAILED"}
    BY <1>2, <1>4, <2>1 DEF Inv, AgentInv
  <2>3. \A j \in agent'.results : action'[j] = "COMPLETED"
    BY <1>2, <1>4, <2>1 DEF Inv, AgentInv
  <2>4. command # NoCommand => command.target \in Slots /\ action'[command.target] # "NONE"
    BY <2>1 DEF Inv, AgentInv
  <2> QED
    BY <1>2, <1>4, <2>2, <2>3, <2>4 DEF Inv, AgentInv, AgentType, userVars, At
<1>6. RunInv'
  BY <1>2 DEF Inv, RunInv, runVars, userVars
<1>7. ContextInv'
  BY <1>2, <1>4, ContextIdle DEF Inv, ContextInv, AtWork
<1> QED
  BY <1>3, <1>5, <1>6, <1>7 DEF Inv

LEMMA StageFacts ==
  ASSUME NEW stage \in Stages, NEW todo \in SUBSET Slots
  PROVE  /\ Stage(stage, todo) \in AgentType /\ Stage(stage, todo).stage = stage
         /\ Stage(stage, todo).pc = "IDLE" /\ Stage(stage, todo).todo = todo
         /\ Stage(stage, todo).results = {}
BY CycleFacts DEF Stage, AgentType, Cycle

LEMMA EndActionsInv == Inv /\ EndActions => Inv'
<1> SUFFICES ASSUME Inv, EndActions PROVE Inv'
  OBVIOUS
<1>1. /\ UNCHANGED RowVars /\ UNCHANGED context /\ UNCHANGED command
      /\ agent.stage = "actions" /\ agent.results \subseteq Slots
      /\ \A i \in agent.results : action[i] = "COMPLETED"
  BY DEF EndActions, Between, RowVars, callVars, actionVars, userVars, Inv, AgentInv
<1>2. RunInv'
  BY DEF EndActions, Inv, RunInv, runVars, userVars
<1>3. CASE agent' = Cycle
  BY <1>1, <1>2, <1>3, AgentRestarts, AgentMoves DEF RowVars
<1>4. CASE agent' = Stage("resume", agent.results)
  <2>1. /\ agent' \in AgentType /\ agent'.stage = "resume" /\ agent'.pc = "IDLE"
        /\ agent'.todo = agent.results
    BY <1>1, <1>4, StageFacts DEF Stages
  <2>2. AgentInv'
    BY <1>1, <2>1 DEF Inv, AgentInv, AgentType, At, RowVars
  <2> QED
    BY <1>1, <1>2, <2>1, <2>2, AgentMoves DEF AtWork
<1> QED
  BY <1>3, <1>4 DEF EndActions

LEMMA EndResumeInv == Inv /\ EndResume => Inv'
<1> SUFFICES ASSUME Inv, EndResume PROVE Inv'
  OBVIOUS
<1> DEFINE selected == {i \in Persisted : /\ action[i] \in {"COMPLETED", "REJECTED"}
                                          /\ linked[i] /\ Waiting}
<1>1. /\ UNCHANGED RowVars /\ UNCHANGED context /\ UNCHANGED command
      /\ selected \in SUBSET Slots
      /\ \A i \in selected : action[i] \in {"COMPLETED", "REJECTED"}
      /\ agent' = Stage("reconcile", selected)
  BY ConstantFacts DEF EndResume, RowVars, callVars, actionVars, userVars, Inv, CallsInv, Persisted, Slots
<1> HIDE DEF selected
<1>2. RunInv'
  BY DEF EndResume, Inv, RunInv, runVars, userVars
<1>3. /\ agent' \in AgentType /\ agent'.stage = "reconcile" /\ agent'.pc = "IDLE"
      /\ agent'.todo = selected
  BY <1>1, StageFacts DEF Stages
<1>4. AgentInv'
  BY <1>1, <1>3 DEF Inv, AgentInv, AgentType, At, RowVars
<1> QED
  BY <1>1, <1>2, <1>3, <1>4, AgentMoves DEF AtWork

LEMMA ResumeRecoveredInv ==
  ASSUME Inv, NEW i \in Slots, ResumeRecovered(i)
  PROVE  Inv'
<1>1. /\ agent.stage = "resume" /\ agent.pc = "IDLE" /\ i \in agent.todo /\ action[i] = "COMPLETED"
      /\ UNCHANGED <<calls, action, linked, proposed, executed, context, command>>
      /\ UNCHANGED <<attempt, wait, delivery, commands, crashes>>
      /\ Resume(i)
  BY DEF ResumeRecovered, Between, Inv, AgentInv, actionVars, userVars
<1>2. PICK pc \in {"BEGIN", "IDLE"} : agent' = [agent EXCEPT !.todo = agent.todo \ {i}, !.pc = pc]
  BY <1>1 DEF ResumeRecovered
<1>3. CallsInv' /\ ActionInv' /\ BatchInv' /\ state' \in RunStates /\ final' \in {final, "NONE"}
  BY <1>1, ResumeTells
<1>4. RunInv'
  BY <1>1, <1>3 DEF Inv, RunInv
<1>5. /\ agent' \in AgentType /\ agent'.stage = "resume" /\ agent'.pc = pc
      /\ agent'.todo \subseteq agent.todo
  BY <1>1, <1>2 DEF Inv, AgentInv, AgentType, Places
<1>6. AgentInv'
  BY <1>1, <1>5 DEF Inv, AgentInv, AgentType, At
<1>7. ContextInv'
  BY <1>1, <1>5, ContextIdle DEF Inv, ContextInv, AtWork
<1> QED
  BY <1>3, <1>4, <1>6, <1>7 DEF Inv

LEMMA ReconcileInv ==
  ASSUME Inv, NEW i \in Slots, Reconcile(i)
  PROVE  Inv'
<1>1. /\ agent.stage = "reconcile" /\ agent.pc = "IDLE" /\ i \in agent.todo
      /\ UNCHANGED <<calls, action, linked, proposed, executed, context, command>>
      /\ UNCHANGED <<attempt, wait, delivery, commands, crashes>>
      /\ \/ Resume(i) /\ action[i] = "COMPLETED"
         \/ FinalizeRejected(i) /\ action[i] = "REJECTED"
      /\ agent' = [agent EXCEPT !.todo = agent.todo \ {i}, !.rounds = @ + 1]
  BY DEF Reconcile, Between, Inv, AgentInv, actionVars, userVars
<1>2. CallsInv' /\ ActionInv' /\ BatchInv' /\ state' \in RunStates /\ final' \in {final, "NONE"}
  BY <1>1, ResumeTells
<1>3. RunInv'
  BY <1>1, <1>2 DEF Inv, RunInv
<1>4. /\ agent' \in AgentType /\ agent'.stage = "reconcile" /\ agent'.pc = "IDLE"
      /\ agent'.todo \subseteq agent.todo
  <2>1. agent.rounds + 1 \in Nat /\ agent.todo \ {i} \in SUBSET Slots
    BY DEF Inv, AgentInv
  <2>2. PICK r \in Nat, T \in SUBSET Slots : r = agent.rounds + 1 /\ T = agent.todo \ {i}
    BY <2>1
  <2>3. agent' = [agent EXCEPT !.todo = T, !.rounds = r]
    BY <1>1, <2>2
  <2>4. agent.stage = "reconcile" /\ agent.pc = "IDLE"
    BY <1>1
  <2> QED
    BY <2>2, <2>3, <2>4 DEF Inv, AgentInv, AgentType
<1>5. AgentInv'
  BY <1>1, <1>4 DEF Inv, AgentInv, AgentType, At
<1>6. ContextInv'
  BY <1>1, <1>4, ContextIdle DEF Inv, ContextInv, AtWork
<1> QED
  BY <1>2, <1>3, <1>5, <1>6 DEF Inv

LEMMA ProcessReconciledInv == Inv /\ ProcessReconciled => Inv'
<1> SUFFICES ASSUME Inv, ProcessReconciled PROVE Inv'
  OBVIOUS
<1>1. /\ UNCHANGED RowVars /\ UNCHANGED context /\ UNCHANGED command
      /\ agent' = [agent EXCEPT !.rounds = @ - 1, !.pc = "BEGIN"]
      /\ agent.rounds \in Nat /\ agent.rounds > 0 /\ agent.stage = "reconcile"
  BY DEF ProcessReconciled, Between, RowVars, callVars, actionVars, userVars, Inv, AgentInv
<1>2. RunInv'
  BY DEF ProcessReconciled, Inv, RunInv, runVars, userVars
<1>3. /\ agent' \in AgentType /\ agent'.stage = "reconcile" /\ agent'.pc = "BEGIN"
      /\ agent'.todo = agent.todo
  <2>1. agent.rounds - 1 \in Nat
    BY <1>1
  <2>2. PICK r \in Nat : r = agent.rounds - 1
    BY <2>1
  <2>3. agent' = [agent EXCEPT !.rounds = r, !.pc = "BEGIN"]
    BY <1>1, <2>2
  <2> QED
    BY <1>1, <2>3 DEF Inv, AgentInv, AgentType, Places
<1>4. AgentInv'
  BY <1>1, <1>3 DEF Inv, AgentInv, AgentType, At, RowVars
<1> QED
  BY <1>1, <1>2, <1>3, <1>4, AgentMoves DEF AtWork

LEMMA RetryPromptInv == Inv /\ RetryPrompt => Inv'
<1> SUFFICES ASSUME Inv, RetryPrompt PROVE Inv'
  OBVIOUS
<1>1. UNCHANGED RowVars /\ UNCHANGED context /\ UNCHANGED command
  BY DEF RetryPrompt, RowVars, callVars, actionVars, userVars
<1>2. RunInv'
  BY ConstantFacts DEF RetryPrompt, Inv, RunInv, userVars
<1>3. PICK pc \in {"IDLE", "PROMPT"} : agent' = [Stage("prompts", {}) EXCEPT !.pc = pc]
  BY StageFacts DEF RetryPrompt, Stages
<1>4. agent' \in AgentType /\ agent'.stage = "prompts" /\ agent'.pc = pc
  BY <1>3, StageFacts DEF AgentType, Places, Stages
<1>5. AgentInv'
  BY <1>1, <1>4 DEF Inv, AgentInv, AgentType, At, RowVars
<1> QED
  BY <1>1, <1>2, <1>4, <1>5, AgentMoves DEF AtWork

LEMMA PickRunInv == Inv /\ PickRun => Inv'
<1> SUFFICES ASSUME Inv, PickRun PROVE Inv'
  OBVIOUS
<1>1. UNCHANGED RowVars /\ UNCHANGED context /\ UNCHANGED command
  BY DEF PickRun, RowVars, callVars, actionVars, userVars
<1>2. RunInv'
  BY DEF PickRun, Inv, RunInv, runVars, userVars
<1>3. CASE agent' \in {Cycle, [Cycle EXCEPT !.pc = "BEGIN"]}
  BY <1>1, <1>2, <1>3, AgentRestarts, AgentMoves DEF RowVars
<1>4. CASE command # NoCommand /\ agent' = [Stage("command", {}) EXCEPT !.pc = "RESOLVE"]
  <2>1. agent' \in AgentType /\ agent'.stage = "command" /\ agent'.pc = "RESOLVE"
    BY <1>4, StageFacts DEF AgentType, Places, Stages
  <2>2. AgentInv'
    BY <1>1, <1>4, <2>1 DEF Inv, AgentInv, AgentType, At, RowVars
  <2> QED
    BY <1>1, <1>2, <2>1, <2>2, AgentMoves DEF AtWork
<1> QED
  BY <1>3, <1>4 DEF PickRun

LEMMA SendCommandInv ==
  ASSUME Inv, NEW i \in Slots, NEW resolution \in {"CONFIRM", "REJECT"}, SendCommand(i, resolution)
  PROVE  Inv'
<1>1. /\ UNCHANGED RowVars /\ UNCHANGED context /\ UNCHANGED agent
      /\ command = NoCommand /\ action[i] # "NONE"
      /\ command' = [target |-> i, resolution |-> resolution]
      /\ agent.stage # "command" /\ agent.pc \notin AtCommand
  BY DEF SendCommand, RowVars, callVars, actionVars, Inv, AgentInv, AtCommand
<1>2. RunInv'
  BY ConstantFacts DEF SendCommand, Inv, RunInv, runVars
<1>3. AgentInv'
  BY <1>1 DEF Inv, AgentInv, AtCommand, At, RowVars
<1>4. ContextInv'
  BY <1>1 DEF Inv, ContextInv, AnsweredTo, At, Pending, NextCall, Malformed, IsMalformed, RowVars
<1> QED
  BY <1>1, <1>2, <1>3, <1>4, RowsStay DEF Inv

\* The action a command is about, while the command is in progress.
LEMMA TargetFacts ==
  ASSUME Inv, agent.pc \in AtCommand
  PROVE  /\ agent.stage = "command" /\ command # NoCommand /\ command.target \in Slots
         /\ action[command.target] \in ActionStates \ {"NONE"}
BY DEF Inv, AgentInv, ActionInv, AtCommand

LEMMA CommandGoes ==
  ASSUME Inv, agent.pc \in AtCommand, NEW pc \in {"EXECUTE", "FINALIZE", "RESUME", "IDLE", "BEGIN"},
         NEW s \in ActionStates \ {"NONE"},
         action' = [action EXCEPT ![command.target] = s],
         pc = "EXECUTE" => s = "CONFIRMED", pc = "FINALIZE" => s = "REJECTED",
         pc = "RESUME" => s = "COMPLETED",
         agent' = [agent EXCEPT !.pc = pc, !.outcome = "NONE"], UNCHANGED command
  PROVE  AgentInv' /\ agent'.pc \notin AtWork
<1>1. /\ agent' \in AgentType /\ agent'.stage = "command" /\ agent'.pc = pc
  BY TargetFacts DEF Inv, AgentInv, AgentType, Places
<1>2. action'[command.target] = s /\ command.target \in Slots /\ command # NoCommand
  BY TargetFacts DEF Inv, ActionInv
<1> QED
  BY <1>1, <1>2 DEF Inv, AgentInv, AgentType, AtWork, At

LEMMA ResolveCommandInv == Inv /\ ResolveCommand => Inv'
<1> SUFFICES ASSUME Inv, ResolveCommand PROVE Inv'
  OBVIOUS
<1>1. PICK i \in Slots : /\ i = command.target /\ action[i] \in ActionStates \ {"NONE"}
                         /\ agent.pc \in AtCommand
  BY TargetFacts DEF ResolveCommand, At, AtCommand
<1>2. PICK s \in ActionStates \ {"NONE"} :
        /\ s = IF action[i] # "PENDING" THEN action[i]
               ELSE IF command.resolution = "CONFIRM" THEN "CONFIRMED" ELSE "REJECTED"
        /\ action[i] # "PENDING" => s = action[i]
  BY <1>1 DEF ActionStates
<1>3. /\ action' = [action EXCEPT ![i] = s]
      /\ UNCHANGED <<calls, result, linked, proposed, executed, context, command>>
      /\ UNCHANGED <<runVars, commands, crashes>>
  BY <1>1, <1>2 DEF ResolveCommand, callVars, userVars
<1>4. PICK pc \in {"EXECUTE", "FINALIZE", "IDLE"} :
        /\ pc = "EXECUTE" => s = "CONFIRMED"
        /\ pc = "FINALIZE" => s = "REJECTED"
        /\ agent' = [agent EXCEPT !.pc = pc, !.outcome = "NONE"]
  BY <1>1, <1>2 DEF ResolveCommand, Goto
<1>5. CallsInv' /\ ActionInv' /\ BatchInv'
  BY <1>1, <1>2, <1>3, ActionDecided
<1>6. AgentInv' /\ agent'.pc \notin AtWork
  BY <1>1, <1>3, <1>4, CommandGoes
<1>7. RunInv'
  BY <1>3 DEF Inv, RunInv, runVars
<1>8. ContextInv'
  BY <1>3, <1>6, ContextIdle DEF Inv, ContextInv
<1> QED
  BY <1>5, <1>6, <1>7, <1>8 DEF Inv

LEMMA ExecuteConfirmedInv == Inv /\ ExecuteConfirmed => Inv'
<1> SUFFICES ASSUME Inv, ExecuteConfirmed PROVE Inv'
  OBVIOUS
<1>1. PICK i \in Slots : /\ i = command.target /\ action[i] = "CONFIRMED"
                         /\ agent.pc \in AtCommand
  BY TargetFacts DEF ExecuteConfirmed, At, AtCommand, Inv, AgentInv
<1>2. /\ action' = [action EXCEPT ![i] = "COMPLETED"]
      /\ agent' = [agent EXCEPT !.pc = "RESUME", !.outcome = "NONE"]
      /\ UNCHANGED <<calls, result, linked, proposed, executed, context, command>>
      /\ UNCHANGED <<runVars, commands, crashes>>
  BY <1>1 DEF ExecuteConfirmed, callVars, userVars, Goto
<1>3. CallsInv' /\ ActionInv' /\ BatchInv'
  BY <1>1, <1>2, ActionDecided DEF ActionStates
<1>4. AgentInv' /\ agent'.pc \notin AtWork
  BY <1>1, <1>2, CommandGoes DEF ActionStates
<1>5. RunInv'
  BY <1>2 DEF Inv, RunInv, runVars
<1>6. ContextInv'
  BY <1>2, <1>4, ContextIdle DEF Inv, ContextInv
<1> QED
  BY <1>3, <1>4, <1>5, <1>6 DEF Inv

LEMMA ExecutionRaisesInv == Inv /\ ExecutionRaises => Inv'
<1> SUFFICES ASSUME Inv, ExecutionRaises PROVE Inv'
  OBVIOUS
<1>1. PICK i \in Slots : /\ i = command.target /\ action[i] = "CONFIRMED"
                         /\ agent.pc \in AtCommand
  BY TargetFacts DEF ExecutionRaises, At, AtCommand, Inv, AgentInv
<1>2. PICK s \in {"FAILED", "CONFIRMED"} : action' = [action EXCEPT ![i] = s]
  BY <1>1 DEF ExecutionRaises
<1>3. /\ agent' = Cycle
      /\ UNCHANGED <<calls, result, linked, proposed, executed, context, command>>
      /\ UNCHANGED <<runVars, commands, crashes>>
  BY DEF ExecutionRaises, callVars, userVars
<1>4. CallsInv' /\ ActionInv' /\ BatchInv'
  BY <1>1, <1>2, <1>3, ActionDecided DEF ActionStates
<1>5. AgentInv' /\ agent'.pc \notin AtWork
  <2>1. \A j \in Slots : action[j] # "NONE" => action'[j] # "NONE"
    BY <1>1, <1>2 DEF Inv, ActionInv
  <2> QED
    BY <1>3, <2>1, CycleFacts DEF Inv, AgentInv, AgentType, AtWork, At
<1>6. RunInv'
  BY <1>3 DEF Inv, RunInv, runVars
<1>7. ContextInv'
  BY <1>3, <1>5, ContextIdle DEF Inv, ContextInv
<1> QED
  BY <1>4, <1>5, <1>6, <1>7 DEF Inv

LEMMA ResumeRunInv == Inv /\ ResumeRun => Inv'
<1> SUFFICES ASSUME Inv, ResumeRun PROVE Inv'
  OBVIOUS
<1>1. PICK i \in Slots : /\ i = command.target /\ agent.pc \in AtCommand
                         /\ agent.stage = "command" /\ command # NoCommand
                         /\ At("RESUME") => action[i] = "COMPLETED"
                         /\ At("FINALIZE") => action[i] = "REJECTED"
  BY TargetFacts DEF ResumeRun, At, AtCommand, Inv, AgentInv
<1>2. /\ UNCHANGED <<calls, action, linked, proposed, executed, context, command>>
      /\ UNCHANGED <<attempt, wait, delivery, commands, crashes>>
      /\ \/ Resume(i) /\ action[i] = "COMPLETED"
         \/ FinalizeRejected(i) /\ action[i] = "REJECTED"
  BY <1>1 DEF ResumeRun, actionVars, userVars
<1>3. PICK pc \in {"BEGIN", "IDLE"} : agent' = [agent EXCEPT !.pc = pc, !.outcome = "NONE"]
  BY <1>1 DEF ResumeRun, Goto
<1>4. CallsInv' /\ ActionInv' /\ BatchInv' /\ state' \in RunStates /\ final' \in {final, "NONE"}
  BY <1>2, ResumeTells
<1>5. RunInv'
  BY <1>2, <1>4 DEF Inv, RunInv
<1>6. AgentInv'
  <2>1. pc \in Places \ AtCommand /\ "NONE" \in AllOutcomes
    BY PlaceNames
  <2> QED
    BY <1>2, <1>3, <2>1, AgentGoes DEF Inv
<1>7. agent'.pc = pc
  BY <1>3 DEF Inv, AgentInv
<1>8. ContextInv'
  BY <1>2, <1>7, ContextIdle DEF Inv, ContextInv, AtWork
<1> QED
  BY <1>4, <1>5, <1>6, <1>8 DEF Inv

\* Ends of commands and of processes, and the clock.
LEMMA CommandAnsweredInv == Inv /\ CommandAnswered => Inv'
<1> SUFFICES ASSUME Inv, CommandAnswered PROVE Inv'
  OBVIOUS
<1>1. /\ UNCHANGED RowVars /\ UNCHANGED context /\ agent' = Cycle /\ command' = NoCommand
  BY DEF CommandAnswered, RowVars, callVars, actionVars
<1>2. RunInv'
  BY DEF CommandAnswered, Inv, RunInv, runVars
<1> QED
  BY <1>1, <1>2, AgentRestarts, AgentMoves DEF RowVars

LEMMA RetryTimeComesInv == Inv /\ RetryTimeComes => Inv'
<1> SUFFICES ASSUME Inv, RetryTimeComes PROVE Inv'
  OBVIOUS
<1>1. UNCHANGED RowVars /\ UNCHANGED context /\ UNCHANGED agent /\ UNCHANGED command
  BY DEF RetryTimeComes, RowVars, callVars, actionVars, userVars
<1>2. RunInv'
  BY DEF RetryTimeComes, Inv, RunInv, userVars
<1>3. AgentInv'
  BY <1>1 DEF Inv, AgentInv, At, RowVars
<1>4. ContextInv'
  BY <1>1 DEF Inv, ContextInv, AnsweredTo, At, Pending, NextCall, Malformed, IsMalformed, RowVars
<1> QED
  BY <1>1, <1>2, <1>3, <1>4, RowsStay DEF Inv

LEMMA RestartsInv ==
  ASSUME Inv, Crash \/ StartAgain
  PROVE  Inv'
<1>1. /\ UNCHANGED RowVars /\ context' = NoContext /\ agent' = Startup /\ UNCHANGED command
  BY DEF Crash, StartAgain, RowVars, callVars, actionVars, userVars
<1>2. RunInv'
  BY ConstantFacts DEF Crash, StartAgain, Inv, RunInv, runVars, userVars
<1> QED
  BY <1>1, <1>2, AgentRestarts, AgentMoves DEF RowVars

LEMMA StutterInv == Inv /\ UNCHANGED vars => Inv'
<1> SUFFICES ASSUME Inv, UNCHANGED vars PROVE Inv'
  OBVIOUS
<1>1. UNCHANGED RowVars /\ UNCHANGED context /\ UNCHANGED agent /\ UNCHANGED command
  BY DEF vars, RowVars, callVars, actionVars, userVars
<1>2. RunInv'
  BY DEF vars, Inv, RunInv, runVars, userVars
<1>3. AgentInv'
  BY <1>1 DEF Inv, AgentInv, At, RowVars
<1>4. ContextInv'
  BY <1>1 DEF Inv, ContextInv, AnsweredTo, At, Pending, NextCall, Malformed, IsMalformed, RowVars
<1> QED
  BY <1>1, <1>2, <1>3, <1>4, RowsStay DEF Inv

-----------------------------------------------------------------------------
(* The calls: loading them, carrying them out, and asking for more.        *)

\* The context of a run that is worked on, and its next call.
LEMMA WorkFacts ==
  ASSUME Inv, agent.pc \in AtWork
  PROVE  \E k \in 0 .. Len(calls) :
           /\ AnsweredTo(k) /\ Len(calls) \in Nat /\ Persisted \subseteq Slots
           /\ context.results = [i \in 1 .. k |-> i]
           /\ Pending = [i \in 1 .. (Len(calls) - k) |-> k + i]
           /\ Pending # <<>> <=> k < Len(calls)
           /\ ToSet(Pending) = (k + 1) .. Len(calls)
           /\ k < Len(calls) =>
                /\ NextCall = k + 1 /\ k + 1 \in Persisted /\ k + 1 \in Slots
                /\ result[k + 1] = "NONE" /\ ~linked[k + 1]
                /\ Tail(Pending) = [i \in 1 .. (Len(calls) - (k + 1)) |-> (k + 1) + i]
<1>1. PICK k \in 0 .. Len(calls) :
        /\ AnsweredTo(k)
        /\ context.results = [i \in 1 .. k |-> i]
        /\ Pending = [i \in 1 .. (Len(calls) - k) |-> k + i]
  BY DEF Inv, ContextInv, AtWork
<1>2. Len(calls) \in Nat /\ Persisted \subseteq Slots
  BY ConstantFacts DEF Inv, CallsInv, Persisted, Slots
<1>3. k < Len(calls) => /\ k + 1 \in Persisted /\ k + 1 \in Slots
                        /\ result[k + 1] = "NONE" /\ ~linked[k + 1]
  <2>1. k < Len(calls) => k + 1 \in Persisted
    BY <1>2 DEF Persisted
  <2>2. k + 1 \in Slots => result[k + 1] = "NONE"
    BY <1>1, <1>2 DEF AnsweredTo
  <2> QED
    BY <1>2, <2>1, <2>2 DEF Inv, ActionInv
<1> QED
  BY <1>1, <1>2, <1>3, PendingFacts

\* Beside a call that is carried out no malformed one waits.
LEMMA NoMalformedMate ==
  ASSUME Inv, agent.pc \in AtWork, Pending # <<>>, Malformed = {}, NEW i \in Persisted,
         calls[i].tool = "MALFORMED"
  PROVE  /\ calls[i].batch # calls[NextCall].batch
         /\ i # NextCall
         /\ result[i] # "NONE"
<1>1. PICK k \in 0 .. Len(calls) :
        /\ AnsweredTo(k) /\ Len(calls) \in Nat /\ Persisted \subseteq Slots
        /\ ToSet(Pending) = (k + 1) .. Len(calls)
        /\ NextCall = k + 1 /\ k + 1 \in Persisted /\ result[k + 1] = "NONE"
  BY WorkFacts
<1>2. i \notin ToSet(Pending)
  BY DEF Malformed, IsMalformed
<1>3. i <= k
  BY <1>1, <1>2 DEF Persisted
<1>4. result[i] # "NONE"
  BY <1>1, <1>3 DEF AnsweredTo
<1> QED
  BY <1>1, <1>4 DEF Inv, BatchInv

\* A call gets its result, its action or its execution: the batches are not
\* touched otherwise.
LEMMA NextCallChanges ==
  ASSUME Inv, agent.pc \in AtWork, Pending # <<>>, Malformed = {}, UNCHANGED calls,
         \A j \in Slots : j # NextCall => /\ result'[j] = result[j] /\ action'[j] = action[j]
                                          /\ executed'[j] = executed[j]
  PROVE  BatchInv'
<1>1. NextCall \in Persisted /\ Persisted \subseteq Slots
  BY WorkFacts
<1>2. ASSUME NEW i \in Persisted, NEW j \in Persisted,
             calls[i].tool = "MALFORMED", calls[i].batch = calls[j].batch
      PROVE  /\ executed'[j] = 0 /\ action'[j] = "NONE"
             /\ result'[i] = "NONE" <=> result'[j] = "NONE"
  <2>1. i # NextCall /\ j # NextCall
    BY <1>2, NoMalformedMate
  <2> QED
    BY <1>1, <1>2, <2>1 DEF Inv, BatchInv
<1> QED
  BY <1>2 DEF BatchInv, Persisted

LEMMA LoadInv == Inv /\ Load => Inv'
<1> SUFFICES ASSUME Inv, Load PROVE Inv'
  OBVIOUS
<1>1. UNCHANGED RowVars /\ UNCHANGED command
  BY DEF Load, RowVars, callVars, actionVars, userVars
<1>2. RunInv'
  BY DEF Load, Inv, RunInv, RunStates, userVars
<1>3. PICK pc \in {"ANSWER", "TOOLS", "IDLE"} :
        /\ agent' = [agent EXCEPT !.pc = pc, !.outcome = "NONE"]
        /\ pc # "TOOLS" => context' \in {context, NoContext}
        /\ pc = "TOOLS" => context' = [results |-> Answered, pending |-> Unanswered]
  BY DEF Load, Goto, Return
<1>4. AgentInv'
  <2>1. pc \in Places \ AtCommand /\ "NONE" \in AllOutcomes
    BY PlaceNames DEF Places, AtCommand
  <2> QED
    BY <1>1, <1>3, <2>1, AgentGoes DEF Inv, RowVars
<1>5. agent'.pc = pc
  BY <1>3 DEF Inv, AgentInv
<1>6. CASE pc # "TOOLS"
  BY <1>1, <1>2, <1>3, <1>4, <1>5, <1>6, AgentMoves DEF AtWork
<1>7. CASE pc = "TOOLS"
  <2>1. PICK k \in 0 .. Len(calls) : AnsweredTo(k)
    BY DEF Inv, CallsInv
  <2>2. Len(calls) \in Nat /\ k \in Nat /\ Len(calls) - k \in Nat /\ Persisted \subseteq Slots
    BY ConstantFacts DEF Inv, CallsInv, Persisted, Slots
  <2>3. /\ {i \in Persisted : result[i] # "NONE"} = (0 + 1) .. (0 + k)
        /\ {i \in Persisted : result[i] = "NONE"} = (k + 1) .. (k + (Len(calls) - k))
    BY <2>1, <2>2 DEF AnsweredTo, Persisted
  <2>4. /\ Answered = [i \in 1 .. k |-> 0 + i]
        /\ Unanswered = [i \in 1 .. (Len(calls) - k) |-> k + i]
    BY <2>2, <2>3, IntervalInSequence DEF Answered, Unanswered
  <2>5. Answered = [i \in 1 .. k |-> i]
    BY <2>2, <2>4
  <2>6. /\ context'.results = [i \in 1 .. k |-> i]
        /\ Pending' = [i \in 1 .. (Len(calls) - k) |-> k + i]
    BY <1>3, <1>7, <2>4, <2>5 DEF Pending
  <2>7. context' \in [results : Seq(Slots), pending : Seq(Slots)]
    <3>1. [i \in 1 .. k |-> i] \in Seq(Slots)
      BY <2>1, <2>2, ConstantFacts DEF Inv, CallsInv, Slots
    <3>2. [i \in 1 .. (Len(calls) - k) |-> k + i] \in Seq(Slots)
      BY <2>1, <2>2, ConstantFacts DEF Inv, CallsInv, Slots
    <3>3. Answered \in Seq(Slots) /\ Unanswered \in Seq(Slots)
      BY <2>4, <2>5, <3>1, <3>2
    <3>4. context' = [results |-> Answered, pending |-> Unanswered]
      BY <1>3, <1>7
    <3> QED
      BY <3>3, <3>4
  <2>8. AnsweredTo(k)' /\ calls' = calls
    BY <1>1, <2>1 DEF AnsweredTo, RowVars
  <2>9. ContextInv'
    BY <1>5, <1>7, <2>1, <2>6, <2>7, <2>8 DEF ContextInv, At
  <2> QED
    BY <1>1, <1>2, <1>4, <2>9, RowsStay DEF Inv
<1> QED
  BY <1>6, <1>7

LEMMA NoPendingToolsInv == Inv /\ NoPendingTools => Inv'
<1> SUFFICES ASSUME Inv, NoPendingTools PROVE Inv'
  OBVIOUS
<1>1. /\ UNCHANGED RowVars /\ UNCHANGED context /\ UNCHANGED command /\ Pending = <<>>
      /\ agent.pc = "TOOLS" /\ agent' = [agent EXCEPT !.pc = "THINK", !.outcome = "NONE"]
  BY DEF NoPendingTools, RowVars, callVars, actionVars, userVars, At, Goto
<1>2. RunInv'
  BY DEF NoPendingTools, Inv, RunInv, runVars, userVars
<1>3. AgentInv'
  <2>1. "THINK" \in Places \ AtCommand /\ "NONE" \in AllOutcomes
    BY PlaceNames DEF Places, AtCommand
  <2> QED
    BY <1>1, <2>1, AgentGoes DEF Inv, RowVars
<1>4. agent'.pc = "THINK" /\ Pending' = Pending
  BY <1>1 DEF Inv, AgentInv, Pending
<1>5. ContextInv'
  <2>1. PICK k \in 0 .. Len(calls) :
          /\ AnsweredTo(k)
          /\ context.results = [i \in 1 .. k |-> i]
          /\ Pending = [i \in 1 .. (Len(calls) - k) |-> k + i]
    BY <1>1 DEF Inv, ContextInv
  <2>2. AnsweredTo(k)' /\ calls' = calls
    BY <1>1, <2>1 DEF AnsweredTo, RowVars
  <2> QED
    BY <1>1, <1>4, <2>1, <2>2 DEF Inv, ContextInv, At
<1> QED
  BY <1>1, <1>2, <1>3, <1>5, RowsStay DEF Inv

\* One more call is answered.
LEMMA AnsweredNext ==
  ASSUME NEW k \in Nat, NEW n \in Slots, n = k + 1, AnsweredTo(k), result \in [Slots -> Results],
         NEW r \in Results \ {"NONE"}, result' = [result EXCEPT ![n] = r]
  PROVE  AnsweredTo(k + 1)' /\ result' \in [Slots -> Results]
BY DEF AnsweredTo, Slots

LEMMA RecoverMalformedInv == Inv /\ RecoverMalformed => Inv'
<1> SUFFICES ASSUME Inv, RecoverMalformed PROVE Inv'
  OBVIOUS
<1>1. PICK k \in 0 .. Len(calls) :
        /\ AnsweredTo(k) /\ Len(calls) \in Nat /\ Persisted \subseteq Slots
        /\ ToSet(Pending) = (k + 1) .. Len(calls)
  BY WorkFacts DEF RecoverMalformed, At, AtWork
<1>2. /\ UNCHANGED <<calls, action, linked, proposed, executed, context, command>>
      /\ agent' = [agent EXCEPT !.pc = "ANSWER", !.outcome = "NONE"]
  BY DEF RecoverMalformed, actionVars, userVars, Goto
<1>3. \A i \in Slots :
        result'[i] = IF i \notin ToSet(Pending) \/ result[i] # "NONE" THEN result[i]
                     ELSE IF i = Min(Malformed) THEN "CLARIFICATION_REQUIRED"
                     ELSE "PENDING_BATCH_CANCELLED"
  BY DEF RecoverMalformed
<1>4. result' \in [Slots -> Results]
  <2>1. \A i \in Slots : result'[i] \in Results
    BY <1>3 DEF Inv, CallsInv, Results
  <2> QED
    BY <2>1 DEF RecoverMalformed
<1>5. \A i \in Slots : /\ result'[i] # "NONE" <=> i <= Len(calls)
                       /\ result[i] # "NONE" => result'[i] = result[i]
                       /\ result'[i] = result[i] \/ result'[i] \in {"CLARIFICATION_REQUIRED",
                                                                    "PENDING_BATCH_CANCELLED"}
  BY <1>1, <1>3 DEF AnsweredTo, Slots
<1>6. RunInv'
  BY DEF RecoverMalformed, Inv, RunInv, RunStates, userVars
<1>7. CallsInv'
  <2>1. AnsweredTo(Len(calls))'
    BY <1>2, <1>5 DEF AnsweredTo
  <2> QED
    BY <1>1, <1>2, <1>4, <2>1 DEF Inv, CallsInv, Persisted
<1>8. ActionInv'
  BY <1>2, <1>5 DEF Inv, ActionInv, ResultIsTrue
<1>9. BatchInv'
  <2>1. \A i \in Persisted : result'[i] # "NONE"
    BY <1>1, <1>5 DEF Persisted
  <2> QED
    BY <1>2, <2>1 DEF Inv, BatchInv, Persisted
<1>10. AgentInv'
  <2>1. "ANSWER" \in Places \ AtCommand /\ "NONE" \in AllOutcomes
    BY PlaceNames
  <2> QED
    BY <1>2, <2>1, AgentGoes DEF Inv
<1>11. ContextInv'
  <2>1. agent'.pc \notin AtWork
    BY <1>2 DEF Inv, AgentInv, AtWork
  <2> QED
    BY <1>2, <2>1, ContextIdle DEF Inv, ContextInv
<1> QED
  BY <1>6, <1>7, <1>8, <1>9, <1>10, <1>11 DEF Inv

LEMMA ExecuteToolInv ==
  ASSUME Inv, NEW outcome \in {"OK", "ERROR"}, ExecuteTool(outcome)
  PROVE  Inv'
<1>1. /\ UNCHANGED <<calls, result, action, linked, proposed, context, command>>
      /\ agent' = [agent EXCEPT !.pc = "STORE", !.outcome = outcome]
      /\ executed' = [executed EXCEPT ![NextCall] = @ + 1]
      /\ Pending # <<>> /\ Malformed = {} /\ agent.pc \in AtWork
  BY DEF ExecuteTool, HasTool, At, AtWork, callVars, actionVars, userVars, Carry
<1>2. PICK k \in 0 .. Len(calls) :
        /\ AnsweredTo(k) /\ NextCall = k + 1 /\ k + 1 \in Persisted /\ k + 1 \in Slots
        /\ context.results = [i \in 1 .. k |-> i]
        /\ Pending = [i \in 1 .. (Len(calls) - k) |-> k + i]
  BY <1>1, WorkFacts
<1>3. RunInv'
  BY DEF ExecuteTool, Inv, RunInv, runVars, userVars
<1>4. AnsweredTo(k)' /\ Persisted' = Persisted
  BY <1>1, <1>2 DEF AnsweredTo, Persisted
<1>5. /\ executed' \in [Slots -> Nat]
      /\ \A i \in Slots : i # NextCall => executed'[i] = executed[i]
  BY <1>1, <1>2 DEF Inv, CallsInv
<1>6. CallsInv'
  BY <1>1, <1>2, <1>4, <1>5 DEF Inv, CallsInv
<1>7. ActionInv'
  BY <1>1 DEF Inv, ActionInv, ResultIsTrue
<1>8. BatchInv'
  BY <1>1, <1>5, NextCallChanges
<1>9. AgentInv'
  <2>1. "STORE" \in Places \ AtCommand /\ outcome \in AllOutcomes
    BY PlaceNames DEF Places, AtCommand
  <2> QED
    BY <1>1, <2>1, AgentGoes DEF Inv
<1>10. ContextInv'
  <2>1. agent'.pc = "STORE" /\ agent'.outcome = outcome
    BY <1>1 DEF Inv, AgentInv
  <2>2. Pending' = Pending /\ Malformed' = Malformed
    BY <1>1 DEF Pending, Malformed, IsMalformed
  <2> QED
    BY <1>1, <1>2, <1>4, <2>1, <2>2 DEF Inv, ContextInv, At
<1> QED
  BY <1>3, <1>6, <1>7, <1>8, <1>9, <1>10 DEF Inv

LEMMA StoreResultInv == Inv /\ StoreResult => Inv'
<1> SUFFICES ASSUME Inv, StoreResult PROVE Inv'
  OBVIOUS
<1>1. PICK outcome \in {"OK", "ERROR"} : outcome = agent.outcome
  BY DEF Inv, ContextInv, StoreResult, At
<1>2. /\ UNCHANGED <<calls, action, linked, proposed, executed, command>>
      /\ result' = [result EXCEPT ![NextCall] = outcome]
      /\ Pending # <<>> /\ Malformed = {} /\ agent.pc \in AtWork
  BY <1>1 DEF StoreResult, At, AtWork, actionVars, userVars, Inv, ContextInv
<1>3. PICK k \in 0 .. Len(calls) :
        /\ AnsweredTo(k) /\ NextCall = k + 1 /\ k + 1 \in Persisted /\ k + 1 \in Slots
        /\ k < Len(calls) /\ Len(calls) \in Nat
        /\ context.results = [i \in 1 .. k |-> i]
        /\ result[k + 1] = "NONE" /\ ~linked[k + 1]
        /\ Tail(Pending) = [i \in 1 .. (Len(calls) - (k + 1)) |-> (k + 1) + i]
  BY <1>2, WorkFacts
<1>4. RunInv'
  BY DEF StoreResult, Inv, RunInv, runVars, userVars
<1>5. /\ AnsweredTo(k + 1)' /\ result' \in [Slots -> Results] /\ k + 1 \in 0 .. Len(calls)
      /\ \A i \in Slots : result'[i] = IF i = k + 1 THEN outcome ELSE result[i]
  <2>1. /\ result \in [Slots -> Results] /\ outcome \in Results \ {"NONE"}
        /\ result' = [result EXCEPT ![k + 1] = outcome]
        /\ k + 1 \in 0 .. Len(calls) /\ k \in Nat
    BY <1>2, <1>3 DEF Inv, CallsInv, Results
  <2>2. AnsweredTo(k + 1)' /\ result' \in [Slots -> Results]
    BY <1>2, <1>3, <2>1, AnsweredNext
  <2> QED
    BY <1>2, <1>3, <2>1, <2>2
<1>6. CallsInv'
  BY <1>2, <1>5 DEF Inv, CallsInv, Persisted
<1>7. ActionInv'
  BY <1>2, <1>3, <1>5 DEF Inv, ActionInv, ResultIsTrue
<1>8. BatchInv'
  BY <1>2, <1>3, <1>5, NextCallChanges
<1>9. CASE /\ outcome = "OK"
           /\ context' = [results |-> Append(context.results, NextCall), pending |-> Tail(Pending)]
           /\ agent' = [agent EXCEPT !.pc = "TOOLS", !.outcome = "NONE"]
  <2>1. AgentInv'
    <3>1. "TOOLS" \in Places \ AtCommand /\ "NONE" \in AllOutcomes
      BY PlaceNames DEF Places, AtCommand
    <3> QED
      BY <1>2, <1>9, <3>1, AgentGoes DEF Inv
  <2>2. agent'.pc = "TOOLS"
    BY <1>9 DEF Inv, AgentInv
  <2>3. context'.results = [i \in 1 .. (k + 1) |-> i]
    <3>1. context.results \in Seq(Nat) /\ Len(context.results) = k
      BY <1>3
    <3>2. Append(context.results, k + 1) = [i \in 1 .. (k + 1) |-> i]
      BY <1>3, <3>1
    <3> QED
      BY <1>3, <1>9, <3>2
  <2>4. Pending' = [i \in 1 .. (Len(calls) - (k + 1)) |-> (k + 1) + i]
    BY <1>3, <1>9 DEF Pending
  <2>5. context' \in [results : Seq(Slots), pending : Seq(Slots)]
    <3>1. context.results \in Seq(Slots) /\ Pending \in Seq(Slots)
      BY DEF Inv, ContextInv, Pending
    <3>2. Append(context.results, NextCall) \in Seq(Slots) /\ Tail(Pending) \in Seq(Slots)
      BY <1>2, <1>3, <3>1
    <3> QED
      BY <1>9, <3>2
  <2>6. ContextInv'
    BY <1>2, <1>5, <2>2, <2>3, <2>4, <2>5 DEF ContextInv, At
  <2> QED
    BY <1>4, <1>6, <1>7, <1>8, <2>1, <2>6 DEF Inv
<1>10. CASE context' = context /\ agent' = [agent EXCEPT !.pc = "FAIL", !.outcome = "NONE"]
  <2>1. AgentInv'
    <3>1. "FAIL" \in Places \ AtCommand /\ "NONE" \in AllOutcomes
      BY PlaceNames
    <3> QED
      BY <1>2, <1>10, <3>1, AgentGoes DEF Inv
  <2>2. agent'.pc \notin AtWork
    BY <1>10 DEF Inv, AgentInv, AtWork
  <2>3. ContextInv'
    BY <1>10, <2>2, ContextIdle DEF Inv, ContextInv
  <2> QED
    BY <1>4, <1>6, <1>7, <1>8, <2>1, <2>3 DEF Inv
<1> QED
  BY <1>1, <1>9, <1>10 DEF StoreResult, Goto

\* What a proposal and a suspension do to the next call.
LEMMA ProposalFacts ==
  ASSUME Inv, agent.pc \in AtWork, Pending # <<>>, Proposal(NextCall)
  PROVE  /\ action' \in [Slots -> ActionStates]
         /\ action'[NextCall] # "NONE"
         /\ \A i \in Slots : action[i] # "NONE" => action'[i] = action[i]
         /\ \A i \in Slots : i # NextCall => action'[i] = action[i]
         /\ proposed' = [i \in Slots |-> IF action'[i] = "NONE" THEN 0 ELSE 1]
<1>1. NextCall \in Slots
  BY WorkFacts
<1>2. CASE action[NextCall] = "NONE"
  <2>1. /\ action' = [action EXCEPT ![NextCall] = "PENDING"]
        /\ proposed' = [proposed EXCEPT ![NextCall] = @ + 1]
    BY <1>2 DEF Proposal
  <2>2. proposed[NextCall] = 0
    BY <1>1, <1>2 DEF Inv, ActionInv
  <2>3. /\ action' \in [Slots -> ActionStates] /\ action'[NextCall] = "PENDING"
        /\ \A i \in Slots : i # NextCall => action'[i] = action[i]
    BY <1>1, <2>1 DEF Inv, ActionInv, ActionStates
  <2>4. proposed' = [i \in Slots |-> IF action'[i] = "NONE" THEN 0 ELSE 1]
    BY <1>1, <2>1, <2>2, <2>3 DEF Inv, ActionInv
  <2> QED
    BY <1>2, <2>3, <2>4
<1>3. CASE action[NextCall] # "NONE"
  <2>1. action' = action /\ proposed' = proposed
    BY <1>3 DEF Proposal
  <2> QED
    BY <1>3, <2>1 DEF Inv, ActionInv
<1> QED
  BY <1>2, <1>3

LEMMA SuspendedRows ==
  ASSUME Inv, agent.pc \in AtWork, Pending # <<>>, Malformed = {}, Suspend(NextCall),
         UNCHANGED <<calls, executed>>,
         action' \in [Slots -> ActionStates], action'[NextCall] # "NONE",
         \A i \in Slots : i # NextCall => action'[i] = action[i],
         \A i \in Slots : action[i] # "NONE" => action'[i] = action[i],
         proposed' = [i \in Slots |-> IF action'[i] = "NONE" THEN 0 ELSE 1]
  PROVE  CallsInv' /\ ActionInv' /\ BatchInv'
<1>1. PICK k \in 0 .. Len(calls) :
        /\ AnsweredTo(k) /\ NextCall = k + 1 /\ k + 1 \in Persisted /\ k + 1 \in Slots
        /\ k < Len(calls) /\ Len(calls) \in Nat
        /\ result[k + 1] = "NONE" /\ ~linked[k + 1]
  BY WorkFacts
<1>2. /\ linked' = [linked EXCEPT ![k + 1] = TRUE]
      /\ result' = [result EXCEPT ![k + 1] = "PROPOSED"]
  BY <1>1 DEF Suspend
<1>3. /\ AnsweredTo(k + 1)' /\ result' \in [Slots -> Results] /\ k + 1 \in 0 .. Len(calls)
      /\ \A i \in Slots : result'[i] = IF i = k + 1 THEN "PROPOSED" ELSE result[i]
  <2>1. /\ result \in [Slots -> Results] /\ "PROPOSED" \in Results \ {"NONE"}
        /\ result' = [result EXCEPT ![k + 1] = "PROPOSED"]
        /\ k + 1 \in 0 .. Len(calls) /\ k \in Nat
    BY <1>1, <1>2 DEF Inv, CallsInv, Results
  <2>2. AnsweredTo(k + 1)' /\ result' \in [Slots -> Results]
    BY <1>1, <1>2, <2>1, AnsweredNext
  <2> QED
    BY <1>1, <1>2, <2>1, <2>2
<1>4. CallsInv'
  BY <1>1, <1>3 DEF Inv, CallsInv, Persisted
<1>5. /\ linked' \in [Slots -> BOOLEAN]
      /\ \A i \in Slots : i # k + 1 => linked'[i] = linked[i]
      /\ linked'[k + 1] = TRUE
  BY <1>1, <1>2 DEF Inv, ActionInv
<1>6. ResultIsTrue'
  BY <1>1, <1>3, <1>5 DEF Inv, ActionInv, ResultIsTrue
<1>7. \A i \in Slots : linked'[i] => result'[i] # "NONE" /\ action'[i] # "NONE"
  BY <1>1, <1>3, <1>5 DEF Inv, ActionInv
<1>8. ActionInv'
  BY <1>5, <1>6, <1>7 DEF ActionInv
<1>9. BatchInv'
  BY <1>1, <1>3, NextCallChanges
<1> QED
  BY <1>4, <1>8, <1>9

LEMMA ProposeStatusInv == Inv /\ ProposeStatus => Inv'
<1> SUFFICES ASSUME Inv, ProposeStatus PROVE Inv'
  OBVIOUS
<1>1. /\ UNCHANGED <<calls, executed, context, command>>
      /\ Proposal(NextCall) /\ Suspend(NextCall)
      /\ Pending # <<>> /\ Malformed = {} /\ agent.pc \in AtWork
      /\ agent' = [agent EXCEPT !.pc = "PROMPT", !.outcome = "NONE"]
  BY DEF ProposeStatus, Suspend, HasTool, At, AtWork, userVars, Goto
<1>2. RunInv'
  BY DEF ProposeStatus, Suspend, Inv, RunInv, RunStates, userVars
<1>3. CallsInv' /\ ActionInv' /\ BatchInv'
  BY <1>1, ProposalFacts, SuspendedRows
<1>4. AgentInv'
  <2>1. "PROMPT" \in Places \ AtCommand /\ "NONE" \in AllOutcomes
    BY PlaceNames
  <2> QED
    BY <1>1, <2>1, ProposalFacts, AgentGoes DEF Inv
<1>5. ContextInv'
  <2>1. agent'.pc \notin AtWork
    BY <1>1 DEF Inv, AgentInv, AtWork
  <2> QED
    BY <1>1, <2>1, ContextIdle DEF Inv, ContextInv
<1> QED
  BY <1>2, <1>3, <1>4, <1>5 DEF Inv

LEMMA ProposeKnowledgeInv == Inv /\ ProposeKnowledge => Inv'
<1> SUFFICES ASSUME Inv, ProposeKnowledge PROVE Inv'
  OBVIOUS
<1>1. /\ UNCHANGED <<calls, result, linked, executed, context, command>>
      /\ Proposal(NextCall)
      /\ Pending # <<>> /\ Malformed = {} /\ agent.pc \in AtWork
      /\ agent' = [agent EXCEPT !.pc = "LINK", !.outcome = "NONE"]
  BY DEF ProposeKnowledge, HasTool, At, AtWork, callVars, userVars, Goto
<1>2. PICK k \in 0 .. Len(calls) :
        /\ AnsweredTo(k) /\ NextCall = k + 1 /\ k + 1 \in Persisted /\ k + 1 \in Slots
        /\ context.results = [i \in 1 .. k |-> i]
        /\ Pending = [i \in 1 .. (Len(calls) - k) |-> k + i]
  BY <1>1, WorkFacts
<1>3. /\ action' \in [Slots -> ActionStates]
      /\ action'[NextCall] # "NONE"
      /\ \A i \in Slots : action[i] # "NONE" => action'[i] = action[i]
      /\ \A i \in Slots : i # NextCall => action'[i] = action[i]
      /\ proposed' = [i \in Slots |-> IF action'[i] = "NONE" THEN 0 ELSE 1]
  BY <1>1, ProposalFacts
<1>4. RunInv'
  BY DEF ProposeKnowledge, Inv, RunInv, runVars, userVars
<1>5. AnsweredTo(k)' /\ Persisted' = Persisted
  BY <1>1, <1>2 DEF AnsweredTo, Persisted
<1>6. CallsInv'
  BY <1>1, <1>2, <1>3, <1>5 DEF Inv, CallsInv
<1>7. ActionInv'
  <2>1. ResultIsTrue'
    BY <1>1, <1>3 DEF Inv, ActionInv, ResultIsTrue
  <2> QED
    BY <1>1, <1>3, <2>1 DEF Inv, ActionInv
<1>8. BatchInv'
  BY <1>1, <1>3, NextCallChanges
<1>9. AgentInv'
  <2>1. "LINK" \in Places \ AtCommand /\ "NONE" \in AllOutcomes
    BY PlaceNames DEF Places, AtCommand
  <2> QED
    BY <1>1, <1>3, <2>1, AgentGoes DEF Inv
<1>10. ContextInv'
  <2>1. agent'.pc = "LINK"
    BY <1>1 DEF Inv, AgentInv
  <2>2. Pending' = Pending /\ Malformed' = Malformed /\ NextCall' = NextCall
    BY <1>1 DEF Pending, Malformed, IsMalformed, NextCall
  <2> QED
    BY <1>1, <1>2, <1>3, <1>5, <2>1, <2>2 DEF Inv, ContextInv, At
<1> QED
  BY <1>4, <1>6, <1>7, <1>8, <1>9, <1>10 DEF Inv

LEMMA LinkKnowledgeInv == Inv /\ LinkKnowledge => Inv'
<1> SUFFICES ASSUME Inv, LinkKnowledge PROVE Inv'
  OBVIOUS
<1>1. /\ UNCHANGED <<calls, action, proposed, executed, context, command>>
      /\ Suspend(NextCall) /\ action[NextCall] # "NONE"
      /\ Pending # <<>> /\ Malformed = {} /\ agent.pc \in AtWork
      /\ agent' = [agent EXCEPT !.pc = "PROMPT", !.outcome = "NONE"]
  BY DEF LinkKnowledge, Suspend, At, AtWork, userVars, Goto, Inv, ContextInv
<1>2. RunInv'
  BY DEF LinkKnowledge, Suspend, Inv, RunInv, RunStates, userVars
<1>3. CallsInv' /\ ActionInv' /\ BatchInv'
  BY <1>1, SuspendedRows DEF Inv, ActionInv
<1>4. AgentInv'
  <2>1. "PROMPT" \in Places \ AtCommand /\ "NONE" \in AllOutcomes
    BY PlaceNames
  <2> QED
    BY <1>1, <2>1, AgentGoes DEF Inv
<1>5. ContextInv'
  <2>1. agent'.pc \notin AtWork
    BY <1>1 DEF Inv, AgentInv, AtWork
  <2> QED
    BY <1>1, <2>1, ContextIdle DEF Inv, ContextInv
<1> QED
  BY <1>2, <1>3, <1>4, <1>5 DEF Inv

LEMMA ThinkCallsInv ==
  ASSUME Inv, NEW tools \in Responses, NEW repeat \in BOOLEAN, ThinkCalls(tools, repeat)
  PROVE  Inv'
<1>1. PICK n \in Nat, m \in Nat : n = Len(calls) /\ m = Len(tools) /\ n + m <= MaxToolCalls
  <2>1. calls \in Seq(CallType) /\ tools \in Seq(Tools)
    BY ConstantFacts DEF Inv, CallsInv
  <2>2. Len(calls) \in Nat /\ Len(tools) \in Nat
    BY <2>1
  <2>3. Len(calls) + Len(tools) <= MaxToolCalls
    BY DEF ThinkCalls, WithinLimit
  <2> QED
    BY <2>2, <2>3
<1>2. /\ UNCHANGED <<result, action, linked, proposed, executed, command>>
      /\ calls' = calls \o Requested(tools, repeat)
      /\ context' = [context EXCEPT !.pending = [k \in 1 .. m |-> n + k]]
      /\ agent' = [agent EXCEPT !.pc = "TOOLS", !.outcome = "NONE"]
      /\ agent.pc = "THINK"
  BY <1>1 DEF ThinkCalls, actionVars, userVars, Goto, At
<1>3. /\ calls \in Seq(CallType) /\ Persisted = 1 .. n
      /\ 1 .. (n + m) \subseteq Slots /\ 1 .. n \subseteq Slots
      /\ \A i \in 1 .. n : calls[i] \in CallType /\ calls[i].batch \in Nat
      /\ \A i, j \in 1 .. n : i <= j => calls[i].batch <= calls[j].batch
  <2>1. calls \in Seq(CallType) /\ Persisted = 1 .. n
    BY <1>1 DEF Inv, CallsInv, Persisted
  <2>2. \A i \in 1 .. n : calls[i] \in CallType
    BY <1>1, <2>1
  <2>3. 1 .. (n + m) \subseteq Slots /\ 1 .. n \subseteq Slots
    BY <1>1, ConstantFacts DEF Slots
  <2> QED
    BY <2>1, <2>2, <2>3 DEF CallType, Inv, CallsInv
<1>4. PICK b \in Nat \ {0} : /\ b = IF calls = <<>> THEN 1 ELSE Last(calls).batch + 1
                             /\ \A i \in 1 .. n : calls[i].batch < b
  <2>1. CASE calls = <<>>
    BY <1>1, <2>1
  <2>2. CASE calls # <<>>
    <3>1. n \in 1 .. n /\ Last(calls) = calls[n]
      BY <1>1, <1>3, <2>2 DEF Last
    <3>2. PICK c \in Nat : c = calls[n].batch
      BY <1>3, <3>1
    <3>3. c + 1 \in Nat \ {0} /\ \A i \in 1 .. n : calls[i].batch < c + 1
      BY <1>3, <3>1, <3>2
    <3> QED
      BY <2>2, <3>1, <3>2, <3>3
  <2> QED
    BY <2>1, <2>2
<1>5. PICK new : /\ new = [k \in 1 .. m |->
                            [tool |-> tools[k], batch |-> b,
                             id |-> IF repeat /\ k = 1 THEN 1 ELSE n + k]]
                 /\ new = Requested(tools, repeat)
  BY <1>1, <1>4 DEF Requested
<1>6. /\ new \in Seq(CallType) /\ Len(new) = m
      /\ \A k \in 1 .. m : new[k].batch = b
  <2>1. ASSUME NEW k \in 1 .. m
        PROVE  [tool |-> tools[k], batch |-> b, id |-> IF repeat /\ k = 1 THEN 1 ELSE n + k]
                 \in CallType
    <3>1. tools[k] \in Tools
      BY <1>1, ConstantFacts
    <3>2. (IF repeat /\ k = 1 THEN 1 ELSE n + k) \in Nat \ {0}
      BY <1>1
    <3> QED
      BY <3>1, <3>2 DEF CallType
  <2>2. new \in Seq(CallType)
    BY <1>5, <2>1
  <2> QED
    BY <1>5, <2>2
<1>7. /\ calls' \in Seq(CallType) /\ Len(calls') = n + m /\ Persisted' = 1 .. (n + m)
      /\ \A i \in 1 .. n : calls'[i] = calls[i]
      /\ \A i \in 1 .. (n + m) : i > n => calls'[i].batch = b
  <2>1. /\ calls' \in Seq(CallType) /\ Len(calls') = n + m
        /\ \A i \in 1 .. n : calls'[i] = calls[i]
        /\ \A i \in 1 .. (n + m) : i > n => calls'[i] = new[i - n]
    <3>1. PICK old : old = calls /\ old \in Seq(CallType) /\ Len(old) = n
      BY <1>1, <1>3
    <3>2. calls' = old \o new
      BY <1>2, <1>5, <3>1
    <3>3. PICK S : S = CallType
      OBVIOUS
    <3>4. old \in Seq(S) /\ new \in Seq(S) /\ Len(old) = n /\ Len(new) = m
      BY <1>6, <3>1, <3>3
    <3>5. old \o new \in Seq(S) /\ Len(old \o new) = n + m
      BY <3>4
    <3>6. \A i \in 1 .. n : (old \o new)[i] = old[i]
      BY <3>4
    <3>7. \A i \in 1 .. (n + m) : i > n => (old \o new)[i] = new[i - n]
      BY <3>4
    <3> QED
      BY <3>1, <3>2, <3>3, <3>5, <3>6, <3>7
  <2>2. \A i \in 1 .. (n + m) : i > n => i - n \in 1 .. m
    BY <1>1
  <2> QED
    BY <1>6, <2>1, <2>2 DEF Persisted
<1>8. /\ AnsweredTo(n) /\ context.results = [i \in 1 .. n |-> i]
      /\ AnsweredTo(n)'
  <2>1. PICK k \in 0 .. n :
          /\ AnsweredTo(k) /\ context.results = [i \in 1 .. k |-> i]
          /\ Pending # <<>> <=> k < n
    BY <1>1, <1>2, WorkFacts DEF AtWork
  <2>2. k = n
    BY <1>1, <1>2, <2>1 DEF Inv, ContextInv, At
  <2> QED
    BY <1>2, <2>1, <2>2 DEF AnsweredTo
<1>9. \A i \in 1 .. (n + m) : i > n => result[i] = "NONE" /\ executed[i] = 0 /\ action[i] = "NONE"
  BY <1>1, <1>3, <1>8 DEF AnsweredTo, Inv, CallsInv
<1>10. RunInv'
  BY DEF ThinkCalls, Inv, RunInv, runVars, userVars
<1>11. CallsInv'
  <2>1. \A i, j \in Persisted' : i <= j => calls'[i].batch <= calls'[j].batch
    <3> SUFFICES ASSUME NEW i \in 1 .. (n + m), NEW j \in 1 .. (n + m), i <= j
                 PROVE  calls'[i].batch <= calls'[j].batch
      BY <1>7
    <3>1. CASE j <= n
      <4>1. i \in 1 .. n /\ j \in 1 .. n
        BY <3>1
      <4> QED
        BY <1>3, <1>7, <4>1
    <3>2. CASE i <= n /\ j > n
      <4>1. i \in 1 .. n
        BY <3>2
      <4> QED
        BY <1>3, <1>4, <1>7, <3>2, <4>1
    <3>3. CASE i > n
      <4>1. j > n
        BY <3>3
      <4> QED
        BY <1>4, <1>7, <3>3, <4>1
    <3> QED
      BY <3>1, <3>2, <3>3
  <2>2. n \in 0 .. Len(calls')
    BY <1>1, <1>7
  <2>3. \A i \in Slots \ Persisted' : executed[i] = 0 /\ action[i] = "NONE"
    BY <1>3, <1>7 DEF Inv, CallsInv
  <2>4. \E k \in 0 .. Len(calls') : AnsweredTo(k)'
    BY <1>8, <2>2
  <2> QED
    BY <1>1, <1>2, <1>7, <2>1, <2>3, <2>4 DEF Inv, CallsInv
<1>12. ActionInv'
  BY <1>2 DEF Inv, ActionInv, ResultIsTrue
<1>13. BatchInv'
  <2> SUFFICES ASSUME NEW i \in 1 .. (n + m), NEW j \in 1 .. (n + m),
                      calls'[i].tool = "MALFORMED", calls'[i].batch = calls'[j].batch
               PROVE  /\ executed[j] = 0 /\ action[j] = "NONE"
                      /\ result[i] = "NONE" <=> result[j] = "NONE"
    BY <1>2, <1>7 DEF BatchInv
  <2>1. CASE i <= n /\ j <= n
    <3>1. i \in Persisted /\ j \in Persisted /\ calls'[i] = calls[i] /\ calls'[j] = calls[j]
      BY <1>3, <1>7, <2>1
    <3> QED
      BY <3>1 DEF Inv, BatchInv
  <2>2. CASE i > n /\ j > n
    BY <1>9, <2>2
  <2>3. CASE i <= n /\ j > n
    <3>1. i \in 1 .. n
      BY <2>3
    <3>2. calls[i].batch < b /\ calls[i].batch \in Nat /\ calls[i].batch = b
      BY <1>3, <1>4, <1>7, <2>3, <3>1
    <3> QED
      BY <3>2
  <2>4. CASE i > n /\ j <= n
    <3>1. j \in 1 .. n
      BY <2>4
    <3>2. calls[j].batch < b /\ calls[j].batch \in Nat /\ calls[j].batch = b
      BY <1>3, <1>4, <1>7, <2>4, <3>1
    <3> QED
      BY <3>2
  <2> QED
    BY <2>1, <2>2, <2>3, <2>4
<1>14. AgentInv'
  <2>1. "TOOLS" \in Places \ AtCommand /\ "NONE" \in AllOutcomes
    BY PlaceNames DEF Places, AtCommand
  <2> QED
    BY <1>2, <2>1, AgentGoes DEF Inv
<1>15. ContextInv'
  <2>1. agent'.pc = "TOOLS"
    BY <1>2 DEF Inv, AgentInv
  <2>2. /\ context'.results = [i \in 1 .. n |-> i]
        /\ Pending' = [i \in 1 .. m |-> n + i]
    BY <1>2, <1>8 DEF Inv, ContextInv, Pending
  <2>3. [i \in 1 .. m |-> n + i] \in Seq(Slots)
    <3>1. \A i \in 1 .. m : n + i \in Slots
      BY <1>1, ConstantFacts DEF Slots
    <3> QED
      BY <3>1
  <2>4. context' \in [results : Seq(Slots), pending : Seq(Slots)]
    BY <1>2, <2>3 DEF Inv, ContextInv
  <2>5. Len(calls') - n = m /\ n \in 0 .. Len(calls')
    BY <1>1, <1>7
  <2>6. \E k \in 0 .. Len(calls') :
          /\ AnsweredTo(k)'
          /\ context'.results = [i \in 1 .. k |-> i]
          /\ Pending' = [i \in 1 .. (Len(calls') - k) |-> k + i]
    BY <1>8, <2>2, <2>5
  <2> QED
    BY <2>1, <2>4, <2>6 DEF ContextInv, At
<1> QED
  BY <1>10, <1>11, <1>12, <1>13, <1>14, <1>15 DEF Inv

\* Every step keeps the invariant.
LEMMA NextInv == Inv /\ [Next]_vars => Inv'
<1> SUFFICES ASSUME Inv, [Next]_vars PROVE Inv'
  OBVIOUS
<1>1. CASE StageStep
  <2>1. CASE EndActions \/ EndResume \/ ProcessReconciled \/ RetryPrompt \/ PickRun
    BY <2>1, EndActionsInv, EndResumeInv, ProcessReconciledInv, RetryPromptInv, PickRunInv
  <2>2. ASSUME NEW old \in SUBSET {"RUN", "COMMAND"}, NEW due \in SUBSET Slots, RecoverRuns(old, due)
        PROVE  Inv'
    BY <2>2, RecoverRunsInv
  <2>3. ASSUME NEW i \in Slots, ExecuteRecovered(i) \/ ResumeRecovered(i) \/ Reconcile(i)
        PROVE  Inv'
    BY <2>3, ExecuteRecoveredInv, ResumeRecoveredInv, ReconcileInv
  <2> QED
    BY <1>1, <2>1, <2>2, <2>3 DEF StageStep
<1>2. CASE RunStep
  <2>1. CASE BeginAttempt \/ BeginOther \/ Load \/ NoPendingTools \/ RecoverMalformed
    BY <2>1, BeginAttemptInv, BeginOtherInv, LoadInv, NoPendingToolsInv, RecoverMalformedInv
  <2>2. CASE StoreResult \/ ProposeStatus \/ ProposeKnowledge \/ LinkKnowledge
    BY <2>2, StoreResultInv, ProposeStatusInv, ProposeKnowledgeInv, LinkKnowledgeInv
  <2>3. CASE ProposeUnknown \/ ThinkAnswer \/ ThinkRetry \/ ThinkFail \/ FailRun \/ PersistAnswer
    BY <2>3, QuietSteps
  <2>4. CASE RecordDelivery \/ RecordPrompt
    BY <2>4, RecordInv
  <2>5. ASSUME NEW outcome \in {"OK", "ERROR"}, ExecuteTool(outcome) PROVE Inv'
    BY <2>5, ExecuteToolInv
  <2>6. ASSUME NEW tools \in Responses, NEW repeat \in BOOLEAN, ThinkCalls(tools, repeat)
        PROVE  Inv'
    BY <2>6, ThinkCallsInv
  <2>7. ASSUME NEW outcome \in Outcomes, Push(outcome) PROVE Inv'
    BY <2>7, PushInv
  <2> QED
    BY <1>2, <2>1, <2>2, <2>3, <2>4, <2>5, <2>6, <2>7 DEF RunStep
<1>3. CASE CommandStep
  BY <1>3, ResolveCommandInv, ExecuteConfirmedInv, ExecutionRaisesInv, ResumeRunInv,
     CommandAnsweredInv DEF CommandStep
<1>4. ASSUME NEW i \in Slots, NEW resolution \in {"CONFIRM", "REJECT"}, SendCommand(i, resolution)
      PROVE  Inv'
  BY <1>4, SendCommandInv
<1>5. CASE RetryTimeComes
  BY <1>5, RetryTimeComesInv
<1>6. CASE Crash \/ StartAgain
  BY <1>6, RestartsInv
<1>7. CASE UNCHANGED vars
  BY <1>7, StutterInv
<1> QED
  BY <1>1, <1>2, <1>3, <1>4, <1>5, <1>6, <1>7 DEF Next, AgentStep

-----------------------------------------------------------------------------
(* The theorems.                                                           *)

\* The invariant holds throughout, whenever the process dies, whatever the LLM,
\* the tools and the provider answer, and whatever the user decides.
THEOREM InvAlways == Spec => []Inv
<1>1. Init => Inv
  BY InitInv
<1>2. Inv /\ [Next]_vars => Inv'
  BY NextInv
<1> QED
  BY <1>1, <1>2, PTL DEF Spec

\* The rows, the context and the thread keep their types, and neither the calls
\* nor the attempts exceed their limits (agent_max_tool_calls,
\* agent_max_delivery_attempts).
THEOREM TypeCorrect == Spec => []TypeOK
<1>1. Inv => TypeOK
  <2> SUFFICES ASSUME Inv PROVE TypeOK
    OBVIOUS
  <2>1. {executed, proposed} \subseteq [Slots -> Nat]
    BY DEF Inv, CallsInv, ActionInv
  <2>2. {context.results, context.pending} \subseteq Seq(Slots)
    BY DEF Inv, ContextInv
  <2>3. /\ agent.stage \in {"recover", "actions", "resume", "reconcile", "prompts", "command"}
        /\ agent.pc \in {"IDLE", "BEGIN", "LOAD", "TOOLS", "STORE", "LINK", "THINK", "FAIL",
                         "ANSWER", "PUSH", "RECORD", "PROMPT", "PROMPTED", "RESOLVE",
                         "EXECUTE", "RESUME", "FINALIZE", "STOPPED"}
        /\ command.target \in Slots \cup {None}
    BY DEF Inv, AgentInv, Stages, Places
  <2> QED
    BY <2>1, <2>2, <2>3 DEF TypeOK, Inv, RunInv, CallsInv, ActionInv
<1> QED
  BY <1>1, InvAlways, PTL

\* A write is proposed once, whenever the process dies between the proposal and
\* the suspension of the run (propose_status_write, propose_knowledge_write).
THEOREM ProposedOnceAlways == Spec => []ProposedOnce
<1>1. Inv => ProposedOnce
  BY DEF Inv, ActionInv, ProposedOnce
<1> QED
  BY <1>1, InvAlways, PTL

\* No call of a batch with a malformed write is carried out or proposed, before
\* a death or after it (preflight_confirmation_writes, _resume_pending_tools).
THEOREM NothingAroundMalformedAlways == Spec => []NothingAroundMalformed
<1>1. Inv => NothingAroundMalformed
  BY DEF Inv, BatchInv, NothingAroundMalformed
<1> QED
  BY <1>1, InvAlways, PTL

\* When the LLM is asked it is told of every call, in their order
\* (load_tool_state, _continuation_messages).
THEOREM ContinuationCompleteAlways == Spec => []ContinuationComplete
<1>1. Inv => ContinuationComplete
  <2> SUFFICES ASSUME Inv, At("THINK") PROVE context.results = [i \in Persisted |-> i]
    BY DEF ContinuationComplete
  <2>1. PICK k \in 0 .. Len(calls) :
          /\ Len(calls) \in Nat /\ context.results = [i \in 1 .. k |-> i]
          /\ Pending # <<>> <=> k < Len(calls)
    BY WorkFacts DEF At, AtWork
  <2>2. k = Len(calls)
    BY <2>1 DEF Inv, ContextInv
  <2> QED
    BY <2>1, <2>2 DEF Persisted
<1> QED
  BY <1>1, InvAlways, PTL

\* What is stored as the result of a write is what became of its action
\* (resume_confirmed_action, finalize_rejected_action, write_recovery.py).
THEOREM ResultIsTrueAlways == Spec => []ResultIsTrue
<1>1. Inv => ResultIsTrue
  BY DEF Inv, ActionInv
<1> QED
  BY <1>1, InvAlways, PTL

=============================================================================
