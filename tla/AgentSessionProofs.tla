------------------------- MODULE AgentSessionProofs -------------------------
(***************************************************************************)
(* The theorems about AgentSession: type correctness, the order in which   *)
(* questions are started, and that a suspended run goes on only once its   *)
(* action is decided, for any number of messages, commands and deaths; and *)
(* that one question at a time holds the session, that a run that has      *)
(* ended stays so and that no answer is sent twice without a death, which  *)
(* the refusal of an action may break and nothing else does.               *)
(***************************************************************************)
EXTENDS AgentSession, FiniteSetTheorems, SequenceTheorems, WellFoundedInduction, TLAPS

-----------------------------------------------------------------------------
(* The inductive invariant.                                                *)

Stages == {"runs", "actions", "resume", "reconcile", "prompts"}
Places == {"begin", "think", "answer", "push", "record", "prompt",
           "recordPrompt", "resolve", "execute", "resume", "finalize"}
AtWork == {"begin", "think", "answer", "push", "record", "resolve"}

\* The rows, the counters, and the thread but for its stack.
RowsInv ==
    /\ state \in [Runs -> RunStates]
    /\ message \in [Runs -> Commands \cup {Question}]
    /\ attempt \in [Runs -> 0 .. MaxDeliveryAttempts]
    /\ final \in [Runs -> BOOLEAN]
    /\ delivery \in [Runs -> DeliveryStates]
    /\ wait \in [Runs -> BOOLEAN]
    /\ activeRun \in Runs \cup {None}
    /\ action \in [Runs -> ActionStates]
    /\ executions \in [Runs -> 0 .. MaxExecutions]
    /\ actionWait \in [Runs -> BOOLEAN]
    /\ reached \in [Runs -> Nat]
    /\ crashes \in 0 .. MaxCrashes

\* The messages that have arrived are the first ones.
ArrivedTo(n) == \A r \in Runs : state[r] = "NONE" <=> r > n

\* A run that has not been started has done nothing; only a question is queued
\* and only a question proposes, and it waits until its action is decided; a
\* command names a proposal.
RunsInv ==
    /\ \E n \in 0 .. MaxRuns : ArrivedTo(n)
    /\ \A r \in Runs :
         /\ state[r] \in {"NONE", "QUEUED"} => attempt[r] = 0 /\ action[r] = "NONE"
         /\ state[r] \in {"NONE", "QUEUED", "WAITING_USER_CONFIRMATION"} => ~IsCommand(r)
         /\ IsCommand(r) => action[r] = "NONE"
         /\ action[r] \in {"PENDING", "CONFIRMED", "FAILED", "EXPIRED"} => Waiting(r)
         /\ action[r] \in {"NONE", "PENDING", "CONFIRMED"} => executions[r] = 0
         /\ message[r].target # None => action[message[r].target] # "NONE"

\* What each stage has left to do is in the state the stage has selected.
StageInv ==
    /\ agent \in [stage : Stages, starting : BOOLEAN, todo : SUBSET Runs,
                  results : SUBSET Runs, stack : Seq(FrameType)]
    /\ agent.stage = "actions" =>
         /\ agent.stack = <<>>
         /\ \A r \in agent.todo : \/ action[r] = "CONFIRMED"
                                  \/ action[r] = "FAILED" /\ executions[r] < MaxExecutions
         /\ \A r \in agent.results : Waiting(r) /\ action[r] = "COMPLETED"
    /\ agent.stage = "resume" =>
         \A r \in agent.todo : Waiting(r) /\ action[r] = "COMPLETED"
    /\ agent.stage = "reconcile" =>
         \A r \in agent.todo : Waiting(r) /\ action[r] \in {"COMPLETED", "REJECTED"}
    /\ agent.stage = "prompts" => \A r \in agent.todo : Waiting(r)
    /\ agent.stage = "runs" => agent.todo = {} /\ agent.results = {}

\* The run of the frame on top is in a state its place expects, and it is not
\* among what the stage has left to do.
FrameOK(f) ==
    /\ f.run \notin agent.todo
    /\ IsCommand(f.run) => agent.todo = {}
    /\ f.pc \in AtWork => state[f.run] \in {"RUNNING", "DELIVERY_PENDING"}
    /\ f.pc \in {"execute", "resume", "prompt", "recordPrompt"} => Waiting(f.run)
    /\ f.pc = "execute" => action[f.run] \in {"CONFIRMED", "COMPLETED"}
    /\ f.pc = "resume" => action[f.run] = "COMPLETED"
    /\ f.pc = "finalize" => action[f.run] = "REJECTED"
    /\ f.pc = "think" => ~IsCommand(f.run)
    /\ f.pc = "resolve" => IsCommand(f.run)

\* Below the frame of a question there may be that of the command it is
\* processed for, which has still to be answered.
BelowOK(f, g) ==
    /\ ~IsCommand(f.run) /\ IsCommand(g.run)
    /\ g.pc = "answer"
    /\ state[g.run] \in {"RUNNING", "DELIVERY_PENDING"}
    /\ agent.todo = {}

Single(f) == agent.stack = <<f>> /\ FrameOK(f)
Double(f, g) == agent.stack = <<f, g>> /\ FrameOK(f) /\ BelowOK(f, g)
StackInv ==
    \/ agent.stack = <<>>
    \/ \E f \in FrameType : Single(f)
    \/ \E f, g \in FrameType : Double(f, g)

Inv == RowsInv /\ RunsInv /\ StartedInOrder /\ StageInv /\ StackInv

\* An answer is counted above the deaths only while its outcome is being
\* recorded, and once it is.
Sending(r) == At("record") /\ Top.run = r /\ Top.outcome \in {"SENT", "AMBIGUOUS"}
ReachedInv ==
    \A r \in Runs :
        reached[r] <= crashes + (IF state[r] \in Terminal \/ Sending(r) THEN 1 ELSE 0)

HeldInv == ActiveRunHoldsSession /\ ReachedInv

\* finalize_rejected_action does not look at the state of the run; this is when
\* the run is one that waits for the decision.
RefusedInTime == FinalizeRejected => Waiting(Top.run)

-----------------------------------------------------------------------------
(* Constants, and the order of runs.                                       *)

LEMMA ConstantFacts ==
  /\ MaxRuns \in Nat \ {0} /\ MaxCrashes \in Nat
  /\ MaxDeliveryAttempts \in Nat \ {0} /\ MaxExecutions \in Nat \ {0}
  /\ Runs \subseteq Nat \ {0} /\ None = 0 /\ None \notin Runs
BY SessionAssumption DEF Runs, None

LEMMA OldestFacts ==
  ASSUME NEW T \in SUBSET Runs, T # {}
  PROVE  Oldest(T) \in T /\ \A s \in T : Oldest(T) <= s
<1> DEFINE R == {ss \in Nat \X Nat : ss[1] < ss[2]}
<1>1. IsWellFoundedOn(R, Nat)
  BY NatLessThanWellFounded DEF OpToRel
<1>2. T \in SUBSET Nat
  BY ConstantFacts
<1>3. PICK x \in T : \A y \in T : ~(<<y, x>> \in R)
  <2> HIDE DEF R
  <2> QED
    BY <1>1, <1>2, WFMin
<1>4. ASSUME NEW y \in T PROVE x <= y
  <2>1. x \in Nat /\ y \in Nat /\ ~(<<y, x>> \in R)
    BY <1>2, <1>3
  <2> QED
    BY <2>1
<1> QED
  BY <1>4 DEF Oldest

\* The next message takes the first number that is free.
LEMMA ArrivedFacts ==
  ASSUME NEW n \in 0 .. MaxRuns, ArrivedTo(n)
  PROVE  Cardinality(Arrived) = n
<1>1. n \in Nat /\ Arrived = 1 .. n
  BY ConstantFacts DEF Arrived, ArrivedTo, Runs
<1> QED
  BY <1>1, FS_Interval

-----------------------------------------------------------------------------
(* What the rows keep when a run goes on, ends, or its action changes.     *)

\* Run r goes over to x, and q, the oldest queued one if there is one, starts.
Goes(r, x, q) ==
    /\ r \in Runs /\ state[r] \notin {"NONE", "QUEUED"}
    /\ x \in RunStates \ {"NONE", "QUEUED"}
    /\ action[r] \in {"PENDING", "CONFIRMED", "FAILED", "EXPIRED"} =>
         x = "WAITING_USER_CONFIRMATION"
    /\ IsCommand(r) => x # "WAITING_USER_CONFIRMATION"
    /\ q = None \/ (q \in Queued /\ \A s \in Queued : q <= s)
    /\ state' = [s \in Runs |-> IF s = r THEN x
                                ELSE IF s = q THEN "RUNNING" ELSE state[s]]
    /\ \A s \in Runs : state[s] \in {"NONE", "QUEUED"} /\ s # q => attempt'[s] = attempt[s]

LEMMA RunGoes ==
  ASSUME Inv, NEW r, NEW x, NEW q, Goes(r, x, q),
         UNCHANGED <<message, action, executions>>
  PROVE  /\ state' \in [Runs -> RunStates]
         /\ RunsInv' /\ StartedInOrder'
<1>1. state' \in [Runs -> RunStates]
  BY DEF Goes, Inv, RowsInv, RunStates
<1>2. \A s \in Runs : state[s] = "NONE" <=> state'[s] = "NONE"
  BY ConstantFacts DEF Goes, Queued
<1>3. \A s \in Runs : /\ state'[s] = "QUEUED" => state[s] = "QUEUED" /\ s # q
                      /\ state[s] = "QUEUED" => s = q \/ state'[s] = "QUEUED"
  BY DEF Goes, Queued
<1>4. \E n \in 0 .. MaxRuns : ArrivedTo(n)'
  <2>1. PICK n \in 0 .. MaxRuns : ArrivedTo(n)
    BY DEF Inv, RunsInv
  <2> QED
    BY <1>2, <2>1 DEF ArrivedTo
<1>5. ASSUME NEW s \in Runs
      PROVE  /\ state'[s] \in {"NONE", "QUEUED"} => attempt'[s] = 0 /\ action[s] = "NONE"
             /\ state'[s] \in {"NONE", "QUEUED", "WAITING_USER_CONFIRMATION"} => ~IsCommand(s)
             /\ action[s] \in {"PENDING", "CONFIRMED", "FAILED", "EXPIRED"} => Waiting(s)'
  <2>1. state'[s] \in {"NONE", "QUEUED"} =>
          state[s] \in {"NONE", "QUEUED"} /\ attempt'[s] = attempt[s]
    <3>1. None \notin Runs
      BY ConstantFacts
    <3> QED
      BY <1>2, <1>3, <3>1 DEF Goes, Queued
  <2>2. state'[s] \in {"NONE", "QUEUED"} => attempt'[s] = 0 /\ action[s] = "NONE"
    BY <2>1 DEF Inv, RunsInv
  <2>3. state'[s] = "WAITING_USER_CONFIRMATION" => ~IsCommand(s)
    BY DEF Goes, Inv, RunsInv
  <2>4. state'[s] \in {"NONE", "QUEUED"} => ~IsCommand(s)
    BY <2>1 DEF Inv, RunsInv
  <2>5. CASE s = r
    BY <2>2, <2>3, <2>4, <2>5 DEF Goes, Waiting
  <2>6. CASE s # r
    <3>1. Waiting(s) => Waiting(s)'
      BY <2>6, ConstantFacts DEF Goes, Queued, Waiting
    <3> QED
      BY <2>2, <2>3, <2>4, <3>1 DEF Inv, RunsInv
  <2> QED
    BY <2>5, <2>6
<1>6. RunsInv'
  BY <1>4, <1>5 DEF Inv, RunsInv, IsCommand
<1>7. StartedInOrder'
  <2> SUFFICES ASSUME NEW s \in Runs, NEW t \in Runs,
                      state'[s] = "QUEUED", s < t, ~IsCommand(t)
               PROVE  state'[t] \in {"NONE", "QUEUED"}
    BY DEF StartedInOrder, IsCommand
  <2>1. state[s] = "QUEUED" /\ s # q /\ state[t] \in {"NONE", "QUEUED"}
    BY <1>3 DEF Inv, StartedInOrder
  <2>2. t # q
    <3>1. CASE q = None
      BY <3>1, ConstantFacts
    <3>2. CASE q # None
      <4>1. q \in Runs /\ q <= s
        BY <2>1, <3>2 DEF Goes, Queued
      <4> QED
        BY <4>1, ConstantFacts
    <3> QED
      BY <3>1, <3>2
  <2>3. t # r
    BY <2>1 DEF Goes
  <2>4. state'[t] = state[t]
    BY <2>2, <2>3 DEF Goes
  <2> QED
    BY <2>1, <2>4
<1> QED
  BY <1>1, <1>6, <1>7

\* One run goes on, and none is started.
LEMMA RunGoesAlone ==
  ASSUME Inv, NEW r \in Runs, NEW x \in RunStates \ {"NONE", "QUEUED"},
         state[r] \notin {"NONE", "QUEUED"},
         action[r] \in {"PENDING", "CONFIRMED", "FAILED", "EXPIRED"} =>
           x = "WAITING_USER_CONFIRMATION",
         IsCommand(r) => x # "WAITING_USER_CONFIRMATION",
         state' = [state EXCEPT ![r] = x],
         \A s \in Runs : state[s] \in {"NONE", "QUEUED"} => attempt'[s] = attempt[s],
         UNCHANGED <<message, action, executions>>
  PROVE  /\ state' \in [Runs -> RunStates]
         /\ RunsInv' /\ StartedInOrder'
<1>1. state' = [s \in Runs |-> IF s = r THEN x ELSE IF s = None THEN "RUNNING" ELSE state[s]]
  BY ConstantFacts DEF Inv, RowsInv
<1>2. Goes(r, x, None)
  BY <1>1 DEF Goes
<1> QED
  BY <1>2, RunGoes

\* The action of a run goes over to x.
LEMMA ActionGoes ==
  ASSUME Inv, NEW r \in Runs, NEW x \in ActionStates \ {"NONE"}, action[r] # "NONE",
         x \in {"PENDING", "CONFIRMED", "FAILED", "EXPIRED"} => Waiting(r),
         x \in {"PENDING", "CONFIRMED"} => executions'[r] = 0,
         \A s \in Runs : s # r => executions'[s] = executions[s],
         action' = [action EXCEPT ![r] = x],
         UNCHANGED <<state, message, attempt>>
  PROVE  action' \in [Runs -> ActionStates] /\ RunsInv' /\ StartedInOrder'
<1>1. action' \in [Runs -> ActionStates]
  BY DEF Inv, RowsInv
<1>2. \A s \in Runs : action'[s] = IF s = r THEN x ELSE action[s]
  BY DEF Inv, RowsInv
<1>3. \E n \in 0 .. MaxRuns : ArrivedTo(n)'
  BY DEF Inv, RunsInv, ArrivedTo
<1>4. ASSUME NEW s \in Runs
      PROVE  /\ state[s] \in {"NONE", "QUEUED"} => attempt[s] = 0 /\ action'[s] = "NONE"
             /\ IsCommand(s) => action'[s] = "NONE"
             /\ action'[s] \in {"PENDING", "CONFIRMED", "FAILED", "EXPIRED"} => Waiting(s)
             /\ action'[s] \in {"NONE", "PENDING", "CONFIRMED"} => executions'[s] = 0
             /\ message[s].target # None => action'[message[s].target] # "NONE"
  <2>1. message[s].target # None => action'[message[s].target] # "NONE"
    <3> SUFFICES ASSUME message[s].target # None
                 PROVE  action'[message[s].target] # "NONE"
      OBVIOUS
    <3>1. message[s].target \in Runs /\ action[message[s].target] # "NONE"
      BY DEF Inv, RowsInv, RunsInv, Commands, Question
    <3> QED
      BY <1>2, <3>1
  <2>2. CASE s = r
    BY <1>2, <2>1, <2>2 DEF Inv, RunsInv
  <2>3. CASE s # r
    BY <1>2, <2>1, <2>3 DEF Inv, RunsInv
  <2> QED
    BY <2>2, <2>3
<1>5. \A s \in Runs : state[s] \in {"NONE", "QUEUED", "WAITING_USER_CONFIRMATION"} => ~IsCommand(s)
  BY DEF Inv, RunsInv
<1>6. RunsInv'
  BY <1>3, <1>4, <1>5 DEF RunsInv, IsCommand, Waiting
<1> QED
  BY <1>1, <1>6 DEF Inv, StartedInOrder, IsCommand

-----------------------------------------------------------------------------
(* What the thread's stack and the stage keep.                             *)

\* The frame on top, and what lies below it.
Stacked(f, rest) ==
    /\ f \in FrameType
    /\ agent.stack = <<f>> \o rest
    /\ FrameOK(f)
    /\ \/ rest = <<>>
       \/ \E g \in FrameType : rest = <<g>> /\ BelowOK(f, g)

LEMMA PairFacts ==
  ASSUME NEW S, NEW a \in S, NEW b \in S
  PROVE  <<a, b>> = <<a>> \o <<b>> /\ Tail(<<a, b>>) = <<b>>
<1>1. /\ <<a, b>> \in Seq(S) /\ <<a>> \in Seq(S) /\ <<b>> \in Seq(S)
      /\ Len(<<a, b>>) = 2 /\ Len(<<a>>) = 1 /\ Len(<<b>>) = 1
  OBVIOUS
<1>2. <<a, b>> = <<a>> \o <<b>>
  <2>1. PICK p \in Seq(S), q \in Seq(S) : p = <<a>> /\ q = <<b>>
    BY <1>1
  <2>2. p \o q \in Seq(S) /\ Len(p \o q) = 2
    BY <1>1, <2>1
  <2>3. (p \o q)[1] = a
    BY <1>1, <2>1
  <2>4. (p \o q)[2] = b
    BY <1>1, <2>1
  <2>5. PICK r \in Seq(S) : r = <<a, b>> /\ Len(r) = 2 /\ r[1] = a /\ r[2] = b
    BY <1>1
  <2>6. ASSUME NEW i \in 1 .. 2 PROVE (p \o q)[i] = r[i]
    <3>1. i = 1 \/ i = 2
      OBVIOUS
    <3> QED
      BY <2>3, <2>4, <2>5, <3>1
  <2> QED
    BY <2>1, <2>2, <2>5, <2>6, SeqEqual
<1>3. Tail(<<a, b>>) = <<b>>
  BY <1>1
<1> QED
  BY <1>2, <1>3

LEMMA TopFacts ==
  ASSUME Inv, agent.stack # <<>>
  PROVE  \E f, rest : Stacked(f, rest) /\ f = Top /\ rest = Tail(agent.stack)
<1>1. CASE \E f \in FrameType : Single(f)
  <2>1. PICK f \in FrameType : Single(f)
    BY <1>1
  <2>2. agent.stack = <<f>> \o <<>> /\ f = Top /\ Tail(agent.stack) = <<>>
    BY <2>1 DEF Single, Top
  <2> QED
    BY <2>1, <2>2 DEF Single, Stacked
<1>2. CASE \E f, g \in FrameType : Double(f, g)
  <2>1. PICK f \in FrameType, g \in FrameType : Double(f, g)
    BY <1>2
  <2>2. agent.stack = <<f, g>>
    BY <2>1 DEF Double
  <2>3. <<f, g>> = <<f>> \o <<g>> /\ Tail(<<f, g>>) = <<g>>
    BY PairFacts
  <2>4. f = Top
    BY <2>2 DEF Top
  <2> QED
    BY <2>1, <2>2, <2>3, <2>4 DEF Double, Stacked
<1> QED
  BY <1>1, <1>2 DEF Inv, StackInv

\* A run that is on the stack has been started.
LEMMA FrameFacts ==
  ASSUME Inv, NEW f, NEW rest, Stacked(f, rest)
  PROVE  /\ f.run \in Runs /\ f.pc \in Places /\ f.outcome \in Outcomes \cup {"NONE"}
         /\ state[f.run] \notin {"NONE", "QUEUED"}
         /\ agent.stage # "actions"
<1>1. /\ f.run \in Runs /\ f.pc \in Places /\ f.outcome \in Outcomes \cup {"NONE"}
  BY DEF Stacked, FrameType, Places
<1>2. state[f.run] \notin {"NONE", "QUEUED"}
  <2>1. f.pc \in AtWork \/ f.pc \in {"execute", "resume", "prompt", "recordPrompt"}
          \/ f.pc = "finalize"
    BY <1>1 DEF Places, AtWork
  <2>2. CASE f.pc \in AtWork
    BY <2>2 DEF Stacked, FrameOK
  <2>3. CASE f.pc \in {"execute", "resume", "prompt", "recordPrompt"}
    BY <2>3 DEF Stacked, FrameOK, Waiting
  <2>4. CASE f.pc = "finalize"
    <3>1. action[f.run] = "REJECTED"
      BY <2>4 DEF Stacked, FrameOK
    <3> QED
      BY <1>1, <3>1 DEF Inv, RunsInv
  <2> QED
    BY <2>1, <2>2, <2>3, <2>4
<1>3. agent.stack # <<>>
  BY DEF Stacked
<1> QED
  BY <1>1, <1>2, <1>3 DEF Inv, StageInv

\* What a step may do to the other runs while a frame is on the stack.
OthersKeep(f) ==
    /\ message' = message
    /\ \A s \in Runs : s # f.run =>
         /\ action'[s] = action[s]
         /\ Waiting(s) => Waiting(s)'
         /\ IsCommand(s) => state'[s] = state[s]

LEMMA StageKeeps ==
  ASSUME Inv, NEW f, NEW rest, Stacked(f, rest), OthersKeep(f),
         NEW stack \in Seq(FrameType), agent' = [agent EXCEPT !.stack = stack]
  PROVE  StageInv'
<1>1. /\ agent' \in [stage : Stages, starting : BOOLEAN, todo : SUBSET Runs,
                     results : SUBSET Runs, stack : Seq(FrameType)]
      /\ agent'.stage = agent.stage /\ agent'.todo = agent.todo
      /\ agent'.results = agent.results
  BY DEF Inv, StageInv
<1>2. agent.stage # "actions"
  BY FrameFacts
<1>3. \A s \in agent.todo : action'[s] = action[s] /\ (Waiting(s) => Waiting(s)')
  <2>1. \A s \in agent.todo : s \in Runs /\ s # f.run
    BY DEF Stacked, FrameOK, Inv, StageInv
  <2> QED
    BY <2>1 DEF OthersKeep
<1> QED
  BY <1>1, <1>2, <1>3 DEF Inv, StageInv

\* The frame on top goes over to another place.
LEMMA FrameGoes ==
  ASSUME Inv, NEW f, NEW rest, Stacked(f, rest), OthersKeep(f),
         NEW h \in FrameType, h.run = f.run,
         agent' = [agent EXCEPT !.stack = <<h>> \o rest],
         FrameOK(h)'
  PROVE  StageInv' /\ StackInv'
<1>1. CASE rest = <<>>
  <2>1. <<h>> \o rest = <<h>>
    BY <1>1
  <2>2. agent' = [agent EXCEPT !.stack = <<h>>] /\ <<h>> \in Seq(FrameType)
    BY <2>1
  <2>3. StageInv'
    BY <2>2, StageKeeps
  <2>4. agent'.stack = <<h>>
    BY <2>2 DEF Inv, StageInv
  <2> QED
    BY <2>3, <2>4 DEF StackInv, Single
<1>2. CASE \E g \in FrameType : rest = <<g>> /\ BelowOK(f, g)
  <2>1. PICK g \in FrameType : rest = <<g>> /\ BelowOK(f, g)
    BY <1>2
  <2>2. agent' = [agent EXCEPT !.stack = <<h, g>>] /\ <<h, g>> \in Seq(FrameType)
    BY <2>1
  <2>3. StageInv'
    BY <2>2, StageKeeps
  <2>4. agent'.stack = <<h, g>> /\ agent'.todo = agent.todo
    BY <2>2 DEF Inv, StageInv
  <2>5. g.run \in Runs /\ g.run # f.run
    BY <2>1 DEF BelowOK, FrameType
  <2>6. BelowOK(h, g)'
    BY <2>1, <2>4, <2>5 DEF BelowOK, OthersKeep, IsCommand
  <2> QED
    BY <2>3, <2>4, <2>6 DEF StackInv, Double
<1> QED
  BY <1>1, <1>2 DEF Stacked

\* It is done, and the command it was processed for, if any, is answered next.
LEMMA FrameReturns ==
  ASSUME Inv, NEW f, NEW rest, Stacked(f, rest), OthersKeep(f),
         agent' = [agent EXCEPT !.stack = rest]
  PROVE  StageInv' /\ StackInv'
<1>1. CASE rest = <<>>
  <2>1. rest \in Seq(FrameType)
    BY <1>1
  <2>2. StageInv'
    BY <2>1, StageKeeps
  <2>3. agent'.stack = <<>>
    BY <1>1 DEF Inv, StageInv
  <2> QED
    BY <2>2, <2>3 DEF StackInv
<1>2. CASE \E g \in FrameType : rest = <<g>> /\ BelowOK(f, g)
  <2>1. PICK g \in FrameType : rest = <<g>> /\ BelowOK(f, g)
    BY <1>2
  <2>2. rest \in Seq(FrameType)
    BY <2>1
  <2>3. StageInv'
    BY <2>2, StageKeeps
  <2>4. agent'.stack = <<g>> /\ agent'.todo = {}
    BY <2>1 DEF Inv, StageInv, BelowOK
  <2>5. g.run \in Runs /\ g.run # f.run
    BY <2>1 DEF BelowOK, FrameType
  <2>6. FrameOK(g)'
    BY <2>1, <2>4, <2>5 DEF BelowOK, OthersKeep, IsCommand, FrameOK, AtWork
  <2> QED
    BY <2>3, <2>4, <2>6 DEF StackInv, Single
<1> QED
  BY <1>1, <1>2 DEF Stacked

\* The shapes of the thread's steps.
Put(h, rest) == [agent EXCEPT !.stack = <<h>> \o rest]

LEMMA GotoFacts ==
  ASSUME Inv, NEW f, NEW rest, Stacked(f, rest), f = Top, rest = Tail(agent.stack),
         NEW pc \in Places
  PROVE  \E h \in FrameType :
           /\ h.run = f.run /\ h.pc = pc /\ h.outcome = f.outcome
           /\ Goto(pc) = Put(h, rest)
<1>1. PICK h : h = [f EXCEPT !.pc = pc]
  OBVIOUS
<1>2. h \in FrameType /\ h.run = f.run /\ h.pc = pc /\ h.outcome = f.outcome
  BY <1>1 DEF Stacked, FrameType, Places
<1>3. Goto(pc) = Put(h, rest)
  BY <1>1 DEF Goto, Put
<1> QED
  BY <1>2, <1>3

\* The frame on top goes over to pc, of which its run is in a state.
LEMMA GotoKeeps ==
  ASSUME Inv, NEW f, NEW rest, Stacked(f, rest), f = Top, rest = Tail(agent.stack),
         OthersKeep(f), NEW pc \in Places, agent' = Goto(pc),
         pc \in AtWork => state'[f.run] \in {"RUNNING", "DELIVERY_PENDING"},
         pc \in {"execute", "resume", "prompt", "recordPrompt"} => Waiting(f.run)',
         pc = "execute" => action'[f.run] \in {"CONFIRMED", "COMPLETED"},
         pc = "resume" => action'[f.run] = "COMPLETED",
         pc = "finalize" => action'[f.run] = "REJECTED",
         pc = "think" => ~IsCommand(f.run),
         pc = "resolve" => IsCommand(f.run)
  PROVE  StageInv' /\ StackInv'
<1>1. PICK h \in FrameType : /\ h.run = f.run /\ h.pc = pc
                             /\ agent' = Put(h, rest)
  <2>1. PICK h \in FrameType : /\ h.run = f.run /\ h.pc = pc
                               /\ Goto(pc) = Put(h, rest)
    <3>1. Inv /\ Stacked(f, rest) /\ f = Top /\ rest = Tail(agent.stack) /\ pc \in Places
      OBVIOUS
    <3> QED
      BY ONLY <3>1, GotoFacts
  <2> QED
    BY <2>1
<1>2. agent'.todo = agent.todo
  BY <1>1 DEF Inv, StageInv, Put
<1>3. FrameOK(f) /\ message' = message
  BY DEF Stacked, OthersKeep
<1>4. FrameOK(h)'
  BY <1>1, <1>2, <1>3 DEF FrameOK, IsCommand
<1> QED
  BY <1>1, <1>4, FrameGoes DEF Put

-----------------------------------------------------------------------------
(* The initial state, and the steps of the environment.                    *)

LEMMA NoFrame ==
  ASSUME agent' \in {Cycle, Startup}
  PROVE  StageInv' /\ StackInv'
<1>1. PICK b \in BOOLEAN : agent' = [stage |-> "runs", starting |-> b, todo |-> {},
                                     results |-> {}, stack |-> <<>>]
  BY DEF Cycle, Startup
<1>2. <<>> \in Seq(FrameType)
  OBVIOUS
<1> QED
  BY <1>1, <1>2 DEF StageInv, StackInv, Stages

LEMMA InitInv == Init => Inv
<1> SUFFICES ASSUME Init PROVE Inv
  OBVIOUS
<1>1. RowsInv
  BY ConstantFacts DEF Init, RowsInv, RunStates, DeliveryStates, ActionStates
<1>2. RunsInv
  <2>1. 0 \in 0 .. MaxRuns /\ ArrivedTo(0)
    BY ConstantFacts DEF Init, ArrivedTo
  <2> QED
    BY <2>1, ConstantFacts DEF Init, RunsInv, IsCommand, Question
<1>3. StartedInOrder
  BY DEF Init, StartedInOrder
<1>4. StageInv /\ StackInv
  <2>1. agent = [stage |-> "runs", starting |-> TRUE, todo |-> {},
                 results |-> {}, stack |-> <<>>]
    BY DEF Init, Cycle, Startup
  <2>2. <<>> \in Seq(FrameType)
    OBVIOUS
  <2> QED
    BY <2>1, <2>2 DEF StageInv, StackInv, Stages
<1> QED
  BY <1>1, <1>2, <1>3, <1>4 DEF Inv

\* The message arrives while no other run has the state of a run that is to
\* come, so nothing that has been stored changes.
LEMMA IngestInv ==
  ASSUME Inv, NEW m \in Commands \cup {Question}, Ingest(m)
  PROVE  Inv'
<1>1. PICK n \in 0 .. MaxRuns : ArrivedTo(n)
  BY DEF Inv, RunsInv
<1>2. PICK r \in Runs : r = n + 1
  BY <1>1, ArrivedFacts DEF Ingest
<1>3. PICK x \in {"RUNNING", "QUEUED"} :
        /\ x = (IF m # Question \/ ~(\E s \in Runs : state[s] \in Live)
                  THEN "RUNNING" ELSE "QUEUED")
        /\ state' = [state EXCEPT ![r] = x]
        /\ attempt' = [attempt EXCEPT ![r] = IF x = "RUNNING" THEN 1 ELSE 0]
  BY <1>1, <1>2, ArrivedFacts DEF Ingest
<1>4. /\ message' = [message EXCEPT ![r] = m]
      /\ activeRun' \in Runs \cup {None}
      /\ m # Question => Sendable(m)
      /\ UNCHANGED <<final, delivery, wait, action, executions, actionWait, agent,
                     reached, crashes>>
  BY <1>1, <1>2, ArrivedFacts DEF Ingest, actionVars, Inv, RowsInv
<1>5. state[r] = "NONE" /\ action[r] = "NONE" /\ executions[r] = 0
  <2>1. state[r] = "NONE"
    BY <1>1, <1>2, ConstantFacts DEF ArrivedTo
  <2> QED
    BY <2>1 DEF Inv, RunsInv
<1>6. \A s \in Runs : s # r => /\ state'[s] = state[s] /\ message'[s] = message[s]
                               /\ attempt'[s] = attempt[s]
  BY <1>3, <1>4 DEF Inv, RowsInv
<1>7. state'[r] = x /\ message'[r] = m /\ attempt'[r] = IF x = "RUNNING" THEN 1 ELSE 0
  BY <1>3, <1>4 DEF Inv, RowsInv
<1>8. RowsInv'
  <2>1. 0 \in 0 .. MaxDeliveryAttempts /\ 1 \in 0 .. MaxDeliveryAttempts
    BY ConstantFacts
  <2>2. attempt' \in [Runs -> 0 .. MaxDeliveryAttempts]
    BY <1>3, <2>1 DEF Inv, RowsInv
  <2>3. state' \in [Runs -> RunStates] /\ message' \in [Runs -> Commands \cup {Question}]
    BY <1>3, <1>4 DEF Inv, RowsInv, RunStates
  <2> QED
    BY <1>4, <2>2, <2>3 DEF Inv, RowsInv
<1>9. m.target # None => action[m.target] # "NONE"
  BY <1>4 DEF Sendable, Question
<1>10. RunsInv'
  <2>1. \E k \in 0 .. MaxRuns : ArrivedTo(k)'
    <3>1. n + 1 \in 0 .. MaxRuns
      BY <1>2 DEF Runs
    <3>2. ASSUME NEW s \in Runs PROVE state'[s] = "NONE" <=> s > n + 1
      <4>1. s \in Nat /\ n \in Nat
        BY ConstantFacts
      <4>2. CASE s = r
        BY <1>2, <1>3, <1>7, <4>1, <4>2
      <4>3. CASE s # r
        BY <1>1, <1>2, <1>6, <4>1, <4>3 DEF ArrivedTo
      <4> QED
        BY <4>2, <4>3
    <3> QED
      BY <3>1, <3>2 DEF ArrivedTo
  <2>2. ASSUME NEW s \in Runs
        PROVE  /\ state'[s] \in {"NONE", "QUEUED"} => attempt'[s] = 0 /\ action[s] = "NONE"
               /\ state'[s] \in {"NONE", "QUEUED", "WAITING_USER_CONFIRMATION"} => ~IsCommand(s)'
               /\ IsCommand(s)' => action[s] = "NONE"
               /\ action[s] \in {"PENDING", "CONFIRMED", "FAILED", "EXPIRED"} => Waiting(s)'
               /\ action[s] \in {"NONE", "PENDING", "CONFIRMED"} => executions[s] = 0
               /\ message'[s].target # None => action[message'[s].target] # "NONE"
    <3>1. CASE s = r
      BY <1>3, <1>5, <1>7, <1>9, <3>1 DEF IsCommand, Waiting
    <3>2. CASE s # r
      BY <1>6, <3>2 DEF Inv, RunsInv, IsCommand, Waiting
    <3> QED
      BY <3>1, <3>2
  <2> QED
    BY <1>4, <2>1, <2>2 DEF RunsInv
<1>11. StartedInOrder'
  <2> SUFFICES ASSUME NEW s \in Runs, NEW t \in Runs,
                      state'[s] = "QUEUED", s < t, ~IsCommand(t)'
               PROVE  state'[t] \in {"NONE", "QUEUED"}
    BY DEF StartedInOrder
  <2>1. CASE s = r
    <3>1. t # r /\ t > n
      BY <1>2, <2>1, ConstantFacts
    <3> QED
      BY <1>1, <1>6, <3>1 DEF ArrivedTo
  <2>2. CASE s # r /\ t = r
    <3>1. state[s] \in Live /\ m = Question
      BY <1>6, <1>7, <2>2 DEF Live, IsCommand
    <3> QED
      BY <1>3, <1>7, <2>2, <3>1
  <2>3. CASE s # r /\ t # r
    BY <1>6, <2>3 DEF Inv, StartedInOrder, IsCommand
  <2> QED
    BY <2>1, <2>2, <2>3
<1>12. \A s \in Runs : state[s] # "NONE" => /\ state'[s] = state[s] /\ message'[s] = message[s]
                                            /\ Waiting(s) <=> Waiting(s)'
                                            /\ IsCommand(s) <=> IsCommand(s)'
  BY <1>5, <1>6 DEF Waiting, IsCommand
<1>13. StageInv'
  <2>1. \A s \in Runs : Waiting(s) => Waiting(s)'
    BY <1>12 DEF Waiting
  <2> QED
    BY <1>4, <2>1 DEF Inv, StageInv
<1>14. ASSUME NEW f \in FrameType, FrameOK(f), state[f.run] # "NONE"
       PROVE  FrameOK(f)'
  <2>1. f.run \in Runs
    BY DEF FrameType
  <2>2. state'[f.run] = state[f.run] /\ message'[f.run] = message[f.run]
    BY <1>12, <1>14, <2>1
  <2> QED
    BY <1>4, <1>14, <2>2 DEF FrameOK, Waiting, IsCommand
<1>15. StackInv'
  <2>1. CASE agent.stack = <<>>
    BY <1>4, <2>1 DEF StackInv
  <2>2. CASE \E f \in FrameType : Single(f)
    <3>1. PICK f \in FrameType : Single(f)
      BY <2>2
    <3>2. Stacked(f, <<>>)
      BY <3>1 DEF Single, Stacked
    <3>3. state[f.run] # "NONE"
      BY <3>2, FrameFacts
    <3>4. Single(f)'
      BY <1>4, <1>14, <3>1, <3>3 DEF Single
    <3> QED
      BY <3>4 DEF StackInv
  <2>3. CASE \E f, g \in FrameType : Double(f, g)
    <3>1. PICK f \in FrameType, g \in FrameType : Double(f, g)
      BY <2>3
    <3>2. <<f, g>> = <<f>> \o <<g>>
      BY PairFacts
    <3>3. Stacked(f, <<g>>)
      BY <3>1, <3>2 DEF Double, Stacked
    <3>4. state[f.run] # "NONE" /\ f.run \in Runs
      BY <3>3, FrameFacts
    <3>5. BelowOK(f, g)'
      <4>1. g.run \in Runs /\ state[g.run] # "NONE"
        BY <3>1 DEF Double, BelowOK, FrameType
      <4> QED
        BY <1>4, <1>12, <3>1, <3>4, <4>1 DEF Double, BelowOK
    <3>6. Double(f, g)'
      BY <1>4, <1>14, <3>1, <3>4, <3>5 DEF Double
    <3> QED
      BY <3>6 DEF StackInv
  <2> QED
    BY <2>1, <2>2, <2>3 DEF Inv, StackInv
<1> QED
  BY <1>8, <1>10, <1>11, <1>13, <1>15 DEF Inv

\* A step that leaves the rows the invariant is about alone.
LEMMA SameRows ==
  ASSUME Inv, UNCHANGED <<state, message, action, executions, attempt>>
  PROVE  RunsInv' /\ StartedInOrder'
<1>1. \E n \in 0 .. MaxRuns : ArrivedTo(n)'
  BY DEF Inv, RunsInv, ArrivedTo
<1>2. RunsInv'
  BY <1>1 DEF Inv, RunsInv, IsCommand, Waiting
<1> QED
  BY <1>2 DEF Inv, StartedInOrder, IsCommand

LEMMA SameThread ==
  ASSUME Inv, UNCHANGED <<state, message, action, executions, agent>>
  PROVE  StageInv' /\ StackInv'
<1>1. StageInv'
  BY DEF Inv, StageInv, Waiting
<1>2. \A f \in FrameType : Single(f) => Single(f)'
  BY DEF Single, FrameOK, IsCommand, Waiting
<1>3. \A f, g \in FrameType : Double(f, g) => Double(f, g)'
  BY DEF Double, FrameOK, BelowOK, IsCommand, Waiting
<1> QED
  BY <1>1, <1>2, <1>3 DEF Inv, StackInv

LEMMA ClockInv ==
  ASSUME Inv, NEW r \in Runs, RetryTimeComes(r) \/ ActionRetryTimeComes(r)
  PROVE  Inv'
<1>1. /\ UNCHANGED <<state, message, attempt, final, delivery, activeRun, action,
                     executions, agent, reached, crashes>>
      /\ wait' \in [Runs -> BOOLEAN] /\ actionWait' \in [Runs -> BOOLEAN]
  BY DEF RetryTimeComes, ActionRetryTimeComes, runVars, actionVars, Inv, RowsInv
<1>2. RowsInv'
  BY <1>1 DEF Inv, RowsInv
<1> QED
  BY <1>1, <1>2, SameRows, SameThread DEF Inv

LEMMA CrashInv ==
  ASSUME Inv, Crash
  PROVE  Inv'
<1>1. UNCHANGED <<runVars, actionVars, reached>> /\ agent' \in {Cycle, Startup}
  BY DEF Crash
<1>2. RowsInv'
  <2>1. crashes' \in 0 .. MaxCrashes
    BY ConstantFacts DEF Crash, Inv, RowsInv
  <2> QED
    BY <1>1, <2>1 DEF Inv, RowsInv, runVars, actionVars
<1> QED
  BY <1>1, <1>2, NoFrame, SameRows DEF Inv, runVars, actionVars

-----------------------------------------------------------------------------
(* The stages of a cycle.                                                  *)

\* A run that is failed for its age was running, so it has no decision to wait
\* for.
LEMMA RecoverRunsInv ==
  ASSUME Inv, NEW old \in SUBSET Runs, RecoverRuns(old)
  PROVE  Inv'
<1>1. /\ agent.stack = <<>> /\ agent.stage = "runs"
      /\ \A r \in old : state[r] = "RUNNING"
      /\ state' = [r \in Runs |-> IF r \in old THEN "FAILED" ELSE state[r]]
      /\ wait' \in [Runs -> BOOLEAN]
      /\ UNCHANGED <<message, attempt, final, delivery, activeRun, action, executions,
                     actionWait, reached, crashes>>
      /\ agent' = [agent EXCEPT !.stage = "actions", !.todo = Recoverable]
  BY DEF RecoverRuns, Between, TimedOut, actionVars, Inv, RowsInv
<1>2. \A r \in Runs : /\ state[r] \in {"NONE", "QUEUED", "WAITING_USER_CONFIRMATION"}
                           => state'[r] = state[r]
                      /\ state'[r] \in {"NONE", "QUEUED", "WAITING_USER_CONFIRMATION"}
                           => state[r] = state'[r]
  BY <1>1
<1>3. RowsInv'
  <2>1. state' \in [Runs -> RunStates]
    BY <1>1 DEF Inv, RowsInv, RunStates
  <2> QED
    BY <1>1, <2>1 DEF Inv, RowsInv
<1>4. RunsInv'
  <2>1. \E n \in 0 .. MaxRuns : ArrivedTo(n)'
    <3>1. PICK n \in 0 .. MaxRuns : ArrivedTo(n)
      BY DEF Inv, RunsInv
    <3> QED
      BY <1>2, <3>1 DEF ArrivedTo
  <2> QED
    BY <1>1, <1>2, <2>1 DEF Inv, RunsInv, IsCommand, Waiting
<1>5. StartedInOrder'
  <2>1. \A r \in Runs : state'[r] = "QUEUED" => state[r] = "QUEUED"
    BY <1>2
  <2>2. \A r \in Runs : state[r] \in {"NONE", "QUEUED"} => state'[r] \in {"NONE", "QUEUED"}
    BY <1>2
  <2> QED
    BY <1>1, <2>1, <2>2 DEF Inv, StartedInOrder, IsCommand
<1>6. StageInv'
  <2>1. /\ agent.results = {} /\ Recoverable \in SUBSET Runs
        /\ agent' \in [stage : Stages, starting : BOOLEAN, todo : SUBSET Runs,
                       results : SUBSET Runs, stack : Seq(FrameType)]
    BY <1>1 DEF Inv, StageInv, Stages, Recoverable
  <2>2. agent'.stage = "actions" /\ agent'.stack = <<>> /\ agent'.results = {}
        /\ agent'.todo = Recoverable
    BY <1>1, <2>1 DEF Inv, StageInv
  <2> QED
    BY <1>1, <2>1, <2>2 DEF StageInv, Recoverable
<1>7. StackInv'
  BY <1>1 DEF StackInv, Inv, StageInv
<1> QED
  BY <1>3, <1>4, <1>5, <1>6, <1>7 DEF Inv

LEMMA ExecuteRecoveredInv ==
  ASSUME Inv, NEW r \in Runs, ExecuteRecovered(r)
  PROVE  Inv'
<1>1. /\ agent.stack = <<>> /\ agent.stage = "actions" /\ r \in agent.todo
      /\ UNCHANGED <<state, message, attempt, final, delivery, wait, activeRun, reached, crashes>>
      /\ agent'.stack = <<>> /\ agent'.stage = "actions"
      /\ agent'.todo = agent.todo \ {r}
      /\ agent' \in [stage : Stages, starting : BOOLEAN, todo : SUBSET Runs,
                     results : SUBSET Runs, stack : Seq(FrameType)]
  BY DEF ExecuteRecovered, Between, runVars, Inv, StageInv
<1>2. /\ \/ action[r] = "CONFIRMED"
         \/ action[r] = "FAILED" /\ executions[r] < MaxExecutions
      /\ Waiting(r)
      /\ executions[r] \in Nat /\ executions[r] < MaxExecutions
  <2>1. \/ action[r] = "CONFIRMED"
        \/ action[r] = "FAILED" /\ executions[r] < MaxExecutions
    BY <1>1 DEF Inv, StageInv
  <2>2. Waiting(r) /\ (action[r] = "CONFIRMED" => executions[r] = 0)
    BY <2>1 DEF Inv, RunsInv
  <2>3. executions[r] \in Nat
    BY ConstantFacts DEF Inv, RowsInv
  <2> QED
    BY <2>1, <2>2, <2>3, ConstantFacts
<1>3. \/ /\ action' = [action EXCEPT ![r] = "COMPLETED"]
         /\ agent'.results = agent.results \cup {r}
         /\ UNCHANGED <<executions, actionWait>>
      \/ /\ action' = [action EXCEPT ![r] = "FAILED"]
         /\ agent'.results = agent.results
         /\ executions' = [executions EXCEPT ![r] = executions[r] + 1]
         /\ actionWait' = [actionWait EXCEPT ![r] = TRUE]
  BY DEF ExecuteRecovered, Inv, StageInv
<1>4. PICK x \in {"COMPLETED", "FAILED"} : action' = [action EXCEPT ![r] = x]
  BY <1>3
<1>5. \A s \in Runs : s # r => executions'[s] = executions[s]
  BY <1>3 DEF Inv, RowsInv
<1>6. action' \in [Runs -> ActionStates] /\ RunsInv' /\ StartedInOrder'
  <2>1. x \in ActionStates \ {"NONE"}
    BY DEF ActionStates
  <2> QED
    BY <1>1, <1>2, <1>4, <1>5, <2>1, ActionGoes
<1>7. RowsInv'
  <2>1. executions' \in [Runs -> 0 .. MaxExecutions]
    <3>1. executions[r] + 1 \in 0 .. MaxExecutions
      BY <1>2, ConstantFacts
    <3> QED
      BY <1>3, <3>1 DEF Inv, RowsInv
  <2>2. actionWait' \in [Runs -> BOOLEAN]
    BY <1>3 DEF Inv, RowsInv
  <2> QED
    BY <1>1, <1>6, <2>1, <2>2 DEF Inv, RowsInv
<1>8. StageInv'
  <2>1. \A s \in Runs : s # r => action'[s] = action[s]
    BY <1>4 DEF Inv, RowsInv
  <2>2. \A s \in agent'.todo : \/ action'[s] = "CONFIRMED"
                               \/ action'[s] = "FAILED" /\ executions'[s] < MaxExecutions
    <3> SUFFICES ASSUME NEW s \in agent'.todo
                 PROVE  \/ action'[s] = "CONFIRMED"
                        \/ action'[s] = "FAILED" /\ executions'[s] < MaxExecutions
      OBVIOUS
    <3>1. s \in Runs /\ s # r /\ s \in agent.todo
      BY <1>1 DEF Inv, StageInv
    <3> QED
      BY <1>1, <1>5, <2>1, <3>1 DEF Inv, StageInv
  <2>3. \A s \in agent'.results : Waiting(s)' /\ action'[s] = "COMPLETED"
    <3> SUFFICES ASSUME NEW s \in agent'.results
                 PROVE  Waiting(s)' /\ action'[s] = "COMPLETED"
      OBVIOUS
    <3>1. s \in Runs
      BY <1>1
    <3>2. r \notin agent.results
      BY <1>1, <1>2 DEF Inv, StageInv
    <3>3. CASE s = r
      <4>1. action' = [action EXCEPT ![r] = "COMPLETED"]
        BY <1>3, <3>2, <3>3
      <4> QED
        BY <1>1, <1>2, <3>3, <4>1 DEF Inv, RowsInv, Waiting
    <3>4. CASE s # r
      <4>1. s \in agent.results
        BY <1>3, <3>4
      <4> QED
        BY <1>1, <2>1, <3>1, <3>4, <4>1 DEF Inv, StageInv, Waiting
    <3> QED
      BY <3>3, <3>4
  <2> QED
    BY <1>1, <2>2, <2>3 DEF StageInv
<1>9. StackInv'
  BY <1>1 DEF StackInv
<1> QED
  BY <1>6, <1>7, <1>8, <1>9 DEF Inv

LEMMA EndActionsInv ==
  ASSUME Inv, EndActions
  PROVE  Inv'
<1>1. UNCHANGED <<runVars, actionVars, reached, crashes>>
  BY DEF EndActions
<1>2. RowsInv' /\ RunsInv' /\ StartedInOrder'
  BY <1>1, SameRows DEF Inv, RowsInv, runVars, actionVars
<1>3. CASE agent.starting
  BY <1>2, <1>3, NoFrame DEF EndActions, Inv
<1>4. CASE ~agent.starting
  <2>1. agent.stack = <<>> /\ agent.stage = "actions"
        /\ agent' = [agent EXCEPT !.stage = "resume", !.todo = agent.results]
    BY <1>4 DEF EndActions, Between
  <2>2. /\ agent'.stage = "resume" /\ agent'.todo = agent.results /\ agent'.stack = <<>>
        /\ agent' \in [stage : Stages, starting : BOOLEAN, todo : SUBSET Runs,
                       results : SUBSET Runs, stack : Seq(FrameType)]
    BY <2>1 DEF Inv, StageInv, Stages
  <2>3. \A r \in agent.results : Waiting(r) /\ action[r] = "COMPLETED"
    BY <2>1 DEF Inv, StageInv
  <2>4. StageInv' /\ StackInv'
    BY <1>1, <2>2, <2>3 DEF StageInv, StackInv, Waiting, runVars, actionVars
  <2> QED
    BY <1>2, <2>4 DEF Inv
<1> QED
  BY <1>3, <1>4 DEF Inv, StageInv

LEMMA EndResumeInv ==
  ASSUME Inv, EndResume
  PROVE  Inv'
<1>1. /\ UNCHANGED <<runVars, actionVars, reached, crashes>>
      /\ agent.stack = <<>>
      /\ agent' = [agent EXCEPT !.stage = "reconcile", !.todo = Reconcilable]
  BY DEF EndResume, Between
<1>2. RowsInv' /\ RunsInv' /\ StartedInOrder'
  BY <1>1, SameRows DEF Inv, RowsInv, runVars, actionVars
<1>3. /\ agent'.stage = "reconcile" /\ agent'.todo = Reconcilable /\ agent'.stack = <<>>
      /\ agent' \in [stage : Stages, starting : BOOLEAN, todo : SUBSET Runs,
                     results : SUBSET Runs, stack : Seq(FrameType)]
  BY <1>1 DEF Inv, StageInv, Stages, Reconcilable
<1>4. StageInv' /\ StackInv'
  BY <1>1, <1>3 DEF StageInv, StackInv, Waiting, Reconcilable, runVars, actionVars
<1> QED
  BY <1>2, <1>4 DEF Inv

\* The scan counts an attempt of the runs that wait, none of which is queued.
LEMMA SelectPromptsInv ==
  ASSUME Inv, SelectPrompts
  PROVE  Inv'
<1>1. /\ attempt' = [r \in Runs |-> IF r \in Unprompted THEN attempt[r] + 1 ELSE attempt[r]]
      /\ agent.stack = <<>>
      /\ agent' = [agent EXCEPT !.stage = "prompts", !.todo = Unprompted]
      /\ UNCHANGED <<state, message, final, delivery, wait, activeRun, action, executions,
                     actionWait, reached, crashes>>
  BY DEF SelectPrompts, Between, actionVars
<1>2. \A r \in Unprompted : Waiting(r) /\ attempt[r] < MaxDeliveryAttempts
  BY DEF Unprompted
<1>3. attempt' \in [Runs -> 0 .. MaxDeliveryAttempts]
  <2>1. ASSUME NEW r \in Runs
        PROVE  (IF r \in Unprompted THEN attempt[r] + 1 ELSE attempt[r])
                 \in 0 .. MaxDeliveryAttempts
    <3>1. attempt[r] \in 0 .. MaxDeliveryAttempts
      BY DEF Inv, RowsInv
    <3> QED
      BY <1>2, <3>1, ConstantFacts
  <2> QED
    BY <1>1, <2>1
<1>4. RowsInv'
  BY <1>1, <1>3 DEF Inv, RowsInv
<1>5. RunsInv'
  <2>1. \A r \in Runs : state[r] \in {"NONE", "QUEUED"} => attempt'[r] = attempt[r]
    BY <1>1, <1>2 DEF Waiting
  <2>2. \E n \in 0 .. MaxRuns : ArrivedTo(n)'
    BY <1>1 DEF Inv, RunsInv, ArrivedTo
  <2> QED
    BY <1>1, <2>1, <2>2 DEF Inv, RunsInv, IsCommand, Waiting
<1>6. StartedInOrder'
  BY <1>1 DEF Inv, StartedInOrder, IsCommand
<1>7. /\ agent'.stage = "prompts" /\ agent'.todo = Unprompted /\ agent'.stack = <<>>
      /\ agent' \in [stage : Stages, starting : BOOLEAN, todo : SUBSET Runs,
                     results : SUBSET Runs, stack : Seq(FrameType)]
  BY <1>1 DEF Inv, StageInv, Stages, Unprompted
<1>8. StageInv' /\ StackInv'
  BY <1>1, <1>2, <1>7 DEF StageInv, StackInv, Waiting
<1> QED
  BY <1>4, <1>5, <1>6, <1>8 DEF Inv

LEMMA FrameIs ==
  ASSUME NEW r \in Runs, NEW pc \in Places
  PROVE  \E f \in FrameType : f = Frame(r, pc) /\ f.run = r /\ f.pc = pc /\ f.outcome = "NONE"
<1>1. PICK f : f = [run |-> r, pc |-> pc, outcome |-> "NONE"]
  OBVIOUS
<1>2. f \in FrameType
  BY <1>1 DEF FrameType, Places
<1> QED
  BY <1>1, <1>2 DEF Frame

\* A run that is taken up is in the state the stage has selected.
LEMMA CallInv ==
  ASSUME Inv, NEW r \in agent.todo, agent.stack = <<>>, agent.stage # "actions",
         Waiting(r),
         NEW pc \in {"execute", "finalize", "prompt"},
         pc = "execute" => action[r] = "COMPLETED",
         pc = "finalize" => action[r] = "REJECTED",
         agent' = Call(r, pc),
         UNCHANGED <<runVars, actionVars, reached, crashes>>
  PROVE  Inv'
<1>1. RowsInv' /\ RunsInv' /\ StartedInOrder'
  BY SameRows DEF Inv, RowsInv, runVars, actionVars
<1>2. PICK f \in FrameType : f = Frame(r, pc) /\ f.run = r /\ f.pc = pc
  <2>1. r \in Runs /\ pc \in Places
    BY DEF Places, Inv, StageInv
  <2> QED
    BY <2>1, FrameIs
<1>3. agent' = [agent EXCEPT !.todo = agent.todo \ {r}, !.stack = <<f>>]
  BY <1>2 DEF Call
<1>4. /\ agent'.todo = agent.todo \ {r} /\ agent'.stage = agent.stage
      /\ agent'.results = agent.results /\ agent'.stack = <<f>>
      /\ agent' \in [stage : Stages, starting : BOOLEAN, todo : SUBSET Runs,
                     results : SUBSET Runs, stack : Seq(FrameType)]
  <2>1. <<f>> \in Seq(FrameType)
    OBVIOUS
  <2> QED
    BY <1>3, <2>1 DEF Inv, StageInv
<1>5. StageInv'
  BY <1>4 DEF Inv, StageInv, Waiting, runVars, actionVars
<1>6. ~IsCommand(r)
  BY DEF Inv, RunsInv, StageInv, Waiting
<1>7. FrameOK(f)'
  BY <1>2, <1>4, <1>6 DEF FrameOK, AtWork, IsCommand, Waiting, runVars, actionVars
<1> QED
  BY <1>1, <1>4, <1>5, <1>7 DEF Inv, StackInv, Single

LEMMA ResumeNextInv ==
  ASSUME Inv, NEW r \in Runs, ResumeNext(r)
  PROVE  Inv'
<1>1. /\ agent.stack = <<>> /\ agent.stage = "resume" /\ r \in agent.todo
      /\ agent' = Call(r, "execute")
      /\ UNCHANGED <<runVars, actionVars, reached, crashes>>
  BY DEF ResumeNext, Between
<1>2. Waiting(r) /\ action[r] = "COMPLETED"
  BY <1>1 DEF Inv, StageInv
<1> QED
  BY <1>1, <1>2, CallInv

LEMMA ReconcileNextInv ==
  ASSUME Inv, NEW r \in Runs, ReconcileNext(r)
  PROVE  Inv'
<1>1. /\ agent.stack = <<>> /\ agent.stage = "reconcile" /\ r \in agent.todo
      /\ agent' = Call(r, IF action[r] = "COMPLETED" THEN "execute" ELSE "finalize")
      /\ UNCHANGED <<runVars, actionVars, reached, crashes>>
  BY DEF ReconcileNext, Between
<1>2. Waiting(r) /\ action[r] \in {"COMPLETED", "REJECTED"}
  BY <1>1 DEF Inv, StageInv
<1>3. CASE action[r] = "COMPLETED"
  <2>1. agent' = Call(r, "execute")
    BY <1>1, <1>3
  <2> QED
    BY <1>1, <1>2, <1>3, <2>1, CallInv
<1>4. CASE action[r] = "REJECTED"
  <2>1. agent' = Call(r, "finalize")
    BY <1>1, <1>4
  <2> QED
    BY <1>1, <1>2, <1>4, <2>1, CallInv
<1> QED
  BY <1>2, <1>3, <1>4

LEMMA PromptNextInv ==
  ASSUME Inv, NEW r \in Runs, PromptNext(r)
  PROVE  Inv'
<1>1. /\ agent.stack = <<>> /\ agent.stage = "prompts" /\ r \in agent.todo
      /\ agent' = Call(r, "prompt")
      /\ UNCHANGED <<runVars, actionVars, reached, crashes>>
  BY DEF PromptNext, Between
<1>2. Waiting(r)
  BY <1>1 DEF Inv, StageInv
<1> QED
  BY <1>1, <1>2, CallInv

\* A queued run is live itself, so the scan claims none (pick_run).
LEMMA NothingClaimable == Claimable = {}
BY DEF Claimable, Queued, Live

LEMMA PickRunInv ==
  ASSUME Inv, PickRun
  PROVE  Inv'
<1>1. /\ UNCHANGED <<runVars, actionVars, reached, crashes>>
      /\ agent' = IF Due = {} THEN Cycle
                  ELSE [Cycle EXCEPT !.stack = <<Frame(Oldest(Due), "begin")>>]
  <2>1. UNCHANGED <<state, attempt, message, final, delivery, wait, activeRun, actionVars,
                    reached, crashes>>
    BY NothingClaimable DEF PickRun
  <2>2. agent' = IF Due = {} THEN Cycle
                 ELSE [Cycle EXCEPT !.stack = <<Frame(Oldest(Due), "begin")>>]
    BY NothingClaimable DEF PickRun
  <2> QED
    BY <2>1, <2>2 DEF runVars
<1>2. RowsInv' /\ RunsInv' /\ StartedInOrder'
  BY <1>1, SameRows DEF Inv, RowsInv, runVars, actionVars
<1>3. CASE Due = {}
  <2>1. agent' = Cycle
    BY <1>1, <1>3
  <2> QED
    BY <1>2, <2>1, NoFrame DEF Inv
<1>4. CASE Due # {}
  <2>1. PICK r \in Runs : r = Oldest(Due) /\ state[r] \in {"RUNNING", "DELIVERY_PENDING"}
    <3>1. Due \in SUBSET Runs
      BY DEF Due
    <3>2. Oldest(Due) \in Due
      BY <1>4, <3>1, OldestFacts
    <3> QED
      BY <3>2 DEF Due
  <2>2. PICK f \in FrameType : f = Frame(r, "begin") /\ f.run = r /\ f.pc = "begin"
    <3>1. "begin" \in Places
      BY DEF Places
    <3> QED
      BY <3>1, FrameIs
  <2>3. agent' = [stage |-> "runs", starting |-> FALSE, todo |-> {}, results |-> {},
                  stack |-> <<f>>]
    BY <1>1, <1>4, <2>1, <2>2 DEF Cycle
  <2>4. StageInv'
    <3>1. <<f>> \in Seq(FrameType)
      OBVIOUS
    <3> QED
      BY <2>3, <3>1 DEF StageInv, Stages
  <2>5. FrameOK(f)'
    BY <1>1, <2>1, <2>2, <2>3 DEF FrameOK, AtWork, runVars
  <2> QED
    BY <1>2, <2>3, <2>4, <2>5 DEF Inv, StackInv, Single
<1> QED
  BY <1>3, <1>4

-----------------------------------------------------------------------------
(* Processing a run: beginning it, the LLM, and delivering its answer.     *)

LEMMA GoesKeeps ==
  ASSUME Inv, NEW f, NEW x, NEW q, Goes(f.run, x, q), UNCHANGED <<message, action>>
  PROVE  OthersKeep(f)
<1> SUFFICES ASSUME NEW s \in Runs, s # f.run
             PROVE  /\ Waiting(s) => Waiting(s)'
                    /\ IsCommand(s) => state'[s] = state[s]
  BY DEF OthersKeep
<1>1. state[s] # "QUEUED" => state'[s] = state[s]
  BY ConstantFacts DEF Goes, Queued
<1>2. IsCommand(s) => state[s] # "QUEUED"
  BY DEF Inv, RunsInv
<1> QED
  BY <1>1, <1>2 DEF Waiting

LEMMA UnchangedKeeps ==
  ASSUME NEW f, UNCHANGED <<state, message, action>>
  PROVE  OthersKeep(f)
BY DEF OthersKeep, Waiting, IsCommand

\* The end of a run starts the oldest queued one, for the first time.
LEMMA ReleaseFacts ==
  ASSUME Inv, NEW r \in Runs, NEW x, Release(r, x)
  PROVE  \E q \in Runs \cup {None} :
           /\ q = None \/ (q \in Queued /\ \A s \in Queued : q <= s)
           /\ state' = [s \in Runs |-> IF s = r THEN x
                                       ELSE IF s = q THEN "RUNNING" ELSE state[s]]
           /\ attempt' \in [Runs -> 0 .. MaxDeliveryAttempts]
           /\ \A s \in Runs : s # q => attempt'[s] = attempt[s]
           /\ activeRun' = q
<1>1. PICK q : q = IF Queued = {} THEN None ELSE Oldest(Queued)
  OBVIOUS
<1>2. /\ state' = [s \in Runs |-> IF s = r THEN x
                                  ELSE IF s = q THEN "RUNNING" ELSE state[s]]
      /\ attempt' = [s \in Runs |-> IF s = q THEN attempt[s] + 1 ELSE attempt[s]]
      /\ activeRun' = q
  BY <1>1 DEF Release
<1>3. q = None \/ (q \in Queued /\ \A s \in Queued : q <= s)
  <2>1. Queued \in SUBSET Runs
    BY DEF Queued
  <2> QED
    BY <1>1, <2>1, OldestFacts
<1>4. q \in Runs \cup {None}
  BY <1>3 DEF Queued
<1>5. attempt' \in [Runs -> 0 .. MaxDeliveryAttempts]
  <2>1. ASSUME NEW s \in Runs
        PROVE  (IF s = q THEN attempt[s] + 1 ELSE attempt[s]) \in 0 .. MaxDeliveryAttempts
    <3>1. attempt[s] \in 0 .. MaxDeliveryAttempts
      BY DEF Inv, RowsInv
    <3>2. s = q => attempt[s] = 0
      BY <1>3, ConstantFacts DEF Queued, Inv, RunsInv
    <3> QED
      BY <3>1, <3>2, ConstantFacts
  <2> QED
    BY <1>2, <2>1
<1> QED
  BY <1>2, <1>3, <1>4, <1>5

\* An ordinary run ends.
LEMMA ReleaseInv ==
  ASSUME Inv, NEW f, NEW rest, Stacked(f, rest), f = Top, rest = Tail(agent.stack),
         NEW x \in {"COMPLETED", "FAILED"}, Release(f.run, x),
         f.pc \in AtWork,
         agent' = Return, wait' \in [Runs -> BOOLEAN],
         UNCHANGED <<message, final, delivery, actionVars, reached, crashes>>
  PROVE  Inv'
<1>1. f.run \in Runs /\ state[f.run] \in {"RUNNING", "DELIVERY_PENDING"}
  BY FrameFacts DEF Stacked, FrameOK
<1>2. PICK q \in Runs \cup {None} :
         /\ q = None \/ (q \in Queued /\ \A s \in Queued : q <= s)
         /\ state' = [s \in Runs |-> IF s = f.run THEN x
                                     ELSE IF s = q THEN "RUNNING" ELSE state[s]]
         /\ attempt' \in [Runs -> 0 .. MaxDeliveryAttempts]
         /\ \A s \in Runs : s # q => attempt'[s] = attempt[s]
         /\ activeRun' = q
  BY <1>1, ReleaseFacts
<1>3. action[f.run] \notin {"PENDING", "CONFIRMED", "FAILED", "EXPIRED"}
  BY <1>1 DEF Inv, RunsInv, Waiting
<1>4. Goes(f.run, x, q)
  BY <1>1, <1>2, <1>3 DEF Goes, RunStates
<1>5. state' \in [Runs -> RunStates] /\ RunsInv' /\ StartedInOrder'
  BY <1>4, RunGoes DEF actionVars
<1>6. OthersKeep(f)
  BY <1>4, GoesKeeps DEF actionVars
<1>7. StageInv' /\ StackInv'
  <2>1. agent' = [agent EXCEPT !.stack = rest]
    BY DEF Return
  <2> QED
    BY <1>6, <2>1, FrameReturns
<1>8. RowsInv'
  BY <1>2, <1>5 DEF Inv, RowsInv, actionVars
<1> QED
  BY <1>5, <1>7, <1>8 DEF Inv

\* Where a run goes on is a place for it.
LEMMA LoadedFacts ==
  ASSUME NEW r
  PROVE  /\ LoadedAt(r) \in Places /\ LoadedAt(r) \in {"answer", "resolve", "think"}
         /\ LoadedAt(r) = "think" => ~IsCommand(r)
         /\ LoadedAt(r) = "resolve" => IsCommand(r)
BY DEF LoadedAt, Places

LEMMA PlaceFacts ==
  /\ {"begin", "answer", "push", "record", "prompt", "recordPrompt", "resume"} \subseteq Places
  /\ {"begin", "think", "answer", "push", "record", "resolve"} = AtWork
BY DEF Places, AtWork

LEMMA AtTop ==
  ASSUME Inv, NEW pc, At(pc)
  PROVE  \E f, rest : Stacked(f, rest) /\ f = Top /\ rest = Tail(agent.stack) /\ f.pc = pc
<1>1. agent.stack # <<>> /\ Top.pc = pc
  BY DEF At
<1> QED
  BY <1>1, TopFacts

\* A step that changes nothing of the rows, to another place of the same run.
LEMMA OnlyGoto ==
  ASSUME Inv, NEW f, NEW rest, Stacked(f, rest), f = Top, rest = Tail(agent.stack),
         f.pc \in AtWork,
         NEW pc \in {"begin", "think", "answer", "push", "record", "resolve"},
         pc = "think" => ~IsCommand(f.run),
         pc = "resolve" => IsCommand(f.run),
         agent' = Goto(pc), UNCHANGED <<runVars, actionVars, reached, crashes>>
  PROVE  Inv'
<1>1. RowsInv' /\ RunsInv' /\ StartedInOrder'
  BY SameRows DEF Inv, RowsInv, runVars, actionVars
<1>2. OthersKeep(f)
  BY UnchangedKeeps DEF runVars, actionVars
<1>3. state'[f.run] \in {"RUNNING", "DELIVERY_PENDING"}
  BY DEF Stacked, FrameOK, runVars
<1>4. pc \in Places /\ pc \notin {"execute", "resume", "prompt", "recordPrompt", "finalize"}
  BY DEF Places
<1>5. StageInv' /\ StackInv'
  BY <1>2, <1>3, <1>4, GotoKeeps
<1> QED
  BY <1>1, <1>5 DEF Inv

LEMMA BeginRunningInv ==
  ASSUME Inv, BeginRunning
  PROVE  Inv'
<1>1. PICK f, rest : Stacked(f, rest) /\ f = Top /\ rest = Tail(agent.stack) /\ f.pc = "begin"
  BY AtTop DEF BeginRunning
<1>2. agent' = Goto(LoadedAt(f.run)) /\ UNCHANGED <<runVars, actionVars, reached, crashes>>
  BY <1>1 DEF BeginRunning
<1>3. PICK pc \in {"answer", "resolve", "think"} :
        /\ pc = LoadedAt(f.run) /\ (pc = "think" => ~IsCommand(f.run))
        /\ (pc = "resolve" => IsCommand(f.run))
  BY LoadedFacts
<1> QED
  BY <1>1, <1>2, <1>3, OnlyGoto, PlaceFacts

LEMMA BeginAttemptInv ==
  ASSUME Inv, BeginAttempt
  PROVE  Inv'
<1>1. PICK f, rest : Stacked(f, rest) /\ f = Top /\ rest = Tail(agent.stack) /\ f.pc = "begin"
  BY AtTop DEF BeginAttempt
<1>2. /\ agent' = Goto(LoadedAt(f.run)) /\ state[f.run] = "DELIVERY_PENDING"
      /\ ~Exhausted(f.run)
      /\ attempt' = [attempt EXCEPT ![f.run] = attempt[f.run] + 1]
      /\ UNCHANGED <<state, message, final, delivery, wait, activeRun, action, executions,
                     actionWait, reached, crashes>>
  BY <1>1 DEF BeginAttempt, actionVars
<1>3. PICK pc \in Places :
        /\ pc = LoadedAt(f.run) /\ (pc = "think" => ~IsCommand(f.run))
        /\ (pc = "resolve" => IsCommand(f.run))
        /\ pc \in {"answer", "resolve", "think"}
  BY LoadedFacts
<1>4. f.run \in Runs
  BY <1>1, FrameFacts
<1>5. RowsInv'
  <2>1. attempt[f.run] \in 0 .. MaxDeliveryAttempts /\ ~(attempt[f.run] >= MaxDeliveryAttempts)
    BY <1>2, <1>4 DEF Exhausted, Inv, RowsInv
  <2>2. attempt[f.run] + 1 \in 0 .. MaxDeliveryAttempts
    BY <2>1, ConstantFacts
  <2>3. attempt' \in [Runs -> 0 .. MaxDeliveryAttempts]
    BY <1>2, <2>2 DEF Inv, RowsInv
  <2> QED
    BY <1>2, <2>3 DEF Inv, RowsInv
<1>6. RunsInv' /\ StartedInOrder'
  <2>1. state' = [state EXCEPT ![f.run] = "DELIVERY_PENDING"]
    BY <1>2, <1>4 DEF Inv, RowsInv
  <2>2. \A s \in Runs : state[s] \in {"NONE", "QUEUED"} => attempt'[s] = attempt[s]
    BY <1>2 DEF Inv, RowsInv
  <2>3. action[f.run] \notin {"PENDING", "CONFIRMED", "FAILED", "EXPIRED"}
    BY <1>2, <1>4 DEF Inv, RunsInv, Waiting
  <2>4. "DELIVERY_PENDING" \in RunStates \ {"NONE", "QUEUED"}
    BY DEF RunStates
  <2> QED
    BY <1>2, <1>4, <2>1, <2>2, <2>3, <2>4, RunGoesAlone
<1>7. StageInv' /\ StackInv'
  <2>1. OthersKeep(f)
    BY <1>2, UnchangedKeeps
  <2>2. /\ state'[f.run] \in {"RUNNING", "DELIVERY_PENDING"}
        /\ pc \notin {"execute", "resume", "prompt", "recordPrompt", "finalize"}
        /\ agent' = Goto(pc)
    BY <1>2, <1>3
  <2> QED
    BY <1>1, <1>3, <2>1, <2>2, GotoKeeps
<1> QED
  BY <1>5, <1>6, <1>7 DEF Inv

\* A run goes over to a state, no other is started, and it leaves the stack.
LEMMA AloneEnds ==
  ASSUME Inv, NEW f, NEW rest, Stacked(f, rest), f = Top, rest = Tail(agent.stack),
         f.pc \in AtWork,
         NEW x \in {"DELIVERY_PENDING", "COMPLETED", "FAILED"},
         state' = [state EXCEPT ![f.run] = x],
         attempt' \in [Runs -> 0 .. MaxDeliveryAttempts],
         \A s \in Runs : state[s] \in {"NONE", "QUEUED"} => attempt'[s] = attempt[s],
         activeRun' \in Runs \cup {None},
         agent' = Return, wait' \in [Runs -> BOOLEAN],
         UNCHANGED <<message, final, delivery, actionVars, reached, crashes>>
  PROVE  Inv'
<1>1. f.run \in Runs /\ state[f.run] \in {"RUNNING", "DELIVERY_PENDING"}
  BY FrameFacts DEF Stacked, FrameOK
<1>2. action[f.run] \notin {"PENDING", "CONFIRMED", "FAILED", "EXPIRED"}
  BY <1>1 DEF Inv, RunsInv, Waiting
<1>3. x \in RunStates \ {"NONE", "QUEUED"}
  BY DEF RunStates
<1>4. state' = [s \in Runs |-> IF s = f.run THEN x
                               ELSE IF s = None THEN "RUNNING" ELSE state[s]]
  BY <1>1, ConstantFacts DEF Inv, RowsInv
<1>5. Goes(f.run, x, None)
  BY <1>1, <1>2, <1>3, <1>4 DEF Goes
<1>6. state' \in [Runs -> RunStates] /\ RunsInv' /\ StartedInOrder'
  BY <1>5, RunGoes DEF actionVars
<1>7. StageInv' /\ StackInv'
  <2>1. agent' = [agent EXCEPT !.stack = rest]
    BY DEF Return
  <2>2. OthersKeep(f)
    BY <1>5, GoesKeeps DEF actionVars
  <2> QED
    BY <2>1, <2>2, FrameReturns
<1>8. RowsInv'
  BY <1>6 DEF Inv, RowsInv, actionVars
<1> QED
  BY <1>6, <1>7, <1>8 DEF Inv

\* ... with nothing else changed.
LEMMA AloneReturns ==
  ASSUME Inv, NEW f, NEW rest, Stacked(f, rest), f = Top, rest = Tail(agent.stack),
         f.pc \in AtWork,
         NEW x \in {"DELIVERY_PENDING", "COMPLETED", "FAILED"},
         state' = [state EXCEPT ![f.run] = x],
         agent' = Return, wait' \in [Runs -> BOOLEAN],
         UNCHANGED <<message, attempt, final, delivery, activeRun, actionVars,
                     reached, crashes>>
  PROVE  Inv'
<1>1. /\ attempt' \in [Runs -> 0 .. MaxDeliveryAttempts]
      /\ \A s \in Runs : state[s] \in {"NONE", "QUEUED"} => attempt'[s] = attempt[s]
      /\ activeRun' \in Runs \cup {None}
  BY DEF Inv, RowsInv
<1> QED
  BY <1>1, AloneEnds

LEMMA LoadFailsInv ==
  ASSUME Inv, LoadFails
  PROVE  Inv'
<1>1. PICK f, rest : Stacked(f, rest) /\ f = Top /\ rest = Tail(agent.stack) /\ f.pc = "begin"
  BY AtTop DEF LoadFails
<1>2. /\ agent' = Return
      /\ state' = [state EXCEPT ![f.run] = "FAILED"]
      /\ activeRun' = IF activeRun = f.run THEN None ELSE activeRun
      /\ UNCHANGED <<message, final, delivery, wait, actionVars, reached, crashes>>
      /\ \/ state[f.run] = "RUNNING" /\ attempt' = attempt
         \/ /\ state[f.run] = "DELIVERY_PENDING" /\ ~Exhausted(f.run)
            /\ attempt' = [attempt EXCEPT ![f.run] = attempt[f.run] + 1]
  BY <1>1 DEF LoadFails
<1>3. f.run \in Runs
  BY <1>1, FrameFacts
<1>4. attempt' \in [Runs -> 0 .. MaxDeliveryAttempts]
  <2>1. CASE attempt' = attempt
    BY <2>1 DEF Inv, RowsInv
  <2>2. CASE /\ ~Exhausted(f.run)
             /\ attempt' = [attempt EXCEPT ![f.run] = attempt[f.run] + 1]
    <3>1. attempt[f.run] \in 0 .. MaxDeliveryAttempts /\ ~(attempt[f.run] >= MaxDeliveryAttempts)
      BY <1>3, <2>2 DEF Exhausted, Inv, RowsInv
    <3>2. attempt[f.run] + 1 \in 0 .. MaxDeliveryAttempts
      BY <3>1, ConstantFacts
    <3> QED
      BY <2>2, <3>2 DEF Inv, RowsInv
  <2> QED
    BY <1>2, <2>1, <2>2
<1>5. \A s \in Runs : state[s] \in {"NONE", "QUEUED"} => attempt'[s] = attempt[s]
  BY <1>2 DEF Inv, RowsInv
<1>6. activeRun' \in Runs \cup {None} /\ wait' \in [Runs -> BOOLEAN]
  BY <1>2 DEF Inv, RowsInv
<1> QED
  BY <1>1, <1>2, <1>4, <1>5, <1>6, AloneEnds, PlaceFacts

LEMMA BeginExhaustedInv ==
  ASSUME Inv, BeginExhausted
  PROVE  Inv'
<1>1. PICK f, rest : Stacked(f, rest) /\ f = Top /\ rest = Tail(agent.stack) /\ f.pc = "begin"
  BY AtTop DEF BeginExhausted
<1>2. /\ agent' = Return
      /\ UNCHANGED <<message, final, delivery, wait, actionVars, reached, crashes>>
      /\ wait' \in [Runs -> BOOLEAN]
      /\ IF activeRun = f.run
           THEN Release(f.run, "FAILED")
           ELSE state' = [state EXCEPT ![f.run] = "FAILED"] /\ UNCHANGED <<attempt, activeRun>>
  BY <1>1 DEF BeginExhausted, Inv, RowsInv
<1>3. CASE activeRun = f.run
  BY <1>1, <1>2, <1>3, ReleaseInv, PlaceFacts
<1>4. CASE activeRun # f.run
  BY <1>1, <1>2, <1>4, AloneReturns, PlaceFacts
<1> QED
  BY <1>3, <1>4

LEMMA ThinkAnswerInv ==
  ASSUME Inv, ThinkAnswer
  PROVE  Inv'
<1>1. PICK f, rest : Stacked(f, rest) /\ f = Top /\ rest = Tail(agent.stack) /\ f.pc = "think"
  BY AtTop DEF ThinkAnswer
<1>2. agent' = Goto("answer") /\ UNCHANGED <<runVars, actionVars, reached, crashes>>
  BY DEF ThinkAnswer
<1> QED
  BY <1>1, <1>2, OnlyGoto, PlaceFacts

\* The run waits for the decision about an action that did not exist before.
LEMMA ThinkProposeInv ==
  ASSUME Inv, ThinkPropose
  PROVE  Inv'
<1>1. PICK f, rest : Stacked(f, rest) /\ f = Top /\ rest = Tail(agent.stack) /\ f.pc = "think"
  BY AtTop DEF ThinkPropose
<1>2. PICK r \in Runs : /\ r = f.run /\ state[r] \in {"RUNNING", "DELIVERY_PENDING"}
                        /\ ~IsCommand(r)
  BY <1>1, FrameFacts, PlaceFacts DEF Stacked, FrameOK
<1>3. /\ action[r] = "NONE"
      /\ action' = [action EXCEPT ![r] = "PENDING"]
      /\ state' = [state EXCEPT ![r] = "WAITING_USER_CONFIRMATION"]
      /\ delivery' = [delivery EXCEPT ![r] = "PENDING"]
      /\ final' = [final EXCEPT ![r] = TRUE]
      /\ agent' = Goto("prompt")
      /\ UNCHANGED <<message, attempt, wait, activeRun, executions, actionWait,
                     reached, crashes>>
  BY <1>1, <1>2 DEF ThinkPropose
<1>4. \A s \in Runs : /\ state'[s] = IF s = r THEN "WAITING_USER_CONFIRMATION" ELSE state[s]
                      /\ action'[s] = IF s = r THEN "PENDING" ELSE action[s]
  BY <1>3 DEF Inv, RowsInv
<1>5. RowsInv'
  <2>1. /\ state' \in [Runs -> RunStates] /\ action' \in [Runs -> ActionStates]
        /\ delivery' \in [Runs -> DeliveryStates] /\ final' \in [Runs -> BOOLEAN]
    BY <1>3 DEF Inv, RowsInv, RunStates, ActionStates, DeliveryStates
  <2> QED
    BY <1>3, <2>1 DEF Inv, RowsInv
<1>6. RunsInv'
  <2>1. \E n \in 0 .. MaxRuns : ArrivedTo(n)'
    <3>1. PICK n \in 0 .. MaxRuns : ArrivedTo(n)
      BY DEF Inv, RunsInv
    <3> QED
      BY <1>2, <1>4, <3>1 DEF ArrivedTo
  <2>2. ASSUME NEW s \in Runs
        PROVE  /\ state'[s] \in {"NONE", "QUEUED"} => attempt[s] = 0 /\ action'[s] = "NONE"
               /\ state'[s] \in {"NONE", "QUEUED", "WAITING_USER_CONFIRMATION"} => ~IsCommand(s)
               /\ IsCommand(s) => action'[s] = "NONE"
               /\ action'[s] \in {"PENDING", "CONFIRMED", "FAILED", "EXPIRED"} => Waiting(s)'
               /\ action'[s] \in {"NONE", "PENDING", "CONFIRMED"} => executions[s] = 0
               /\ message[s].target # None => action'[message[s].target] # "NONE"
    <3>1. message[s].target # None => action'[message[s].target] # "NONE"
      <4> SUFFICES ASSUME message[s].target # None
                   PROVE  action'[message[s].target] # "NONE"
        OBVIOUS
      <4>1. message[s].target \in Runs /\ action[message[s].target] # "NONE"
        BY DEF Inv, RowsInv, RunsInv, Commands, Question
      <4> QED
        BY <1>4, <4>1
    <3>2. CASE s = r
      BY <1>2, <1>3, <1>4, <3>1, <3>2 DEF Inv, RunsInv, Waiting
    <3>3. CASE s # r
      BY <1>4, <3>1, <3>3 DEF Inv, RunsInv, Waiting
    <3> QED
      BY <3>2, <3>3
  <2> QED
    BY <1>3, <2>1, <2>2 DEF RunsInv, IsCommand
<1>7. StartedInOrder'
  BY <1>2, <1>3, <1>4 DEF Inv, StartedInOrder, IsCommand
<1>8. StageInv' /\ StackInv'
  <2>1. OthersKeep(f)
    BY <1>2, <1>3, <1>4 DEF OthersKeep, Waiting
  <2>2. "prompt" \in Places /\ "prompt" \notin AtWork /\ Waiting(f.run)'
    BY <1>2, <1>4 DEF Places, AtWork, Waiting
  <2> QED
    BY <1>1, <1>3, <2>1, <2>2, GotoKeeps
<1> QED
  BY <1>5, <1>6, <1>7, <1>8 DEF Inv

LEMMA ThinkRetryInv ==
  ASSUME Inv, ThinkRetry
  PROVE  Inv'
<1>1. PICK f, rest : Stacked(f, rest) /\ f = Top /\ rest = Tail(agent.stack) /\ f.pc = "think"
  BY AtTop DEF ThinkRetry
<1>2. /\ state' = [state EXCEPT ![f.run] = "DELIVERY_PENDING"]
      /\ wait' \in [Runs -> BOOLEAN] /\ agent' = Return
      /\ UNCHANGED <<message, attempt, final, delivery, activeRun, actionVars, reached, crashes>>
  BY <1>1 DEF ThinkRetry, Inv, RowsInv
<1> QED
  BY <1>1, <1>2, AloneReturns, PlaceFacts

LEMMA ThinkFailInv ==
  ASSUME Inv, ThinkFail
  PROVE  Inv'
<1>1. PICK f, rest : Stacked(f, rest) /\ f = Top /\ rest = Tail(agent.stack) /\ f.pc = "think"
  BY AtTop DEF ThinkFail
<1>2. /\ Release(f.run, "FAILED") /\ agent' = Return
      /\ UNCHANGED <<message, final, delivery, wait, actionVars, reached, crashes>>
      /\ wait' \in [Runs -> BOOLEAN]
  BY <1>1 DEF ThinkFail, Inv, RowsInv
<1> QED
  BY <1>1, <1>2, ReleaseInv, PlaceFacts

-----------------------------------------------------------------------------
(* Delivering an answer, and the prompts.                                  *)

LEMMA PersistAnswerInv ==
  ASSUME Inv, PersistAnswer
  PROVE  Inv'
<1>1. PICK f, rest : Stacked(f, rest) /\ f = Top /\ rest = Tail(agent.stack) /\ f.pc = "answer"
  BY AtTop DEF PersistAnswer
<1>2. f.run \in Runs /\ state[f.run] \in {"RUNNING", "DELIVERY_PENDING"}
  BY <1>1, FrameFacts, PlaceFacts DEF Stacked, FrameOK
<1>3. PICK x \in {"RUNNING", "DELIVERY_PENDING"} : state' = [state EXCEPT ![f.run] = x]
  <2>1. state = [state EXCEPT ![f.run] = state[f.run]]
    BY <1>2 DEF Inv, RowsInv
  <2> QED
    BY <1>1, <1>2, <2>1 DEF PersistAnswer
<1>4. /\ agent' = Goto("push") /\ final' \in [Runs -> BOOLEAN]
      /\ UNCHANGED <<message, attempt, delivery, wait, activeRun, actionVars, reached, crashes>>
  BY <1>1 DEF PersistAnswer, Inv, RowsInv
<1>5. action[f.run] \notin {"PENDING", "CONFIRMED", "FAILED", "EXPIRED"}
  BY <1>2 DEF Inv, RunsInv, Waiting
<1>6. state' = [s \in Runs |-> IF s = f.run THEN x
                               ELSE IF s = None THEN "RUNNING" ELSE state[s]]
  BY <1>2, <1>3, ConstantFacts DEF Inv, RowsInv
<1>7. Goes(f.run, x, None)
  BY <1>2, <1>3, <1>4, <1>5, <1>6 DEF Goes, RunStates
<1>8. state' \in [Runs -> RunStates] /\ RunsInv' /\ StartedInOrder'
  BY <1>4, <1>7, RunGoes DEF actionVars
<1>9. StageInv' /\ StackInv'
  <2>1. OthersKeep(f)
    BY <1>4, <1>7, GoesKeeps DEF actionVars
  <2>2. "push" \in Places
        /\ "push" \notin {"execute", "resume", "prompt", "recordPrompt", "finalize", "think", "resolve"}
    BY DEF Places
  <2>3. state'[f.run] \in {"RUNNING", "DELIVERY_PENDING"}
    BY <1>2, <1>3, <1>6
  <2> QED
    BY <1>1, <1>4, <2>1, <2>2, <2>3, GotoKeeps
<1>10. RowsInv'
  BY <1>4, <1>8 DEF Inv, RowsInv, actionVars
<1> QED
  BY <1>8, <1>9, <1>10 DEF Inv

\* The frame on top takes the provider's outcome to the place that records it.
LEMMA PushedKeeps ==
  ASSUME Inv, NEW f, NEW rest, Stacked(f, rest), f = Top, rest = Tail(agent.stack),
         NEW pc \in Places, NEW o \in Outcomes, agent' = Pushed(o, pc),
         \/ f.pc = "push" /\ pc = "record"
         \/ f.pc = "prompt" /\ pc = "recordPrompt",
         UNCHANGED <<state, message, action>>
  PROVE  StageInv' /\ StackInv'
<1>1. PICK h \in FrameType : /\ h.run = f.run /\ h.pc = pc
                             /\ agent' = Put(h, rest)
  <2>1. f \in FrameType
    BY DEF Stacked
  <2>2. PICK h : h = [f EXCEPT !.pc = pc, !.outcome = o]
    OBVIOUS
  <2>3. h \in FrameType /\ h.run = f.run /\ h.pc = pc
    BY <2>1, <2>2 DEF FrameType, Places
  <2>4. agent' = Put(h, rest)
    BY <2>2 DEF Pushed, Put
  <2> QED
    BY <2>3, <2>4
<1>2. agent'.todo = agent.todo
  BY <1>1 DEF Inv, StageInv, Put
<1>3. FrameOK(f)
  BY DEF Stacked
<1>4. FrameOK(h)'
  BY <1>1, <1>2, <1>3 DEF FrameOK, IsCommand, Waiting, AtWork
<1>5. OthersKeep(f)
  BY UnchangedKeeps
<1> QED
  BY <1>1, <1>4, <1>5, FrameGoes DEF Put

LEMMA PushAnswerInv ==
  ASSUME Inv, NEW outcome \in Outcomes, PushAnswer(outcome)
  PROVE  Inv'
<1>1. PICK f, rest : Stacked(f, rest) /\ f = Top /\ rest = Tail(agent.stack) /\ f.pc = "push"
  BY AtTop DEF PushAnswer
<1>2. /\ agent' = Pushed(outcome, "record") /\ UNCHANGED <<runVars, actionVars, crashes>>
      /\ reached' = [reached EXCEPT ![f.run] =
                       IF outcome \in {"SENT", "AMBIGUOUS"} THEN reached[f.run] + 1
                       ELSE reached[f.run]]
  BY <1>1 DEF PushAnswer
<1>3. reached' \in [Runs -> Nat]
  <2>1. f.run \in Runs
    BY <1>1, FrameFacts
  <2>2. reached[f.run] \in Nat /\ reached[f.run] + 1 \in Nat
    BY <2>1 DEF Inv, RowsInv
  <2> QED
    BY <1>2, <2>2 DEF Inv, RowsInv
<1>4. RowsInv'
  BY <1>2, <1>3 DEF Inv, RowsInv, runVars, actionVars
<1>5. RunsInv' /\ StartedInOrder'
  BY <1>2, SameRows DEF runVars, actionVars
<1>6. StageInv' /\ StackInv'
  BY <1>1, <1>2, PushedKeeps, PlaceFacts DEF runVars, actionVars
<1> QED
  BY <1>4, <1>5, <1>6 DEF Inv

LEMMA PushPromptInv ==
  ASSUME Inv, NEW outcome \in Outcomes, PushPrompt(outcome)
  PROVE  Inv'
<1>1. PICK f, rest : Stacked(f, rest) /\ f = Top /\ rest = Tail(agent.stack) /\ f.pc = "prompt"
  BY AtTop DEF PushPrompt
<1>2. agent' = Pushed(outcome, "recordPrompt") /\ UNCHANGED <<runVars, actionVars, reached, crashes>>
  BY <1>1 DEF PushPrompt
<1>3. RowsInv' /\ RunsInv' /\ StartedInOrder'
  BY <1>2, SameRows DEF Inv, RowsInv, runVars, actionVars
<1>4. StageInv' /\ StackInv'
  BY <1>1, <1>2, PushedKeeps, PlaceFacts DEF runVars, actionVars
<1> QED
  BY <1>3, <1>4 DEF Inv

LEMMA RecordRetryInv ==
  ASSUME Inv, RecordRetry
  PROVE  Inv'
<1>1. PICK f, rest : Stacked(f, rest) /\ f = Top /\ rest = Tail(agent.stack) /\ f.pc = "record"
  BY AtTop DEF RecordRetry
<1>2. /\ state' = [state EXCEPT ![f.run] = "DELIVERY_PENDING"]
      /\ wait' \in [Runs -> BOOLEAN] /\ agent' = Return
      /\ UNCHANGED <<message, attempt, final, delivery, activeRun, actionVars, reached, crashes>>
  BY <1>1 DEF RecordRetry, Inv, RowsInv
<1> QED
  BY <1>1, <1>2, AloneReturns, PlaceFacts

LEMMA RecordDeliveryInv ==
  ASSUME Inv, RecordDelivery
  PROVE  Inv'
<1>1. PICK f, rest : Stacked(f, rest) /\ f = Top /\ rest = Tail(agent.stack) /\ f.pc = "record"
  BY AtTop DEF RecordDelivery
<1>2. PICK x \in {"COMPLETED", "FAILED"} : Release(f.run, x)
  BY <1>1 DEF RecordDelivery
<1>3. /\ agent' = Return /\ wait' \in [Runs -> BOOLEAN]
      /\ UNCHANGED <<message, final, delivery, actionVars, reached, crashes>>
  BY <1>1 DEF RecordDelivery, Inv, RowsInv
<1> QED
  BY <1>1, <1>2, <1>3, ReleaseInv, PlaceFacts

LEMMA RecordCommandDeliveryInv ==
  ASSUME Inv, RecordCommandDelivery
  PROVE  Inv'
<1>1. PICK f, rest : Stacked(f, rest) /\ f = Top /\ rest = Tail(agent.stack) /\ f.pc = "record"
  BY AtTop DEF RecordCommandDelivery
<1>2. PICK x \in {"COMPLETED", "FAILED"} : state' = [state EXCEPT ![f.run] = x]
  BY <1>1 DEF RecordCommandDelivery
<1>3. /\ agent' = Return /\ wait' \in [Runs -> BOOLEAN]
      /\ UNCHANGED <<message, attempt, final, delivery, activeRun, actionVars, reached, crashes>>
  BY <1>1 DEF RecordCommandDelivery, Inv, RowsInv
<1> QED
  BY <1>1, <1>2, <1>3, AloneReturns, PlaceFacts

LEMMA RecordPromptInv ==
  ASSUME Inv, RecordPrompt
  PROVE  Inv'
<1>1. PICK f, rest : /\ Stacked(f, rest) /\ f = Top /\ rest = Tail(agent.stack)
                     /\ f.pc = "recordPrompt"
  BY AtTop DEF RecordPrompt
<1>2. f.run \in Runs /\ f.outcome \in Outcomes \cup {"NONE"}
  BY <1>1, FrameFacts
<1>3. PICK d \in DeliveryStates, w \in BOOLEAN :
         delivery' = [delivery EXCEPT ![f.run] = d] /\ wait' = [wait EXCEPT ![f.run] = w]
  <2>1. Retry(f.run) \in BOOLEAN
    BY DEF Retry
  <2>2. (IF Retry(f.run) THEN "RETRY_WAIT"
         ELSE IF f.outcome \in {"SENT", "AMBIGUOUS", "PERMANENT"} THEN f.outcome
         ELSE "FAILED") \in DeliveryStates
    BY DEF DeliveryStates
  <2> QED
    BY <1>1, <2>1, <2>2 DEF RecordPrompt
<1>4. /\ agent' = [agent EXCEPT !.stack = rest]
      /\ UNCHANGED <<state, message, attempt, final, activeRun, actionVars, reached, crashes>>
  BY <1>1 DEF RecordPrompt, Return
<1>5. RowsInv'
  BY <1>3, <1>4 DEF Inv, RowsInv, actionVars
<1>6. RunsInv' /\ StartedInOrder'
  BY <1>4, SameRows DEF actionVars
<1>7. StageInv' /\ StackInv'
  <2>1. OthersKeep(f)
    BY <1>4, UnchangedKeeps DEF actionVars
  <2> QED
    BY <1>1, <1>4, <2>1, FrameReturns
<1> QED
  BY <1>5, <1>6, <1>7 DEF Inv

-----------------------------------------------------------------------------
(* The commands, and resuming the run they decide about.                   *)

LEMMA ResolveUnknownInv ==
  ASSUME Inv, NEW expired, ResolveUnknown(expired)
  PROVE  Inv'
<1>1. PICK f, rest : Stacked(f, rest) /\ f = Top /\ rest = Tail(agent.stack) /\ f.pc = "resolve"
  BY AtTop DEF ResolveUnknown
<1>2. agent' = Goto("answer") /\ UNCHANGED <<runVars, actionVars, reached, crashes>>
  BY DEF ResolveUnknown
<1> QED
  BY <1>1, <1>2, OnlyGoto, PlaceFacts

\* A command is about an action that has been proposed.
LEMMA AddressedFacts ==
  ASSUME Inv, NEW c \in Runs, NEW expired \in SUBSET Pending, Addressed(c, expired) # None
  PROVE  /\ Addressed(c, expired) \in Runs
         /\ action[Addressed(c, expired)] # "NONE"
<1>1. CASE message[c].target # None
  <2>1. Addressed(c, expired) = message[c].target
    BY <1>1 DEF Addressed
  <2>2. message[c].target \in Runs
    BY <1>1 DEF Inv, RowsInv, Commands, Question
  <2> QED
    BY <1>1, <2>1, <2>2 DEF Inv, RunsInv
<1>2. CASE message[c].target = None
  <2>1. Cardinality(Pending \ expired) = 1
        /\ Addressed(c, expired) = CHOOSE r \in Runs : r \in Pending \ expired
    BY <1>2 DEF Addressed
  <2>2. Pending \ expired # {}
    BY <2>1, FS_EmptySet
  <2>3. Addressed(c, expired) \in Runs /\ Addressed(c, expired) \in Pending
    BY <2>1, <2>2 DEF Pending
  <2> QED
    BY <2>3 DEF Pending
<1> QED
  BY <1>1, <1>2

\* The command's frame is left to answer; above it, if the decision is carried
\* out, that of the question.
LEMMA ResolveInv ==
  ASSUME Inv, NEW expired \in SUBSET Pending, Resolve(expired)
  PROVE  Inv'
<1>1. PICK f, rest : Stacked(f, rest) /\ f = Top /\ rest = Tail(agent.stack) /\ f.pc = "resolve"
  BY AtTop DEF Resolve
<1>2. PICK r : r = Addressed(f.run, expired)
  OBVIOUS
<1>3. PICK x : x = Resolution(f.run, r, expired)
  OBVIOUS
<1>4. PICK called :
        called = IF message[f.run].resolution = "CONFIRM" /\ x = "CONFIRMED"
                   THEN <<Frame(r, "execute")>>
                 ELSE IF message[f.run].resolution = "REJECT" /\ x = "REJECTED"
                   THEN <<Frame(r, "finalize")>>
                 ELSE <<>>
  OBVIOUS
<1>5. PICK g : g = [f EXCEPT !.pc = "answer"]
  OBVIOUS
<1>6. /\ r # None /\ action' = [action EXCEPT ![r] = x]
      /\ agent' = [agent EXCEPT !.stack = called \o <<g>> \o rest]
      /\ UNCHANGED <<state, message, attempt, final, delivery, wait, activeRun, executions,
                     actionWait, reached, crashes>>
  BY <1>1, <1>2, <1>3, <1>4, <1>5 DEF Resolve, runVars
<1>7. /\ f.run \in Runs /\ IsCommand(f.run) /\ agent.todo = {} /\ agent.stage # "actions"
      /\ state[f.run] \in {"RUNNING", "DELIVERY_PENDING"}
  BY <1>1, FrameFacts, PlaceFacts DEF Stacked, FrameOK
<1>8. rest = <<>>
  BY <1>1, <1>7 DEF Stacked, BelowOK
<1>9. r \in Runs /\ action[r] # "NONE" /\ ~IsCommand(r)
  <2>1. r \in Runs /\ action[r] # "NONE"
    BY <1>2, <1>6, <1>7, AddressedFacts
  <2> QED
    BY <2>1 DEF Inv, RunsInv
<1>10. /\ x \in ActionStates \ {"NONE"}
       /\ x \in {"PENDING", "CONFIRMED", "FAILED", "EXPIRED"} => Waiting(r)
       /\ x \in {"PENDING", "CONFIRMED"} => executions[r] = 0
  <2>1. CASE action[r] # "PENDING"
    <3>1. x = action[r]
      BY <1>3, <2>1 DEF Resolution
    <3> QED
      BY <1>9, <3>1 DEF Inv, RowsInv, RunsInv
  <2>2. CASE action[r] = "PENDING"
    <3>1. x \in {"EXPIRED", "CONFIRMED", "REJECTED"}
      BY <1>3, <2>2 DEF Resolution
    <3>2. Waiting(r) /\ executions[r] = 0
      BY <1>9, <2>2 DEF Inv, RunsInv
    <3> QED
      BY <3>1, <3>2 DEF ActionStates
  <2> QED
    BY <2>1, <2>2
<1>11. action' \in [Runs -> ActionStates] /\ RunsInv' /\ StartedInOrder'
  BY <1>6, <1>9, <1>10, ActionGoes
<1>12. RowsInv'
  BY <1>6, <1>11 DEF Inv, RowsInv
<1>13. g \in FrameType /\ g.run = f.run /\ g.pc = "answer"
  BY <1>1, <1>5 DEF Stacked, FrameType
<1>14. action'[r] = x
  BY <1>6, <1>9 DEF Inv, RowsInv
<1>15. StageInv' /\ StackInv'
  <2>1. ASSUME NEW stack \in Seq(FrameType), agent' = [agent EXCEPT !.stack = stack]
        PROVE  StageInv' /\ agent'.todo = {} /\ agent'.stack = stack
    <3>1. /\ agent' \in [stage : Stages, starting : BOOLEAN, todo : SUBSET Runs,
                         results : SUBSET Runs, stack : Seq(FrameType)]
          /\ agent'.todo = {} /\ agent'.stage = agent.stage /\ agent'.stack = stack
          /\ agent'.results = agent.results
      BY <1>7, <2>1 DEF Inv, StageInv
    <3> QED
      BY <1>7, <3>1 DEF Inv, StageInv
  <2>2. CASE called = <<>>
    <3>1. agent' = [agent EXCEPT !.stack = <<g>>] /\ <<g>> \in Seq(FrameType)
      <4>1. <<g>> \in Seq(FrameType)
        BY <1>13
      <4>2. called \o <<g>> \o rest = <<g>>
        BY <1>8, <2>2, <4>1, ConcatEmptySeq
      <4> QED
        BY <1>6, <4>1, <4>2
    <3>2. StageInv' /\ agent'.todo = {} /\ agent'.stack = <<g>>
      BY <2>1, <3>1
    <3>3. FrameOK(g)'
      BY <1>6, <1>7, <1>13, <3>2 DEF FrameOK, AtWork
    <3> QED
      BY <1>13, <3>2, <3>3 DEF StackInv, Single
  <2>3. ASSUME NEW pc \in {"execute", "finalize"}, called = <<Frame(r, pc)>>,
               pc = "execute" => x = "CONFIRMED", pc = "finalize" => x = "REJECTED"
        PROVE  StageInv' /\ StackInv'
    <3>1. PICK h \in FrameType : h = Frame(r, pc) /\ h.run = r /\ h.pc = pc
      <4>1. pc \in Places
        BY DEF Places
      <4> QED
        BY <1>9, <4>1, FrameIs
    <3>2. called \o <<g>> \o rest = <<h, g>>
      <4>1. <<h>> \o <<g>> = <<h, g>> /\ <<h, g>> \in Seq(FrameType)
        <5>1. h \in FrameType /\ g \in FrameType
          BY <1>13, <3>1
        <5>2. <<h>> \o <<g>> = <<h, g>>
          BY <5>1, PairFacts
        <5>3. <<h, g>> \in Seq(FrameType)
          BY <5>1
        <5> QED
          BY <5>2, <5>3
      <4>2. <<h, g>> \o <<>> = <<h, g>>
        BY <4>1, ConcatEmptySeq
      <4> QED
        BY <1>8, <2>3, <3>1, <4>1, <4>2
    <3>3. agent' = [agent EXCEPT !.stack = <<h, g>>] /\ <<h, g>> \in Seq(FrameType)
      <4>1. h \in FrameType /\ g \in FrameType
        BY <1>13, <3>1
      <4>2. <<h, g>> \in Seq(FrameType)
        BY <4>1
      <4> QED
        BY <1>6, <3>2, <4>2
    <3>4. StageInv' /\ agent'.todo = {} /\ agent'.stack = <<h, g>>
      BY <2>1, <3>3
    <3>5. FrameOK(h)'
      BY <1>6, <1>9, <1>10, <1>14, <2>3, <3>1, <3>4 DEF FrameOK, AtWork, Waiting, IsCommand
    <3>6. BelowOK(h, g)'
      BY <1>6, <1>7, <1>9, <1>13, <3>1, <3>4 DEF BelowOK, IsCommand
    <3> QED
      BY <1>13, <3>1, <3>4, <3>5, <3>6 DEF StackInv, Double
  <2>4. \/ called = <<>>
        \/ called = <<Frame(r, "execute")>> /\ x = "CONFIRMED"
        \/ called = <<Frame(r, "finalize")>> /\ x = "REJECTED"
    BY <1>4
  <2> QED
    BY <2>2, <2>3, <2>4
<1> QED
  BY <1>11, <1>12, <1>15 DEF Inv

\* The execution leaves the action carried out.
LEMMA ExecuteInv ==
  ASSUME Inv, Execute
  PROVE  Inv'
<1>1. PICK f, rest : Stacked(f, rest) /\ f = Top /\ rest = Tail(agent.stack) /\ f.pc = "execute"
  BY AtTop DEF Execute
<1>2. f.run \in Runs /\ Waiting(f.run) /\ action[f.run] \in {"CONFIRMED", "COMPLETED"}
  BY <1>1, FrameFacts DEF Stacked, FrameOK
<1>3. /\ action' = [action EXCEPT ![f.run] = "COMPLETED"] /\ agent' = Goto("resume")
      /\ UNCHANGED <<runVars, executions, actionWait, reached, crashes>>
  BY <1>1, <1>2 DEF Execute, Inv, RowsInv
<1>4. "COMPLETED" \in ActionStates \ {"NONE"}
  BY DEF ActionStates
<1>5. action' \in [Runs -> ActionStates] /\ RunsInv' /\ StartedInOrder'
  BY <1>2, <1>3, <1>4, ActionGoes DEF runVars
<1>6. RowsInv'
  BY <1>3, <1>5 DEF Inv, RowsInv, runVars
<1>7. StageInv' /\ StackInv'
  <2>1. OthersKeep(f)
    BY <1>3 DEF OthersKeep, Waiting, runVars, Inv, RowsInv
  <2>2. "resume" \in Places
        /\ "resume" \notin AtWork \cup {"execute", "finalize", "think", "resolve"}
    BY DEF Places, AtWork
  <2>3. Waiting(f.run)' /\ action'[f.run] = "COMPLETED"
    BY <1>2, <1>3 DEF Waiting, runVars, Inv, RowsInv
  <2> QED
    BY <1>1, <1>3, <2>1, <2>2, <2>3, GotoKeeps
<1> QED
  BY <1>5, <1>6, <1>7 DEF Inv

LEMMA ExecuteFailsInv ==
  ASSUME Inv, ExecuteFails
  PROVE  Inv'
<1>1. PICK f, rest : Stacked(f, rest) /\ f = Top /\ rest = Tail(agent.stack) /\ f.pc = "execute"
  BY AtTop DEF ExecuteFails
<1>2. /\ f.run \in Runs /\ Waiting(f.run) /\ action[f.run] = "CONFIRMED"
      /\ executions[f.run] = 0
  <2>1. f.run \in Runs /\ Waiting(f.run) /\ action[f.run] = "CONFIRMED"
    BY <1>1, FrameFacts DEF Stacked, FrameOK, ExecuteFails
  <2> QED
    BY <2>1 DEF Inv, RunsInv
<1>3. /\ action' = [action EXCEPT ![f.run] = "FAILED"]
      /\ executions' = [executions EXCEPT ![f.run] = 1]
      /\ actionWait' = [actionWait EXCEPT ![f.run] = TRUE]
      /\ agent' = Cycle
      /\ UNCHANGED <<runVars, reached, crashes>>
  BY <1>1, <1>2 DEF ExecuteFails
<1>4. "FAILED" \in ActionStates \ {"NONE"}
  BY DEF ActionStates
<1>5. \A s \in Runs : s # f.run => executions'[s] = executions[s]
  BY <1>3 DEF Inv, RowsInv
<1>6. action' \in [Runs -> ActionStates] /\ RunsInv' /\ StartedInOrder'
  BY <1>2, <1>3, <1>4, <1>5, ActionGoes DEF runVars
<1>7. RowsInv'
  <2>1. 1 \in 0 .. MaxExecutions
    BY ConstantFacts
  <2>2. executions' \in [Runs -> 0 .. MaxExecutions] /\ actionWait' \in [Runs -> BOOLEAN]
    BY <1>3, <2>1 DEF Inv, RowsInv
  <2> QED
    BY <1>3, <1>6, <2>2 DEF Inv, RowsInv, runVars
<1> QED
  BY <1>3, <1>6, <1>7, NoFrame DEF Inv

\* The run the thread goes on with is running.
LEMMA RunsAgain ==
  ASSUME Inv, NEW f, NEW rest, Stacked(f, rest), f = Top, rest = Tail(agent.stack),
         action[f.run] \in {"COMPLETED", "REJECTED"},
         state' = [state EXCEPT ![f.run] = "RUNNING"],
         final' = [final EXCEPT ![f.run] = FALSE],
         agent' = Goto("begin"),
         UNCHANGED <<message, attempt, delivery, wait, activeRun, actionVars, reached, crashes>>
  PROVE  Inv'
<1>1. f.run \in Runs /\ state[f.run] \notin {"NONE", "QUEUED"}
  BY FrameFacts
<1>2. state' = [s \in Runs |-> IF s = f.run THEN "RUNNING"
                               ELSE IF s = None THEN "RUNNING" ELSE state[s]]
  BY <1>1, ConstantFacts DEF Inv, RowsInv
<1>3. Goes(f.run, "RUNNING", None)
  BY <1>1, <1>2 DEF Goes, RunStates
<1>4. state' \in [Runs -> RunStates] /\ RunsInv' /\ StartedInOrder'
  BY <1>3, RunGoes DEF actionVars
<1>5. OthersKeep(f)
  BY <1>3, GoesKeeps DEF actionVars
<1>6. StageInv' /\ StackInv'
  <2>1. "begin" \in Places
        /\ "begin" \notin {"execute", "resume", "prompt", "recordPrompt", "finalize",
                           "think", "resolve"}
    BY DEF Places
  <2>2. state'[f.run] \in {"RUNNING", "DELIVERY_PENDING"}
    BY <1>1, <1>2
  <2> QED
    BY <1>5, <2>1, <2>2, GotoKeeps
<1>7. RowsInv'
  BY <1>4 DEF Inv, RowsInv, actionVars
<1> QED
  BY <1>4, <1>6, <1>7 DEF Inv

LEMMA ResumeRunInv ==
  ASSUME Inv, ResumeRun
  PROVE  Inv'
<1>1. PICK f, rest : Stacked(f, rest) /\ f = Top /\ rest = Tail(agent.stack) /\ f.pc = "resume"
  BY AtTop DEF ResumeRun
<1>2. Waiting(f.run) /\ action[f.run] = "COMPLETED"
  BY <1>1 DEF Stacked, FrameOK
<1>3. /\ state' = [state EXCEPT ![f.run] = "RUNNING"]
      /\ final' = [final EXCEPT ![f.run] = FALSE]
      /\ agent' = Goto("begin")
      /\ UNCHANGED <<message, attempt, delivery, wait, activeRun, actionVars, reached, crashes>>
  BY <1>1, <1>2 DEF ResumeRun
<1> QED
  BY <1>1, <1>2, <1>3, RunsAgain

LEMMA FinalizeRejectedInv ==
  ASSUME Inv, FinalizeRejected
  PROVE  Inv'
<1>1. PICK f, rest : Stacked(f, rest) /\ f = Top /\ rest = Tail(agent.stack) /\ f.pc = "finalize"
  BY AtTop DEF FinalizeRejected
<1>2. action[f.run] = "REJECTED"
  BY <1>1 DEF Stacked, FrameOK
<1>3. /\ state' = [state EXCEPT ![f.run] = "RUNNING"]
      /\ final' = [final EXCEPT ![f.run] = FALSE]
      /\ agent' = Goto("begin")
      /\ UNCHANGED <<message, attempt, delivery, wait, activeRun, actionVars, reached, crashes>>
  BY <1>1 DEF FinalizeRejected
<1> QED
  BY <1>1, <1>2, <1>3, RunsAgain

-----------------------------------------------------------------------------
(* Every step keeps the invariant.                                         *)

LEMMA ExpiredFacts ==
  ASSUME NEW expired \in MayExpire
  PROVE  expired \in SUBSET Pending
BY DEF MayExpire

LEMMA StageStepInv ==
  ASSUME Inv, StageStep
  PROVE  Inv'
<1>1. ASSUME NEW old \in SUBSET Runs, RecoverRuns(old) PROVE Inv'
  BY <1>1, RecoverRunsInv
<1>2. CASE EndActions
  BY <1>2, EndActionsInv
<1>3. CASE EndResume
  BY <1>3, EndResumeInv
<1>4. CASE SelectPrompts
  BY <1>4, SelectPromptsInv
<1>5. CASE PickRun
  BY <1>5, PickRunInv
<1>6. ASSUME NEW r \in Runs, ExecuteRecovered(r) PROVE Inv'
  BY <1>6, ExecuteRecoveredInv
<1>7. ASSUME NEW r \in Runs, ResumeNext(r) PROVE Inv'
  BY <1>7, ResumeNextInv
<1>8. ASSUME NEW r \in Runs, ReconcileNext(r) PROVE Inv'
  BY <1>8, ReconcileNextInv
<1>9. ASSUME NEW r \in Runs, PromptNext(r) PROVE Inv'
  BY <1>9, PromptNextInv
<1> QED
  BY <1>1, <1>2, <1>3, <1>4, <1>5, <1>6, <1>7, <1>8, <1>9 DEF StageStep

LEMMA RunStepInv ==
  ASSUME Inv, RunStep
  PROVE  Inv'
<1>1. CASE BeginRunning \/ BeginAttempt \/ LoadFails \/ BeginExhausted
  BY <1>1, BeginRunningInv, BeginAttemptInv, LoadFailsInv, BeginExhaustedInv
<1>2. CASE ThinkAnswer \/ ThinkPropose \/ ThinkRetry \/ ThinkFail
  BY <1>2, ThinkAnswerInv, ThinkProposeInv, ThinkRetryInv, ThinkFailInv
<1>3. CASE PersistAnswer \/ RecordRetry \/ RecordDelivery \/ RecordCommandDelivery
  BY <1>3, PersistAnswerInv, RecordRetryInv, RecordDeliveryInv, RecordCommandDeliveryInv
<1>4. CASE RecordPrompt
  BY <1>4, RecordPromptInv
<1>5. ASSUME NEW outcome \in Outcomes, PushAnswer(outcome) \/ PushPrompt(outcome) PROVE Inv'
  BY <1>5, PushAnswerInv, PushPromptInv
<1>6. ASSUME NEW expired \in MayExpire, ResolveUnknown(expired) PROVE Inv'
  BY <1>6, ResolveUnknownInv
<1>7. ASSUME NEW expired \in MayExpire, Resolve(expired) PROVE Inv'
  BY <1>7, ExpiredFacts, ResolveInv
<1>8. CASE Execute \/ ExecuteFails \/ ResumeRun \/ FinalizeRejected
  BY <1>8, ExecuteInv, ExecuteFailsInv, ResumeRunInv, FinalizeRejectedInv
<1> QED
  BY <1>1, <1>2, <1>3, <1>4, <1>5, <1>6, <1>7, <1>8 DEF RunStep

LEMMA NextInv ==
  ASSUME Inv, [Next]_vars
  PROVE  Inv'
<1>1. ASSUME NEW m \in Commands \cup {Question}, Ingest(m) PROVE Inv'
  BY <1>1, IngestInv
<1>2. CASE AgentStep
  BY <1>2, StageStepInv, RunStepInv DEF AgentStep
<1>3. ASSUME NEW r \in Runs, RetryTimeComes(r) \/ ActionRetryTimeComes(r) PROVE Inv'
  BY <1>3, ClockInv
<1>4. CASE Crash
  BY <1>4, CrashInv
<1>5. CASE UNCHANGED vars
  <2>1. UNCHANGED <<state, message, attempt, final, delivery, wait, activeRun, action,
                    executions, actionWait, agent, reached, crashes>>
    BY <1>5 DEF vars, runVars, actionVars
  <2>2. RowsInv'
    BY <2>1 DEF Inv, RowsInv
  <2> QED
    BY <2>1, <2>2, SameRows, SameThread DEF Inv
<1> QED
  BY <1>1, <1>2, <1>3, <1>4, <1>5 DEF Next

-----------------------------------------------------------------------------
(* Theorems.                                                               *)

\* The invariant holds of every reachable state.
THEOREM InvAlways == Spec => []Inv
<1>1. Init => Inv
  BY InitInv
<1>2. Inv /\ [Next]_vars => Inv'
  BY NextInv
<1> QED
  BY <1>1, <1>2, PTL DEF Spec

\* The rows and the thread keep their types; no run is attempted, and no action
\* executed, more often than it may be (agent_max_delivery_attempts,
\* MAX_PENDING_ACTION_ATTEMPTS), and processing nests once at most.
THEOREM TypeCorrect == Spec => []TypeOK
<1>1. Inv => TypeOK
  <2> SUFFICES ASSUME Inv PROVE TypeOK
    OBVIOUS
  <2>1. {final, wait, actionWait} \subseteq [Runs -> BOOLEAN]
    BY DEF Inv, RowsInv
  <2>2. /\ agent.stage \in {"runs", "actions", "resume", "reconcile", "prompts"}
        /\ agent.starting \in BOOLEAN
        /\ agent.todo \subseteq Runs /\ agent.results \subseteq Runs
        /\ agent.stack \in Seq(FrameType)
    BY DEF Inv, StageInv, Stages
  <2>3. Len(agent.stack) <= 2
    <3>1. CASE agent.stack = <<>>
      BY <3>1
    <3>2. ASSUME NEW f \in FrameType, agent.stack = <<f>> PROVE Len(agent.stack) <= 2
      BY <3>2
    <3>3. ASSUME NEW f \in FrameType, NEW g \in FrameType, agent.stack = <<f, g>>
          PROVE  Len(agent.stack) <= 2
      BY <3>3
    <3> QED
      BY <3>1, <3>2, <3>3 DEF Inv, StackInv, Single, Double
  <2> QED
    BY <2>1, <2>2, <2>3 DEF TypeOK, Inv, RowsInv
<1> QED
  BY <1>1, InvAlways, PTL

\* Questions are started in the order of their arrival, whatever recovery,
\* promotion and commands do (store_message_and_run, promote_next_run).
THEOREM StartedInOrderAlways == Spec => []StartedInOrder
<1>1. Inv => StartedInOrder
  BY DEF Inv
<1> QED
  BY <1>1, InvAlways, PTL

-----------------------------------------------------------------------------
(* What a step does to the states of the runs.                             *)

\* The run being processed goes over to x, or ends and q takes the session.
Moves(r, x, q) ==
    /\ r \in Runs /\ x \in RunStates \ {"NONE", "QUEUED"}
    /\ q = None \/ q \in Queued
    /\ state' = [s \in Runs |-> IF s = r THEN x
                                ELSE IF s = q THEN "RUNNING" ELSE state[s]]
    /\ \/ state[r] \in {"RUNNING", "DELIVERY_PENDING"}
       \/ Waiting(r) /\ action[r] = "COMPLETED"
       \/ FinalizeRejected /\ r = Top.run /\ action[r] = "REJECTED"
    /\ \/ q = None /\ activeRun' = activeRun
       \/ /\ activeRun' = q /\ x \in Terminal
          /\ state[r] \in {"RUNNING", "DELIVERY_PENDING"}
          /\ activeRun = r \/ ~IsCommand(r)

LEMMA AloneMoves ==
  ASSUME Inv, NEW r \in Runs, NEW x \in RunStates \ {"NONE", "QUEUED"},
         state' = [state EXCEPT ![r] = x], activeRun' = activeRun,
         \/ state[r] \in {"RUNNING", "DELIVERY_PENDING"}
         \/ Waiting(r) /\ action[r] = "COMPLETED"
         \/ FinalizeRejected /\ r = Top.run /\ action[r] = "REJECTED"
  PROVE  Moves(r, x, None)
<1>1. state' = [s \in Runs |-> IF s = r THEN x ELSE IF s = None THEN "RUNNING" ELSE state[s]]
  BY ConstantFacts DEF Inv, RowsInv
<1> QED
  BY <1>1 DEF Moves

LEMMA ReleaseMoves ==
  ASSUME Inv, NEW r \in Runs, NEW x \in {"COMPLETED", "FAILED"}, Release(r, x),
         state[r] \in {"RUNNING", "DELIVERY_PENDING"},
         activeRun = r \/ ~IsCommand(r)
  PROVE  \E q : Moves(r, x, q)
<1>1. PICK q \in Runs \cup {None} :
         /\ q = None \/ q \in Queued
         /\ state' = [s \in Runs |-> IF s = r THEN x
                                     ELSE IF s = q THEN "RUNNING" ELSE state[s]]
         /\ activeRun' = q
  BY ReleaseFacts
<1>2. x \in RunStates \ {"NONE", "QUEUED"} /\ x \in Terminal
  BY DEF RunStates, Terminal
<1>3. Moves(r, x, q)
  BY <1>1, <1>2 DEF Moves
<1> QED
  BY <1>3

\* Whose run is at work is running, or between two attempts.
LEMMA AtWorkFacts ==
  ASSUME Inv, NEW pc \in AtWork, At(pc)
  PROVE  Top.run \in Runs /\ state[Top.run] \in {"RUNNING", "DELIVERY_PENDING"}
<1>1. PICK f, rest : Stacked(f, rest) /\ f = Top /\ rest = Tail(agent.stack) /\ f.pc = pc
  BY AtTop
<1> QED
  BY <1>1, FrameFacts DEF Stacked, FrameOK

LEMMA RunStepMoves ==
  ASSUME Inv, RunStep
  PROVE  \/ UNCHANGED <<state, activeRun>>
         \/ \E r, x, q : Moves(r, x, q)
<1>1. CASE BeginRunning \/ BeginAttempt \/ ThinkAnswer \/ RecordPrompt \/ Execute \/ ExecuteFails
  BY <1>1 DEF BeginRunning, BeginAttempt, ThinkAnswer, RecordPrompt, Execute, ExecuteFails,
              runVars
<1>2. ASSUME NEW outcome \in Outcomes, PushAnswer(outcome) \/ PushPrompt(outcome)
      PROVE  UNCHANGED <<state, activeRun>>
  BY <1>2 DEF PushAnswer, PushPrompt, runVars
<1>3. ASSUME NEW expired \in MayExpire, ResolveUnknown(expired) \/ Resolve(expired)
      PROVE  UNCHANGED <<state, activeRun>>
  BY <1>3 DEF ResolveUnknown, Resolve, runVars
<1>4. {"WAITING_USER_CONFIRMATION", "RUNNING", "DELIVERY_PENDING", "COMPLETED", "FAILED"}
        \subseteq RunStates \ {"NONE", "QUEUED"}
  BY DEF RunStates
<1>5. CASE BeginExhausted
  <2>1. Top.run \in Runs /\ state[Top.run] \in {"RUNNING", "DELIVERY_PENDING"}
    BY <1>5, AtWorkFacts, PlaceFacts DEF BeginExhausted
  <2>2. CASE activeRun = Top.run
    <3>1. Release(Top.run, "FAILED")
      BY <1>5, <2>2 DEF BeginExhausted
    <3> QED
      BY <2>1, <2>2, <3>1, ReleaseMoves
  <2>3. CASE activeRun # Top.run
    <3>1. state' = [state EXCEPT ![Top.run] = "FAILED"] /\ activeRun' = activeRun
      BY <1>5, <2>3 DEF BeginExhausted
    <3> QED
      BY <1>4, <2>1, <3>1, AloneMoves
  <2> QED
    BY <2>2, <2>3
<1>6. CASE ThinkPropose \/ ThinkRetry
  <2>1. Top.run \in Runs /\ state[Top.run] \in {"RUNNING", "DELIVERY_PENDING"}
    BY <1>6, AtWorkFacts, PlaceFacts DEF ThinkPropose, ThinkRetry
  <2>2. PICK x \in {"WAITING_USER_CONFIRMATION", "DELIVERY_PENDING"} :
           state' = [state EXCEPT ![Top.run] = x] /\ activeRun' = activeRun
    BY <1>6 DEF ThinkPropose, ThinkRetry
  <2> QED
    BY <1>4, <2>1, <2>2, AloneMoves
<1>7. CASE ThinkFail
  <2>1. Top.run \in Runs /\ state[Top.run] \in {"RUNNING", "DELIVERY_PENDING"}
    BY <1>7, AtWorkFacts, PlaceFacts DEF ThinkFail
  <2>2. ~IsCommand(Top.run)
    <3>1. PICK f, rest : Stacked(f, rest) /\ f = Top /\ rest = Tail(agent.stack) /\ f.pc = "think"
      BY <1>7, AtTop DEF ThinkFail
    <3> QED
      BY <3>1 DEF Stacked, FrameOK
  <2>3. Release(Top.run, "FAILED")
    BY <1>7 DEF ThinkFail
  <2> QED
    BY <2>1, <2>2, <2>3, ReleaseMoves
<1>8. CASE PersistAnswer
  <2>1. Top.run \in Runs /\ state[Top.run] \in {"RUNNING", "DELIVERY_PENDING"}
    BY <1>8, AtWorkFacts, PlaceFacts DEF PersistAnswer
  <2>2. activeRun' = activeRun
        /\ (state' = state \/ state' = [state EXCEPT ![Top.run] = "DELIVERY_PENDING"])
    BY <1>8 DEF PersistAnswer
  <2> QED
    BY <1>4, <2>1, <2>2, AloneMoves
<1>9. CASE RecordRetry \/ RecordCommandDelivery
  <2>1. Top.run \in Runs /\ state[Top.run] \in {"RUNNING", "DELIVERY_PENDING"}
    BY <1>9, AtWorkFacts, PlaceFacts DEF RecordRetry, RecordCommandDelivery
  <2>2. PICK x \in {"DELIVERY_PENDING", "COMPLETED", "FAILED"} :
           state' = [state EXCEPT ![Top.run] = x] /\ activeRun' = activeRun
    BY <1>9 DEF RecordRetry, RecordCommandDelivery
  <2> QED
    BY <1>4, <2>1, <2>2, AloneMoves
<1>10. CASE RecordDelivery
  <2>1. Top.run \in Runs /\ state[Top.run] \in {"RUNNING", "DELIVERY_PENDING"}
    BY <1>10, AtWorkFacts, PlaceFacts DEF RecordDelivery
  <2>2. PICK x \in {"COMPLETED", "FAILED"} : Release(Top.run, x)
    BY <1>10 DEF RecordDelivery
  <2>3. ~IsCommand(Top.run)
    BY <1>10 DEF RecordDelivery
  <2> QED
    BY <2>1, <2>2, <2>3, ReleaseMoves
<1>11. CASE ResumeRun
  <2>1. PICK f, rest : Stacked(f, rest) /\ f = Top /\ rest = Tail(agent.stack) /\ f.pc = "resume"
    BY <1>11, AtTop DEF ResumeRun
  <2>2. Top.run \in Runs /\ Waiting(Top.run) /\ action[Top.run] = "COMPLETED"
    BY <2>1, FrameFacts DEF Stacked, FrameOK
  <2>3. state' = [state EXCEPT ![Top.run] = "RUNNING"] /\ activeRun' = activeRun
    BY <1>11, <2>2 DEF ResumeRun
  <2> QED
    BY <1>4, <2>2, <2>3, AloneMoves
<1>12. CASE FinalizeRejected
  <2>1. PICK f, rest : Stacked(f, rest) /\ f = Top /\ rest = Tail(agent.stack) /\ f.pc = "finalize"
    BY <1>12, AtTop DEF FinalizeRejected
  <2>2. Top.run \in Runs /\ action[Top.run] = "REJECTED"
    BY <2>1, FrameFacts DEF Stacked, FrameOK
  <2>3. state' = [state EXCEPT ![Top.run] = "RUNNING"] /\ activeRun' = activeRun
    BY <1>12 DEF FinalizeRejected
  <2> QED
    BY <1>4, <1>12, <2>2, <2>3, AloneMoves
<1>13. CASE LoadFails
  <2>1. Top.run \in Runs /\ state[Top.run] \in {"RUNNING", "DELIVERY_PENDING"}
    BY <1>13, AtWorkFacts, PlaceFacts DEF LoadFails
  <2>2. /\ state' = [state EXCEPT ![Top.run] = "FAILED"]
        /\ activeRun' = IF activeRun = Top.run THEN None ELSE activeRun
    BY <1>13 DEF LoadFails
  <2>3. CASE activeRun' = activeRun
    BY <1>4, <2>1, <2>2, <2>3, AloneMoves
  <2>4. CASE activeRun = Top.run /\ activeRun' = None
    <3>1. state' = [s \in Runs |-> IF s = Top.run THEN "FAILED"
                                   ELSE IF s = None THEN "RUNNING" ELSE state[s]]
      BY <2>1, <2>2, ConstantFacts DEF Inv, RowsInv
    <3>2. Moves(Top.run, "FAILED", None)
      BY <1>4, <2>1, <2>4, <3>1 DEF Moves, Terminal
    <3> QED
      BY <3>2
  <2> QED
    BY <2>2, <2>3, <2>4
<1> QED
  BY <1>1, <1>2, <1>3, <1>5, <1>6, <1>7, <1>8, <1>9, <1>10, <1>11, <1>12, <1>13 DEF RunStep

\* Of the stages, only the timeout scan changes a state.
LEMMA StageStepMoves ==
  ASSUME Inv, StageStep
  PROVE  /\ activeRun' = activeRun /\ message' = message
         /\ \A s \in Runs : \/ state'[s] = state[s]
                            \/ state[s] = "RUNNING" /\ state'[s] = "FAILED"
<1>1. ASSUME NEW old \in SUBSET Runs, RecoverRuns(old)
      PROVE  /\ activeRun' = activeRun /\ message' = message
             /\ \A s \in Runs : \/ state'[s] = state[s]
                                \/ state[s] = "RUNNING" /\ state'[s] = "FAILED"
  BY <1>1 DEF RecoverRuns, TimedOut
<1>2. CASE EndActions \/ EndResume \/ SelectPrompts
  BY <1>2 DEF EndActions, EndResume, SelectPrompts, runVars
<1>3. CASE PickRun
  BY <1>3, NothingClaimable DEF PickRun
<1>4. ASSUME NEW r \in Runs, ExecuteRecovered(r) \/ ResumeNext(r) \/ ReconcileNext(r) \/ PromptNext(r)
      PROVE  UNCHANGED runVars
  BY <1>4 DEF ExecuteRecovered, ResumeNext, ReconcileNext, PromptNext
<1> QED
  BY <1>1, <1>2, <1>3, <1>4 DEF StageStep, runVars

\* A message that arrives changes no run but its own.
LEMMA IngestMoves ==
  ASSUME Inv, NEW m \in Commands \cup {Question}, Ingest(m)
  PROVE  \E r \in Runs :
           /\ state[r] = "NONE" /\ state'[r] \in {"RUNNING", "QUEUED"}
           /\ message'[r] = m
           /\ \A s \in Runs \ {r} : state'[s] = state[s] /\ message'[s] = message[s]
           /\ \/ activeRun' = activeRun /\ (m = Question => state'[r] = "QUEUED")
              \/ activeRun' = r /\ \A s \in Runs : state[s] \notin Live
<1>1. PICK n \in 0 .. MaxRuns : ArrivedTo(n)
  BY DEF Inv, RunsInv
<1>2. PICK r \in Runs : r = n + 1 /\ r = Cardinality(Arrived) + 1
  BY <1>1, ArrivedFacts DEF Ingest
<1>3. state[r] = "NONE"
  BY <1>1, <1>2, ConstantFacts DEF ArrivedTo
<1>4. PICK b \in BOOLEAN : b = \E s \in Runs : state[s] \in Live
  OBVIOUS
<1>5. /\ state' = [state EXCEPT ![r] = IF m # Question \/ ~b THEN "RUNNING" ELSE "QUEUED"]
      /\ message' = [message EXCEPT ![r] = m]
      /\ activeRun' = IF m = Question /\ ~b THEN r ELSE activeRun
  BY <1>2, <1>4 DEF Ingest
<1>6. \A s \in Runs \ {r} : state'[s] = state[s] /\ message'[s] = message[s]
  BY <1>5 DEF Inv, RowsInv
<1>7. /\ state'[r] = IF m # Question \/ ~b THEN "RUNNING" ELSE "QUEUED"
      /\ message'[r] = m
  BY <1>5 DEF Inv, RowsInv
<1>8. CASE m = Question /\ ~b
  BY <1>3, <1>4, <1>5, <1>6, <1>7, <1>8
<1>9. CASE ~(m = Question /\ ~b)
  BY <1>3, <1>4, <1>5, <1>6, <1>7, <1>9
<1> QED
  BY <1>8, <1>9

LEMMA RunStepMessage ==
  ASSUME RunStep PROVE message' = message
<1>1. ASSUME NEW outcome \in Outcomes, PushAnswer(outcome) \/ PushPrompt(outcome)
      PROVE  message' = message
  BY <1>1 DEF PushAnswer, PushPrompt, runVars
<1>2. ASSUME NEW expired \in MayExpire, ResolveUnknown(expired) \/ Resolve(expired)
      PROVE  message' = message
  BY <1>2 DEF ResolveUnknown, Resolve, runVars
<1>3. CASE BeginRunning \/ BeginAttempt \/ LoadFails \/ BeginExhausted \/ ThinkAnswer
             \/ ThinkPropose \/ ThinkRetry \/ ThinkFail
  BY <1>3 DEF BeginRunning, BeginAttempt, LoadFails, BeginExhausted, ThinkAnswer, ThinkPropose,
              ThinkRetry, ThinkFail, runVars
<1>4. CASE PersistAnswer \/ RecordRetry \/ RecordDelivery \/ RecordCommandDelivery \/ RecordPrompt
             \/ Execute \/ ExecuteFails \/ ResumeRun \/ FinalizeRejected
  BY <1>4 DEF PersistAnswer, RecordRetry, RecordDelivery, RecordCommandDelivery, RecordPrompt,
              Execute, ExecuteFails, ResumeRun, FinalizeRejected, runVars
<1> QED
  BY <1>1, <1>2, <1>3, <1>4 DEF RunStep

\* Neither clocks nor a death change a state.
LEMMA OtherMoves ==
  ASSUME \/ \E r \in Runs : RetryTimeComes(r) \/ ActionRetryTimeComes(r)
         \/ Crash \/ UNCHANGED vars
  PROVE  UNCHANGED <<state, message, activeRun>>
BY DEF RetryTimeComes, ActionRetryTimeComes, Crash, vars, runVars

\* A suspended run goes on, and the LLM is told of the outcome, only after the
\* facts were changed or the user refused, also by the scans of a restart and by
\* commands that are repeated (resume_confirmed_action, finalize_rejected_action).
THEOREM ResumedAfterDecisionAlways == Spec => ResumedAfterDecision
<1> DEFINE Decided == \A r \in Runs :
                        Waiting(r) /\ ~Waiting(r)' => action[r] \in {"COMPLETED", "REJECTED"}
<1>1. Inv /\ [Next]_vars => Decided
  <2> SUFFICES ASSUME Inv, [Next]_vars, NEW r \in Runs, Waiting(r), ~Waiting(r)'
               PROVE  action[r] \in {"COMPLETED", "REJECTED"}
    OBVIOUS
  <2>1. state'[r] # state[r] /\ state[r] = "WAITING_USER_CONFIRMATION"
    BY DEF Waiting
  <2>2. ASSUME NEW m \in Commands \cup {Question}, Ingest(m) PROVE FALSE
    BY <2>1, <2>2, IngestMoves
  <2>3. CASE StageStep
    BY <2>1, <2>3, StageStepMoves
  <2>4. CASE RunStep
    <3>1. PICK t, x, q : Moves(t, x, q)
      BY <2>1, <2>4, RunStepMoves
    <3>2. r = t
      BY <2>1, <3>1, ConstantFacts DEF Moves, Queued
    <3> QED
      BY <2>1, <3>1, <3>2 DEF Moves
  <2>5. ~(\/ \E s \in Runs : RetryTimeComes(s) \/ ActionRetryTimeComes(s)
          \/ Crash \/ UNCHANGED vars)
    BY <2>1, OtherMoves
  <2> QED
    BY <2>2, <2>3, <2>4, <2>5 DEF Next, AgentStep
<1>2. Inv /\ [Next]_vars => [Decided]_vars
  BY <1>1
<1> QED
  BY <1>2, InvAlways, PTL DEF Spec, ResumedAfterDecision

\* A run that has completed or failed is not touched again, whatever recovery,
\* timeouts, redelivery, reconciliation, repeated commands and deaths do; only
\* the refusal of its own action reopens it (finalize_rejected_action).
THEOREM ReopenedByRefusalOnlyAlways == Spec => ReopenedByRefusalOnly
<1> DEFINE Reopened(r) == /\ At("finalize") /\ Top.run = r /\ action[r] = "REJECTED"
                          /\ state'[r] = "RUNNING"
           Reopening == \A r \in Runs :
                          state[r] \in Terminal /\ state'[r] # state[r] => Reopened(r)
<1>1. Inv /\ [Next]_vars => Reopening
  <2> SUFFICES ASSUME Inv, [Next]_vars, NEW r \in Runs, state[r] \in Terminal,
                      state'[r] # state[r]
               PROVE  Reopened(r)
    OBVIOUS
  <2>1. ASSUME NEW m \in Commands \cup {Question}, Ingest(m) PROVE FALSE
    BY <2>1, IngestMoves DEF Terminal
  <2>2. CASE StageStep
    BY <2>2, StageStepMoves DEF Terminal
  <2>3. CASE RunStep
    <3>1. PICK t, x, q : Moves(t, x, q)
      BY <2>3, RunStepMoves
    <3>2. r = t
      BY <3>1, ConstantFacts DEF Moves, Queued, Terminal
    <3>3. FinalizeRejected /\ r = Top.run /\ action[r] = "REJECTED"
      BY <3>1, <3>2 DEF Moves, Terminal, Waiting
    <3>4. At("finalize") /\ state' = [state EXCEPT ![r] = "RUNNING"]
      BY <3>3 DEF FinalizeRejected
    <3>5. state'[r] = "RUNNING"
      BY <3>4 DEF Inv, RowsInv
    <3> QED
      BY <3>3, <3>4, <3>5
  <2>4. ~(\/ \E s \in Runs : RetryTimeComes(s) \/ ActionRetryTimeComes(s)
          \/ Crash \/ UNCHANGED vars)
    BY OtherMoves
  <2> QED
    BY <2>1, <2>2, <2>3, <2>4 DEF Next, AgentStep
<1>2. Inv /\ [Next]_vars => [Reopening]_vars
  BY <1>1
<1> QED
  BY <1>2, InvAlways, PTL DEF Spec, ReopenedByRefusalOnly

-----------------------------------------------------------------------------
(* What holds while no refusal meets a run that does not wait for it.      *)

TerminalIsFinal ==
    [][\A r \in Runs : state[r] \in Terminal => state'[r] = state[r]]_vars

LEMMA TerminalStep ==
  ASSUME Inv, [Next]_vars, [RefusedInTime]_vars,
         NEW s \in Runs, state[s] \in Terminal
  PROVE  state'[s] = state[s]
<1>1. ASSUME NEW m \in Commands \cup {Question}, Ingest(m) PROVE state'[s] = state[s]
  BY <1>1, IngestMoves DEF Terminal
<1>2. CASE StageStep
  BY <1>2, StageStepMoves DEF Terminal
<1>3. CASE RunStep
  <2> SUFFICES ASSUME state' # state PROVE state'[s] = state[s]
    OBVIOUS
  <2>1. PICK t, x, q : Moves(t, x, q)
    BY <1>3, RunStepMoves
  <2>2. RefusedInTime
    BY DEF vars, runVars
  <2>3. s # t
    BY <2>1, <2>2 DEF Moves, RefusedInTime, Terminal, Waiting
  <2>4. s # q
    BY <2>1, ConstantFacts DEF Moves, Queued, Terminal
  <2> QED
    BY <2>1, <2>3, <2>4 DEF Moves
<1>4. CASE \/ \E r \in Runs : RetryTimeComes(r) \/ ActionRetryTimeComes(r)
           \/ Crash \/ UNCHANGED vars
  BY <1>4, OtherMoves
<1> QED
  BY <1>1, <1>2, <1>3, <1>4 DEF Next, AgentStep

LEMMA ActiveStep ==
  ASSUME Inv, [Next]_vars, [RefusedInTime]_vars, ActiveRunHoldsSession
  PROVE  ActiveRunHoldsSession'
<1>1. ASSUME NEW m \in Commands \cup {Question}, Ingest(m) PROVE ActiveRunHoldsSession'
  <2>1. PICK r \in Runs :
           /\ state[r] = "NONE" /\ state'[r] \in {"RUNNING", "QUEUED"}
           /\ message'[r] = m
           /\ \A s \in Runs \ {r} : state'[s] = state[s] /\ message'[s] = message[s]
           /\ \/ activeRun' = activeRun /\ (m = Question => state'[r] = "QUEUED")
              \/ activeRun' = r /\ \A s \in Runs : state[s] \notin Live
    BY <1>1, IngestMoves
  <2> SUFFICES ASSUME NEW s \in Runs, state'[s] \in Holding, ~IsCommand(s)'
               PROVE  activeRun' = s
    BY DEF ActiveRunHoldsSession
  <2>2. CASE s = r
    BY <2>1, <2>2 DEF Holding, IsCommand
  <2>3. CASE s # r
    <3>1. state[s] \in Holding /\ ~IsCommand(s)
      BY <2>1, <2>3 DEF IsCommand
    <3>2. activeRun = s /\ state[s] \in Live
      BY <3>1 DEF ActiveRunHoldsSession, Holding
    <3> QED
      BY <2>1, <3>2
  <2> QED
    BY <2>2, <2>3
<1>2. CASE StageStep
  <2>1. \A s \in Runs : state'[s] \in Holding => state[s] \in Holding
    BY <1>2, StageStepMoves DEF Holding, Live
  <2> QED
    BY <1>2, <2>1, StageStepMoves DEF ActiveRunHoldsSession, IsCommand
<1>3. CASE RunStep
  <2>1. message' = message
    BY <1>3, RunStepMessage
  <2>2. CASE UNCHANGED <<state, activeRun>>
    BY <2>1, <2>2 DEF ActiveRunHoldsSession, IsCommand
  <2>3. CASE \E r, x, q : Moves(r, x, q)
    <3>1. PICK r, x, q : Moves(r, x, q)
      BY <2>3
    <3>2. state[r] \in Holding
      <4>1. RefusedInTime \/ UNCHANGED vars
        OBVIOUS
      <4>2. CASE RefusedInTime
        BY <3>1, <4>2 DEF Moves, RefusedInTime, Waiting, Holding, Live
      <4>3. CASE UNCHANGED vars
        <5>1. state' = state /\ r \in Runs
          BY <3>1, <4>3 DEF vars, runVars, Moves
        <5>2. CASE state[r] \in {"RUNNING", "DELIVERY_PENDING"} \/ Waiting(r)
          BY <5>2 DEF Waiting, Holding, Live
        <5>3. CASE FinalizeRejected
          <6>1. \/ /\ state[r] = state'[r] /\ r = Top.run
                   /\ state' = [state EXCEPT ![Top.run] = "RUNNING"]
                \/ state[r] \in {"RUNNING", "DELIVERY_PENDING"} \/ Waiting(r)
            BY <3>1, <5>1, <5>3 DEF Moves, FinalizeRejected
          <6> QED
            BY <5>1, <6>1 DEF Inv, RowsInv, Waiting, Holding, Live
        <5> QED
          BY <3>1, <5>2, <5>3 DEF Moves
      <4> QED
        BY <4>1, <4>2, <4>3
    <3> SUFFICES ASSUME NEW s \in Runs, state'[s] \in Holding, ~IsCommand(s)
                 PROVE  activeRun' = s
      BY <2>1 DEF ActiveRunHoldsSession, IsCommand
    <3>3. CASE q = None /\ activeRun' = activeRun
      <4>1. state[s] \in Holding
        BY <3>1, <3>2, <3>3, ConstantFacts DEF Moves
      <4> QED
        BY <3>3, <4>1 DEF ActiveRunHoldsSession
    <3>4. CASE /\ activeRun' = q /\ x \in Terminal
               /\ activeRun = r \/ ~IsCommand(r)
      <4>1. activeRun = r
        BY <3>1, <3>2, <3>4 DEF ActiveRunHoldsSession, Moves
      <4>2. s # r
        BY <3>1, <3>4 DEF Moves, Terminal, Holding, Live
      <4>3. state[s] \in Holding => FALSE
        BY <4>1, <4>2 DEF ActiveRunHoldsSession
      <4>4. s = q
        BY <3>1, <4>2, <4>3 DEF Moves
      <4> QED
        BY <3>4, <4>4
    <3> QED
      BY <3>1, <3>3, <3>4 DEF Moves
  <2> QED
    BY <1>3, <2>2, <2>3, RunStepMoves
<1>4. CASE \/ \E r \in Runs : RetryTimeComes(r) \/ ActionRetryTimeComes(r)
           \/ Crash \/ UNCHANGED vars
  BY <1>4, OtherMoves DEF ActiveRunHoldsSession, IsCommand
<1> QED
  BY <1>1, <1>2, <1>3, <1>4 DEF Next, AgentStep

LEMMA ReachedKeeps ==
  ASSUME Inv, ReachedInv, UNCHANGED <<reached, crashes>>,
         \A s \in Runs : state[s] \in Terminal => state'[s] = state[s],
         \A s \in Runs : Sending(s) => state'[s] \in Terminal \/ Sending(s)'
  PROVE  ReachedInv'
<1> SUFFICES ASSUME NEW s \in Runs
             PROVE  reached[s] <= crashes + (IF state'[s] \in Terminal \/ Sending(s)' THEN 1 ELSE 0)
  BY DEF ReachedInv
<1>1. reached[s] \in Nat /\ crashes \in Nat
  BY ConstantFacts DEF Inv, RowsInv
<1>2. reached[s] <= crashes + (IF state[s] \in Terminal \/ Sending(s) THEN 1 ELSE 0)
  BY DEF ReachedInv
<1>3. CASE state[s] \in Terminal \/ Sending(s)
  <2>1. state'[s] \in Terminal \/ Sending(s)'
    BY <1>3
  <2> QED
    BY <1>2, <1>3, <2>1
<1>4. CASE ~(state[s] \in Terminal \/ Sending(s))
  <2>1. reached[s] <= crashes
    BY <1>1, <1>2, <1>4
  <2> QED
    BY <1>1, <2>1
<1> QED
  BY <1>3, <1>4

\* The outcome is on the stack when the answer has left, and only then.
LEMMA PushReached ==
  ASSUME Inv, ReachedInv, NEW outcome \in Outcomes, PushAnswer(outcome)
  PROVE  ReachedInv'
<1>1. PICK f, rest : Stacked(f, rest) /\ f = Top /\ rest = Tail(agent.stack) /\ f.pc = "push"
  BY AtTop DEF PushAnswer
<1>2. /\ agent' = Pushed(outcome, "record") /\ state' = state /\ crashes' = crashes
      /\ reached' = [reached EXCEPT ![f.run] =
                       IF outcome \in {"SENT", "AMBIGUOUS"} THEN reached[f.run] + 1
                       ELSE reached[f.run]]
  BY <1>1 DEF PushAnswer, runVars
<1>3. PICK h : /\ h = [f EXCEPT !.pc = "record", !.outcome = outcome]
               /\ agent' = [agent EXCEPT !.stack = <<h>> \o rest]
  BY <1>1, <1>2 DEF Pushed
<1>4. h.run = f.run /\ h.pc = "record" /\ h.outcome = outcome /\ h \in FrameType
  BY <1>1, <1>3 DEF Stacked, FrameType
<1>5. agent'.stack # <<>> /\ agent'.stack[1] = h
  <2>1. rest \in Seq(FrameType)
    <3>1. CASE rest = <<>>
      BY <3>1
    <3>2. ASSUME NEW g \in FrameType, rest = <<g>> PROVE rest \in Seq(FrameType)
      BY <3>2
    <3> QED
      BY <1>1, <3>1, <3>2 DEF Stacked
  <2>2. agent'.stack = <<h>> \o rest
    BY <1>3 DEF Inv, StageInv
  <2>3. <<h>> \in Seq(FrameType) /\ Len(<<h>>) = 1
    BY <1>4
  <2>4. PICK one \in Seq(FrameType) : one = <<h>> /\ Len(one) = 1 /\ one[1] = h
    <3>1. <<h>>[1] = h
      OBVIOUS
    <3> QED
      BY <2>3, <3>1
  <2>5. (one \o rest)[1] = h /\ one \o rest # <<>>
    <3>1. 1 \in 1 .. Len(one) + Len(rest)
      BY <2>1, <2>4, LenProperties
    <3>2. (one \o rest)[1] = one[1]
      BY <2>1, <2>4, <3>1, ConcatProperties
    <3>3. one \o rest # <<>>
      BY <2>1, <2>4, ConcatEqualIffEmpty
    <3> QED
      BY <2>4, <3>2, <3>3
  <2> QED
    BY <2>2, <2>4, <2>5
<1>6. \A s \in Runs : /\ ~Sending(s)
                      /\ s = f.run /\ outcome \in {"SENT", "AMBIGUOUS"} => Sending(s)'
  <2>1. \A s \in Runs : ~Sending(s)
    BY <1>1 DEF Sending, At
  <2>2. At("record")' /\ Top'.run = f.run /\ Top'.outcome = outcome
    BY <1>4, <1>5 DEF At, Top
  <2> QED
    BY <2>1, <2>2 DEF Sending
<1>7. f.run \in Runs /\ state[f.run] \notin Terminal
  BY <1>1, FrameFacts, PlaceFacts DEF Stacked, FrameOK, Terminal
<1> SUFFICES ASSUME NEW s \in Runs
             PROVE  reached'[s] <= crashes + (IF state[s] \in Terminal \/ Sending(s)' THEN 1 ELSE 0)
  BY <1>2 DEF ReachedInv
<1>8. reached[s] \in Nat /\ crashes \in Nat
      /\ reached[s] <= crashes + (IF state[s] \in Terminal THEN 1 ELSE 0)
  BY <1>6, ConstantFacts DEF ReachedInv, Inv, RowsInv
<1>9. CASE s = f.run /\ outcome \in {"SENT", "AMBIGUOUS"}
  <2>1. reached[s] <= crashes
    BY <1>7, <1>8, <1>9
  <2>2. reached'[s] = reached[s] + 1 /\ Sending(s)'
    BY <1>2, <1>6, <1>7, <1>9 DEF Inv, RowsInv
  <2> QED
    BY <1>8, <2>1, <2>2
<1>10. CASE ~(s = f.run /\ outcome \in {"SENT", "AMBIGUOUS"})
  <2>1. reached'[s] = reached[s]
    BY <1>2, <1>7, <1>10 DEF Inv, RowsInv
  <2>2. CASE state[s] \in Terminal
    BY <1>8, <2>1, <2>2
  <2>3. CASE state[s] \notin Terminal
    <3>1. reached[s] <= crashes
      BY <1>8, <2>3
    <3> QED
      BY <1>8, <2>1, <3>1
  <2> QED
    BY <2>2, <2>3
<1> QED
  BY <1>9, <1>10

\* What is being recorded either is not an answer that left, or ends the run.
LEMMA RecordReached ==
  ASSUME Inv, RecordRetry \/ RecordDelivery \/ RecordCommandDelivery, NEW s \in Runs, Sending(s)
  PROVE  state'[s] \in Terminal
<1>1. s = Top.run /\ Top.outcome \in {"SENT", "AMBIGUOUS"}
  BY DEF Sending
<1>2. ~RecordRetry
  BY <1>1 DEF RecordRetry, Retry
<1>3. CASE RecordDelivery
  <2>1. PICK x \in {"COMPLETED", "FAILED"} : Release(s, x)
    BY <1>1, <1>3 DEF RecordDelivery
  <2>2. state'[s] = x
    BY <2>1 DEF Release
  <2> QED
    BY <2>2 DEF Terminal
<1>4. CASE RecordCommandDelivery
  <2>1. PICK x \in {"COMPLETED", "FAILED"} : state' = [state EXCEPT ![s] = x]
    BY <1>1, <1>4 DEF RecordCommandDelivery
  <2>2. state'[s] = x
    BY <2>1 DEF Inv, RowsInv
  <2> QED
    BY <2>2 DEF Terminal
<1> QED
  BY <1>2, <1>3, <1>4

LEMMA ReachedStep ==
  ASSUME Inv, [Next]_vars, [RefusedInTime]_vars, ReachedInv
  PROVE  ReachedInv'
<1>0. \A s \in Runs : state[s] \in Terminal => state'[s] = state[s]
  BY TerminalStep
<1>1. ASSUME UNCHANGED <<agent, reached, crashes>> PROVE ReachedInv'
  <2>1. \A s \in Runs : Sending(s) => Sending(s)'
    BY <1>1 DEF Sending, At, Top
  <2> QED
    BY <1>0, <1>1, <2>1, ReachedKeeps
<1>2. ASSUME UNCHANGED <<reached, crashes>>, ~At("record") PROVE ReachedInv'
  <2>1. \A s \in Runs : ~Sending(s)
    BY <1>2 DEF Sending
  <2> QED
    BY <1>0, <1>2, <2>1, ReachedKeeps
<1>3. ASSUME NEW m \in Commands \cup {Question}, Ingest(m) PROVE ReachedInv'
  BY <1>1, <1>3 DEF Ingest
<1>4. CASE StageStep
  <2>1. ASSUME NEW old \in SUBSET Runs, RecoverRuns(old)
        PROVE  UNCHANGED <<reached, crashes>> /\ agent.stack = <<>>
    BY <2>1 DEF RecoverRuns, Between
  <2>2. ASSUME EndActions \/ EndResume \/ SelectPrompts \/ PickRun
        PROVE  UNCHANGED <<reached, crashes>> /\ agent.stack = <<>>
    BY <2>2 DEF EndActions, EndResume, SelectPrompts, PickRun, Between
  <2>3. ASSUME NEW r \in Runs,
               ExecuteRecovered(r) \/ ResumeNext(r) \/ ReconcileNext(r) \/ PromptNext(r)
        PROVE  UNCHANGED <<reached, crashes>> /\ agent.stack = <<>>
    BY <2>3 DEF ExecuteRecovered, ResumeNext, ReconcileNext, PromptNext, Between
  <2>4. UNCHANGED <<reached, crashes>> /\ agent.stack = <<>>
    BY <1>4, <2>1, <2>2, <2>3 DEF StageStep
  <2> QED
    BY <1>2, <2>4 DEF At
<1>5. CASE RunStep
  <2>1. ASSUME NEW outcome \in Outcomes, PushAnswer(outcome) PROVE ReachedInv'
    BY <2>1, PushReached
  <2>2. ASSUME NEW outcome \in Outcomes, PushPrompt(outcome)
        PROVE  UNCHANGED <<reached, crashes>> /\ ~At("record")
    BY <2>2 DEF PushPrompt, At
  <2>3. ASSUME NEW expired \in MayExpire, ResolveUnknown(expired) \/ Resolve(expired)
        PROVE  UNCHANGED <<reached, crashes>> /\ ~At("record")
    BY <2>3 DEF ResolveUnknown, Resolve, At
  <2>4. ASSUME BeginRunning \/ BeginAttempt \/ LoadFails \/ BeginExhausted \/ ThinkAnswer
               \/ ThinkPropose \/ ThinkRetry \/ ThinkFail
        PROVE  UNCHANGED <<reached, crashes>> /\ ~At("record")
    BY <2>4 DEF BeginRunning, BeginAttempt, LoadFails, BeginExhausted, ThinkAnswer, ThinkPropose,
                ThinkRetry, ThinkFail, At
  <2>5. ASSUME PersistAnswer \/ RecordPrompt \/ Execute \/ ExecuteFails \/ ResumeRun
               \/ FinalizeRejected
        PROVE  UNCHANGED <<reached, crashes>> /\ ~At("record")
    BY <2>5 DEF PersistAnswer, RecordPrompt, Execute, ExecuteFails, ResumeRun, FinalizeRejected, At
  <2>6. ASSUME RecordRetry \/ RecordDelivery \/ RecordCommandDelivery PROVE ReachedInv'
    <3>1. UNCHANGED <<reached, crashes>>
      BY <2>6 DEF RecordRetry, RecordDelivery, RecordCommandDelivery
    <3> QED
      BY <1>0, <2>6, <3>1, RecordReached, ReachedKeeps
  <2> QED
    BY <1>2, <1>5, <2>1, <2>2, <2>3, <2>4, <2>5, <2>6 DEF RunStep
<1>6. CASE \E r \in Runs : RetryTimeComes(r) \/ ActionRetryTimeComes(r)
  BY <1>1, <1>6 DEF RetryTimeComes, ActionRetryTimeComes
<1>7. CASE Crash
  <2>1. UNCHANGED <<reached, state>> /\ crashes' = crashes + 1
    BY <1>7 DEF Crash, runVars
  <2> SUFFICES ASSUME NEW s \in Runs PROVE reached[s] <= crashes'
               + (IF state'[s] \in Terminal \/ Sending(s)' THEN 1 ELSE 0)
    BY <2>1 DEF ReachedInv
  <2>2. reached[s] \in Nat /\ crashes \in Nat /\ reached[s] <= crashes + 1
    <3>1. reached[s] \in Nat /\ crashes \in Nat
      BY ConstantFacts DEF Inv, RowsInv
    <3>2. reached[s] <= crashes + (IF state[s] \in Terminal \/ Sending(s) THEN 1 ELSE 0)
      BY DEF ReachedInv
    <3> QED
      BY <3>1, <3>2
  <2>3. CASE state'[s] \in Terminal \/ Sending(s)'
    BY <2>1, <2>2, <2>3
  <2>4. CASE ~(state'[s] \in Terminal \/ Sending(s)')
    BY <2>1, <2>2, <2>4
  <2> QED
    BY <2>3, <2>4
<1>8. CASE UNCHANGED vars
  BY <1>1, <1>8 DEF vars
<1> QED
  BY <1>3, <1>4, <1>5, <1>6, <1>7, <1>8 DEF Next, AgentStep

LEMMA HeldStep ==
  ASSUME Inv, [Next]_vars, [RefusedInTime]_vars, HeldInv
  PROVE  HeldInv'
BY ActiveStep, ReachedStep DEF HeldInv

LEMMA HeldInit == Init => HeldInv
<1> SUFFICES ASSUME Init PROVE HeldInv
  OBVIOUS
<1>1. ActiveRunHoldsSession
  BY DEF Init, ActiveRunHoldsSession, Holding, Live
<1>2. ReachedInv
  <2> SUFFICES ASSUME NEW s \in Runs
               PROVE  reached[s] <= crashes + (IF state[s] \in Terminal \/ Sending(s) THEN 1 ELSE 0)
    BY DEF ReachedInv
  <2>1. reached[s] = 0 /\ crashes = 0
    BY DEF Init
  <2> QED
    BY <2>1
<1> QED
  BY <1>1, <1>2 DEF HeldInv

\* As long as no refusal meets a run that does not wait, the question that holds
\* the session is the one active_run_id names, so there is never a second one:
\* neither recovery nor promotion, an arrival, a repeated confirmation or a death
\* makes it so (store_message_and_run, promote_next_run, recover_runs).
THEOREM ActiveRunHoldsSessionUnless ==
  Spec /\ [][RefusedInTime]_vars => []ActiveRunHoldsSession
<1>1. Init => HeldInv
  BY HeldInit
<1>2. Inv /\ HeldInv /\ [Next]_vars /\ [RefusedInTime]_vars => HeldInv'
  BY HeldStep
<1>3. HeldInv => ActiveRunHoldsSession
  BY DEF HeldInv
<1> QED
  BY <1>1, <1>2, <1>3, InvAlways, PTL DEF Spec

\* As long as no refusal meets a run that does not wait, a run that has completed
\* or failed stays so.
THEOREM TerminalIsFinalUnless ==
  Spec /\ [][RefusedInTime]_vars => TerminalIsFinal
<1> DEFINE Final == \A r \in Runs : state[r] \in Terminal => state'[r] = state[r]
<1>1. Inv /\ [Next]_vars /\ [RefusedInTime]_vars => [Final]_vars
  BY TerminalStep
<1> QED
  BY <1>1, InvAlways, PTL DEF Spec, TerminalIsFinal

\* As long as no refusal meets a run that does not wait, an answer that reached
\* the user, or may have, is sent again only after a death (record_delivery).
THEOREM AnswerReachesOnceUnless ==
  Spec /\ [][RefusedInTime]_vars => []AnswerReachesOnce
<1>1. Init => HeldInv
  BY HeldInit
<1>2. Inv /\ HeldInv /\ [Next]_vars /\ [RefusedInTime]_vars => HeldInv'
  BY HeldStep
<1>3. Inv /\ HeldInv => AnswerReachesOnce
  <2> SUFFICES ASSUME Inv, HeldInv, NEW s \in Runs PROVE reached[s] <= 1 + crashes
    BY DEF AnswerReachesOnce
  <2>1. reached[s] \in Nat /\ crashes \in Nat
    BY ConstantFacts DEF Inv, RowsInv
  <2>2. reached[s] <= crashes + (IF state[s] \in Terminal \/ Sending(s) THEN 1 ELSE 0)
    BY DEF HeldInv, ReachedInv
  <2> QED
    BY <2>1, <2>2
<1> QED
  BY <1>1, <1>2, <1>3, InvAlways, PTL DEF Spec

-----------------------------------------------------------------------------
(* Users who refuse nothing.                                               *)

NothingRefused == \A r \in Runs : action[r] # "REJECTED"

LEMMA NothingRefusedStep ==
  ASSUME "REJECT" \notin Resolutions, Inv, NothingRefused, [Next]_vars
  PROVE  NothingRefused'
<1>1. CASE UNCHANGED action
  BY <1>1 DEF NothingRefused
<1>2. CASE \E r \in Runs : action' = [action EXCEPT ![r] = "COMPLETED"]
  BY <1>2 DEF NothingRefused, Inv, RowsInv
<1>3. CASE \E r \in Runs : action' = [action EXCEPT ![r] = "FAILED"]
  BY <1>3 DEF NothingRefused, Inv, RowsInv
<1>4. CASE ThinkPropose
  <2>1. action' = [action EXCEPT ![Top.run] = "PENDING"]
    BY <1>4 DEF ThinkPropose
  <2> QED
    BY <2>1 DEF NothingRefused, Inv, RowsInv
<1>5. ASSUME NEW expired \in MayExpire, Resolve(expired) PROVE NothingRefused'
  <2>1. PICK f, rest : /\ Stacked(f, rest) /\ f = Top /\ rest = Tail(agent.stack)
                       /\ f.pc = "resolve"
    BY <1>5, AtTop DEF Resolve
  <2>2. PICK r : r = Addressed(f.run, expired)
    OBVIOUS
  <2>3. action' = [action EXCEPT ![r] = Resolution(f.run, r, expired)] /\ r # None
    BY <1>5, <2>1, <2>2 DEF Resolve
  <2>4. f.run \in Runs /\ message[f.run] \in Commands
    BY <2>1, FrameFacts DEF Stacked, FrameOK, IsCommand, Inv, RowsInv
  <2>5. r \in Runs
    BY <1>5, <2>2, <2>3, <2>4, AddressedFacts, ExpiredFacts
  <2>6. Resolution(f.run, r, expired) # "REJECTED"
    <3>1. message[f.run].resolution = "CONFIRM"
      BY <2>4, SessionAssumption DEF Commands
    <3> QED
      BY <2>5, <3>1 DEF Resolution, NothingRefused
  <2> QED
    BY <2>3, <2>6 DEF NothingRefused, Inv, RowsInv
<1>6. CASE Execute
  <2>1. PICK f, rest : /\ Stacked(f, rest) /\ f = Top /\ rest = Tail(agent.stack)
                       /\ f.pc = "execute"
    BY <1>6, AtTop DEF Execute
  <2>2. f.run \in Runs /\ action[f.run] \in {"CONFIRMED", "COMPLETED"}
    BY <2>1, FrameFacts DEF Stacked, FrameOK
  <2>3. action' = [action EXCEPT ![f.run] = "COMPLETED"]
    BY <1>6, <2>1, <2>2 DEF Execute, Inv, RowsInv
  <2> QED
    BY <1>2, <2>2, <2>3
<1>7. CASE ExecuteFails
  <2>1. PICK f, rest : /\ Stacked(f, rest) /\ f = Top /\ rest = Tail(agent.stack)
                       /\ f.pc = "execute"
    BY <1>7, AtTop DEF ExecuteFails
  <2>2. f.run \in Runs /\ action' = [action EXCEPT ![f.run] = "FAILED"]
    BY <1>7, <2>1, FrameFacts DEF ExecuteFails
  <2> QED
    BY <1>3, <2>2
<1>8. ASSUME NEW r \in Runs, ExecuteRecovered(r) PROVE NothingRefused'
  BY <1>2, <1>3, <1>8 DEF ExecuteRecovered
<1>9. CASE StageStep
  <2>1. ASSUME NEW old \in SUBSET Runs, RecoverRuns(old) PROVE UNCHANGED action
    BY <2>1 DEF RecoverRuns, actionVars
  <2>2. ASSUME EndActions \/ EndResume \/ SelectPrompts \/ PickRun PROVE UNCHANGED action
    BY <2>2 DEF EndActions, EndResume, SelectPrompts, PickRun, actionVars
  <2>3. ASSUME NEW r \in Runs, ResumeNext(r) \/ ReconcileNext(r) \/ PromptNext(r)
        PROVE  UNCHANGED action
    BY <2>3 DEF ResumeNext, ReconcileNext, PromptNext, actionVars
  <2> QED
    BY <1>1, <1>8, <1>9, <2>1, <2>2, <2>3 DEF StageStep
<1>10. CASE RunStep
  <2>1. ASSUME NEW outcome \in Outcomes, PushAnswer(outcome) \/ PushPrompt(outcome)
        PROVE  UNCHANGED action
    BY <2>1 DEF PushAnswer, PushPrompt, actionVars
  <2>2. ASSUME NEW expired \in MayExpire, ResolveUnknown(expired) PROVE UNCHANGED action
    BY <2>2 DEF ResolveUnknown, actionVars
  <2>3. ASSUME BeginRunning \/ BeginAttempt \/ LoadFails \/ BeginExhausted \/ ThinkAnswer
               \/ ThinkRetry \/ ThinkFail
        PROVE  UNCHANGED action
    BY <2>3 DEF BeginRunning, BeginAttempt, LoadFails, BeginExhausted, ThinkAnswer, ThinkRetry,
                ThinkFail, actionVars
  <2>4. ASSUME PersistAnswer \/ RecordRetry \/ RecordDelivery \/ RecordCommandDelivery
               \/ RecordPrompt \/ ResumeRun \/ FinalizeRejected
        PROVE  UNCHANGED action
    BY <2>4 DEF PersistAnswer, RecordRetry, RecordDelivery, RecordCommandDelivery, RecordPrompt,
                ResumeRun, FinalizeRejected, actionVars
  <2> QED
    BY <1>1, <1>4, <1>5, <1>6, <1>7, <1>10, <2>1, <2>2, <2>3, <2>4 DEF RunStep
<1>11. ASSUME NEW m \in Commands \cup {Question}, Ingest(m) PROVE UNCHANGED action
  BY <1>11 DEF Ingest, actionVars
<1>12. ASSUME \/ \E r \in Runs : RetryTimeComes(r) \/ ActionRetryTimeComes(r)
              \/ Crash \/ UNCHANGED vars
       PROVE  UNCHANGED action
  BY <1>12 DEF RetryTimeComes, ActionRetryTimeComes, Crash, vars, actionVars
<1> QED
  BY <1>1, <1>9, <1>10, <1>11, <1>12 DEF Next, AgentStep

\* Where users refuse nothing, no refusal meets a run that does not wait ...
LEMMA RefusedInTimeAlways ==
  ASSUME "REJECT" \notin Resolutions
  PROVE  Spec => [][RefusedInTime]_vars
<1>1. Init => NothingRefused
  BY DEF Init, NothingRefused
<1>2. Inv /\ NothingRefused /\ [Next]_vars => NothingRefused'
  BY NothingRefusedStep
<1>3. Inv /\ NothingRefused => RefusedInTime
  <2> SUFFICES ASSUME Inv, NothingRefused, FinalizeRejected PROVE FALSE
    BY DEF RefusedInTime
  <2>1. PICK f, rest : /\ Stacked(f, rest) /\ f = Top /\ rest = Tail(agent.stack)
                       /\ f.pc = "finalize"
    BY AtTop DEF FinalizeRejected
  <2> QED
    BY <2>1, FrameFacts DEF Stacked, FrameOK, NothingRefused
<1>4. Inv /\ NothingRefused => [RefusedInTime]_vars
  BY <1>3
<1> QED
  BY <1>1, <1>2, <1>4, InvAlways, PTL DEF Spec

\* ... so that the session has one main run, its end is final and no answer is
\* sent twice without a death, however often commands are repeated and whenever
\* the process dies or a run is given up (docs/architecture.md:2378).
THEOREM OneMainRunConfirming ==
  ASSUME "REJECT" \notin Resolutions
  PROVE  Spec => []OneMainRun /\ []AnswerReachesOnce /\ TerminalIsFinal
<1>1. ActiveRunHoldsSession => OneMainRun
  BY DEF ActiveRunHoldsSession, OneMainRun
<1> QED
  BY <1>1, RefusedInTimeAlways, ActiveRunHoldsSessionUnless, AnswerReachesOnceUnless,
     TerminalIsFinalUnless, PTL

=============================================================================
