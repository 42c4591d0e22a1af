------------------------ MODULE PendingActionsProofs ------------------------
(***************************************************************************)
(* The theorems about PendingActions: type correctness, the facts the      *)
(* service keeps, and that it implements ConfirmedWrites, for every set of *)
(* actions, applications and statuses and every bound.                     *)
(***************************************************************************)
EXTENDS PendingActions, TLAPS

-----------------------------------------------------------------------------
LEMMA InitType == Init => TypeOK
  BY ConstantsAssumption
  DEF ConstantsAssumption, Init, TypeOK, RowsOK, FactsOK, OutboxOK, CountersOK,
      Idle, AgentType, AgentPcs, Phases, States, EventTypes

\* The agent record stays in its type under each of its updates.
LEMMA AgentUpdates ==
  ASSUME agent \in AgentType, NEW a \in Actions, NEW T \in SUBSET Actions,
         NEW phase \in Phases, NEW pc \in AgentPcs
  PROVE  /\ Idle(phase) \in AgentType
         /\ Working(phase, T) \in AgentType
         /\ Returned(a) \in AgentType
         /\ Raised(a) \in AgentType
         /\ [agent EXCEPT !.pc = pc] \in AgentType
         /\ [agent EXCEPT !.pc = pc, !.held = {a}] \in AgentType
         /\ agent.phase \in Phases
         /\ agent.results \in SUBSET Actions
  BY DEF Idle, Working, Returned, Raised, AgentType, AgentPcs, Phases

LEMMA AgentNext == TypeOK /\ Next => agent' \in AgentType
<1> SUFFICES ASSUME TypeOK, Next PROVE agent' \in AgentType
  OBVIOUS
<1>1. agent \in AgentType
  BY DEF TypeOK
<1>2. \A a \in Actions, pc \in AgentPcs, phase \in Phases, T \in SUBSET Actions :
        /\ Idle(phase) \in AgentType
        /\ Working(phase, T) \in AgentType
        /\ Returned(a) \in AgentType
        /\ Raised(a) \in AgentType
        /\ [agent EXCEPT !.pc = pc] \in AgentType
        /\ [agent EXCEPT !.pc = pc, !.held = {a}] \in AgentType
        /\ agent.phase \in Phases
        /\ agent.results \in SUBSET Actions
  BY <1>1, AgentUpdates
<1>3. /\ {"recover", "confirm", "resume", "startup"} \subseteq Phases
      /\ {"marked", "claimed", "failing"} \subseteq AgentPcs
      /\ Recoverable \in SUBSET Actions
  BY DEF Phases, AgentPcs, Recoverable
<1>4. CASE UserStep
  BY <1>1, <1>2, <1>3, <1>4 DEF UserStep, Resolve, Expire, ConfirmAgain
<1>5. CASE RecoverMark \/ RecoverSelect \/ FinishList
  <2>1. agent.phase \in Phases /\ agent.results \in SUBSET Actions
    BY <1>1 DEF AgentType
  <2>2. [agent EXCEPT !.pc = "marked"] \in AgentType
    BY <1>1 DEF AgentType, AgentPcs
  <2>3. \A phase \in Phases, T \in SUBSET Actions :
          Idle(phase) \in AgentType /\ Working(phase, T) \in AgentType
    BY DEF Idle, Working, AgentType, AgentPcs
  <2> QED
    BY <1>3, <1>5, <2>1, <2>2, <2>3 DEF RecoverMark, RecoverSelect, FinishList
<1>6. CASE ExecutionStep
  <2>1. PICK a \in Actions :
          \/ Claim(a) \/ ClaimRefused(a) \/ ClaimFault(a)
          \/ Execute(a) \/ ExecuteRefused(a) \/ ExecuteFails(a)
          \/ RecordFailure(a) \/ RecordFault(a)
    BY <1>6 DEF ExecutionStep
  <2>2. /\ Returned(a) \in AgentType
        /\ Raised(a) \in AgentType
        /\ [agent EXCEPT !.pc = "failing"] \in AgentType
        /\ [agent EXCEPT !.pc = "claimed", !.held = {a}] \in AgentType
    BY <1>1, AgentUpdates, Zenon DEF AgentPcs, Phases
  <2>3. \/ agent' = Returned(a)
        \/ agent' = Raised(a)
        \/ agent' = [agent EXCEPT !.pc = "failing"]
        \/ agent' = [agent EXCEPT !.pc = "claimed", !.held = {a}]
    BY <2>1, Zenon
    DEF Claim, ClaimRefused, ClaimFault, Execute, ExecuteRefused,
        ExecuteFails, RecordFailure, RecordFault
  <2> QED
    BY <2>2, <2>3, Zenon
<1>7. CASE Crash
  BY <1>7 DEF Crash, Idle, AgentType, AgentPcs, Phases
<1>8. CASE \/ \E a \in Actions : Propose(a) \/ OperatorRead(a) \/ OperatorWrite(a)
           \/ Tick
  BY <1>1, <1>8 DEF Propose, OperatorRead, OperatorWrite, Tick
<1> QED
  BY <1>4, <1>5, <1>6, <1>7, <1>8 DEF Next, AgentStep

LEMMA RowsNext == TypeOK /\ Next => RowsOK'
<1> SUFFICES ASSUME RowsOK, Next PROVE RowsOK'
  BY DEF TypeOK
<1> USE ConstantsAssumption DEF ConstantsAssumption, RowsOK
<1>1. ASSUME NEW a \in Actions, Propose(a) PROVE RowsOK'
  BY <1>1 DEF Propose, States
<1>2. CASE UserStep
  BY <1>2 DEF UserStep, Resolve, Expire, ConfirmAgain, rowVars, States
<1>3. CASE RecoverMark
  BY <1>3 DEF RecoverMark, Stale, States
<1>4. ASSUME NEW a \in Actions, Claim(a) PROVE RowsOK'
  BY <1>4 DEF Claim, States
<1>5. ASSUME NEW a \in Actions, Execute(a) PROVE RowsOK'
  BY <1>5 DEF Execute, States
<1>6. ASSUME NEW a \in Actions, RecordFailure(a) PROVE RowsOK'
  BY <1>6 DEF RecordFailure, States
<1>7. ASSUME NEW a \in Actions, OperatorWrite(a) PROVE RowsOK'
  BY <1>7 DEF OperatorWrite, States
<1>8. CASE Tick
  BY <1>8 DEF Tick, Less
<1>9. CASE UNCHANGED rowVars
  BY <1>9 DEF rowVars
<1> QED
  BY <1>1, <1>2, <1>3, <1>4, <1>5, <1>6, <1>7, <1>8, <1>9
  DEF Next, AgentStep, ExecutionStep, RecoverSelect, FinishList, ClaimRefused,
      ClaimFault, ExecuteRefused, ExecuteFails, RecordFault, OperatorRead, Crash

LEMMA JobType ==
  ASSUME FactsOK, NEW a \in Actions
  PROVE  Job(a, application[TargetApp[a]]) \in JobEventType
  BY ConstantsAssumption DEF ConstantsAssumption, FactsOK, Job, JobEventType

\* Only an execution that changes the status touches the facts.
LEMMA FactSteps ==
  ASSUME Next
  PROVE  \/ UNCHANGED factVars
         \/ \E a \in Actions : Execute(a) /\ Changes(a)
  BY DEF Next, UserStep, AgentStep, ExecutionStep, Propose, Resolve, Expire,
         ConfirmAgain, RecoverMark, RecoverSelect, FinishList, Claim, ClaimRefused,
         ClaimFault, Execute, ExecuteRefused, ExecuteFails, RecordFailure,
         RecordFault, OperatorRead, OperatorWrite, Tick, Crash

LEMMA FactsNext == TypeOK /\ Next => FactsOK'
<1> SUFFICES ASSUME FactsOK, Next PROVE FactsOK'
  BY DEF TypeOK
<1>1. CASE UNCHANGED factVars
  BY <1>1 DEF FactsOK, factVars
<1>2. ASSUME NEW a \in Actions, Execute(a), Changes(a) PROVE FactsOK'
  <2>1. Job(a, application[TargetApp[a]]) \in JobEventType
    BY JobType
  <2>2. jobEvents' \in Seq(JobEventType)
    <3>1. jobEvents' = Append(jobEvents, Job(a, application[TargetApp[a]]))
      BY <1>2 DEF Execute
    <3> QED
      BY <2>1, <3>1 DEF FactsOK
  <2>3. Len(jobEvents) + 1 \in Nat
    BY DEF FactsOK
  <2>4. /\ latestEvent' = [latestEvent EXCEPT ![TargetApp[a]] = Len(jobEvents) + 1]
        /\ application' = [application EXCEPT ![TargetApp[a]] = TargetStatus[a]]
    BY <1>2 DEF Execute
  <2>5. TargetStatus[a] \in Statuses
    BY ConstantsAssumption DEF ConstantsAssumption
  <2>6. latestEvent' \in [Apps -> Nat] /\ application' \in [Apps -> Statuses \cup {NoStatus}]
    BY <2>3, <2>4, <2>5 DEF FactsOK
  <2> QED
    BY <2>2, <2>6 DEF FactsOK
<1> QED
  BY <1>1, <1>2, FactSteps

LEMMA EmitType ==
  ASSUME OutboxOK, NEW a \in Actions, NEW type \in EventTypes, Emit(a, type)
  PROVE  OutboxOK'
  BY DEF OutboxOK, Emit

\* The only steps that emit: a proposal, a resolution and an execution.
LEMMA OutboxSteps ==
  ASSUME Next
  PROVE  \/ UNCHANGED outbox
         \/ \E a \in Actions : \/ Propose(a)
                               \/ \E r \in Resolutions, c \in BOOLEAN : Resolve(a, r, c)
                               \/ Execute(a) /\ Changes(a)
  BY DEF Next, UserStep, AgentStep, ExecutionStep, Expire,
         ConfirmAgain, RecoverMark, RecoverSelect, FinishList, Claim, ClaimRefused,
         ClaimFault, Execute, ExecuteRefused, ExecuteFails, RecordFailure,
         RecordFault, OperatorRead, OperatorWrite, Tick, Crash

LEMMA OutboxNext == TypeOK /\ Next => OutboxOK'
<1> SUFFICES ASSUME OutboxOK, Next PROVE OutboxOK'
  BY DEF TypeOK
<1>1. CASE UNCHANGED outbox
  BY <1>1 DEF OutboxOK
<1>2. ASSUME NEW a \in Actions, \E type \in EventTypes : Emit(a, type)
      PROVE  OutboxOK'
  BY <1>2, EmitType
<1> QED
  <2>1. {"CREATED", "CHANGED"} \cup Resolutions \subseteq EventTypes
    BY DEF EventTypes, Resolutions
  <2> QED
    BY <1>1, <1>2, <2>1, OutboxSteps DEF Propose, Resolve, Execute

LEMMA CountersNext == TypeOK /\ Next => CountersOK'
<1> SUFFICES ASSUME CountersOK, Next PROVE CountersOK'
  BY DEF TypeOK
<1> USE ConstantsAssumption DEF ConstantsAssumption, CountersOK
<1>1. ASSUME NEW a \in Actions, OperatorRead(a) PROVE CountersOK'
  BY <1>1 DEF OperatorRead
<1>2. ASSUME NEW a \in Actions, OperatorWrite(a) PROVE CountersOK'
  BY <1>2 DEF OperatorWrite
<1>3. ASSUME NEW a \in Actions, ClaimFault(a) \/ RecordFault(a) PROVE CountersOK'
  BY <1>3 DEF ClaimFault, RecordFault
<1>4. CASE Crash
  BY <1>4 DEF Crash
<1>5. CASE UNCHANGED <<operatorRead, requeues, faults, crashes>>
  BY <1>5
<1> QED
  BY <1>1, <1>2, <1>3, <1>4, <1>5
  DEF Next, UserStep, AgentStep, ExecutionStep, Propose, Resolve, Expire,
      ConfirmAgain, RecoverMark, RecoverSelect, FinishList, Claim, ClaimRefused,
      Execute, ExecuteRefused, ExecuteFails, RecordFailure, Tick

LEMMA NextType == TypeOK /\ [Next]_vars => TypeOK'
<1>1. TypeOK /\ Next => TypeOK'
  BY AgentNext, RowsNext, FactsNext, OutboxNext, CountersNext, Zenon DEF TypeOK
<1>2. TypeOK /\ UNCHANGED vars => TypeOK'
  BY DEF vars, rowVars, factVars, TypeOK, RowsOK, FactsOK, OutboxOK, CountersOK
<1> QED
  BY <1>1, <1>2

\* Every row keeps its type, timers and counters within their bounds.
THEOREM TypeCorrect == Spec => []TypeOK
  BY InitType, NextType, PTL DEF Spec

-----------------------------------------------------------------------------
(* The inductive invariant of the facts.  OperatorHoldsConfirmed is the    *)
(* strengthening the operator's stale write needs: whatever happened since *)
(* the row was read as FAILED, its action is still a confirmed one.        *)

OperatorHoldsConfirmed == \A a \in operatorRead : state[a] \in ConfirmedStates

FactsInv ==
    /\ TypeOK
    /\ OperatorHoldsConfirmed
    /\ OutboxMatchesFacts
    /\ EffectsAreConfirmed
    /\ OneEffectPerAction
    /\ HistoryReplays

\* What the facts depend on of an action's state.
SameKind(a) ==
    /\ state'[a] = "NONE" <=> state[a] = "NONE"
    /\ state'[a] = "REJECTED" <=> state[a] = "REJECTED"
    /\ state'[a] \in ConfirmedStates <=> state[a] \in ConfirmedStates

LEMMA Steps ==
  ASSUME TypeOK, OperatorHoldsConfirmed, Next
  PROVE  \/ \E a \in Actions : Propose(a)
         \/ \E a \in Actions, r \in Resolutions, c \in BOOLEAN : Resolve(a, r, c)
         \/ \E a \in Actions : Execute(a) /\ Changes(a)
         \/ UNCHANGED <<outbox, factVars>> /\ \A a \in Actions : SameKind(a)
<1> USE DEF TypeOK, RowsOK, ConfirmedStates, SameKind
<1>1. CASE UserStep
  BY <1>1 DEF UserStep, Expire, ConfirmAgain, rowVars
<1>2. CASE RecoverMark
  BY <1>2 DEF RecoverMark, Stale
<1>3. ASSUME NEW a \in Actions,
             Claim(a) \/ RecordFailure(a) \/ (Execute(a) /\ ~Changes(a))
      PROVE  UNCHANGED <<outbox, factVars>> /\ \A b \in Actions : SameKind(b)
  BY <1>3 DEF Claim, RecordFailure, Execute
<1>4. ASSUME NEW a \in Actions, OperatorWrite(a)
      PROVE  UNCHANGED <<outbox, factVars>> /\ \A b \in Actions : SameKind(b)
  BY <1>4 DEF OperatorWrite, OperatorHoldsConfirmed
<1>5. \/ UserStep \/ RecoverMark
      \/ \E a \in Actions :
           \/ Propose(a) \/ Claim(a) \/ RecordFailure(a) \/ Execute(a)
           \/ OperatorWrite(a)
      \/ UNCHANGED <<outbox, factVars, state>>
  BY DEF Next, AgentStep, ExecutionStep, RecoverSelect, FinishList, ClaimRefused,
         ClaimFault, ExecuteRefused, ExecuteFails, RecordFault, OperatorRead,
         Tick, Crash, rowVars
<1> QED
  BY <1>1, <1>2, <1>3, <1>4, <1>5

\* A confirmed action stays confirmed.
LEMMA ConfirmedForEver ==
  ASSUME TypeOK, OperatorHoldsConfirmed, Next, NEW a \in Actions,
         state[a] \in ConfirmedStates
  PROVE  state'[a] \in ConfirmedStates
<1>1. ASSUME NEW b \in Actions, Propose(b) PROVE state'[a] \in ConfirmedStates
  BY <1>1 DEF Propose, TypeOK, RowsOK, ConfirmedStates
<1>2. ASSUME NEW b \in Actions, NEW r \in Resolutions, NEW c \in BOOLEAN, Resolve(b, r, c)
      PROVE  state'[a] \in ConfirmedStates
  BY <1>2 DEF Resolve, TypeOK, RowsOK, ConfirmedStates
<1>3. ASSUME NEW b \in Actions, Execute(b) PROVE state'[a] \in ConfirmedStates
  BY <1>3 DEF Execute, TypeOK, RowsOK, ConfirmedStates
<1> QED
  BY <1>1, <1>2, <1>3, Steps DEF SameKind

LEMMA OperatorNext ==
  ASSUME TypeOK, OperatorHoldsConfirmed, Next
  PROVE  OperatorHoldsConfirmed'
<1>1. operatorRead' \subseteq operatorRead \cup {a \in Actions : state[a] \in ConfirmedStates}
  BY DEF Next, UserStep, AgentStep, ExecutionStep, Propose, Resolve, Expire,
         ConfirmAgain, RecoverMark, RecoverSelect, FinishList, Claim, ClaimRefused,
         ClaimFault, Execute, ExecuteRefused, ExecuteFails, RecordFailure,
         RecordFault, OperatorRead, OperatorWrite, Tick, Crash, ConfirmedStates
<1>2. \A a \in operatorRead' : a \in Actions /\ state[a] \in ConfirmedStates
  BY <1>1 DEF OperatorHoldsConfirmed, TypeOK, CountersOK
<1> QED
  BY <1>2, ConfirmedForEver DEF OperatorHoldsConfirmed

LEMMA RowsTyped ==
  ASSUME TypeOK, NEW i \in DOMAIN jobEvents
  PROVE  jobEvents[i].action \in Actions /\ jobEvents[i].app \in Apps
<1>1. jobEvents[i] \in JobEventType
  BY DEF TypeOK, FactsOK
<1> QED
  BY <1>1 DEF JobEventType

\* The table after an execution that changes the status: one more row.
LEMMA NewRow ==
  ASSUME TypeOK, NEW a \in Actions, Execute(a), Changes(a)
  PROVE  LET n == Len(jobEvents) + 1 IN
         /\ n \in Nat \ {0}
         /\ DOMAIN jobEvents = 1 .. (n - 1)
         /\ DOMAIN jobEvents' = 1 .. n
         /\ \A i \in 1 .. (n - 1) : jobEvents'[i] = jobEvents[i]
         /\ jobEvents'[n] = Job(a, application[TargetApp[a]])
<1>1. jobEvents \in Seq(JobEventType) /\ Job(a, application[TargetApp[a]]) \in JobEventType
  BY JobType DEF TypeOK, FactsOK
<1>2. jobEvents' = Append(jobEvents, Job(a, application[TargetApp[a]]))
  BY DEF Execute
<1> QED
  BY <1>1, <1>2

LEMMA OneEffectNext ==
  ASSUME TypeOK, OperatorHoldsConfirmed, OneEffectPerAction, Next
  PROVE  OneEffectPerAction'
<1>1. ASSUME NEW a \in Actions, Execute(a), Changes(a) PROVE OneEffectPerAction'
  <2>1. ~AlreadyRecorded(a)
    BY <1>1 DEF Execute
  <2>2. \A i \in DOMAIN jobEvents : jobEvents[i].action # a
    BY <2>1 DEF AlreadyRecorded
  <2>3. Job(a, application[TargetApp[a]]).action = a
    BY DEF Job
  <2> QED
    BY <1>1, <2>2, <2>3, NewRow DEF OneEffectPerAction
<1>2. CASE UNCHANGED factVars
  BY <1>2 DEF factVars, OneEffectPerAction
<1> QED
  BY <1>1, <1>2, FactSteps

LEMMA EffectsNext ==
  ASSUME TypeOK, OperatorHoldsConfirmed, EffectsAreConfirmed, Next
  PROVE  EffectsAreConfirmed'
<1>0. \A i \in DOMAIN jobEvents :
        /\ state[jobEvents[i].action] \in ConfirmedStates
        /\ jobEvents[i].action \in Actions
        /\ jobEvents[i].app = TargetApp[jobEvents[i].action]
        /\ jobEvents[i].current = TargetStatus[jobEvents[i].action]
  BY RowsTyped DEF EffectsAreConfirmed
<1>1. \A i \in DOMAIN jobEvents : state'[jobEvents[i].action] \in ConfirmedStates
  BY <1>0, ConfirmedForEver
<1>2. ASSUME NEW a \in Actions, Execute(a), Changes(a) PROVE EffectsAreConfirmed'
  <2>1. state'[a] \in ConfirmedStates
    BY <1>2 DEF Execute, TypeOK, RowsOK, ConfirmedStates
  <2>2. /\ Job(a, application[TargetApp[a]]).action = a
        /\ Job(a, application[TargetApp[a]]).app = TargetApp[a]
        /\ Job(a, application[TargetApp[a]]).current = TargetStatus[a]
    BY DEF Job
  <2> QED
    BY <1>0, <1>1, <1>2, <2>1, <2>2, NewRow DEF EffectsAreConfirmed
<1>3. CASE UNCHANGED factVars
  BY <1>0, <1>1, <1>3 DEF factVars, EffectsAreConfirmed
<1> QED
  BY <1>2, <1>3, FactSteps

LEMMA HistoryNext ==
  ASSUME TypeOK, OperatorHoldsConfirmed, HistoryReplays, Next
  PROVE  HistoryReplays'
<1>1. ASSUME NEW a \in Actions, Execute(a), Changes(a) PROVE HistoryReplays'
  <2> DEFINE p == TargetApp[a]
  <2>0. PICK n, old : n = Len(jobEvents) + 1 /\ old = application[p]
    OBVIOUS
  <2>1. /\ n \in Nat \ {0}
        /\ DOMAIN jobEvents = 1 .. (n - 1)
        /\ DOMAIN jobEvents' = 1 .. n
        /\ \A i \in 1 .. (n - 1) : jobEvents'[i] = jobEvents[i]
        /\ jobEvents'[n] = Job(a, old)
    BY <1>1, <2>0, NewRow
  <2>2. /\ jobEvents'[n].app = p
        /\ jobEvents'[n].previous = old
        /\ jobEvents'[n].current = TargetStatus[a]
    BY <2>1 DEF Job
  <2>3. /\ p \in Apps
        /\ old # TargetStatus[a]
        /\ application' = [application EXCEPT ![p] = TargetStatus[a]]
        /\ latestEvent' = [latestEvent EXCEPT ![p] = n]
        /\ application \in [Apps -> Statuses \cup {NoStatus}]
        /\ latestEvent \in [Apps -> Nat]
    BY <1>1, <2>0, ConstantsAssumption
    DEF ConstantsAssumption, Execute, Changes, TypeOK, FactsOK
  <2>4. RowsOf(p)' = RowsOf(p) \cup {n}
    BY <2>1, <2>2 DEF RowsOf
  <2>5. ASSUME NEW q \in Apps, q # p PROVE RowsOf(q)' = RowsOf(q)
    BY <2>1, <2>2, <2>5 DEF RowsOf
  <2>6. \A q \in Apps : RowsOf(q) \subseteq 1 .. (n - 1)
    BY <2>1 DEF RowsOf
  <2> HIDE DEF p
  <2>7. \A q \in Apps : PointsAtLast(q)'
    <3>1. PointsAtLast(p)'
      <4>1. latestEvent'[p] = n /\ application'[p] = TargetStatus[a]
        BY <2>3
      <4>2. n \in RowsOf(p)' /\ \A i \in RowsOf(p)' : i <= n
        BY <2>1, <2>3, <2>4, <2>6
      <4> QED
        BY <2>1, <2>2, <4>1, <4>2 DEF PointsAtLast
    <3>2. ASSUME NEW q \in Apps, q # p PROVE PointsAtLast(q)'
      <4>1. /\ latestEvent'[q] = latestEvent[q]
            /\ application'[q] = application[q]
            /\ RowsOf(q)' = RowsOf(q)
        BY <2>3, <2>5, <3>2
      <4>2. PointsAtLast(q)
        BY DEF HistoryReplays
      <4>3. \A i \in RowsOf(q) : jobEvents'[i] = jobEvents[i]
        BY <2>1, <2>6
      <4> QED
        BY <4>1, <4>2, <4>3 DEF PointsAtLast
    <3> QED
      BY <3>1, <3>2
  <2>8. ASSUME NEW i \in 1 .. (n - 1) PROVE Chains(i)'
    <3>1. /\ Chains(i) /\ jobEvents'[i] = jobEvents[i]
          /\ jobEvents[i].app \in Apps
      BY <2>1, RowsTyped DEF HistoryReplays
    <3>2. RowsOf(jobEvents[i].app) \subseteq RowsOf(jobEvents[i].app)'
      BY <2>4, <2>5, <3>1
    <3>3. FirstOf(i)' => FirstOf(i)
      BY <3>1, <3>2 DEF FirstOf
    <3>4. ASSUME NEW j \in 1 .. (n - 1), Follows(i, j)' PROVE Follows(i, j)
      BY <2>1, <3>1, <3>2, <3>4 DEF Follows
    <3>5. ASSUME Follows(i, n)' PROVE jobEvents[i].current = old
      <4>1. jobEvents[i].app = p /\ i \in RowsOf(p)
        BY <2>1, <2>2, <3>1, <3>5 DEF Follows, RowsOf
      <4>2. \A k \in RowsOf(p) : k <= i
        BY <2>1, <2>4, <2>6, <2>3, <3>1, <3>5, <4>1 DEF Follows
      <4>3. PointsAtLast(p)
        BY <2>3 DEF HistoryReplays
      <4>4. latestEvent[p] \in RowsOf(p) /\ i <= latestEvent[p]
        BY <4>1, <4>3 DEF PointsAtLast
      <4>5. latestEvent[p] = i
        BY <2>1, <4>2, <4>4, <2>6, <2>3
      <4> QED
        BY <2>0, <4>1, <4>3, <4>4, <4>5 DEF PointsAtLast
    <3>6. ASSUME NEW j \in 1 .. n, Follows(i, j)'
          PROVE  jobEvents'[j].previous = jobEvents'[i].current
      <4>1. CASE j = n
        BY <2>2, <3>1, <3>5, <3>6, <4>1
      <4>2. CASE j # n
        BY <2>1, <3>1, <3>4, <3>6, <4>2 DEF Chains
      <4> QED
        BY <4>1, <4>2
    <3> QED
      BY <2>1, <3>1, <3>3, <3>6 DEF Chains
  <2>9. Chains(n)'
    <3>1. FirstOf(n)' => old = NoStatus
      <4>1. FirstOf(n)' => RowsOf(p) = {}
        BY <2>1, <2>2, <2>3, <2>4, <2>6 DEF FirstOf
      <4>2. PointsAtLast(p)
        BY <2>3 DEF HistoryReplays
      <4> QED
        BY <2>0, <4>1, <4>2 DEF PointsAtLast
    <3>2. \A j \in 1 .. n : ~Follows(n, j)'
      BY <2>1 DEF Follows
    <3> QED
      BY <2>1, <2>2, <2>3, <3>1, <3>2 DEF Chains
  <2> QED
    BY <2>1, <2>7, <2>8, <2>9 DEF HistoryReplays
<1>2. CASE UNCHANGED factVars
  BY <1>2 DEF factVars, HistoryReplays, PointsAtLast, Chains, RowsOf, FirstOf, Follows
<1> QED
  BY <1>1, <1>2, FactSteps

\* What Emit does to each counter.
LEMMA Emitted ==
  ASSUME OutboxOK, NEW a \in Actions, NEW type \in EventTypes, Emit(a, type),
         NEW b \in Actions, NEW t \in EventTypes
  PROVE  outbox'[b][t] = IF b = a /\ t = type THEN outbox[b][t] + 1 ELSE outbox[b][t]
  BY DEF OutboxOK, Emit

LEMMA OutboxMatchesNext ==
  ASSUME TypeOK, OperatorHoldsConfirmed, OutboxMatchesFacts, Next
  PROVE  OutboxMatchesFacts'
<1> USE DEF TypeOK
<1>0. {"CREATED", "CONFIRM", "REJECT", "CHANGED"} \subseteq EventTypes
  BY DEF EventTypes
<1>1. ASSUME NEW a \in Actions, Propose(a) PROVE OutboxMatchesFacts'
  <2>1. /\ Emit(a, "CREATED") /\ state[a] = "NONE" /\ jobEvents' = jobEvents
        /\ state' = [state EXCEPT ![a] = "PENDING"]
    BY <1>1 DEF Propose, factVars
  <2>2. \A b \in Actions, t \in EventTypes :
          outbox'[b][t] = IF b = a /\ t = "CREATED" THEN outbox[b][t] + 1
                                                    ELSE outbox[b][t]
    BY <1>0, <2>1, Emitted
  <2> QED
    BY <1>0, <2>1, <2>2 DEF OutboxMatchesFacts, AlreadyRecorded, ConfirmedStates, RowsOK
<1>2. ASSUME NEW a \in Actions, NEW r \in Resolutions, NEW c \in BOOLEAN, Resolve(a, r, c)
      PROVE  OutboxMatchesFacts'
  <2>1. /\ Emit(a, r) /\ state[a] = "PENDING" /\ jobEvents' = jobEvents
        /\ state' = [state EXCEPT ![a] =
                       IF r = "CONFIRM" THEN "CONFIRMED" ELSE "REJECTED"]
        /\ r \in {"CONFIRM", "REJECT"}
    BY <1>2 DEF Resolve, factVars, Resolutions
  <2>2. \A b \in Actions, t \in EventTypes :
          outbox'[b][t] = IF b = a /\ t = r THEN outbox[b][t] + 1 ELSE outbox[b][t]
    BY <1>0, <2>1, Emitted
  <2> QED
    BY <1>0, <2>1, <2>2 DEF OutboxMatchesFacts, AlreadyRecorded, ConfirmedStates, RowsOK
<1>3. ASSUME NEW a \in Actions, Execute(a), Changes(a) PROVE OutboxMatchesFacts'
  <2>1. /\ Emit(a, "CHANGED") /\ state[a] = "EXECUTING" /\ ~AlreadyRecorded(a)
        /\ state' = [state EXCEPT ![a] = "COMPLETED"]
    BY <1>3 DEF Execute
  <2>2. \A b \in Actions, t \in EventTypes :
          outbox'[b][t] = IF b = a /\ t = "CHANGED" THEN outbox[b][t] + 1
                                                    ELSE outbox[b][t]
    BY <1>0, <2>1, Emitted
  <2>3. \A b \in Actions : AlreadyRecorded(b)' <=> AlreadyRecorded(b) \/ b = a
    <3>1. Job(a, application[TargetApp[a]]).action = a
      BY DEF Job
    <3> QED
      BY <1>3, <3>1, NewRow DEF AlreadyRecorded
  <2> QED
    BY <1>0, <2>1, <2>2, <2>3 DEF OutboxMatchesFacts, ConfirmedStates, RowsOK
<1>4. ASSUME UNCHANGED <<outbox, factVars>>, \A a \in Actions : SameKind(a)
      PROVE  OutboxMatchesFacts'
  BY <1>4 DEF factVars, SameKind, OutboxMatchesFacts, AlreadyRecorded
<1> QED
  BY <1>1, <1>2, <1>3, <1>4, Steps

LEMMA InitFacts == Init => FactsInv
<1> SUFFICES ASSUME Init PROVE FactsInv
  OBVIOUS
<1>1. jobEvents = <<>> /\ DOMAIN jobEvents = {}
  BY DEF Init
<1>2. OneEffectPerAction /\ EffectsAreConfirmed /\ HistoryReplays
  BY <1>1 DEF Init, OneEffectPerAction, EffectsAreConfirmed, HistoryReplays,
              PointsAtLast, RowsOf
<1>3. OutboxMatchesFacts
  BY <1>1 DEF Init, OutboxMatchesFacts, AlreadyRecorded, ConfirmedStates, EventTypes
<1>4. OperatorHoldsConfirmed
  BY DEF Init, OperatorHoldsConfirmed
<1> QED
  BY <1>2, <1>3, <1>4, InitType DEF FactsInv

LEMMA NextFacts == FactsInv /\ [Next]_vars => FactsInv'
<1>1. FactsInv /\ Next => FactsInv'
  BY NextType, OperatorNext, OutboxMatchesNext, EffectsNext, OneEffectNext, HistoryNext
  DEF FactsInv
<1>2. FactsInv /\ UNCHANGED vars => FactsInv'
  <2> SUFFICES ASSUME FactsInv, UNCHANGED vars PROVE FactsInv'
    OBVIOUS
  <2>1. TypeOK'
    BY NextType DEF FactsInv
  <2> QED
    BY <2>1 DEF FactsInv, vars, rowVars, factVars, OperatorHoldsConfirmed,
                OutboxMatchesFacts, AlreadyRecorded, EffectsAreConfirmed,
                OneEffectPerAction, HistoryReplays, PointsAtLast, Chains, RowsOf,
                FirstOf, Follows
<1> QED
  BY <1>1, <1>2

THEOREM FactsInvariant == Spec => []FactsInv
  BY InitFacts, NextFacts, PTL DEF Spec

\* The history of every application replays to its current status.
THEOREM HistoryReplaysAlways == Spec => []HistoryReplays
<1>1. FactsInv => HistoryReplays
  BY DEF FactsInv
<1> QED
  BY <1>1, FactsInvariant, PTL

\* An action has at most one effect, also when it is executed again.
THEOREM OneEffectAlways == Spec => []OneEffectPerAction
<1>1. FactsInv => OneEffectPerAction
  BY DEF FactsInv
<1> QED
  BY <1>1, FactsInvariant, PTL

\* The outbox announces exactly the decisions and the effects in the tables.
THEOREM OutboxMatchesAlways == Spec => []OutboxMatchesFacts
<1>1. FactsInv => OutboxMatchesFacts
  BY DEF FactsInv
<1> QED
  BY <1>1, FactsInvariant, PTL

-----------------------------------------------------------------------------
(* Refinement of ConfirmedWrites.                                          *)

LEMMA PromiseInit == Init => Promise!Init
  BY DEF Init, Promise!Init, Decision, ConfirmedStates

LEMMA PromiseNext == FactsInv /\ [Next]_vars => [Promise!Next]_Promise!vars
<1> SUFFICES ASSUME FactsInv, [Next]_vars PROVE [Promise!Next]_Promise!vars
  OBVIOUS
<1> DEFINE decision == [a \in Actions |-> Decision(a)]
<1>0. TypeOK /\ OperatorHoldsConfirmed
  BY DEF FactsInv
<1>1. ASSUME NEW a \in Actions, Propose(a) PROVE UNCHANGED Promise!vars
  <2>1. state' = [state EXCEPT ![a] = "PENDING"] /\ state[a] = "NONE"
    BY <1>1 DEF Propose
  <2>2. \A b \in Actions : Decision(b)' = Decision(b)
    BY <1>0, <2>1 DEF Decision, ConfirmedStates, TypeOK, RowsOK
  <2> QED
    BY <1>1, <2>2 DEF Promise!vars, Propose, factVars
<1>2. ASSUME NEW a \in Actions, NEW r \in Resolutions, NEW c \in BOOLEAN, Resolve(a, r, c)
      PROVE  Promise!Decide(a, "confirmed") \/ Promise!Decide(a, "refused")
  <2> DEFINE verdict == IF r = "CONFIRM" THEN "confirmed" ELSE "refused"
  <2>1. /\ state' = [state EXCEPT ![a] =
                       IF r = "CONFIRM" THEN "CONFIRMED" ELSE "REJECTED"]
        /\ state[a] = "PENDING"
        /\ UNCHANGED factVars
    BY <1>2 DEF Resolve
  <2>2. \A b \in Actions : Decision(b)' = IF b = a THEN verdict ELSE Decision(b)
    BY <1>0, <2>1 DEF Decision, ConfirmedStates, TypeOK, RowsOK
  <2>3. Decision(a) = "open"
    BY <2>1 DEF Decision, ConfirmedStates
  <2> QED
    BY <2>1, <2>2, <2>3 DEF Promise!Decide, factVars
<1>3. ASSUME NEW a \in Actions, Expire(a) PROVE Promise!Decide(a, "refused")
  <2>1. /\ state' = [state EXCEPT ![a] = "EXPIRED"]
        /\ state[a] = "PENDING"
        /\ UNCHANGED factVars
    BY <1>3 DEF Expire
  <2>2. \A b \in Actions : Decision(b)' = IF b = a THEN "refused" ELSE Decision(b)
    BY <1>0, <2>1 DEF Decision, ConfirmedStates, TypeOK, RowsOK
  <2>3. Decision(a) = "open"
    BY <2>1 DEF Decision, ConfirmedStates
  <2> QED
    BY <2>1, <2>2, <2>3 DEF Promise!Decide, factVars
<1>4. ASSUME NEW a \in Actions, Execute(a), Changes(a) PROVE Promise!Write(a)
  <2>1. /\ state' = [state EXCEPT ![a] = "COMPLETED"]
        /\ state[a] = "EXECUTING"
        /\ ~AlreadyRecorded(a)
        /\ application' = [application EXCEPT ![TargetApp[a]] = TargetStatus[a]]
        /\ jobEvents' = Append(jobEvents, Job(a, application[TargetApp[a]]))
    BY <1>4 DEF Execute
  <2>2. \A b \in Actions : Decision(b)' = Decision(b)
    BY <1>0, <2>1 DEF Decision, ConfirmedStates, TypeOK, RowsOK
  <2>3. Decision(a) = "confirmed"
    BY <2>1 DEF Decision, ConfirmedStates
  <2>4. application[TargetApp[a]] # TargetStatus[a]
    BY <1>4 DEF Changes
  <2> QED
    BY <2>1, <2>2, <2>3, <2>4
    DEF Promise!Write, Promise!Written, AlreadyRecorded, Job
<1>5. ASSUME \A a \in Actions : Decision(a)' = Decision(a), UNCHANGED factVars
      PROVE  UNCHANGED Promise!vars
  BY <1>5 DEF Promise!vars, factVars
<1>6. ASSUME NEW a \in Actions,
             \/ Claim(a) \/ RecordFailure(a) \/ OperatorWrite(a)
             \/ Execute(a) /\ ~Changes(a)
      PROVE  UNCHANGED Promise!vars
  <2>1. \A b \in Actions : Decision(b)' = Decision(b)
    BY <1>0, <1>6
    DEF Claim, RecordFailure, OperatorWrite, Execute, Decision, ConfirmedStates,
        OperatorHoldsConfirmed, TypeOK, RowsOK
  <2>2. UNCHANGED factVars
    BY <1>6 DEF Claim, RecordFailure, OperatorWrite, Execute
  <2> QED
    BY <1>5, <2>1, <2>2
<1>7. CASE RecoverMark
  <2>1. \A b \in Actions : Decision(b)' = Decision(b)
    BY <1>0, <1>7 DEF RecoverMark, Stale, Decision, ConfirmedStates
  <2> QED
    BY <1>5, <1>7, <2>1 DEF RecoverMark
<1>8. CASE UNCHANGED <<state, factVars>>
  BY <1>5, <1>8 DEF Decision
<1>9. \/ RecoverMark
      \/ \E a \in Actions :
           \/ Propose(a) \/ Expire(a) \/ Claim(a) \/ RecordFailure(a) \/ Execute(a)
           \/ OperatorWrite(a)
           \/ \E r \in Resolutions, c \in BOOLEAN : Resolve(a, r, c)
      \/ UNCHANGED <<state, factVars>>
  BY DEF Next, UserStep, AgentStep, ExecutionStep, ConfirmAgain, RecoverSelect,
         FinishList, ClaimRefused, ClaimFault, ExecuteRefused, ExecuteFails,
         RecordFault, OperatorRead, Tick, Crash, rowVars, vars
<1> QED
  BY <1>1, <1>2, <1>3, <1>4, <1>6, <1>7, <1>8, <1>9 DEF Promise!Next

\* The confirmation protocol, with its claims, retries, stale recovery,
\* crashes and operator requeues, keeps what ConfirmedWrites promises.
THEOREM Refinement == Spec => ImplementsConfirmedWrites
  BY PromiseInit, PromiseNext, FactsInvariant, PTL
  DEF Spec, ImplementsConfirmedWrites, Promise!Spec
=============================================================================
