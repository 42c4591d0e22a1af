------------------------- MODULE NotificationsProofs -------------------------
(***************************************************************************)
(* The theorems about Notifications: type correctness with the bound of    *)
(* the attempts, the truth of the table of attempts, and the account of    *)
(* repeated messages, for every set of rows, every provider and every      *)
(* bound.                                                                  *)
(***************************************************************************)
EXTENDS Notifications, FiniteSetTheorems, TLAPS

-----------------------------------------------------------------------------
(* The inductive invariant.                                                *)

Dispatchers ==
    [pc : {"idle", "recover", "claim", "push", "finish"}, stale : SUBSET Notes,
     batch : SUBSET Notes, current : Notes \cup {NoNote}, outcome : Outcomes \cup {"NONE"}]

\* Rows that were read as stale, or as FAILED, have been attempted, and stay so.
ActorsInv ==
    /\ dispatcher \in Dispatchers
    /\ dispatcher.pc \notin {"push", "finish"} => dispatcher.batch = {}
    /\ dispatcher.pc = "finish" =>
         /\ dispatcher.current \in dispatcher.batch
         /\ dispatcher.outcome \in Outcomes
         /\ answer[dispatcher.current] = dispatcher.outcome
    /\ scan \subseteq Notes /\ operator \subseteq Notes
    /\ \A n \in scan \cup operator \cup dispatcher.stale \cup dispatcher.batch : attempt[n] > 0

\* A row that waits for another attempt has one left, or an account for it.
AttemptsInv ==
    /\ attempt \in [Notes -> Nat]
    /\ recovered \in [Notes -> Nat] /\ requeued \in [Notes -> Nat]
    /\ \A n \in Notes :
         /\ attempt[n] <= MaxAttempts + recovered[n] + requeued[n]
         /\ state[n] = "RETRY_WAIT" => attempt[n] < MaxAttempts + recovered[n] + requeued[n]
         /\ attempt[n] = 0 <=> state[n] \in {"NONE", "PENDING"}

\* The last attempt of a claimed row is STARTED until its outcome is recorded.
HistoryInv ==
    /\ state \in [Notes -> States]
    /\ answer \in [Notes -> Outcomes \cup {"NONE"}]
    /\ results \in [Notes -> Seq(Outcomes \cup {"STARTED"})]
    /\ \A n \in Notes :
         /\ Len(results[n]) = attempt[n]
         /\ attempt[n] > 0 => results[n][attempt[n]] \in {"STARTED", answer[n]}
         /\ n \in dispatcher.batch => results[n][attempt[n]] = "STARTED"
         /\ state[n] = "SENT" => results[n][attempt[n]] = "SENT"

RestInv ==
    /\ wait \in [Notes -> BOOLEAN] /\ aged \in [Notes -> BOOLEAN]
    /\ faults \in 0 .. MaxFaults

BasicInv == ActorsInv /\ AttemptsInv /\ HistoryInv /\ RestInv

LEMMA InitBasic == Init => BasicInv
  BY NotificationsAssumption
  DEF NotificationsAssumption, Init, BasicInv, ActorsInv, Dispatchers, Idle, NoNote,
      AttemptsInv, HistoryInv, RestInv, States, Outcomes

LEMMA RecoverBasic ==
  ASSUME BasicInv, NEW rows \in SUBSET Notes, Recover(rows), requeued' = requeued,
         \A n \in rows : attempt[n] > 0
  PROVE  /\ AttemptsInv'
         /\ state' \in [Notes -> States]
         /\ wait' \in [Notes -> BOOLEAN]
         /\ \A n \in Notes : state'[n] = "SENT" => state[n] = "SENT"
<1>1. MaxAttempts \in Nat
  BY NotificationsAssumption DEF NotificationsAssumption
<1>2. /\ attempt \in [Notes -> Nat] /\ recovered \in [Notes -> Nat]
      /\ requeued \in [Notes -> Nat] /\ state \in [Notes -> States]
      /\ wait \in [Notes -> BOOLEAN]
  BY DEF BasicInv, AttemptsInv, HistoryInv, RestInv
<1>3. /\ state' = [n \in Notes |-> IF n \in rows THEN "RETRY_WAIT" ELSE state[n]]
      /\ wait' = [n \in Notes |-> wait[n] /\ n \notin rows]
      /\ recovered' = [n \in Notes |-> recovered[n] + IF n \in rows THEN 1 ELSE 0]
      /\ attempt' = attempt /\ requeued' = requeued
  BY DEF Recover
<1>4. state' \in [Notes -> States] /\ \A n \in Notes : state'[n] = "SENT" => state[n] = "SENT"
  BY <1>2, <1>3 DEF States
<1>5. wait' \in [Notes -> BOOLEAN]
  BY <1>3
<1>6. recovered' \in [Notes -> Nat]
  BY <1>2, <1>3
<1>7. ASSUME NEW n \in Notes
      PROVE  /\ attempt[n] <= MaxAttempts + recovered'[n] + requeued[n]
             /\ state'[n] = "RETRY_WAIT" => attempt[n] < MaxAttempts + recovered'[n] + requeued[n]
             /\ attempt[n] = 0 <=> state'[n] \in {"NONE", "PENDING"}
  <2>1. /\ attempt[n] \in Nat /\ recovered[n] \in Nat /\ requeued[n] \in Nat
        /\ attempt[n] <= MaxAttempts + recovered[n] + requeued[n]
        /\ state[n] = "RETRY_WAIT" => attempt[n] < MaxAttempts + recovered[n] + requeued[n]
        /\ attempt[n] = 0 <=> state[n] \in {"NONE", "PENDING"}
    BY DEF BasicInv, AttemptsInv
  <2>2. CASE n \in rows
    BY <1>1, <1>3, <2>1, <2>2
  <2>3. CASE n \notin rows
    BY <1>1, <1>3, <2>1, <2>3
  <2> QED
    BY <2>2, <2>3
<1> QED
  BY <1>2, <1>3, <1>4, <1>5, <1>6, <1>7 DEF AttemptsInv

LEMMA RecoveryBasic == BasicInv /\ RecoveryStep => BasicInv'
<1> SUFFICES ASSUME BasicInv, RecoveryStep PROVE BasicInv'
  OBVIOUS
<1>1. CASE RecoveryScans
  <2>1. UNCHANGED <<rowVars, dispatcher, operator, observed, faults>> /\ scan' = Stale
    BY <1>1 DEF RecoveryScans
  <2>2. Stale \subseteq Notes /\ \A n \in Stale : attempt[n] > 0
    BY DEF Stale, BasicInv, AttemptsInv
  <2>3. ActorsInv'
    BY <2>1, <2>2 DEF BasicInv, ActorsInv, rowVars, observed
  <2> QED
    BY <2>1, <2>3 DEF BasicInv, AttemptsInv, HistoryInv, RestInv, rowVars, observed
<1>2. CASE RecoveryWrites
  <2>1. /\ AttemptsInv'
        /\ state' \in [Notes -> States]
        /\ wait' \in [Notes -> BOOLEAN]
        /\ \A n \in Notes : state'[n] = "SENT" => state[n] = "SENT"
    BY <1>2, RecoverBasic DEF RecoveryWrites, BasicInv, ActorsInv
  <2>2. UNCHANGED <<attempt, results, aged, dispatcher, operator, answer, faults>> /\ scan' = {}
    BY <1>2 DEF RecoveryWrites, Recover
  <2> QED
    BY <2>1, <2>2 DEF BasicInv, ActorsInv, HistoryInv, RestInv
<1> QED
  BY <1>1, <1>2 DEF RecoveryStep

LEMMA DispatcherBasic == BasicInv /\ DispatcherStep => BasicInv'
<1> SUFFICES ASSUME BasicInv, DispatcherStep PROVE BasicInv'
  OBVIOUS
<1>0. MaxAttempts \in Nat \ {0} /\ \A n \in Notes : Answers[n] \subseteq Outcomes
  BY NotificationsAssumption DEF NotificationsAssumption
<1>1. CASE DispatchScans
  <2>1. /\ UNCHANGED <<rowVars, scan, operator, observed, faults>>
        /\ dispatcher' = [dispatcher EXCEPT !.pc = "recover", !.stale = Stale]
        /\ dispatcher.pc = "idle"
    BY <1>1 DEF DispatchScans
  <2>2. Stale \subseteq Notes /\ \A n \in Stale : attempt[n] > 0
    BY DEF Stale, BasicInv, AttemptsInv
  <2>3. /\ dispatcher' \in Dispatchers /\ dispatcher'.pc = "recover"
        /\ dispatcher'.stale = Stale /\ dispatcher'.batch = dispatcher.batch
        /\ dispatcher.batch = {}
    BY <2>1, <2>2 DEF BasicInv, ActorsInv, Dispatchers
  <2>4. ActorsInv'
    BY <2>1, <2>2, <2>3 DEF BasicInv, ActorsInv, rowVars, observed
  <2> QED
    BY <2>1, <2>3, <2>4 DEF BasicInv, AttemptsInv, HistoryInv, RestInv, rowVars, observed
<1>2. CASE DispatchRecovers
  <2>1. /\ AttemptsInv'
        /\ state' \in [Notes -> States]
        /\ wait' \in [Notes -> BOOLEAN]
        /\ \A n \in Notes : state'[n] = "SENT" => state[n] = "SENT"
    BY <1>2, RecoverBasic DEF DispatchRecovers, BasicInv, ActorsInv, Dispatchers
  <2>2. UNCHANGED <<attempt, results, aged, scan, operator, answer, faults>>
    BY <1>2 DEF DispatchRecovers, Recover
  <2>3. /\ dispatcher' \in Dispatchers /\ dispatcher'.pc = "claim"
        /\ dispatcher'.batch = {} /\ dispatcher'.stale = {}
    BY <1>2 DEF DispatchRecovers, Idle, Dispatchers, NoNote
  <2> QED
    BY <2>1, <2>2, <2>3 DEF BasicInv, ActorsInv, HistoryInv, RestInv
<1>3. CASE Claim
  <2>1. /\ dispatcher' \in Dispatchers /\ dispatcher'.stale = {}
        /\ dispatcher'.batch = Eligible /\ dispatcher'.pc # "finish"
        /\ dispatcher'.pc # "push" => dispatcher'.batch = {}
    BY <1>3 DEF Claim, Idle, Dispatchers, NoNote, Eligible
  <2>2. Eligible \subseteq Notes
    BY DEF Eligible
  <2>3. AttemptsInv' /\ \A n \in Notes : attempt'[n] >= attempt[n]
    BY <1>0, <1>3 DEF Claim, Eligible, BasicInv, AttemptsInv, HistoryInv, States
  <2>4. \A n \in Eligible : attempt'[n] > 0
    BY <1>3, <2>2 DEF Claim, BasicInv, AttemptsInv
  <2>5. ActorsInv'
    BY <1>3, <2>1, <2>2, <2>3, <2>4 DEF Claim, BasicInv, ActorsInv, AttemptsInv
  <2>6. HistoryInv'
    <3>1. ASSUME NEW n \in Notes
          PROVE  /\ results'[n] \in Seq(Outcomes \cup {"STARTED"})
                 /\ Len(results'[n]) = attempt'[n]
                 /\ attempt'[n] > 0 => results'[n][attempt'[n]] \in {"STARTED", answer'[n]}
                 /\ n \in Eligible => results'[n][attempt'[n]] = "STARTED"
                 /\ state'[n] = "SENT" => results'[n][attempt'[n]] = "SENT"
      <4>1. results[n] \in Seq(Outcomes \cup {"STARTED"}) /\ Len(results[n]) = attempt[n]
        BY DEF BasicInv, HistoryInv
      <4>2. CASE n \in Eligible
        <5>1. /\ results'[n] = Append(results[n], "STARTED")
              /\ attempt'[n] = attempt[n] + 1 /\ state'[n] = "SENDING"
          BY <1>3, <4>2 DEF Claim
        <5> QED
          BY <4>1, <5>1
      <4>3. CASE n \notin Eligible
        <5>1. /\ results'[n] = results[n] /\ attempt'[n] = attempt[n]
              /\ state'[n] = state[n] /\ answer'[n] = answer[n]
          BY <1>3, <4>3 DEF Claim, BasicInv, AttemptsInv
        <5> QED
          BY <4>1, <4>3, <5>1 DEF BasicInv, HistoryInv
      <4> QED
        BY <4>2, <4>3
    <3>2. /\ state' \in [Notes -> States] /\ answer' \in [Notes -> Outcomes \cup {"NONE"}]
          /\ results' \in [Notes -> Seq(Outcomes \cup {"STARTED"})]
      <4>1. results' = [n \in Notes |-> results'[n]]
        BY <1>3 DEF Claim
      <4> QED
        BY <1>3, <3>1, <4>1 DEF Claim, BasicInv, HistoryInv, States
    <3> QED
      BY <2>1, <3>1, <3>2 DEF HistoryInv
  <2>7. RestInv'
    BY <1>3 DEF Claim, BasicInv, RestInv
  <2> QED
    BY <2>3, <2>5, <2>6, <2>7 DEF BasicInv
<1>4. ASSUME NEW n \in Notes, NEW outcome \in Outcomes, Push(n, outcome) PROVE BasicInv'
  <2>1. /\ dispatcher' = [dispatcher EXCEPT !.pc = "finish", !.current = n, !.outcome = outcome]
        /\ answer' = [answer EXCEPT ![n] = outcome]
        /\ UNCHANGED <<rowVars, scan, operator, recovered, requeued, faults>>
        /\ n \in dispatcher.batch
    BY <1>4 DEF Push
  <2>2. /\ dispatcher' \in Dispatchers /\ dispatcher'.pc = "finish"
        /\ dispatcher'.current = n /\ dispatcher'.outcome = outcome
        /\ dispatcher'.batch = dispatcher.batch /\ dispatcher'.stale = dispatcher.stale
    BY <2>1 DEF BasicInv, ActorsInv, Dispatchers
  <2>3. ActorsInv'
    BY <2>1, <2>2 DEF BasicInv, ActorsInv, HistoryInv, rowVars
  <2>4. HistoryInv'
    BY <2>1, <2>2 DEF BasicInv, HistoryInv, rowVars
  <2> QED
    BY <2>1, <2>3, <2>4 DEF BasicInv, AttemptsInv, RestInv, rowVars
<1>5. CASE Finish
  <2> DEFINE c == dispatcher.current
             o == dispatcher.outcome
  <2>1. /\ c \in Notes /\ o \in Outcomes /\ c \in dispatcher.batch /\ answer[c] = o
        /\ attempt[c] \in Nat /\ attempt[c] > 0 /\ Len(results[c]) = attempt[c]
        /\ results[c] \in Seq(Outcomes \cup {"STARTED"})
    BY <1>5 DEF Finish, BasicInv, ActorsInv, Dispatchers, AttemptsInv, HistoryInv
  <2>2. /\ results' = [results EXCEPT ![c] = [results[c] EXCEPT ![attempt[c]] = o]]
        /\ UNCHANGED <<attempt, aged, scan, operator, answer, recovered, requeued, faults>>
        /\ wait' = [wait EXCEPT ![c] = Retries(c, o)]
    BY <1>5 DEF Finish, FinishAttempt, observed
  <2>3. /\ state' = [state EXCEPT ![c] = state'[c]]
        /\ state'[c] \in {"SENT", "RETRY_WAIT", "FAILED"}
        /\ state'[c] = "SENT" => o = "SENT"
        /\ state'[c] = "RETRY_WAIT" => attempt[c] < MaxAttempts
    BY <1>0, <1>5, <2>1 DEF Finish, FinishAttempt, Retries, BasicInv, HistoryInv
  <2>4. /\ dispatcher' \in Dispatchers /\ dispatcher'.stale = {}
        /\ dispatcher'.batch = dispatcher.batch \ {c}
        /\ dispatcher'.pc \in {"idle", "push"}
        /\ dispatcher'.pc = "idle" => dispatcher'.batch = {}
    BY <1>5 DEF Finish, Idle, Dispatchers, NoNote, BasicInv, ActorsInv
  <2>5. [results[c] EXCEPT ![attempt[c]] = o] \in Seq(Outcomes \cup {"STARTED"})
        /\ Len([results[c] EXCEPT ![attempt[c]] = o]) = attempt[c]
        /\ [results[c] EXCEPT ![attempt[c]] = o][attempt[c]] = o
    BY <2>1
  <2>6. ActorsInv'
    <3>1. /\ attempt' = attempt /\ scan' = scan /\ operator' = operator
          /\ dispatcher'.batch \subseteq dispatcher.batch /\ dispatcher'.stale = {}
      BY <2>2, <2>4
    <3>2. \A n \in (scan \cup operator \cup dispatcher.stale \cup dispatcher.batch)' :
            attempt'[n] > 0
      BY <3>1 DEF BasicInv, ActorsInv
    <3> QED
      BY <2>4, <3>1, <3>2 DEF BasicInv, ActorsInv
  <2>7. AttemptsInv'
    <3>1. ASSUME NEW n \in Notes
          PROVE  /\ state'[n] = "RETRY_WAIT" =>
                      attempt[n] < MaxAttempts + recovered[n] + requeued[n]
                 /\ attempt[n] = 0 <=> state'[n] \in {"NONE", "PENDING"}
      <4>1. /\ attempt[n] \in Nat /\ recovered[n] \in Nat /\ requeued[n] \in Nat
            /\ state[n] = "RETRY_WAIT" => attempt[n] < MaxAttempts + recovered[n] + requeued[n]
            /\ attempt[n] = 0 <=> state[n] \in {"NONE", "PENDING"}
        BY DEF BasicInv, AttemptsInv
      <4>2. n # c => state'[n] = state[n]
        BY <2>3 DEF BasicInv, HistoryInv
      <4> QED
        BY <1>0, <2>1, <2>3, <4>1, <4>2
    <3> QED
      BY <2>2, <3>1 DEF BasicInv, AttemptsInv
  <2>8. HistoryInv'
    BY <2>1, <2>2, <2>3, <2>4, <2>5 DEF BasicInv, HistoryInv, States
  <2>9. RestInv'
    BY <2>2 DEF BasicInv, RestInv, Retries
  <2> QED
    BY <2>6, <2>7, <2>8, <2>9 DEF BasicInv
<1> QED
  BY <1>1, <1>2, <1>3, <1>4, <1>5 DEF DispatcherStep

\* The dispatcher's cycle ends, and with it whatever it held.
LEMMA IdleBasic ==
  ASSUME BasicInv, dispatcher' = Idle, scan' = {} \/ scan' = scan, Fault,
         UNCHANGED <<rowVars, operator, answer, recovered, requeued>>
  PROVE  BasicInv'
<1>1. MaxFaults \in Nat
  BY NotificationsAssumption DEF NotificationsAssumption
<1>2. /\ Idle \in Dispatchers /\ Idle.pc = "idle" /\ Idle.batch = {} /\ Idle.stale = {}
  BY DEF Idle, Dispatchers, NoNote
<1>3. faults' \in 0 .. MaxFaults
  BY <1>1 DEF Fault, BasicInv, RestInv
<1>4. ActorsInv'
  BY <1>2 DEF BasicInv, ActorsInv, rowVars
<1>5. HistoryInv'
  BY <1>2 DEF BasicInv, HistoryInv, rowVars
<1> QED
  BY <1>3, <1>4, <1>5 DEF BasicInv, AttemptsInv, RestInv, rowVars

LEMMA OtherBasic ==
  ASSUME BasicInv, NEW n \in Notes,
         \/ PushEscapes(n) \/ Create(n) \/ OperatorReads(n) \/ OperatorWrites(n)
         \/ RetryTimeComes(n) \/ AbandonedAges(n) \/ HeldAges(n)
  PROVE  BasicInv'
<1>0. MaxFaults \in Nat /\ MaxAttempts \in Nat
  BY NotificationsAssumption DEF NotificationsAssumption
<1>1. CASE PushEscapes(n)
  BY <1>1, IdleBasic DEF PushEscapes, observed
<1>2. CASE Create(n)
  BY <1>0, <1>2 DEF Create, BasicInv, ActorsInv, AttemptsInv, HistoryInv, RestInv, States, observed
<1>3. CASE OperatorReads(n)
  <2>1. /\ UNCHANGED <<rowVars, dispatcher, scan, observed, faults>>
        /\ operator' = operator \cup {n} /\ n \in Notes /\ attempt[n] > 0
    BY <1>3 DEF OperatorReads, BasicInv, AttemptsInv
  <2>2. ActorsInv'
    BY <2>1 DEF BasicInv, ActorsInv, rowVars, observed
  <2> QED
    BY <2>1, <2>2 DEF BasicInv, AttemptsInv, HistoryInv, RestInv, rowVars, observed
<1>4. CASE OperatorWrites(n)
  <2>1. /\ n \in Notes /\ n \in operator /\ operator' = operator \ {n}
        /\ state' = [state EXCEPT ![n] = "RETRY_WAIT"]
        /\ wait' = [wait EXCEPT ![n] = FALSE]
        /\ requeued' = [requeued EXCEPT ![n] = requeued[n] + 1]
        /\ UNCHANGED <<attempt, aged, results, dispatcher, scan, answer, recovered, faults>>
    BY <1>4 DEF OperatorWrites
  <2>2. attempt[n] > 0
    BY <2>1 DEF BasicInv, ActorsInv
  <2>3. AttemptsInv'
    BY <1>0, <2>1, <2>2 DEF BasicInv, AttemptsInv, HistoryInv
  <2>4. ActorsInv'
    <3>1. \A m \in (scan \cup operator \cup dispatcher.stale \cup dispatcher.batch)' :
            attempt'[m] > 0
      BY <2>1 DEF BasicInv, ActorsInv
    <3> QED
      BY <2>1, <3>1 DEF BasicInv, ActorsInv
  <2>5. HistoryInv'
    BY <2>1 DEF BasicInv, HistoryInv, States
  <2> QED
    BY <2>1, <2>3, <2>4, <2>5 DEF BasicInv, RestInv
<1>5. CASE RetryTimeComes(n) \/ AbandonedAges(n) \/ HeldAges(n)
  <2>1. /\ UNCHANGED <<state, attempt, results, dispatcher, scan, operator, observed>>
        /\ wait' \in [Notes -> BOOLEAN] /\ aged' \in [Notes -> BOOLEAN]
        /\ faults' \in 0 .. MaxFaults
    <3>1. /\ wait \in [Notes -> BOOLEAN] /\ aged \in [Notes -> BOOLEAN]
          /\ faults \in 0 .. MaxFaults
      BY DEF BasicInv, RestInv
    <3>2. CASE RetryTimeComes(n)
      BY <3>1, <3>2 DEF RetryTimeComes
    <3>3. CASE AbandonedAges(n)
      BY <3>1, <3>3 DEF AbandonedAges, Ages
    <3>4. CASE HeldAges(n)
      BY <1>0, <3>1, <3>4 DEF HeldAges, Ages, Fault
    <3> QED
      BY <1>5, <3>2, <3>3, <3>4, Zenon
  <2>2. ActorsInv'
    BY <2>1 DEF BasicInv, ActorsInv, observed
  <2> QED
    BY <2>1, <2>2 DEF BasicInv, AttemptsInv, HistoryInv, RestInv, observed
<1> QED
  BY <1>1, <1>2, <1>3, <1>4, <1>5, Zenon

LEMMA BasicNext == BasicInv /\ [Next]_vars => BasicInv'
<1>1. BasicInv /\ UNCHANGED vars => BasicInv'
  BY DEF BasicInv, ActorsInv, AttemptsInv, HistoryInv, RestInv, vars, rowVars, observed
<1>2. BasicInv /\ Crash => BasicInv'
  BY IdleBasic DEF Crash, observed
<1> QED
  BY <1>1, <1>2, DispatcherBasic, RecoveryBasic, OtherBasic DEF Next

-----------------------------------------------------------------------------
(* The account of the messages that reached the user: each has a cause of  *)
(* its own, and so has each push that is still to come.                    *)

RaisedIn(n) == {k \in 1 .. attempt[n] : results[n][k] = "RAISED"}
Causes(n) == 1 + recovered[n] + requeued[n] + Cardinality(RaisedIn(n))

\* A row that will be claimed, and a claimed one whose push is to come or has
\* not reached the user.
Waiting(n) == state[n] \in {"NONE", "PENDING", "RETRY_WAIT"}
Reached(n) ==
    /\ dispatcher.pc = "finish" /\ dispatcher.current = n
    /\ dispatcher.outcome \in Reaching
Due(n) == n \in dispatcher.batch /\ ~Reached(n)
DueCount(n) == IF Due(n) THEN 1 ELSE 0
WaitingCount(n) == IF Waiting(n) THEN 1 ELSE 0

Accounted(n) == reached[n] + DueCount(n) + WaitingCount(n) <= Causes(n)

AccountInv == reached \in [Notes -> Nat] /\ \A n \in Notes : Accounted(n)

Inv == BasicInv /\ AccountInv

LEMMA RaisedFinite ==
  ASSUME NEW n \in Notes, attempt[n] \in Nat
  PROVE  IsFiniteSet(RaisedIn(n)) /\ Cardinality(RaisedIn(n)) \in Nat
<1>1. IsFiniteSet(1 .. attempt[n])
  BY FS_Interval
<1>2. IsFiniteSet(RaisedIn(n))
  BY <1>1, FS_Subset DEF RaisedIn
<1> QED
  BY <1>2, FS_CardinalityType

LEMMA CountersAreNat ==
  ASSUME Inv, NEW n \in Notes
  PROVE  /\ reached[n] \in Nat /\ recovered[n] \in Nat /\ requeued[n] \in Nat
         /\ attempt[n] \in Nat /\ Cardinality(RaisedIn(n)) \in Nat
  BY RaisedFinite DEF Inv, BasicInv, AttemptsInv, AccountInv

\* A step that neither pushes nor attempts keeps the account if a row that
\* begins to wait has a cause for it.
LEMMA QuietStep ==
  ASSUME Inv, BasicInv', NEW n \in Notes,
         reached'[n] = reached[n], results'[n] = results[n], attempt'[n] = attempt[n],
         Due(n)' => Due(n),
         \/ /\ recovered'[n] + requeued'[n] = recovered[n] + requeued[n]
            /\ Waiting(n)' => Waiting(n)
         \/ recovered'[n] + requeued'[n] = recovered[n] + requeued[n] + 1
  PROVE  Accounted(n)'
<1>1. /\ reached[n] \in Nat /\ recovered[n] \in Nat /\ requeued[n] \in Nat
      /\ Cardinality(RaisedIn(n)) \in Nat
  BY CountersAreNat
<1>2. recovered'[n] \in Nat /\ requeued'[n] \in Nat
  BY DEF BasicInv, AttemptsInv
<1>3. RaisedIn(n)' = RaisedIn(n)
  BY DEF RaisedIn
<1>4. DueCount(n)' <= DueCount(n) /\ DueCount(n)' \in {0, 1} /\ DueCount(n) \in {0, 1}
  BY DEF DueCount, WaitingCount
<1>5. /\ WaitingCount(n)' \in {0, 1} /\ WaitingCount(n) \in {0, 1}
      /\ (Waiting(n)' => Waiting(n)) => WaitingCount(n)' <= WaitingCount(n)
  BY DEF DueCount, WaitingCount
<1>6. reached[n] + DueCount(n) + WaitingCount(n)
        <= 1 + recovered[n] + requeued[n] + Cardinality(RaisedIn(n))
  BY DEF Inv, AccountInv, Accounted, Causes
<1>7. reached[n] + DueCount(n)' + WaitingCount(n)'
        <= 1 + recovered'[n] + requeued'[n] + Cardinality(RaisedIn(n))
  BY <1>1, <1>2, <1>4, <1>5, <1>6
<1> QED
  BY <1>3, <1>7 DEF Accounted, Causes

LEMMA QuietSteps ==
  ASSUME Inv, BasicInv', UNCHANGED <<reached, results, attempt>>,
         \A n \in Notes :
           /\ Due(n)' => Due(n)
           /\ \/ /\ recovered'[n] + requeued'[n] = recovered[n] + requeued[n]
                 /\ Waiting(n)' => Waiting(n)
              \/ recovered'[n] + requeued'[n] = recovered[n] + requeued[n] + 1
  PROVE  AccountInv'
<1>1. ASSUME NEW n \in Notes PROVE Accounted(n)'
  BY QuietStep
<1> QED
  BY <1>1 DEF Inv, AccountInv

\* The recovery of stale sends.
LEMMA RecoverAccount ==
  ASSUME Inv, BasicInv', NEW rows \in SUBSET Notes, Recover(rows),
         UNCHANGED <<reached, requeued>>,
         dispatcher' = dispatcher \/ dispatcher'.batch = {}
  PROVE  AccountInv'
<1>1. ASSUME NEW n \in Notes
      PROVE  \/ /\ recovered'[n] + requeued'[n] = recovered[n] + requeued[n]
                /\ Waiting(n)' => Waiting(n)
             \/ recovered'[n] + requeued'[n] = recovered[n] + requeued[n] + 1
  <2>1. recovered[n] \in Nat /\ requeued[n] \in Nat
    BY CountersAreNat
  <2>2. CASE n \in rows
    BY <2>1, <2>2 DEF Recover
  <2>3. CASE n \notin rows
    <3>1. recovered'[n] = recovered[n] /\ state'[n] = state[n]
      BY <2>1, <2>3 DEF Recover
    <3> QED
      BY <3>1 DEF Waiting
  <2> QED
    BY <2>2, <2>3
<1>2. UNCHANGED <<results, attempt>>
  BY DEF Recover
<1>3. \A n \in Notes : Due(n)' => Due(n)
  BY DEF Due, Reached
<1> QED
  BY <1>1, <1>2, <1>3, QuietSteps

\* Whatever leaves the rows and the account alone.
LEMMA IdleAccount ==
  ASSUME Inv, BasicInv', UNCHANGED <<state, attempt, results, reached, recovered, requeued>>,
         \A n \in Notes : Due(n)' => Due(n)
  PROVE  AccountInv'
  BY QuietSteps DEF Waiting

LEMMA ClaimAccount == ASSUME Inv, BasicInv', Claim PROVE AccountInv'
<1>1. ASSUME NEW n \in Notes PROVE Accounted(n)'
  <2>1. /\ attempt[n] \in Nat /\ results[n] \in Seq(Outcomes \cup {"STARTED"})
        /\ Len(results[n]) = attempt[n]
    BY DEF Inv, BasicInv, AttemptsInv, HistoryInv
  <2>2. CASE n \notin Eligible
    <3>1. /\ state'[n] = state[n] /\ attempt'[n] = attempt[n] /\ results'[n] = results[n]
          /\ n \notin dispatcher'.batch
          /\ UNCHANGED <<reached, recovered, requeued>>
      BY <2>1, <2>2 DEF Claim, Idle
    <3> QED
      BY <3>1, QuietStep DEF Due, Waiting
  <2>3. CASE n \in Eligible
    <3>1. /\ state'[n] = "SENDING" /\ attempt'[n] = attempt[n] + 1
          /\ results'[n] = Append(results[n], "STARTED")
          /\ UNCHANGED <<reached, recovered, requeued>>
      BY <2>1, <2>3 DEF Claim
    <3>2. RaisedIn(n)' = RaisedIn(n)
      BY <2>1, <3>1 DEF RaisedIn
    <3>3. Waiting(n) /\ ~Waiting(n)' /\ ~Due(n)
      BY <2>3, <3>1 DEF Claim, Eligible, Waiting, Due, Inv, BasicInv, ActorsInv
    <3>4. reached[n] + DueCount(n) + WaitingCount(n) <= Causes(n)
      BY DEF Inv, AccountInv, Accounted
    <3>5. DueCount(n) = 0 /\ WaitingCount(n) = 1 /\ WaitingCount(n)' = 0 /\ DueCount(n)' \in {0, 1}
      BY <3>3 DEF DueCount, WaitingCount
    <3>6. reached[n] \in Nat /\ Causes(n) \in Nat /\ Causes(n)' = Causes(n)
      BY <3>1, <3>2, CountersAreNat DEF Causes
    <3>7. reached[n] + DueCount(n)' + WaitingCount(n)' <= Causes(n)
      BY <3>4, <3>5, <3>6
    <3> QED
      BY <3>1, <3>6, <3>7 DEF Accounted
  <2> QED
    BY <2>2, <2>3
<1>2. reached' = reached
  BY DEF Claim
<1> QED
  BY <1>1, <1>2 DEF Inv, AccountInv

\* A push that reaches the user uses up the push that was due.
LEMMA PushAccount ==
  ASSUME Inv, BasicInv', NEW m \in Notes,
         UNCHANGED <<state, attempt, results, recovered, requeued>>,
         reached' = [reached EXCEPT ![m] = reached'[m]],
         Due(m),
         \/ reached'[m] = reached[m]
         \/ reached'[m] = reached[m] + 1 /\ ~Due(m)',
         \A n \in Notes \ {m} : Due(n)' => Due(n)
  PROVE  AccountInv'
<1>1. reached \in [Notes -> Nat]
  BY DEF Inv, AccountInv
<1>2. ASSUME NEW n \in Notes \ {m} PROVE Accounted(n)'
  <2>1. reached'[n] = reached[n]
    BY <1>1
  <2> QED
    BY <2>1, QuietStep DEF Waiting
<1>3. Accounted(m)'
  <2>1. reached[m] + DueCount(m) + WaitingCount(m) <= Causes(m)
    BY DEF Inv, AccountInv, Accounted
  <2>2. DueCount(m) = 1 /\ DueCount(m)' \in {0, 1} /\ WaitingCount(m) \in {0, 1}
        /\ (~Due(m)' => DueCount(m)' = 0)
    BY DEF DueCount, WaitingCount
  <2>3. reached[m] \in Nat /\ Causes(m) \in Nat
    BY CountersAreNat DEF Causes
  <2>4. Causes(m)' = Causes(m)
    BY DEF Causes, RaisedIn
  <2>5. WaitingCount(m)' = WaitingCount(m)
    BY DEF WaitingCount, Waiting
  <2>6. reached'[m] + DueCount(m)' + WaitingCount(m)' <= Causes(m)
    <3>1. CASE reached'[m] = reached[m]
      <4>1. DueCount(m)' <= DueCount(m)
        BY <2>2
      <4> QED
        BY <2>1, <2>2, <2>3, <2>5, <3>1, <4>1
    <3>2. CASE reached'[m] = reached[m] + 1 /\ ~Due(m)'
      <4>1. DueCount(m)' = 0
        BY <2>2, <3>2, Zenon
      <4> QED
        BY <2>1, <2>2, <2>3, <2>5, <3>2, <4>1
    <3> QED
      BY <3>1, <3>2, Zenon
  <2> QED
    BY <2>4, <2>6 DEF Accounted
<1>4. reached' \in [Notes -> Nat]
  BY <1>1
<1> QED
  BY <1>2, <1>3, <1>4 DEF AccountInv

\* The record of an outcome: a push that did not reach the user is due again if
\* the row is retried, and one that raised is a cause of its own.
LEMMA FinishAccount == ASSUME Inv, BasicInv', Finish PROVE AccountInv'
<1>0. PICK c, o : c = dispatcher.current /\ o = dispatcher.outcome
  OBVIOUS
<1>1. /\ c \in Notes /\ o \in Outcomes /\ c \in dispatcher.batch
      /\ attempt[c] \in Nat /\ attempt[c] > 0 /\ Len(results[c]) = attempt[c]
      /\ results[c] \in Seq(Outcomes \cup {"STARTED"})
      /\ results[c][attempt[c]] = "STARTED"
  BY <1>0 DEF Finish, Inv, BasicInv, ActorsInv, Dispatchers, AttemptsInv, HistoryInv
<1>2. /\ results' = [results EXCEPT ![c] = [results[c] EXCEPT ![attempt[c]] = o]]
      /\ UNCHANGED <<attempt, reached, recovered, requeued>>
      /\ state' = [state EXCEPT ![c] = state'[c]]
      /\ state'[c] = IF o = "SENT" THEN "SENT"
                     ELSE IF Retries(c, o) THEN "RETRY_WAIT" ELSE "FAILED"
  BY <1>0, <1>1 DEF Finish, FinishAttempt, observed, Inv, BasicInv, HistoryInv
<1>3. dispatcher'.batch = dispatcher.batch \ {c} /\ dispatcher'.pc # "finish"
  BY <1>0 DEF Finish, Idle
<1>4. ASSUME NEW n \in Notes, n # c PROVE Accounted(n)'
  <2>1. /\ results'[n] = results[n] /\ state'[n] = state[n]
        /\ attempt'[n] = attempt[n] /\ reached'[n] = reached[n]
        /\ recovered'[n] = recovered[n] /\ requeued'[n] = requeued[n]
    BY <1>2, <1>4 DEF Inv, BasicInv, HistoryInv
  <2>2. Due(n)' => Due(n)
    BY <1>0, <1>3, <1>4 DEF Due, Reached
  <2>3. Waiting(n)' => Waiting(n)
    BY <2>1 DEF Waiting
  <2> QED
    BY <2>1, <2>2, <2>3, QuietStep
<1>5. Accounted(c)'
  <2>1. reached[c] + DueCount(c) + WaitingCount(c) <= Causes(c)
    BY <1>1 DEF Inv, AccountInv, Accounted
  <2>2. Due(c) <=> o \notin Reaching
    BY <1>0, <1>1 DEF Due, Reached, Finish
  <2>3. ~Due(c)' /\ (Waiting(c)' => o \in {"RETRYABLE", "RAISED"})
    BY <1>2, <1>3 DEF Due, Waiting, Retries
  <2>4. /\ DueCount(c)' = 0 /\ WaitingCount(c)' \in {0, 1} /\ WaitingCount(c) \in {0, 1}
        /\ o \notin {"RETRYABLE", "RAISED"} => WaitingCount(c)' = 0
        /\ DueCount(c) \in {0, 1} /\ (o \notin Reaching => DueCount(c) = 1)
    BY <2>2, <2>3 DEF DueCount, WaitingCount
  <2>5. /\ reached[c] \in Nat /\ recovered[c] \in Nat /\ requeued[c] \in Nat
        /\ Cardinality(RaisedIn(c)) \in Nat /\ IsFiniteSet(RaisedIn(c))
    BY <1>1, CountersAreNat, RaisedFinite
  <2>6. ASSUME NEW k \in 1 .. attempt[c]
        PROVE  results'[c][k] = IF k = attempt[c] THEN o ELSE results[c][k]
    BY <1>1, <1>2 DEF Inv, BasicInv, HistoryInv
  <2>7. Cardinality(RaisedIn(c)') = Cardinality(RaisedIn(c)) + IF o = "RAISED" THEN 1 ELSE 0
    <3>1. CASE o = "RAISED"
      <4>1. RaisedIn(c)' = RaisedIn(c) \cup {attempt[c]}
        BY <1>1, <1>2, <2>6, <3>1 DEF RaisedIn
      <4>2. attempt[c] \notin RaisedIn(c)
        BY <1>1 DEF RaisedIn
      <4> QED
        BY <2>5, <3>1, <4>1, <4>2, FS_AddElement
    <3>2. CASE o # "RAISED"
      <4>1. RaisedIn(c)' = RaisedIn(c)
        BY <1>1, <1>2, <2>6, <3>2 DEF RaisedIn
      <4> QED
        BY <2>5, <3>2, <4>1
    <3> QED
      BY <3>1, <3>2
  <2>8. Causes(c)' = Causes(c) + IF o = "RAISED" THEN 1 ELSE 0
    BY <1>2, <2>5, <2>7 DEF Causes
  <2>9. Causes(c) \in Nat
    BY <2>5 DEF Causes
  <2>10. reached[c] + DueCount(c)' + WaitingCount(c)' <= Causes(c)'
    BY <2>1, <2>4, <2>5, <2>8, <2>9 DEF Reaching
  <2> QED
    BY <1>2, <2>10 DEF Accounted
<1> QED
  BY <1>2, <1>4, <1>5 DEF Inv, AccountInv

LEMMA InitAccount == Init => AccountInv
<1> SUFFICES ASSUME Init PROVE AccountInv
  OBVIOUS
<1>1. ASSUME NEW n \in Notes PROVE Accounted(n)
  <2>1. RaisedIn(n) = {}
    BY DEF Init, RaisedIn
  <2>2. Causes(n) = 1
    BY <2>1, FS_EmptySet DEF Causes, Init
  <2>3. ~Due(n) /\ reached[n] = 0
    BY DEF Init, Due, Idle
  <2>4. DueCount(n) = 0 /\ WaitingCount(n) \in {0, 1}
    BY <2>3 DEF DueCount, WaitingCount
  <2> QED
    BY <2>2, <2>3, <2>4 DEF Accounted
<1> QED
  BY <1>1 DEF AccountInv, Init

LEMMA NextAccount == Inv /\ BasicInv' /\ [Next]_vars => AccountInv'
<1> SUFFICES ASSUME Inv, BasicInv', [Next]_vars PROVE AccountInv'
  OBVIOUS
<1>1. CASE RecoveryScans \/ DispatchScans
  <2>1. UNCHANGED <<state, attempt, results, reached, recovered, requeued>>
    BY <1>1 DEF RecoveryScans, DispatchScans, rowVars, observed
  <2>2. \A n \in Notes : Due(n)' => Due(n)
    <3>1. CASE RecoveryScans
      BY <3>1 DEF RecoveryScans, Due, Reached
    <3>2. CASE DispatchScans
      <4>1. dispatcher'.batch = {}
        BY <3>2 DEF DispatchScans, Inv, BasicInv, ActorsInv, Dispatchers
      <4> QED
        BY <4>1 DEF Due
    <3> QED
      BY <1>1, <3>1, <3>2
  <2> QED
    BY <2>1, <2>2, IdleAccount
<1>2. CASE RecoveryWrites
  BY <1>2, RecoverAccount DEF RecoveryWrites, Inv, BasicInv, ActorsInv
<1>3. CASE DispatchRecovers
  BY <1>3, RecoverAccount DEF DispatchRecovers, Idle, Inv, BasicInv, ActorsInv, Dispatchers
<1>4. ASSUME NEW n \in Notes, NEW outcome \in Outcomes, Push(n, outcome) PROVE AccountInv'
  <2>1. /\ dispatcher' = [dispatcher EXCEPT !.pc = "finish", !.current = n, !.outcome = outcome]
        /\ UNCHANGED <<state, attempt, results, recovered, requeued>>
        /\ n \in dispatcher.batch /\ dispatcher.pc = "push"
        /\ reached' = [reached EXCEPT ![n] = IF outcome \in Reaching THEN @ + 1 ELSE @]
    BY <1>4 DEF Push, rowVars
  <2>2. /\ dispatcher'.pc = "finish" /\ dispatcher'.current = n
        /\ dispatcher'.outcome = outcome /\ dispatcher'.batch = dispatcher.batch
    BY <2>1 DEF Inv, BasicInv, ActorsInv, Dispatchers
  <2>3. Due(n) /\ (outcome \in Reaching => ~Due(n)')
    BY <2>1, <2>2 DEF Due, Reached
  <2>4. \A m \in Notes \ {n} : Due(m)' => Due(m)
    BY <2>1, <2>2 DEF Due, Reached
  <2>5. /\ reached' = [reached EXCEPT ![n] = reached'[n]]
        /\ outcome \in Reaching => reached'[n] = reached[n] + 1
        /\ outcome \notin Reaching => reached'[n] = reached[n]
    BY <2>1 DEF Inv, AccountInv
  <2> QED
    BY <2>1, <2>3, <2>4, <2>5, PushAccount
<1>5. ASSUME NEW n \in Notes, PushEscapes(n) PROVE AccountInv'
  <2>1. /\ dispatcher'.batch = {} /\ n \in dispatcher.batch /\ dispatcher.pc = "push"
        /\ UNCHANGED <<state, attempt, results, recovered, requeued>>
        /\ reached' = [reached EXCEPT ![n] = reached'[n]] /\ reached'[n] = reached[n] + 1
    BY <1>5 DEF PushEscapes, Idle, rowVars, Inv, AccountInv
  <2>2. Due(n) /\ \A m \in Notes : ~Due(m)'
    BY <2>1 DEF Due, Reached
  <2> QED
    BY <2>1, <2>2, PushAccount
<1>6. ASSUME NEW n \in Notes, Create(n) \/ OperatorWrites(n) PROVE AccountInv'
  <2>1. UNCHANGED <<reached, results, attempt, dispatcher, recovered>>
    BY <1>6 DEF Create, OperatorWrites, observed
  <2>2. ASSUME NEW m \in Notes
        PROVE  \/ /\ recovered'[m] + requeued'[m] = recovered[m] + requeued[m]
                  /\ Waiting(m)' => Waiting(m)
               \/ recovered'[m] + requeued'[m] = recovered[m] + requeued[m] + 1
    <3>1. /\ recovered[m] \in Nat /\ requeued[m] \in Nat
          /\ state \in [Notes -> States] /\ requeued \in [Notes -> Nat]
      BY CountersAreNat DEF Inv, BasicInv, HistoryInv, AttemptsInv
    <3>2. CASE Create(n)
      BY <2>1, <3>1, <3>2 DEF Create, Waiting, observed
    <3>3. CASE OperatorWrites(n)
      BY <2>1, <3>1, <3>3 DEF OperatorWrites, Waiting
    <3> QED
      BY <1>6, <3>2, <3>3
  <2>3. \A m \in Notes : Due(m)' => Due(m)
    BY <2>1 DEF Due, Reached
  <2> QED
    BY <2>1, <2>2, <2>3, QuietSteps
<1>7. ASSUME NEW n \in Notes,
             OperatorReads(n) \/ RetryTimeComes(n) \/ AbandonedAges(n) \/ HeldAges(n)
      PROVE  AccountInv'
  <2>1. UNCHANGED <<state, attempt, results, reached, recovered, requeued, dispatcher>>
    BY <1>7 DEF OperatorReads, RetryTimeComes, AbandonedAges, HeldAges, Ages, rowVars, observed
  <2>2. \A m \in Notes : Due(m)' => Due(m)
    BY <2>1 DEF Due, Reached
  <2> QED
    BY <2>1, <2>2, IdleAccount
<1>8. CASE Crash
  <2>1. /\ UNCHANGED <<state, attempt, results, reached, recovered, requeued>>
        /\ dispatcher'.batch = {}
    BY <1>8 DEF Crash, Idle, rowVars, observed
  <2>2. \A m \in Notes : Due(m)' => Due(m)
    BY <2>1 DEF Due
  <2> QED
    BY <2>1, <2>2, IdleAccount
<1>9. CASE UNCHANGED vars
  <2>1. UNCHANGED <<state, attempt, results, reached, recovered, requeued, dispatcher>>
    BY <1>9 DEF vars, rowVars, observed
  <2>2. \A m \in Notes : Due(m)' => Due(m)
    BY <2>1 DEF Due, Reached
  <2> QED
    BY <2>1, <2>2, IdleAccount
<1> QED
  BY <1>1, <1>2, <1>3, <1>4, <1>5, <1>6, <1>7, <1>8, <1>9, ClaimAccount, FinishAccount
  DEF Next, DispatcherStep, RecoveryStep

-----------------------------------------------------------------------------
(* The theorems.                                                           *)

\* The inductive invariant holds in every state the three actors reach.
THEOREM InvAlways == Spec => []Inv
<1>1. Init => Inv
  BY InitBasic, InitAccount DEF Inv
<1>2. Inv /\ [Next]_vars => Inv'
  BY BasicNext, NextAccount DEF Inv
<1> QED
  BY <1>1, <1>2, PTL DEF Spec

\* Types, and the limit: a row is attempted at most MaxAttempts times, and once
\* more for each recovery and each operator's retry (notifications.py:87-130).
THEOREM TypeCorrect == Spec => []TypeOK
<1>1. Inv => TypeOK
  BY DEF Inv, BasicInv, ActorsInv, Dispatchers, AttemptsInv, HistoryInv, RestInv,
         AccountInv, TypeOK
<1> QED
  BY <1>1, InvAlways, PTL

\* The table of attempts is the true history, whatever the recovery thread and
\* the operator write between a claim and its outcome (notifications.py:113-202).
THEOREM HistoryIsTrueAlways == Spec => []HistoryIsTrue
<1>1. Inv => HistoryIsTrue
  BY DEF Inv, BasicInv, HistoryInv, HistoryIsTrue
<1> QED
  BY <1>1, InvAlways, PTL

\* A message is repeated only for a recovery, an operator's retry, or a push
\* that raised (notifications.py:78-202).
THEOREM DuplicatesAccountedAlways == Spec => []DuplicatesAccounted
<1>1. ASSUME Inv, NEW n \in Notes
      PROVE  reached[n] <= 1 + recovered[n] + requeued[n]
                             + Cardinality({k \in 1 .. attempt[n] : results[n][k] = "RAISED"})
  <2>1. reached[n] + DueCount(n) + WaitingCount(n) <= Causes(n)
    BY <1>1 DEF Inv, AccountInv, Accounted
  <2>2. DueCount(n) \in {0, 1} /\ WaitingCount(n) \in {0, 1}
    BY DEF DueCount, WaitingCount
  <2>3. reached[n] \in Nat /\ Causes(n) \in Nat
    BY <1>1, CountersAreNat DEF Causes
  <2>4. reached[n] <= Causes(n)
    BY <2>1, <2>2, <2>3
  <2> QED
    BY <2>4 DEF Causes, RaisedIn
<1>2. Inv => DuplicatesAccounted
  BY <1>1 DEF DuplicatesAccounted
<1> QED
  BY <1>2, InvAlways, PTL
=============================================================================
