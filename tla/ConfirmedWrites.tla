--------------------------- MODULE ConfirmedWrites ---------------------------
(***************************************************************************)
(* What the confirmation protocol promises the user, with no trace of      *)
(* claims, retries, recovery or clocks: every proposal is decided once,    *)
(* only a confirmed proposal writes, it writes at most once and exactly    *)
(* the frozen values, and the history records every write                  *)
(* (docs/architecture.md, 48.7, rules 1 to 5).                             *)
(***************************************************************************)
EXTENDS Integers, Sequences

CONSTANTS Actions, Apps, Statuses, NoStatus, TargetApp, TargetStatus

VARIABLES
    decision,       \* "open", "confirmed" or "refused", per proposal
    application,    \* the status the user sees
    history         \* the writes, in order

vars == <<decision, application, history>>

Init ==
    /\ decision = [a \in Actions |-> "open"]
    /\ application = [p \in Apps |-> NoStatus]
    /\ history = <<>>

Decide(a, verdict) ==
    /\ decision[a] = "open"
    /\ decision' = [decision EXCEPT ![a] = verdict]
    /\ UNCHANGED <<application, history>>

Written(a) == \E i \in DOMAIN history : history[i].action = a

Write(a) ==
    /\ decision[a] = "confirmed"
    /\ ~Written(a)
    /\ application[TargetApp[a]] # TargetStatus[a]
    /\ application' = [application EXCEPT ![TargetApp[a]] = TargetStatus[a]]
    /\ history' = Append(history,
                    [action |-> a, app |-> TargetApp[a],
                     previous |-> application[TargetApp[a]],
                     current |-> TargetStatus[a]])
    /\ UNCHANGED decision

Next ==
    \E a \in Actions :
        Decide(a, "confirmed") \/ Decide(a, "refused") \/ Write(a)

Spec == Init /\ [][Next]_vars
==============================================================================
