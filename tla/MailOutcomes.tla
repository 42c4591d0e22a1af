----------------------------- MODULE MailOutcomes -----------------------------
(***************************************************************************)
(* What the mail pipeline promises the user, with no trace of cursors,     *)
(* batches, events, markers, retries or deaths: every key is stored once;  *)
(* a stored mail is judged once, and the judgement is never revised; a     *)
(* mail without job vocabulary leads to nothing, one with news to one      *)
(* message, and one that suggests a change of status to one proposal and   *)
(* then to one message that asks for its confirmation                      *)
(* (docs/architecture.md, 48.5 and 48.10; analyzing a mail again, which     *)
(* 48.5 allows, is not a thing the code does).                             *)
(***************************************************************************)
EXTENDS Integers

CONSTANTS Keys, Letters, JobMails

VARIABLES
    mails,      \* the mails stored, by key
    judgement,  \* "OPEN", "NON_JOB", "INFORM" or "UPDATE", per key
    proposals,  \* keys whose change of status is proposed
    messages    \* messages to the user, per key

vars == <<mails, judgement, proposals, messages>>

Init ==
    /\ mails = {}
    /\ judgement = [k \in Keys |-> "OPEN"]
    /\ proposals = {}
    /\ messages = [k \in Keys |-> 0]

Stored(k) == \E row \in mails : row.key = k

Store(k, l) ==
    /\ ~Stored(k)
    /\ mails' = mails \cup {[key |-> k, mail |-> l]}
    /\ UNCHANGED <<judgement, proposals, messages>>

Judge(k, verdict) ==
    /\ Stored(k)
    /\ judgement[k] = "OPEN"
    /\ verdict = "NON_JOB" <=> k \notin JobMails
    /\ judgement' = [judgement EXCEPT ![k] = verdict]
    /\ UNCHANGED <<mails, proposals, messages>>

Propose(k) ==
    /\ judgement[k] = "UPDATE"
    /\ k \notin proposals
    /\ proposals' = proposals \cup {k}
    /\ UNCHANGED <<mails, judgement, messages>>

Tell(k) ==
    /\ judgement[k] = "INFORM" \/ k \in proposals
    /\ messages[k] = 0
    /\ messages' = [messages EXCEPT ![k] = 1]
    /\ UNCHANGED <<mails, judgement, proposals>>

Next ==
    \E k \in Keys :
        \/ \E l \in Letters : Store(k, l)
        \/ \E verdict \in {"NON_JOB", "INFORM", "UPDATE"} : Judge(k, verdict)
        \/ Propose(k) \/ Tell(k)

Spec == Init /\ [][Next]_vars
===============================================================================
