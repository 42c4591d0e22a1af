-------------------------- MODULE MCNotifications --------------------------
(* Instances of Notifications for TLC.                                     *)
EXTENDS Notifications

CONSTANTS n1, n2
TwoNotes == {n1, n2}
\* The rows do not share outcomes: the second row's push is always rejected.
MCAnswers ==
    [n \in Notes |-> IF n = n1 THEN Outcomes \ {"PERMANENT"} ELSE {"PERMANENT"}]
=============================================================================
